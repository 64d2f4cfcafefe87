-------------------------- MODULE MCDeliveryQueue --------------------------
(***************************************************************************)
(* Small instances of DeliveryQueue.  Worker w1 runs an old release, w2    *)
(* the next one: its configuration moves the destination of j1 and no      *)
(* longer has the destination of j2.                                       *)
(***************************************************************************)
EXTENDS LedgerRefinement

CONSTANTS w1, w2, j1, j2, old, new

MCConfigUrl ==
  [w \in Workers |-> [j \in Jobs |->
     IF w = w1 THEN old ELSE IF j = j1 THEN new ELSE Null]]

\* Every clock shows the same time.
NoSkew == [w \in Workers |-> 0]

\* The process of w1 runs one unit behind the database, that of w2 one ahead.
SplitClocks == [w \in Workers |-> IF w = w1 THEN -1 ELSE 1]
=============================================================================
