---------------------------- MODULE WorkerCycle ----------------------------
(***************************************************************************)
(* What run_worker promises about the jobs a worker has in hand: it claims *)
(* at most one batch at a time, of at most ClaimLimit jobs, and only when  *)
(* it has none.  Lifecycle, which has the loop, implements it; it is what  *)
(* the guard Idle of DeliveryQueue takes for granted.                      *)
(***************************************************************************)
EXTENDS Naturals, FiniteSets

CONSTANTS Workers, Jobs, ClaimLimit

VARIABLE inHand    \* inHand[w]: the jobs w has claimed and not finished with

Init == inHand = [w \in Workers |-> {}]

Claim(w) ==
  /\ inHand[w] = {}
  /\ \E picked \in SUBSET Jobs :
       /\ Cardinality(picked) <= ClaimLimit
       /\ inHand' = [inHand EXCEPT ![w] = picked]

Finish(w, j) == inHand' = [inHand EXCEPT ![w] = @ \ {j}]

\* A worker stops or its process ends.
LetGo(gone) == inHand' = [w \in Workers |-> IF w \in gone THEN {} ELSE inHand[w]]

Next ==
  \/ \E w \in Workers : Claim(w)
  \/ \E w \in Workers, j \in Jobs : Finish(w, j)
  \/ \E gone \in SUBSET Workers : LetGo(gone)

Spec == Init /\ [][Next]_inHand
=============================================================================
