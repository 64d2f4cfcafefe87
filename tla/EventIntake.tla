----------------------------- MODULE EventIntake -----------------------------
(***************************************************************************)
(* What the webhook endpoint promises: an event is stored at most once,    *)
(* with the deliveries one release routes it to, all of them together, and *)
(* the sender is told 202 only about an event that is stored.              *)
(***************************************************************************)
CONSTANTS
  Events,
  Offers          \* Offers[e]: the sets of deliveries that may be stored for e

VARIABLES
  stored,         \* stored[e]: the deliveries stored for e, {} until it is stored
  told            \* the events the sender was told 202 about

vars == <<stored, told>>

Init ==
  /\ stored = [e \in Events |-> {}]
  /\ told = {}

Store(e) ==
  /\ stored[e] = {}
  /\ \E deliveries \in Offers[e] \ {{}} : stored' = [stored EXCEPT ![e] = deliveries]
  /\ UNCHANGED told

Tell(e) ==
  /\ stored[e] # {}
  /\ told' = told \cup {e}
  /\ UNCHANGED stored

Next == \E e \in Events : Store(e) \/ Tell(e)

Spec == Init /\ [][Next]_vars
=============================================================================
