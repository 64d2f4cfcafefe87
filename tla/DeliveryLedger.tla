--------------------------- MODULE DeliveryLedger ---------------------------
(***************************************************************************)
(* What the delivery queue promises of each job, without workers, locks or *)
(* tables: once accepted, a job has outcomes appended to its log one at a  *)
(* time until a 2xx answer ends it or its deadline fails it, and then      *)
(* nothing changes any more.                                               *)
(***************************************************************************)
EXTENDS Integers, Sequences

CONSTANT Jobs

VARIABLES
  phase,          \* absent, pending, succeeded or failed
  log,            \* the outcomes of the attempts made, in order
  overdue         \* the jobs whose deadline has passed

vars == <<phase, log, overdue>>

Init ==
  /\ phase = [j \in Jobs |-> "absent"]
  /\ log = [j \in Jobs |-> <<>>]
  /\ overdue = {}

Move(j, from, to) ==
  /\ phase[j] = from
  /\ phase' = [phase EXCEPT ![j] = to]

Log(j, outcome) == log' = [log EXCEPT ![j] = Append(@, outcome)]

\* The deadline may already have passed on a clock that runs ahead.
Accept(j) ==
  /\ Move(j, "absent", "pending")
  /\ overdue' \in {overdue, overdue \cup {j}}
  /\ UNCHANGED log

Retry(j) ==
  /\ Move(j, "pending", "pending")
  /\ Log(j, "failure")
  /\ UNCHANGED overdue

Succeed(j) ==
  /\ Move(j, "pending", "succeeded")
  /\ Log(j, "2xx")
  /\ UNCHANGED overdue

Fail(j) ==
  /\ j \in overdue
  /\ Move(j, "pending", "failed")
  /\ \E outcome \in {"failure", "expired"} : Log(j, outcome)
  /\ UNCHANGED overdue

\* Time passes; a deadline that has passed stays passed.
Expire ==
  /\ overdue' \in SUBSET Jobs
  /\ overdue \subseteq overdue'
  /\ \A j \in overdue' : phase[j] # "absent"
  /\ UNCHANGED <<phase, log>>

Next == Expire \/ \E j \in Jobs : Accept(j) \/ Retry(j) \/ Succeed(j) \/ Fail(j)

Spec == Init /\ [][Next]_vars
=============================================================================
