-------------------------- MODULE LedgerRefinement --------------------------
(***************************************************************************)
(* How the tables stand for a ledger: DeliveryQueue implements             *)
(* DeliveryLedger under this mapping.                                      *)
(***************************************************************************)
EXTENDS DeliveryQueue, Sequences

PhaseOf(status) == IF status \in Pending THEN "pending" ELSE status

AttemptNumbered(j, n) == CHOOSE row \in attempts : row.job = j /\ row.number = n

\* A job is overdue once some worker's clock has reached its deadline.
Overdue(j) ==
  /\ job[j].status # "absent"
  /\ \E w \in Workers : AppNow(w) >= job[j].deadlineAt

Ledger == INSTANCE DeliveryLedger WITH
  phase   <- [j \in Jobs |-> PhaseOf(job[j].status)],
  log     <- [j \in Jobs |->
                [n \in 1 .. job[j].attemptCount |-> AttemptNumbered(j, n).outcome]],
  overdue <- {j \in Jobs : Overdue(j)}

\* Every step of the workers, on time or after losing their lock, is a step of the
\* ledger or none: attempts are appended to the log in order, each one once, and
\* only a 2xx or the deadline ends a job (db.rs record_success, record_retry and
\* record_final_failure, and the claims and refreshes between them).
LedgerSpec == Ledger!Spec
=============================================================================
