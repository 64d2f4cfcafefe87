---------------------------- MODULE Transactions ----------------------------
(***************************************************************************)
(* The statements inside record_success, record_retry and                  *)
(* record_final_failure of src/db.rs, and the claims and refreshes that    *)
(* run beside them, as PostgreSQL executes them at READ COMMITTED:         *)
(*   - INSERT INTO delivery_attempts waits for a transaction that has      *)
(*     inserted the same (job_id, attempt_number), and fails if it commits *)
(*   - its foreign key takes FOR KEY SHARE on the job's row, which a claim *)
(*     that has locked the row FOR UPDATE holds up                         *)
(*   - UPDATE delivery_jobs waits for an uncommitted UPDATE of the row and *)
(*     evaluates its WHERE on what that one leaves                         *)
(*   - the claim passes over rows anybody has locked.                      *)
(* The tables are AtomicTable's: what is committed.                        *)
(***************************************************************************)
EXTENDS AtomicTable

CONSTANTS
  Sessions,       \* bound: the connections that record at the same time
  MaxAttempts,    \* bound: a job is not claimed after this many attempts
  MaxFaults       \* bound: lost connections

ASSUME TxnAssumption == MaxAttempts \in Nat /\ MaxFaults \in Nat

VARIABLES
  tasks,          \* the claimed jobs whose outcome is not recorded yet
  session,        \* session[s]: the record_* transaction on s
  claiming,       \* claiming[w]: the rows w's claim statement has locked
  faults

txnVars == <<tasks, session, claiming, faults>>
vars == <<now, tableVars, txnVars>>

\* Before the INSERT, before its foreign-key check, before the UPDATE, before COMMIT
\* or before the rollback because no row matched.
TxnPcs == {"idle", "insert", "key", "update", "commit", "rollback"}

\* The three record_* calls: the outcome, the job's new status and next_attempt_at.
Kinds ==
  {[outcome |-> "2xx", status |-> "succeeded", next |-> Null],
   [outcome |-> "failure", status |-> "retrying", next |-> 0],
   [outcome |-> "failure", status |-> "failed", next |-> Null]}

Task == [worker : Workers, job : Jobs, number : 1 .. MaxAttempts]

\* client: the task still waits for the transaction.
SessionState ==
  [pc : TxnPcs, task : Task \cup {Null}, kind : Kinds \cup {Null}, client : BOOLEAN]

IdleSession == [pc |-> "idle", task |-> Null, kind |-> Null, client |-> FALSE]

TxnInit ==
  /\ Init
  /\ tasks = {}
  /\ session = [s \in Sessions |-> IdleSession]
  /\ claiming = [w \in Workers |-> {}]
  /\ faults = 0

JobOf(s) == session[s].task.job

\* What a transaction holds until it ends.
HoldsKey(s) == session[s].pc \in {"key", "update", "commit", "rollback"}
HoldsRowShare(s) == session[s].pc \in {"update", "commit", "rollback"}
HoldsRow(s) == session[s].pc = "commit"

ClaimLocked(j) == \E w \in Workers : j \in claiming[w]

RowShared(j) == \E s \in Sessions : HoldsRowShare(s) /\ JobOf(s) = j
RowUpdated(j) == \E s \in Sessions : HoldsRow(s) /\ JobOf(s) = j

Goto(s, pc) == session' = [session EXCEPT ![s].pc = pc]

Close(s) == session' = [session EXCEPT ![s] = IdleSession]

-----------------------------------------------------------------------------
(* The transaction of a record_* call. *)

Begin(s) ==
  /\ session[s].pc = "idle"
  /\ \E task \in tasks, kind \in Kinds :
       /\ session' = [session EXCEPT ![s] =
                        [pc |-> "insert", task |-> task, kind |-> kind, client |-> TRUE]]
       /\ tasks' = tasks \ {task}
  /\ UNCHANGED <<now, tableVars, claiming, faults>>

\* Another transaction has inserted the same attempt and is not over.
KeyIsTaken(s) ==
  \E r \in Sessions \ {s} :
    /\ HoldsKey(r)
    /\ JobOf(r) = JobOf(s)
    /\ session[r].task.number = session[s].task.number

\* Mutant of InsertAttempt: an attempt that is there already is tried again.
InsertAttemptAgain(s) ==
  /\ session[s].pc = "insert" /\ session[s].client
  /\ ~KeyIsTaken(s)
  /\ IF AttemptExists(JobOf(s), session[s].task.number)
     THEN UNCHANGED session
     ELSE Goto(s, "key")
  /\ UNCHANGED <<now, tableVars, tasks, claiming, faults>>

InsertAttempt(s) ==
  /\ session[s].pc = "insert" /\ session[s].client
  /\ ~KeyIsTaken(s)
  /\ IF AttemptExists(JobOf(s), session[s].task.number) THEN Close(s) ELSE Goto(s, "key")
  /\ UNCHANGED <<now, tableVars, tasks, claiming, faults>>

\* FOR KEY SHARE on the row of the job.
CheckForeignKey(s) ==
  /\ session[s].pc = "key" /\ session[s].client
  /\ ~ClaimLocked(JobOf(s))
  /\ Goto(s, "update")
  /\ UNCHANGED <<now, tableVars, tasks, claiming, faults>>

\* Mutant of UpdateJob: the WHERE is not evaluated again after the wait.
UpdateJobAnyway(s) ==
  /\ session[s].pc = "update" /\ session[s].client
  /\ ~RowUpdated(JobOf(s))
  /\ Goto(s, "commit")
  /\ UNCHANGED <<now, tableVars, tasks, claiming, faults>>

\* rows_affected() is 0 when the lock is no longer held.  Others' FOR KEY SHARE does
\* not hold up an UPDATE that changes no key.
UpdateJob(s) ==
  /\ session[s].pc = "update" /\ session[s].client
  /\ ~RowUpdated(JobOf(s))
  /\ Goto(s, IF HoldsLock(session[s].task.worker, JobOf(s)) THEN "commit" ELSE "rollback")
  /\ UNCHANGED <<now, tableVars, tasks, claiming, faults>>

\* Mutant of Publish: next_attempt_at is written by every outcome.
PublishUnscheduled(s) ==
  LET task == session[s].task
      kind == session[s].kind
  IN  /\ attempts' = attempts \cup
           {[job |-> task.job, number |-> task.number, outcome |-> kind.outcome,
             nextAttemptAt |-> kind.next]}
      /\ job' = [job EXCEPT ![task.job] =
                   [job[task.job] EXCEPT
                      !.status = kind.status, !.attemptCount = task.number,
                      !.nextAttemptAt = kind.next, !.lockedAt = Null, !.lockedBy = Null]]

\* The attempt and the row the transaction has written become visible together.
Publish(s) ==
  LET task == session[s].task
      kind == session[s].kind
  IN  /\ attempts' = attempts \cup
           {[job |-> task.job, number |-> task.number, outcome |-> kind.outcome,
             nextAttemptAt |-> kind.next]}
      /\ job' = [job EXCEPT ![task.job] =
                   [job[task.job] EXCEPT
                      !.status = kind.status, !.attemptCount = task.number,
                      !.nextAttemptAt = IF kind.next = Null THEN job[task.job].nextAttemptAt
                                        ELSE kind.next,
                      !.lockedAt = Null, !.lockedBy = Null]]

\* COMMIT, which the server may have received although its client is gone.
Commit(s) ==
  /\ session[s].pc = "commit"
  /\ Publish(s)
  /\ Close(s)
  /\ UNCHANGED <<now, tasks, claiming, faults>>

\* Mutant of Rollback: the transaction commits whatever the UPDATE matched.
RollbackCommits(s) ==
  /\ session[s].pc = "rollback" /\ session[s].client
  /\ attempts' = attempts \cup
       {[job |-> JobOf(s), number |-> session[s].task.number,
         outcome |-> session[s].kind.outcome, nextAttemptAt |-> session[s].kind.next]}
  /\ Close(s)
  /\ UNCHANGED <<now, job, tasks, claiming, faults>>

Rollback(s) ==
  /\ session[s].pc = "rollback" /\ session[s].client
  /\ Close(s)
  /\ UNCHANGED <<now, tableVars, tasks, claiming, faults>>

\* The task or its process ends between two statements, or the connection breaks.
LoseClient(s) ==
  /\ session[s].pc # "idle" /\ session[s].client
  /\ faults < MaxFaults
  /\ faults' = faults + 1
  /\ session' = [session EXCEPT ![s].client = FALSE]
  /\ UNCHANGED <<now, tableVars, tasks, claiming>>

\* The server rolls back a transaction without a client.
Abort(s) ==
  /\ session[s].pc # "idle" /\ ~session[s].client
  /\ Close(s)
  /\ UNCHANGED <<now, tableVars, tasks, claiming, faults>>

-----------------------------------------------------------------------------
(* The statements that are transactions of their own. *)

Claimable(j) ==
  /\ job[j].status \in Pending
  /\ job[j].attemptCount < MaxAttempts
  /\ ~ClaimLocked(j)
  /\ ~RowShared(j)

\* FOR UPDATE SKIP LOCKED
ClaimLocks(w) ==
  /\ claiming[w] = {}
  /\ \E picked \in SUBSET {j \in Jobs : Claimable(j)} \ {{}} :
       /\ Cardinality(picked) <= ClaimLimit
       /\ claiming' = [claiming EXCEPT ![w] = picked]
  /\ UNCHANGED <<now, tableVars, tasks, session, faults>>

\* The UPDATE of the locked rows; a task for each row it returns.
ClaimCommits(w) ==
  /\ claiming[w] # {}
  /\ LockRows(claiming[w], w)
  /\ tasks' = tasks \cup
       {[worker |-> w, job |-> j, number |-> job[j].attemptCount + 1] : j \in claiming[w]}
  /\ claiming' = [claiming EXCEPT ![w] = {}]
  /\ UNCHANGED <<now, session, faults>>

\* update_claimed_job_destination_url, which waits for the row.
RefreshUrl(task) ==
  /\ task \in tasks
  /\ ~RowUpdated(task.job)
  /\ ~ClaimLocked(task.job)
  /\ \E url \in Urls : SetDestinationUrl(task.worker, task.job, url)
  /\ UNCHANGED <<now, txnVars>>

-----------------------------------------------------------------------------

SessionStep(s) ==
  \/ InsertAttempt(s)
  \/ CheckForeignKey(s)
  \/ UpdateJob(s)
  \/ Commit(s)
  \/ Rollback(s)
  \/ Abort(s)

\* Every job has ended or has had all its attempts.
Finished ==
  /\ \A s \in Sessions : session[s].pc = "idle"
  /\ tasks = {}
  /\ \A j \in Jobs : ~Claimable(j)
  /\ UNCHANGED vars

TxnNext ==
  \/ Finished
  \/ \E s \in Sessions : Begin(s) \/ SessionStep(s) \/ LoseClient(s)
  \/ \E w \in Workers : ClaimLocks(w) \/ ClaimCommits(w)
  \/ \E task \in tasks : RefreshUrl(task)

TxnSpec == TxnInit /\ [][TxnNext]_vars

\* A statement that can go on does, and one that waits for a lock gets it in the
\* end: PostgreSQL queues those who wait for a row.
Fairness ==
  /\ \A s \in Sessions : SF_vars(SessionStep(s))
  /\ \A w \in Workers : WF_vars(ClaimCommits(w))

FairTxnSpec == TxnSpec /\ Fairness

-----------------------------------------------------------------------------
(* Properties. *)

TxnTypeOK ==
  /\ now \in Nat
  /\ job \in [Jobs -> JobRow]
  /\ attempts \subseteq AttemptRow
  /\ tasks \subseteq Task
  /\ session \in [Sessions -> SessionState]
  /\ claiming \in [Workers -> SUBSET Jobs]

\* A transaction about to commit still holds the job's lock and its attempt number is
\* free: nobody has taken the job over, refreshed it away or recorded it since its
\* UPDATE looked (db.rs record_success, record_retry and record_final_failure).
CommitIsStillDue ==
  \A s \in Sessions :
    HoldsRow(s) => CanRecord(session[s].task.worker, JobOf(s), session[s].task.number)

Table == INSTANCE AtomicTable

\* Seen from what is committed, the record_* transactions, the claims and the refreshes
\* are the single steps all other modules take them for.
AtomicSpec == Table!Spec

\* No two of them wait for each other: every transaction ends.
TransactionsEnd == \A s \in Sessions : session[s].pc # "idle" ~> session[s].pc = "idle"
=============================================================================
