------------------------------ MODULE JobTable ------------------------------
(***************************************************************************)
(* The Postgres tables delivery_jobs and delivery_attempts and the         *)
(* statements of src/db.rs on them, each one transaction and therefore one *)
(* atomic step.  A column no statement tests (updated_at, completed_at,    *)
(* the last_* columns, durations, the stored request) is left out.         *)
(***************************************************************************)
EXTENDS Integers, FiniteSets

CONSTANTS
  Jobs,           \* the delivery jobs that may ever be inserted
  Workers,        \* the worker ids; a restarted worker has a fresh one
  Urls,           \* destination URLs
  Null,           \* SQL NULL
  ClaimLimit,     \* DELIVERY_CLAIM_LIMIT
  RetryWindow,    \* RETRY_WINDOW_SECS
  StaleLock       \* STALE_DELIVERY_LOCK_SECS

ASSUME TableAssumption ==
  /\ Null \notin Int
  /\ Null \notin Workers
  /\ Null \notin Urls
  /\ ClaimLimit \in Nat \ {0}
  /\ RetryWindow \in Nat \ {0}
  /\ StaleLock \in Nat \ {0}

VARIABLES
  now,            \* the database clock, SQL now()
  job,            \* the row of each job in delivery_jobs
  attempts        \* the rows of delivery_attempts

tableVars == <<job, attempts>>

Terminal == {"succeeded", "failed"}
Pending  == {"queued", "delivering", "retrying"}

JobRow ==
  [status : {"absent"} \cup Pending \cup Terminal, attemptCount : Nat,
   url : Urls \cup {Null}, nextAttemptAt : Int, deadlineAt : Int,
   lockedAt : Nat \cup {Null}, lockedBy : Workers \cup {Null}]

\* The value that stands for a row that is not in the table.
AbsentJob ==
  [status |-> "absent", attemptCount |-> 0, url |-> Null, nextAttemptAt |-> 0,
   deadlineAt |-> 0, lockedAt |-> Null, lockedBy |-> Null]

\* outcome abstracts status_code and error: a 2xx answer, any other answer or a
\* network error, or "retry window expired before delivery attempt".
Outcomes == {"2xx", "failure", "expired"}

AttemptRow ==
  [job : Jobs, number : Nat \ {0}, outcome : Outcomes, nextAttemptAt : Int \cup {Null}]

\* will_retry is stored TRUE by exactly the statement that stores next_attempt_at.
WillRetry(row) == row.nextAttemptAt # Null

TableInit ==
  /\ job = [j \in Jobs |-> AbsentJob]
  /\ attempts = {}

-----------------------------------------------------------------------------

\* Mutant of InsertJob: the event is inserted again although its svix-id is known.
InsertJobTwice(j, url, at) ==
  /\ job' = [job EXCEPT ![j] =
               [AbsentJob EXCEPT !.status = "queued", !.url = url,
                                 !.nextAttemptAt = at, !.deadlineAt = at + RetryWindow]]
  /\ UNCHANGED attempts

\* insert_delivery_job with the caller's clock reading and the deadline computed from it.
InsertJob(j, url, at) ==
  /\ job[j].status = "absent"
  /\ job' = [job EXCEPT ![j] =
               [AbsentJob EXCEPT !.status = "queued", !.url = url,
                                 !.nextAttemptAt = at, !.deadlineAt = at + RetryWindow]]
  /\ UNCHANGED attempts

\* Mutant of Due: next_attempt_at is not compared with now().
DueAtOnce(j) == job[j].status \in {"queued", "retrying"}

Due(j) ==
  /\ job[j].status \in {"queued", "retrying"}
  /\ job[j].nextAttemptAt <= now

\* Mutant of Stale: <= for <.
StaleTooEarly(j) ==
  /\ job[j].status = "delivering"
  /\ job[j].lockedAt # Null
  /\ job[j].lockedAt <= now - StaleLock

Stale(j) ==
  /\ job[j].status = "delivering"
  /\ job[j].lockedAt # Null
  /\ job[j].lockedAt < now - StaleLock

\* ORDER BY next_attempt_at ASC LIMIT $1 FOR UPDATE SKIP LOCKED: the oldest rows
\* that satisfy the WHERE clause, without those another transaction has locked.
Picks(skipped) ==
  LET rows == {j \in Jobs : Due(j) \/ Stale(j)} \ skipped
  IN  {picked \in SUBSET rows :
         /\ Cardinality(picked) <= ClaimLimit
         /\ picked = rows \/ Cardinality(picked) = ClaimLimit
         /\ \A j \in picked, k \in rows \ picked :
              job[j].nextAttemptAt <= job[k].nextAttemptAt}

\* Mutant of LockRows: locked_at is not set.
LockRowsUntimed(picked, w) ==
  /\ job' = [j \in Jobs |->
               IF j \in picked
               THEN [job[j] EXCEPT !.status = "delivering", !.lockedBy = w]
               ELSE job[j]]
  /\ UNCHANGED attempts

\* The UPDATE of claim_due_jobs.
LockRows(picked, w) ==
  /\ job' = [j \in Jobs |->
               IF j \in picked
               THEN [job[j] EXCEPT !.status = "delivering", !.lockedAt = now, !.lockedBy = w]
               ELSE job[j]]
  /\ UNCHANGED attempts

\* WHERE id = $1 AND locked_by = $n AND status = 'delivering'
HoldsLock(w, j) ==
  /\ job[j].status = "delivering"
  /\ job[j].lockedBy = w

\* Mutant of SetDestinationUrl: WHERE id = $1 only.
SetDestinationUrlUnlocked(w, j, url) ==
  /\ job' = [job EXCEPT ![j].url = url]
  /\ UNCHANGED attempts

SetDestinationUrl(w, j, url) ==
  /\ HoldsLock(w, j)
  /\ job' = [job EXCEPT ![j].url = url]
  /\ UNCHANGED attempts

\* UNIQUE (job_id, attempt_number)
AttemptExists(j, n) == \E row \in attempts : row.job = j /\ row.number = n

\* The common shape of the three record_* transactions: insert attempt n, then
\* update the row if the lock is still held; anything else rolls both back.
CanRecord(w, j, n) == HoldsLock(w, j) /\ ~AttemptExists(j, n)

\* Mutant of RecordOutcome: attempt_count is not set.
RecordOutcomeUncounted(w, j, n, outcome, status, next) ==
  /\ CanRecord(w, j, n)
  /\ attempts' = attempts \cup
       {[job |-> j, number |-> n, outcome |-> outcome, nextAttemptAt |-> next]}
  /\ job' = [job EXCEPT ![j] =
               [job[j] EXCEPT !.status = status,
                         !.nextAttemptAt = IF next = Null THEN job[j].nextAttemptAt ELSE next,
                         !.lockedAt = Null, !.lockedBy = Null]]

\* Mutant of RecordOutcome: next_attempt_at is set by every outcome.
RecordOutcomeUnscheduled(w, j, n, outcome, status, next) ==
  /\ CanRecord(w, j, n)
  /\ attempts' = attempts \cup
       {[job |-> j, number |-> n, outcome |-> outcome, nextAttemptAt |-> next]}
  /\ job' = [job EXCEPT ![j] =
               [job[j] EXCEPT !.status = status, !.attemptCount = n, !.nextAttemptAt = next,
                         !.lockedAt = Null, !.lockedBy = Null]]

RecordOutcome(w, j, n, outcome, status, next) ==
  /\ CanRecord(w, j, n)
  /\ attempts' = attempts \cup
       {[job |-> j, number |-> n, outcome |-> outcome, nextAttemptAt |-> next]}
  /\ job' = [job EXCEPT ![j] =
               [job[j] EXCEPT !.status = status, !.attemptCount = n,
                         !.nextAttemptAt = IF next = Null THEN job[j].nextAttemptAt ELSE next,
                         !.lockedAt = Null, !.lockedBy = Null]]

RecordSuccess(w, j, n) == RecordOutcome(w, j, n, "2xx", "succeeded", Null)

RecordRetry(w, j, n, next) == RecordOutcome(w, j, n, "failure", "retrying", next)

\* Mutant of RecordFinalFailure: the last attempt is stored with will_retry TRUE.
RecordFinalFailureRetrying(w, j, n, outcome) ==
  RecordOutcome(w, j, n, outcome, "failed", job[j].nextAttemptAt)

RecordFinalFailure(w, j, n, outcome) == RecordOutcome(w, j, n, outcome, "failed", Null)
=============================================================================
