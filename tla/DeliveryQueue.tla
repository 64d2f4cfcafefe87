--------------------------- MODULE DeliveryQueue ---------------------------
(***************************************************************************)
(* The delivery workers of src/delivery.rs over the tables of JobTable.    *)
(* A worker claims a batch of jobs, runs one task per job, and claims      *)
(* again only when all of them have ended.  A task holds a copy of the row *)
(* it was claimed with; between two of its steps other workers run, time   *)
(* passes, and the job may be claimed by somebody else.                    *)
(*                                                                         *)
(* A worker stands for itself and the process it runs in: its clock, its   *)
(* configuration, and the web handler that inserts jobs.                   *)
(***************************************************************************)
EXTENDS JobTable

CONSTANTS
  ConfigUrl,      \* ConfigUrl[w][j]: the URL in w's config for the destination of j, or Null
  Skew,           \* Skew[w]: what w's clock shows minus what the database clock shows
  Delays,         \* the values retry_delay may return
  TaskBound,      \* a task ends before it is older than this
  MaxTime,        \* bound: the clock stops here
  QuietFrom,      \* bound: from this time on no job is inserted and nothing fails
  MaxAttempts,    \* bound: attempt MaxAttempts is not refused before the deadline
  MaxFaults       \* bound: crashes, lost claims and failed tasks in a behaviour

ASSUME QueueAssumption ==
  /\ ConfigUrl \in [Workers -> [Jobs -> Urls \cup {Null}]]
  /\ Skew \in [Workers -> Int]
  /\ Delays \subseteq Nat \ {0}
  /\ TaskBound \in Nat
  /\ {MaxTime, QuietFrom, MaxAttempts, MaxFaults} \subseteq Nat

VARIABLES
  up,             \* the workers that have not crashed
  task,           \* task[w][j]: w's task for job j
  acked,          \* history: jobs for which a worker received a 2xx answer
  faults          \* how many faults have happened

vars == <<now, job, attempts, up, task, acked, faults>>

\* Where a task is: about to check the deadline, refreshing the stored URL,
\* waiting for the destination, or recording one of the four outcomes.
RecordPcs == {"success", "retry", "final", "expired"}
DbPcs     == {"refresh"} \cup RecordPcs
TaskPcs   == {"none", "claimed", "posting"} \cup DbPcs

\* lockedAt is history: when the task's claim took the lock.
TaskState ==
  [pc : TaskPcs, attempt : Nat, url : Urls \cup {Null}, lockedAt : Nat, nextAttemptAt : Int]

NoTask ==
  [pc |-> "none", attempt |-> 0, url |-> Null, lockedAt |-> 0, nextAttemptAt |-> 0]

Running(w, j) == task[w][j].pc # "none"

\* What OffsetDateTime::now_utc() returns in w's process.
AppNow(w) == now + Skew[w]

Earlier(s, t) == IF s <= t THEN s ELSE t

Init ==
  /\ now = 0
  /\ TableInit
  /\ up = Workers
  /\ task = [w \in Workers |-> [j \in Jobs |-> NoTask]]
  /\ acked = {}
  /\ faults = 0

\* A fault may still happen, and this step is one.
Fault ==
  /\ now < QuietFrom
  /\ faults < MaxFaults
  /\ faults' = faults + 1

SetTask(w, j, state) == task' = [task EXCEPT ![w][j] = state]

EndTask(w, j) == SetTask(w, j, NoTask)

-----------------------------------------------------------------------------
(* The web handler, the worker loop, and the statement that claims. *)

Enqueue(w, j) ==
  /\ w \in up
  /\ now < QuietFrom
  /\ ConfigUrl[w][j] # Null
  /\ InsertJob(j, ConfigUrl[w][j], AppNow(w))
  /\ UNCHANGED <<now, up, task, acked, faults>>

\* Rows another transaction may have locked when a claim looks at them.
BusyRows == {j \in Jobs : \E w \in Workers : task[w][j].pc \in DbPcs}

\* The batches a claim may lock now.
Batches == UNION {Picks(skipped) : skipped \in SUBSET BusyRows}

\* process_jobs has joined every task of the previous batch.  That the loop claims only
\* then, whatever its select! drops, is what Lifecycle shows (CycleSpec).
Idle(w) == w \in up /\ \A j \in Jobs : ~Running(w, j)

\* The task spawned for a claimed row, with the columns RETURNING gives it.
ClaimedTask(j) ==
  [pc |-> "claimed", attempt |-> job[j].attemptCount + 1, url |-> job[j].url,
   lockedAt |-> now, nextAttemptAt |-> 0]

ClaimDueJobs(w) ==
  /\ Idle(w)
  /\ \E picked \in Batches \ {{}} :
       /\ LockRows(picked, w)
       /\ task' = [task EXCEPT ![w] =
                     [j \in Jobs |-> IF j \in picked THEN ClaimedTask(j) ELSE NoTask]]
  /\ UNCHANGED <<now, up, acked, faults>>

\* Nothing is due: the worker sleeps and polls again.
ClaimNothing(w) ==
  /\ Idle(w)
  /\ {} \in Batches
  /\ UNCHANGED vars

\* The UPDATE commits but its result never reaches the worker: the connection
\* fails, or the select! drops the claim because shutdown was signalled.
ClaimLost(w) ==
  /\ Idle(w)
  /\ Fault
  /\ \E picked \in Batches \ {{}} : LockRows(picked, w)
  /\ UNCHANGED <<now, up, task, acked>>

-----------------------------------------------------------------------------
(* deliver_and_record: one task. *)

\* The window has closed: the job is failed without a request.
BeginExpired(w, j) ==
  /\ task[w][j].pc = "claimed"
  /\ AppNow(w) >= job[j].deadlineAt
  /\ SetTask(w, j, [task[w][j] EXCEPT !.pc = "expired"])
  /\ UNCHANGED <<now, tableVars, up, acked, faults>>

ResolveUrl(w, j) == IF ConfigUrl[w][j] # Null THEN ConfigUrl[w][j] ELSE task[w][j].url

\* Mutant of BeginDelivery: the stored URL is not refreshed.
BeginDeliveryUnrefreshed(w, j) ==
  /\ task[w][j].pc = "claimed"
  /\ AppNow(w) < job[j].deadlineAt
  /\ SetTask(w, j, [task[w][j] EXCEPT !.pc = "posting", !.url = ResolveUrl(w, j)])
  /\ UNCHANGED <<now, tableVars, up, acked, faults>>

\* Resolve the URL; the request leaves at once unless the stored URL is outdated.
BeginDelivery(w, j) ==
  /\ task[w][j].pc = "claimed"
  /\ AppNow(w) < job[j].deadlineAt
  /\ LET url == ResolveUrl(w, j)
     IN  SetTask(w, j, [task[w][j] EXCEPT
           !.pc = IF url = task[w][j].url THEN "posting" ELSE "refresh",
           !.url = url])
  /\ UNCHANGED <<now, tableVars, up, acked, faults>>

RefreshUrl(w, j) ==
  /\ task[w][j].pc = "refresh"
  /\ SetDestinationUrl(w, j, task[w][j].url)
  /\ SetTask(w, j, [task[w][j] EXCEPT !.pc = "posting"])
  /\ UNCHANGED <<now, up, acked, faults>>

\* The refresh matched no row: log_lost_lock, and nothing is sent.
RefreshLost(w, j) ==
  /\ task[w][j].pc = "refresh"
  /\ ~HoldsLock(w, j)
  /\ EndTask(w, j)
  /\ UNCHANGED <<now, tableVars, up, acked, faults>>

AnswerSuccess(w, j) ==
  /\ task[w][j].pc = "posting"
  /\ acked' = acked \cup {j}
  /\ SetTask(w, j, [task[w][j] EXCEPT !.pc = "success"])
  /\ UNCHANGED <<now, tableVars, up, faults>>

\* Mutant of AnswerFailureFinal: the job is given up when a retry would be too late.
AnswerFailureFinalEarly(w, j) ==
  /\ task[w][j].pc = "posting"
  /\ \E delay \in Delays : AppNow(w) + delay >= job[j].deadlineAt
  /\ SetTask(w, j, [task[w][j] EXCEPT !.pc = "final"])
  /\ UNCHANGED <<now, tableVars, up, acked, faults>>

\* Another status, a network error or the client's timeout: record_failure reads
\* the clock and chooses between the final failure and a retry.
AnswerFailureFinal(w, j) ==
  /\ task[w][j].pc = "posting"
  /\ AppNow(w) >= job[j].deadlineAt
  /\ SetTask(w, j, [task[w][j] EXCEPT !.pc = "final"])
  /\ UNCHANGED <<now, tableVars, up, acked, faults>>

AnswerFailureRetry(w, j) ==
  /\ task[w][j].pc = "posting"
  /\ AppNow(w) < job[j].deadlineAt
  /\ task[w][j].attempt < MaxAttempts
  /\ \E delay \in Delays :
       SetTask(w, j, [task[w][j] EXCEPT
         !.pc = "retry",
         !.nextAttemptAt = Earlier(AppNow(w) + delay, job[j].deadlineAt)])
  /\ UNCHANGED <<now, tableVars, up, acked, faults>>

\* One record_* transaction that commits, with its answer received or lost.
RecordCommits(w, j) ==
  /\ LET t == task[w][j]
     IN  \/ t.pc = "success" /\ RecordSuccess(w, j, t.attempt)
         \/ t.pc = "retry"   /\ RecordRetry(w, j, t.attempt, t.nextAttemptAt)
         \/ t.pc = "final"   /\ RecordFinalFailure(w, j, t.attempt, "failure")
         \/ t.pc = "expired" /\ RecordFinalFailure(w, j, t.attempt, "expired")
  /\ EndTask(w, j)
  /\ UNCHANGED <<now, up, acked, faults>>

\* Mutant of RecordRefused: the transaction commits although the UPDATE matched no row.
RecordRefusedCommits(w, j) ==
  /\ task[w][j].pc \in RecordPcs
  /\ ~CanRecord(w, j, task[w][j].attempt)
  /\ attempts' = attempts \cup
       {[job |-> j, number |-> task[w][j].attempt, outcome |-> "failure", nextAttemptAt |-> Null]}
  /\ EndTask(w, j)
  /\ UNCHANGED <<now, job, up, acked, faults>>

\* It rolls back: the lock is lost, or the attempt number is taken.
RecordRefused(w, j) ==
  /\ task[w][j].pc \in RecordPcs
  /\ ~CanRecord(w, j, task[w][j].attempt)
  /\ EndTask(w, j)
  /\ UNCHANGED <<now, tableVars, up, acked, faults>>

\* A database error returned with ?, or a panic: process_jobs only logs it.
TaskFails(w, j) ==
  /\ Running(w, j)
  /\ Fault
  /\ EndTask(w, j)
  /\ UNCHANGED <<now, tableVars, up, acked>>

\* The process is killed, or exits when worker_drain_timeout has passed.
Crash(w) ==
  /\ w \in up
  /\ Fault
  /\ up' = up \ {w}
  /\ task' = [task EXCEPT ![w] = [j \in Jobs |-> NoTask]]
  /\ UNCHANGED <<now, tableVars, acked>>

Tick ==
  /\ now < MaxTime
  /\ \A w \in Workers, j \in Jobs : Running(w, j) => now < task[w][j].lockedAt + TaskBound
  /\ now' = now + 1
  /\ UNCHANGED <<tableVars, up, task, acked, faults>>

-----------------------------------------------------------------------------

TaskStep(w, j) ==
  \/ BeginExpired(w, j)
  \/ BeginDelivery(w, j)
  \/ RefreshUrl(w, j)
  \/ RefreshLost(w, j)
  \/ AnswerSuccess(w, j)
  \/ AnswerFailureFinal(w, j)
  \/ AnswerFailureRetry(w, j)
  \/ RecordCommits(w, j)
  \/ RecordRefused(w, j)

Next ==
  \/ Tick
  \/ \E w \in Workers :
       \/ ClaimDueJobs(w)
       \/ ClaimNothing(w)
       \/ ClaimLost(w)
       \/ Crash(w)
       \/ \E j \in Jobs : Enqueue(w, j) \/ TaskStep(w, j) \/ TaskFails(w, j)

Spec == Init /\ [][Next]_vars

\* Time passes; a worker that is up polls for ever; tokio runs every task, the
\* client's timeout ends every request, and every statement ends.
Fairness ==
  /\ WF_vars(Tick)
  /\ \A w \in Workers : WF_vars(ClaimDueJobs(w))
  /\ \A w \in Workers, j \in Jobs : WF_vars(TaskStep(w, j))

FairSpec == Spec /\ Fairness

-----------------------------------------------------------------------------
(* Properties. *)

TypeOK ==
  /\ now \in Nat
  /\ job \in [Jobs -> JobRow]
  /\ attempts \subseteq AttemptRow
  /\ up \subseteq Workers
  /\ task \in [Workers -> [Jobs -> TaskState]]
  /\ acked \subseteq Jobs
  /\ faults \in Nat

\* delivery_attempts holds exactly one row for each attempt the job row counts:
\* no stale task, crash or lost answer leaves a gap, a duplicate or a surplus row
\* (db.rs inserts the attempt and updates the job in one transaction).
AttemptLogMatchesCount ==
  \A j \in Jobs :
    /\ {row.number : row \in {r \in attempts : r.job = j}} = 1 .. job[j].attemptCount
    /\ \A r, s \in attempts : r.job = j /\ s.job = j /\ r.number = s.number => r = s

\* An attempt row says will_retry unless it is the last row of a job that has
\* ended, and a job waiting for a retry waits for the time its last row announces.
AttemptLogTellsStatus ==
  \A row \in attempts :
    LET j == row.job
        last == row.number = job[j].attemptCount
    IN  /\ WillRetry(row) <=> ~(last /\ job[j].status \in Terminal)
        /\ last /\ job[j].status # "failed" => (row.outcome = "2xx" <=> job[j].status = "succeeded")
        /\ last /\ WillRetry(row) => job[j].nextAttemptAt = row.nextAttemptAt

\* The lock names a worker, not a claim: a task whose worker is named in locked_by
\* must be the task of that very claim, or it would record over a later one.  Its
\* attempt number is then the next free one, so UNIQUE cannot refuse the record
\* and leave the job to be sent again for ever.
LockHolderIsCurrent ==
  \A w \in Workers, j \in Jobs :
    Running(w, j) /\ HoldsLock(w, j) =>
      /\ task[w][j].lockedAt = job[j].lockedAt
      /\ task[w][j].attempt = job[j].attemptCount + 1
      /\ ~AttemptExists(j, task[w][j].attempt)

\* A running task can lose its lock only after it has held it for longer than
\* STALE_DELIVERY_LOCK_SECS: until then no other worker sends the same delivery.
LockLostOnlyWhenStale ==
  \A w \in Workers, j \in Jobs :
    Running(w, j) /\ ~HoldsLock(w, j) => task[w][j].lockedAt + StaleLock < now

\* While tasks end within the stale-lock time, no two workers ever run a task for
\* the same job: what config.rs wants from stale_delivery_lock_secs > timeout + 5.
OneTaskPerJob ==
  \A v, w \in Workers, j \in Jobs : Running(v, j) /\ Running(w, j) => v = w

\* The stored destination_url is the one the current attempt is sent to, whichever
\* configurations the workers of an old and a new release have.
PostedUrlIsStored ==
  \A w \in Workers, j \in Jobs :
    task[w][j].pc = "posting" /\ HoldsLock(w, j) => task[w][j].url = job[j].url

\* "Permanent failures ... only after the retry window is exhausted": no job is
\* failed before some worker's clock has reached its deadline.
FailedOnlyAfterDeadline ==
  \A j \in Jobs :
    job[j].status = "failed" => \E w \in Workers : AppNow(w) >= job[j].deadlineAt

\* The least time by which one retry can be later than the one before it: the
\* shortest delay, less what the slowest clock is behind the database's.
Pace ==
  LET paces == {d + Earlier(0, Skew[w]) : d \in Delays, w \in Workers}
  IN  CHOOSE p \in paces : \A q \in paces : p <= q

\* The n-th retry of a job that has not ended is scheduled no earlier than n paces
\* after it was accepted, or at the deadline: lost locks, crashes, takeovers, early
\* polls and clocks that differ never make the queue hammer a destination.
BackoffIsKept ==
  \A j \in Jobs :
    job[j].status \in Pending =>
      LET accepted == job[j].deadlineAt - RetryWindow
      IN  /\ job[j].nextAttemptAt <= job[j].deadlineAt
          /\ job[j].nextAttemptAt >=
               Earlier(accepted + job[j].attemptCount * Pace, job[j].deadlineAt)

\* As long as nothing has failed and tasks end within the stale-lock time, a 2xx
\* answer is never forgotten: the job has succeeded or the task is about to record it.
AckedIsRecorded ==
  faults = 0 => \A j \in acked :
    \/ job[j].status = "succeeded"
    \/ \E w \in Workers : task[w][j].pc = "success" /\ HoldsLock(w, j)

\* Once a job has succeeded or failed neither its row nor its attempts change
\* again, however late a task that lost its lock tries to record.
EndedJobsAreFrozen ==
  [][\A j \in Jobs : job[j].status \in Terminal =>
       /\ job'[j] = job[j]
       /\ \A row \in attempts' \ attempts : row.job # j]_vars

\* Every accepted job ends: a crashed worker, a lost claim or a task that failed
\* leaves no job in 'delivering' for ever.
EveryJobEnds ==
  \A j \in Jobs : (job[j].status \in Pending) ~> (job[j].status \in Terminal)

\* README "Delivery succeeds on any downstream 2xx response": no job that was
\* answered 2xx is failed.
TwoHundredMeansDelivered ==
  \A j \in acked : job[j].status # "failed"

\* README "Any non-2xx response or network error is retried until the 3-day
\* deadline": a failure that announced a retry is followed by another request.
AnnouncedRetryIsSent ==
  \A row, following \in attempts :
    /\ WillRetry(row)
    /\ following.job = row.job
    /\ following.number = row.number + 1
    => following.outcome # "expired"
=============================================================================
