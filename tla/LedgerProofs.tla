---------------------------- MODULE LedgerProofs ----------------------------
(***************************************************************************)
(* The delivery queue implements DeliveryLedger, and the properties about  *)
(* what the attempts of a job tell, for every set of jobs and workers,     *)
(* every configuration, clock skew and bound.                              *)
(***************************************************************************)
EXTENDS LedgerRefinement, DeliveryQueueProofs, SequenceTheorems


\* How a record_* transaction is chosen by the state its task is in.
RecordKind(pc, outcome, status, next) ==
  \/ pc = "success" /\ outcome = "2xx" /\ status = "succeeded" /\ next = Null
  \/ pc = "retry" /\ outcome = "failure" /\ status = "retrying" /\ next \in Int
  \/ pc = "final" /\ outcome = "failure" /\ status = "failed" /\ next = Null
  \/ pc = "expired" /\ outcome = "expired" /\ status = "failed" /\ next = Null

\* What a committed record_* transaction does to the job row and the attempts.
RecordEffect(w, j, outcome, status, next) ==
  /\ RecordKind(task[w][j].pc, outcome, status, next)
  /\ task[w][j].pc = "retry" => next = task[w][j].nextAttemptAt
  /\ HoldsLock(w, j)
  /\ attempts' = attempts \cup
       {[job |-> j, number |-> job[j].attemptCount + 1, outcome |-> outcome, nextAttemptAt |-> next]}
  /\ job'[j].status = status
  /\ job'[j].attemptCount = job[j].attemptCount + 1
  /\ job'[j].deadlineAt = job[j].deadlineAt
  /\ job'[j].nextAttemptAt = IF next = Null THEN job[j].nextAttemptAt ELSE next
  /\ \A k \in Jobs : k # j => job'[k] = job[k]

LEMMA RecordHasEffect ==
  ASSUME IInv, NEW w \in Workers, NEW j \in Jobs, RecordCommits(w, j)
  PROVE  \E outcome, status, next : RecordEffect(w, j, outcome, status, next)
<1> USE TableAssumption
<1>1. task[w][j] \in TaskState /\ job[j] \in JobRow /\ job \in [Jobs -> JobRow]
  BY DEF IInv, TypeOK
<1>2. PICK outcome, status, next :
        /\ RecordOutcome(w, j, task[w][j].attempt, outcome, status, next)
        /\ RecordKind(task[w][j].pc, outcome, status, next)
        /\ task[w][j].pc = "retry" => next = task[w][j].nextAttemptAt
  <2>1. task[w][j].nextAttemptAt \in Int
    BY <1>1 DEF TaskState
  <2> QED
    BY <2>1 DEF RecordCommits, RecordSuccess, RecordRetry, RecordFinalFailure, RecordKind
<1>3. HoldsLock(w, j) /\ Running(w, j)
  BY <1>2 DEF RecordOutcome, CanRecord, RecordKind, Running
<1>4. task[w][j].attempt = job[j].attemptCount + 1
  BY <1>3 DEF IInv, ClaimInv
<1>5. /\ job' = [job EXCEPT ![j] =
                  [job[j] EXCEPT !.status = status, !.attemptCount = task[w][j].attempt,
                                 !.nextAttemptAt = IF next = Null THEN job[j].nextAttemptAt ELSE next,
                                 !.lockedAt = Null, !.lockedBy = Null]]
      /\ attempts' = attempts \cup
           {[job |-> j, number |-> task[w][j].attempt, outcome |-> outcome, nextAttemptAt |-> next]}
  BY <1>2 DEF RecordOutcome
<1>6. /\ job'[j].status = status
      /\ job'[j].attemptCount = task[w][j].attempt
      /\ job'[j].deadlineAt = job[j].deadlineAt
      /\ job'[j].nextAttemptAt = IF next = Null THEN job[j].nextAttemptAt ELSE next
      /\ \A k \in Jobs : k # j => job'[k] = job[k]
  BY <1>1, <1>5 DEF JobRow
<1> QED
  BY <1>2, <1>3, <1>4, <1>5, <1>6 DEF RecordEffect

\* A claim leaves the schedule of the rows it locks as it was.
LEMMA LockKeepsSchedule ==
  ASSUME IInv, NEW w, NEW picked, LockRows(picked, w), NEW j \in Jobs
  PROVE  job'[j].nextAttemptAt = job[j].nextAttemptAt
<1>1. job[j] \in JobRow
  BY DEF IInv, TypeOK
<1> QED
  BY <1>1 DEF LockRows, JobRow

\* What an insert does.
LEMMA EnqueueEffect ==
  ASSUME IInv, NEW w \in Workers, NEW j \in Jobs, Enqueue(w, j)
  PROVE  /\ job[j].status = "absent"
         /\ job[j].attemptCount = 0
         /\ job'[j].status = "queued"
         /\ job'[j].attemptCount = 0
         /\ job'[j].nextAttemptAt = AppNow(w)
         /\ job'[j].deadlineAt = AppNow(w) + RetryWindow
         /\ \A k \in Jobs : k # j => job'[k] = job[k]
         /\ UNCHANGED <<now, attempts, task>>
<1>1. job \in [Jobs -> JobRow] /\ (job[j].status = "absent" => job[j].attemptCount = 0)
  BY DEF IInv, TypeOK, LockInv
<1> QED
  BY <1>1 DEF Enqueue, InsertJob, AbsentJob

\* What the refresh of a URL leaves alone.
LEMMA RefreshEffect ==
  ASSUME IInv, NEW w \in Workers, NEW j \in Jobs, RefreshUrl(w, j)
  PROVE  /\ \A k \in Jobs :
              /\ job'[k].status = job[k].status
              /\ job'[k].attemptCount = job[k].attemptCount
              /\ job'[k].nextAttemptAt = job[k].nextAttemptAt
              /\ job'[k].deadlineAt = job[k].deadlineAt
              /\ job'[k].lockedBy = job[k].lockedBy
         /\ UNCHANGED <<now, attempts>>
<1>1. job \in [Jobs -> JobRow]
  BY DEF IInv, TypeOK
<1> QED
  BY <1>1 DEF RefreshUrl, SetDestinationUrl, JobRow

\* Every step is a claim, an insert, a refresh, a commit, or leaves the tables alone.
LEMMA TableSteps ==
  ASSUME IInv, [Next]_vars
  PROVE  \/ UNCHANGED tableVars
         \/ /\ now' = now
            /\ \/ \E w \in Workers : \E picked \in Batches : LockRows(picked, w)
               \/ \E w \in Workers, j \in Jobs : Enqueue(w, j)
               \/ \E w \in Workers, j \in Jobs : RefreshUrl(w, j)
               \/ \E w \in Workers, j \in Jobs : RecordCommits(w, j)
<1> USE DEF tableVars
<1>1. CASE UNCHANGED vars
  BY <1>1 DEF vars
<1>2. CASE Tick
  BY <1>2 DEF Tick
<1>3. ASSUME NEW w \in Workers, ClaimDueJobs(w) \/ ClaimLost(w)
      PROVE  now' = now /\ \E picked \in Batches : LockRows(picked, w)
  BY <1>3 DEF ClaimDueJobs, ClaimLost
<1>4. ASSUME NEW w \in Workers, ClaimNothing(w) \/ Crash(w)
      PROVE  UNCHANGED tableVars
  BY <1>4 DEF ClaimNothing, Crash, vars
<1>5. ASSUME NEW w \in Workers, NEW j \in Jobs, Enqueue(w, j) \/ RefreshUrl(w, j) \/ RecordCommits(w, j)
      PROVE  now' = now
  BY <1>5 DEF Enqueue, RefreshUrl, RecordCommits
<1>6. ASSUME NEW w \in Workers, NEW j \in Jobs, TaskStep(w, j) \/ TaskFails(w, j)
      PROVE  RefreshUrl(w, j) \/ RecordCommits(w, j) \/ UNCHANGED tableVars
  BY <1>6
     DEF TaskStep, TaskFails, BeginExpired, BeginDelivery, RefreshLost, AnswerSuccess,
         AnswerFailureFinal, AnswerFailureRetry, RecordRefused
<1> QED
  BY <1>1, <1>2, <1>3, <1>4, <1>5, <1>6 DEF Next

\* The same, with the claims by name.
LEMMA JobSteps ==
  ASSUME IInv, [Next]_vars
  PROVE  \/ UNCHANGED job
         \/ \E w \in Workers : ClaimDueJobs(w) \/ ClaimLost(w)
         \/ \E w \in Workers, j \in Jobs : Enqueue(w, j) \/ RefreshUrl(w, j) \/ RecordCommits(w, j)
<1>1. ASSUME NEW w \in Workers, NEW j \in Jobs, TaskStep(w, j) \/ TaskFails(w, j)
      PROVE  RefreshUrl(w, j) \/ RecordCommits(w, j) \/ UNCHANGED job
  BY <1>1
     DEF TaskStep, TaskFails, BeginExpired, BeginDelivery, RefreshLost, AnswerSuccess,
         AnswerFailureFinal, AnswerFailureRetry, RecordRefused, tableVars
<1>2. ASSUME Tick \/ UNCHANGED vars \/ \E w \in Workers : ClaimNothing(w) \/ Crash(w)
      PROVE  UNCHANGED job
  BY <1>2 DEF Tick, vars, ClaimNothing, Crash, tableVars
<1> QED
  BY <1>1, <1>2 DEF Next

-----------------------------------------------------------------------------

\* The row and the attempts of one job agree.
LogTells(j) ==
  \A row \in attempts : row.job = j =>
    LET last == row.number = job[j].attemptCount
    IN  /\ WillRetry(row) <=> ~(last /\ job[j].status \in Terminal)
        /\ last /\ job[j].status # "failed" => (row.outcome = "2xx" <=> job[j].status = "succeeded")
        /\ last /\ WillRetry(row) => job[j].nextAttemptAt = row.nextAttemptAt

LEMMA LogTellsByJob ==
  ASSUME IInv
  PROVE  AttemptLogTellsStatus <=> \A j \in Jobs : LogTells(j)
<1>1. \A row \in attempts : row.job \in Jobs
  BY DEF IInv, TypeOK, AttemptRow
<1> QED
  BY <1>1 DEF AttemptLogTellsStatus, LogTells

LEMMA NextLogTells ==
  ASSUME IInv, [Next]_vars, NEW j \in Jobs, LogTells(j)
  PROVE  LogTells(j)'
<1> USE TableAssumption
<1>1. /\ job[j].status \in Pending => job[j].status \notin Terminal
      /\ "delivering" \notin Terminal
  BY DEF Pending, Terminal
<1>2. CASE UNCHANGED tableVars
  BY <1>2 DEF LogTells, WillRetry, tableVars
<1>3. ASSUME NEW w \in Workers, NEW picked \in Batches, LockRows(picked, w)
      PROVE  LogTells(j)'
  <2>1. attempts' = attempts
    BY <1>3 DEF LockRows
  <2>2. CASE j \notin picked
    <3>1. job'[j] = job[j]
      BY <1>3, <2>2, LockRowsEffect
    <3> QED
      BY <2>1, <3>1 DEF LogTells, WillRetry
  <2>3. CASE j \in picked
    <3>1. /\ job[j].status \in Pending
          /\ job'[j].status = "delivering"
          /\ job'[j].attemptCount = job[j].attemptCount
      BY <1>3, <2>3, LockRowsEffect DEF Due, Stale, Pending
    <3>2. job'[j].nextAttemptAt = job[j].nextAttemptAt
      BY <1>3, LockKeepsSchedule
    <3> QED
      BY <1>1, <2>1, <3>1, <3>2 DEF LogTells, WillRetry, Pending
  <2> QED
    BY <2>2, <2>3
<1>4. ASSUME NEW w \in Workers, NEW k \in Jobs, Enqueue(w, k)
      PROVE  LogTells(j)'
  <2>1. CASE k # j
    <3>1. job'[j] = job[j] /\ attempts' = attempts
      BY <1>4, <2>1, EnqueueEffect
    <3> QED
      BY <3>1 DEF LogTells, WillRetry
  <2>2. CASE k = j
    <3>1. job[j].attemptCount = 0 /\ attempts' = attempts
      BY <1>4, <2>2, EnqueueEffect
    <3>2. \A row \in attempts : row.job # j
      BY <3>1 DEF IInv, LogInv, TypeOK, AttemptRow
    <3> QED
      BY <3>1, <3>2 DEF LogTells
  <2> QED
    BY <2>1, <2>2
<1>5. ASSUME NEW w \in Workers, NEW k \in Jobs, RefreshUrl(w, k)
      PROVE  LogTells(j)'
  <2>1. /\ job'[j].status = job[j].status
        /\ job'[j].attemptCount = job[j].attemptCount
        /\ job'[j].nextAttemptAt = job[j].nextAttemptAt
        /\ attempts' = attempts
    BY <1>5, RefreshEffect
  <2> QED
    BY <2>1 DEF LogTells, WillRetry
<1>6. ASSUME NEW w \in Workers, NEW k \in Jobs, RecordCommits(w, k)
      PROVE  LogTells(j)'
  <2>1. PICK outcome, status, next : RecordEffect(w, k, outcome, status, next)
    BY <1>6, RecordHasEffect
  <2> DEFINE new == [job |-> k, number |-> job[k].attemptCount + 1,
                     outcome |-> outcome, nextAttemptAt |-> next]
  <2>2. attempts' = attempts \cup {new}
    BY <2>1 DEF RecordEffect
  <2>3. CASE k # j
    <3>1. job'[j] = job[j] /\ new.job # j
      BY <2>1, <2>3 DEF RecordEffect
    <3> HIDE DEF new
    <3> QED
      BY <2>2, <3>1 DEF LogTells, WillRetry
  <2>4. CASE k = j
    <3>1. /\ job'[j].status = status
          /\ job'[j].attemptCount = job[j].attemptCount + 1
          /\ job'[j].nextAttemptAt = IF next = Null THEN job[j].nextAttemptAt ELSE next
          /\ job[j].status = "delivering"
          /\ RecordKind(task[w][j].pc, outcome, status, next)
      BY <2>1, <2>4 DEF RecordEffect, HoldsLock
    <3>2. job[j].attemptCount \in Nat
      BY DEF IInv, TypeOK, JobRow
    <3>3. \A row \in attempts : row.job = j =>
            row.number # job[j].attemptCount + 1 /\ WillRetry(row)
      <4>1. \A row \in attempts : row.job = j => row.number \in Nat /\ row.number <= job[j].attemptCount
        BY DEF IInv, LogInv, TypeOK, AttemptRow
      <4> QED
        BY <1>1, <3>1, <3>2, <4>1 DEF LogTells
    <3>4. /\ new.number = job'[j].attemptCount
          /\ WillRetry(new) <=> status = "retrying"
          /\ status \in Terminal \/ status = "retrying"
          /\ "retrying" \notin Terminal
          /\ status # "failed" => (new.outcome = "2xx" <=> status = "succeeded")
          /\ WillRetry(new) => job'[j].nextAttemptAt = new.nextAttemptAt
      BY <2>4, <3>1 DEF RecordKind, WillRetry, Terminal
    <3>5. \A row : WillRetry(row)' = WillRetry(row)
      BY DEF WillRetry
    <3> HIDE DEF new
    <3>6. ASSUME NEW row \in attempts', row.job = j
          PROVE  LET last == row.number = job'[j].attemptCount
                 IN  /\ WillRetry(row) <=> ~(last /\ job'[j].status \in Terminal)
                     /\ last /\ job'[j].status # "failed"
                          => (row.outcome = "2xx" <=> job'[j].status = "succeeded")
                     /\ last /\ WillRetry(row) => job'[j].nextAttemptAt = row.nextAttemptAt
      <4>1. CASE row = new
        BY <3>1, <3>4, <4>1
      <4>2. CASE row \in attempts
        BY <3>1, <3>3, <3>6, <4>2
      <4> QED
        BY <2>2, <4>1, <4>2
    <3> QED
      BY <3>6 DEF LogTells, WillRetry
  <2> QED
    BY <2>3, <2>4
<1> QED
  BY <1>2, <1>3, <1>4, <1>5, <1>6, TableSteps

\* The attempts tell the status of their job: what the history of a job shows is
\* what the workers will do next (db.rs record_success, record_retry and
\* record_final_failure, and the claims and refreshes between them).
THEOREM LogTellsStatus == Spec => []AttemptLogTellsStatus
<1>1. Init => AttemptLogTellsStatus
  BY DEF Init, TableInit, AttemptLogTellsStatus
<1>2. IInv /\ AttemptLogTellsStatus /\ [Next]_vars /\ IInv' => AttemptLogTellsStatus'
  <2>1. IInv' => (AttemptLogTellsStatus' <=> \A j \in Jobs : LogTells(j)')
    <3>1. IInv' => \A row \in attempts' : row.job \in Jobs
      BY DEF IInv, TypeOK, AttemptRow
    <3> QED
      BY <3>1 DEF AttemptLogTellsStatus, LogTells
  <2> QED
    BY <2>1, LogTellsByJob, NextLogTells
<1> QED
  BY Invariance, <1>1, <1>2, PTL DEF Spec

-----------------------------------------------------------------------------

\* A task's step moves that task alone.
LEMMA TaskStepSets ==
  ASSUME NEW w \in Workers, NEW j \in Jobs, TaskStep(w, j) \/ TaskFails(w, j)
  PROVE  \E t : SetTask(w, j, t)
  BY DEF TaskStep, TaskFails, BeginExpired, BeginDelivery, RefreshUrl, RefreshLost,
         AnswerSuccess, AnswerFailureFinal, AnswerFailureRetry, RecordCommits,
         RecordRefused, EndTask

\* A task that has its answer keeps it until it is recorded, unless something fails.
LEMMA AnswerStays ==
  ASSUME IInv, [Next]_vars, faults' = 0, NEW w \in Workers, NEW j \in Jobs,
         task[w][j].pc = "success", HoldsLock(w, j)
  PROVE  task'[w][j].pc = "success" \/ job'[j].status = "succeeded"
<1> USE TableAssumption
<1>1. faults \in Nat /\ Running(w, j)
  BY DEF IInv, TypeOK, Running
<1>2. ~Fault
  BY <1>1 DEF Fault
<1>3. CASE UNCHANGED task
  BY <1>3
<1>4. ASSUME NEW v \in Workers, ClaimDueJobs(v)
      PROVE  task'[w][j] = task[w][j]
  <2>1. v # w
    BY <1>1, <1>4 DEF ClaimDueJobs, Idle
  <2> QED
    BY <1>4, <2>1 DEF ClaimDueJobs, IInv, TypeOK
<1>5. ASSUME NEW v \in Workers, NEW k \in Jobs, TaskStep(v, k), ~(v = w /\ k = j)
      PROVE  task'[w][j] = task[w][j]
  <2>1. PICK t : SetTask(v, k, t)
    BY <1>5, TaskStepSets
  <2> QED
    BY <1>5, <2>1, SetTaskEffect DEF IInv
<1>6. ASSUME TaskStep(w, j)
      PROVE  job'[j].status = "succeeded"
  <2>1. /\ task[w][j].attempt = job[j].attemptCount + 1
        /\ job[j].attemptCount \in Nat
    BY <1>1 DEF IInv, ClaimInv, TypeOK, JobRow
  <2>2. ~AttemptExists(j, task[w][j].attempt)
    BY <2>1 DEF IInv, LogInv, TypeOK, AttemptRow, AttemptExists
  <2>3. RecordCommits(w, j)
    BY <1>6, <2>2
       DEF TaskStep, BeginExpired, BeginDelivery, RefreshUrl, RefreshLost, AnswerSuccess,
           AnswerFailureFinal, AnswerFailureRetry, RecordRefused, CanRecord
  <2>4. PICK outcome, status, next : RecordEffect(w, j, outcome, status, next)
    BY <2>3, RecordHasEffect
  <2> QED
    BY <2>4 DEF RecordEffect, RecordKind
<1> QED
  BY <1>2, <1>3, <1>4, <1>5, <1>6
     DEF Next, vars, Tick, ClaimNothing, ClaimLost, Crash, Enqueue, TaskFails

\* Until something fails no 2xx answer is forgotten while tasks end within the
\* stale-lock time (delivery.rs deliver_and_record with record_success).
THEOREM AckedRecorded == TaskBound <= StaleLock => (Spec => []AckedIsRecorded)
<1> SUFFICES ASSUME TaskBound <= StaleLock PROVE Spec => []AckedIsRecorded
  OBVIOUS
<1>1. Init => TaskInTime /\ AckedIsRecorded
  BY DEF Init, TaskInTime, Running, NoTask, AckedIsRecorded
<1>2. ASSUME IInv, IInv', TaskInTime, TaskInTime', AckedIsRecorded, [Next]_vars
      PROVE  AckedIsRecorded'
  <2> SUFFICES ASSUME faults' = 0, NEW j \in acked'
               PROVE  \/ job'[j].status = "succeeded"
                      \/ \E w \in Workers : task'[w][j].pc = "success" /\ HoldsLock(w, j)'
    BY <1>2 DEF AckedIsRecorded
  <2>1. j \in Jobs
    BY <1>2 DEF IInv, TypeOK
  <2>2. ASSUME NEW w \in Workers, task'[w][j].pc = "success"
        PROVE  HoldsLock(w, j)'
    <3>1. now' <= task'[w][j].lockedAt + TaskBound
      BY <1>2, <2>1, <2>2 DEF TaskInTime, Running
    <3>2. task'[w][j].lockedAt \in Nat /\ now' \in Nat
      BY <1>2, <2>1 DEF IInv, TypeOK, TaskState
    <3>3. ~(task'[w][j].lockedAt + StaleLock < now')
      BY <3>1, <3>2, TableAssumption, QueueAssumption
    <3> QED
      BY <1>2, <2>1, <2>2, <3>3 DEF IInv, LockLostOnlyWhenStale, Running
  <2>3. CASE j \notin acked
    <3>1. ASSUME NEW w \in Workers, NEW k \in Jobs, AnswerSuccess(w, k)
          PROVE  k = j /\ task'[w][j].pc = "success"
      <4>1. k = j
        BY <2>3, <3>1 DEF AnswerSuccess
      <4>2. task[w][j] \in TaskState
        BY <1>2, <2>1 DEF IInv, TypeOK
      <4>3. task'[w][j] = [task[w][j] EXCEPT !.pc = "success"]
        BY <1>2, <2>1, <3>1, <4>1, SetTaskEffect DEF AnswerSuccess, IInv
      <4> QED
        BY <4>1, <4>2, <4>3 DEF TaskState
    <3>2. ASSUME NEW w \in Workers, NEW k \in Jobs, TaskStep(w, k) \/ TaskFails(w, k),
                 ~AnswerSuccess(w, k)
          PROVE  acked' = acked
      BY <3>2
         DEF TaskStep, TaskFails, BeginExpired, BeginDelivery, RefreshUrl, RefreshLost,
             AnswerFailureFinal, AnswerFailureRetry, RecordCommits, RecordRefused
    <3>3. \E w \in Workers : AnswerSuccess(w, j)
      BY <1>2, <2>3, <3>1, <3>2
         DEF Next, vars, Tick, ClaimDueJobs, ClaimNothing, ClaimLost, Crash, Enqueue
    <3> QED
      BY <2>1, <2>2, <3>1, <3>3
  <2>4. CASE j \in acked
    <3>1. faults = 0
      <4>1. ASSUME NEW w \in Workers, NEW k \in Jobs, TaskStep(w, k)
            PROVE  faults' = faults
        BY <4>1
           DEF TaskStep, BeginExpired, BeginDelivery, RefreshUrl, RefreshLost, AnswerSuccess,
               AnswerFailureFinal, AnswerFailureRetry, RecordCommits, RecordRefused
      <4>2. faults \in Nat /\ ~Fault
        BY <1>2 DEF IInv, TypeOK, Fault
      <4> QED
        BY <1>2, <4>1, <4>2
           DEF Next, vars, Tick, ClaimDueJobs, ClaimNothing, ClaimLost, Crash, Enqueue, TaskFails
    <3>2. CASE job[j].status = "succeeded"
      BY <1>2, <2>1, <3>2, EndedJobStays DEF Terminal
    <3>3. ASSUME NEW w \in Workers, task[w][j].pc = "success", HoldsLock(w, j)
          PROVE  task'[w][j].pc = "success" \/ job'[j].status = "succeeded"
      BY <1>2, <2>1, <3>3, AnswerStays
    <3> QED
      BY <1>2, <2>2, <2>4, <3>1, <3>2, <3>3 DEF AckedIsRecorded
  <2> QED
    BY <2>3, <2>4
<1> QED
  BY Invariance, NextTaskInTime, <1>1, <1>2, PTL DEF Spec

-----------------------------------------------------------------------------

\* Retry n of a job with this deadline is not before n paces of p, nor too late.
Paced(p, n, at, deadline) ==
  /\ at <= deadline
  /\ at >= Earlier((deadline - RetryWindow) + n * p, deadline)

\* One more failure: the retry is a delay after a moment when the last one was due.
LEMMA PacedNext ==
  ASSUME NEW p \in Int, NEW n \in Nat, NEW at \in Int, NEW deadline \in Int,
         NEW t \in Int, NEW skew \in Int, NEW delay \in Int,
         Paced(p, n, at, deadline), at <= t, p <= delay + Earlier(0, skew)
  PROVE  Paced(p, n + 1, Earlier((t + skew) + delay, deadline), deadline)
<1> DEFINE m == n * p
<1>1. m \in Int /\ (n + 1) * p = m + p
  OBVIOUS
<1>2. p < 0 => m <= 0
  OBVIOUS
<1>3. at >= Earlier((deadline - RetryWindow) + m, deadline)
  BY DEF Paced
<1> HIDE DEF m
<1>4. Earlier((t + skew) + delay, deadline)
        >= Earlier((deadline - RetryWindow) + (m + p), deadline)
  BY <1>1, <1>2, <1>3, TableAssumption DEF Earlier
<1> QED
  BY <1>1, <1>4 DEF Paced, Earlier

\* A claimed job was due, and a task about to store a retry has paced it.
PaceInv(p) ==
  /\ \A j \in Jobs :
       /\ job[j].status \in Pending =>
            Paced(p, job[j].attemptCount, job[j].nextAttemptAt, job[j].deadlineAt)
       /\ job[j].status = "delivering" => job[j].nextAttemptAt <= now
  /\ \A w \in Workers, j \in Jobs :
       task[w][j].pc = "retry" /\ HoldsLock(w, j) =>
         Paced(p, job[j].attemptCount + 1, task[w][j].nextAttemptAt, job[j].deadlineAt)

\* The first half of the invariant, by the steps of the tables.
LEMMA NextJobPaced ==
  ASSUME NEW p \in Int, IInv, PaceInv(p), [Next]_vars, NEW j \in Jobs
  PROVE  /\ job'[j].status \in Pending =>
              Paced(p, job'[j].attemptCount, job'[j].nextAttemptAt, job'[j].deadlineAt)
         /\ job'[j].status = "delivering" => job'[j].nextAttemptAt <= now'
<1> USE TableAssumption, QueueAssumption DEF PaceInv
<1>1. /\ now \in Nat /\ now' \in Nat /\ now <= now'
      /\ job[j] \in JobRow
      /\ job[j].nextAttemptAt \in Int
  BY DeadlineStays DEF IInv, TypeOK, JobRow
<1>2. CASE UNCHANGED tableVars
  BY <1>1, <1>2 DEF tableVars
<1>3. ASSUME NEW w \in Workers, NEW picked \in Batches, LockRows(picked, w), now' = now
      PROVE  /\ job'[j].status \in Pending =>
                  Paced(p, job'[j].attemptCount, job'[j].nextAttemptAt, job'[j].deadlineAt)
             /\ job'[j].status = "delivering" => job'[j].nextAttemptAt <= now'
  <2>1. CASE j \notin picked
    <3>1. job'[j] = job[j]
      BY <1>3, <2>1, LockRowsEffect
    <3> QED
      BY <1>3, <3>1
  <2>2. CASE j \in picked
    <3>1. /\ Due(j) \/ Stale(j)
          /\ job'[j].attemptCount = job[j].attemptCount
          /\ job'[j].deadlineAt = job[j].deadlineAt
      BY <1>3, <2>2, LockRowsEffect
    <3>2. job'[j].nextAttemptAt = job[j].nextAttemptAt
      BY <1>3, LockKeepsSchedule
    <3>3. job[j].status \in Pending /\ job[j].nextAttemptAt <= now
      BY <3>1 DEF Due, Stale, Pending
    <3> QED
      BY <1>3, <3>1, <3>2, <3>3
  <2> QED
    BY <2>1, <2>2
<1>4. ASSUME NEW w \in Workers, NEW k \in Jobs, Enqueue(w, k), now' = now
      PROVE  /\ job'[j].status \in Pending =>
                  Paced(p, job'[j].attemptCount, job'[j].nextAttemptAt, job'[j].deadlineAt)
             /\ job'[j].status = "delivering" => job'[j].nextAttemptAt <= now'
  <2>1. CASE k # j
    <3>1. job'[j] = job[j]
      BY <1>4, <2>1, EnqueueEffect
    <3> QED
      BY <1>4, <3>1
  <2>2. CASE k = j
    <3>1. /\ job'[j].status = "queued"
          /\ job'[j].attemptCount = 0
          /\ job'[j].nextAttemptAt = AppNow(w)
          /\ job'[j].deadlineAt = AppNow(w) + RetryWindow
      BY <1>4, <2>2, EnqueueEffect
    <3>2. AppNow(w) \in Int
      BY <1>1 DEF AppNow
    <3>3. 0 * p = 0
      OBVIOUS
    <3>4. Paced(p, 0, AppNow(w), AppNow(w) + RetryWindow)
      BY <3>2, <3>3 DEF Paced, Earlier
    <3> QED
      BY <3>1, <3>4
  <2> QED
    BY <2>1, <2>2
<1>5. ASSUME NEW w \in Workers, NEW k \in Jobs, RefreshUrl(w, k), now' = now
      PROVE  /\ job'[j].status \in Pending =>
                  Paced(p, job'[j].attemptCount, job'[j].nextAttemptAt, job'[j].deadlineAt)
             /\ job'[j].status = "delivering" => job'[j].nextAttemptAt <= now'
  <2>1. /\ job'[j].status = job[j].status
        /\ job'[j].attemptCount = job[j].attemptCount
        /\ job'[j].nextAttemptAt = job[j].nextAttemptAt
        /\ job'[j].deadlineAt = job[j].deadlineAt
    BY <1>5, RefreshEffect
  <2> QED
    BY <1>5, <2>1
<1>6. ASSUME NEW w \in Workers, NEW k \in Jobs, RecordCommits(w, k), now' = now
      PROVE  /\ job'[j].status \in Pending =>
                  Paced(p, job'[j].attemptCount, job'[j].nextAttemptAt, job'[j].deadlineAt)
             /\ job'[j].status = "delivering" => job'[j].nextAttemptAt <= now'
  <2>1. PICK outcome, status, next : RecordEffect(w, k, outcome, status, next)
    BY <1>6, RecordHasEffect
  <2>2. CASE k # j
    <3>1. job'[j] = job[j]
      BY <2>1, <2>2 DEF RecordEffect
    <3> QED
      BY <1>6, <3>1
  <2>3. CASE k = j
    <3>1. status \in Pending =>
            /\ task[w][j].pc = "retry"
            /\ next = task[w][j].nextAttemptAt
            /\ next \in Int
      BY <2>1, <2>3 DEF RecordEffect, RecordKind, Pending
    <3>2. status # "delivering"
      BY <2>1 DEF RecordEffect, RecordKind
    <3>3. /\ job'[j].status = status
          /\ job'[j].attemptCount = job[j].attemptCount + 1
          /\ job'[j].deadlineAt = job[j].deadlineAt
          /\ next \in Int => job'[j].nextAttemptAt = next
          /\ HoldsLock(w, j)
      BY <2>1, <2>3 DEF RecordEffect
    <3> QED
      BY <3>1, <3>2, <3>3
  <2> QED
    BY <2>2, <2>3
<1> QED
  BY <1>2, <1>3, <1>4, <1>5, <1>6, TableSteps

\* A retry is chosen by a task that holds the lock, after its job was due.
LEMMA RetryIsPaced ==
  ASSUME NEW p \in Int, IInv, PaceInv(p), NEW w \in Workers, NEW j \in Jobs,
         \A d \in Delays : p <= d + Earlier(0, Skew[w]),
         AnswerFailureRetry(w, j), HoldsLock(w, j)
  PROVE  Paced(p, job[j].attemptCount + 1, task'[w][j].nextAttemptAt, job[j].deadlineAt)
<1> USE QueueAssumption
<1>1. /\ now \in Nat
      /\ job[j].attemptCount \in Nat
      /\ job[j].nextAttemptAt \in Int
      /\ job[j].deadlineAt \in Int
      /\ task[w][j] \in TaskState
  BY DEF IInv, TypeOK, JobRow
<1>2. PICK delay \in Delays :
        SetTask(w, j, [task[w][j] EXCEPT
          !.pc = "retry", !.nextAttemptAt = Earlier(AppNow(w) + delay, job[j].deadlineAt)])
  BY DEF AnswerFailureRetry
<1>3. task'[w][j] = [task[w][j] EXCEPT
          !.pc = "retry", !.nextAttemptAt = Earlier(AppNow(w) + delay, job[j].deadlineAt)]
  BY <1>2, SetTaskEffect DEF IInv
<1>4. task'[w][j].nextAttemptAt = Earlier((now + Skew[w]) + delay, job[j].deadlineAt)
  BY <1>1, <1>3 DEF TaskState, AppNow
<1>5. /\ Paced(p, job[j].attemptCount, job[j].nextAttemptAt, job[j].deadlineAt)
      /\ job[j].nextAttemptAt <= now
  BY DEF PaceInv, HoldsLock, Pending
<1>6. delay \in Int /\ Skew[w] \in Int /\ p <= delay + Earlier(0, Skew[w])
  OBVIOUS
<1>7. Paced(p, job[j].attemptCount + 1,
            Earlier((now + Skew[w]) + delay, job[j].deadlineAt), job[j].deadlineAt)
  <2>1. now \in Int
    BY <1>1
  <2> HIDE QueueAssumption
  <2> QED
    BY <1>1, <1>5, <1>6, <2>1, PacedNext, ZenonT(60)
<1> QED
  BY <1>4, <1>7

\* A task that holds the lock after a step, and was to record a retry before it, held
\* it before, and its job's row is as it was.
LEMMA NextTaskPaced ==
  ASSUME NEW p \in Int, IInv, PaceInv(p), [Next]_vars,
         \A d \in Delays, v \in Workers : p <= d + Earlier(0, Skew[v]),
         NEW w \in Workers, NEW j \in Jobs, task'[w][j].pc = "retry", HoldsLock(w, j)'
  PROVE  Paced(p, job'[j].attemptCount + 1, task'[w][j].nextAttemptAt, job'[j].deadlineAt)
<1> USE TableAssumption
<1>1. task[w][j] \in TaskState
  BY DEF IInv, TypeOK
<1>2. \/ AnswerFailureRetry(w, j) /\ UNCHANGED tableVars
      \/ task[w][j].pc = "retry" /\ task'[w][j] = task[w][j]
  <2>1. CASE UNCHANGED task
    BY <2>1
  <2>2. ASSUME NEW v \in Workers, ClaimDueJobs(v) \/ Crash(v)
        PROVE  task'[w][j] = task[w][j]
    BY <2>2 DEF ClaimDueJobs, Crash, ClaimedTask, NoTask, IInv, TypeOK
  <2>3. ASSUME NEW v \in Workers, NEW k \in Jobs, TaskStep(v, k) \/ TaskFails(v, k),
               ~(v = w /\ k = j)
        PROVE  task'[w][j] = task[w][j]
    <3>1. PICK t : SetTask(v, k, t)
      BY <2>3, TaskStepSets
    <3> QED
      BY <2>3, <3>1, SetTaskEffect DEF IInv
  <2>4. ASSUME TaskStep(w, j) \/ TaskFails(w, j), ~AnswerFailureRetry(w, j)
        PROVE  FALSE
    <3>1. ASSUME NEW t, SetTask(w, j, t), t.pc # "retry"
          PROVE  FALSE
      BY <3>1, SetTaskEffect DEF IInv
    <3>2. CASE TaskFails(w, j) \/ RefreshLost(w, j) \/ RecordCommits(w, j) \/ RecordRefused(w, j)
      BY <3>1, <3>2 DEF TaskFails, RefreshLost, RecordCommits, RecordRefused, EndTask, NoTask
    <3>3. CASE BeginExpired(w, j) \/ AnswerFailureFinal(w, j)
      BY <1>1, <3>1, <3>3 DEF BeginExpired, AnswerFailureFinal, TaskState
    <3>4. CASE BeginDelivery(w, j)
      BY <1>1, <3>1, <3>4 DEF BeginDelivery, TaskState
    <3>5. CASE RefreshUrl(w, j) \/ AnswerSuccess(w, j)
      BY <1>1, <3>1, <3>5 DEF RefreshUrl, AnswerSuccess, TaskState
    <3> QED
      BY <2>4, <3>2, <3>3, <3>4, <3>5 DEF TaskStep
  <2>5. AnswerFailureRetry(w, j) => UNCHANGED tableVars
    BY DEF AnswerFailureRetry
  <2> QED
    BY <2>1, <2>2, <2>3, <2>4, <2>5
       DEF Next, vars, Tick, ClaimNothing, ClaimLost, Enqueue
<1>3. CASE AnswerFailureRetry(w, j) /\ UNCHANGED tableVars
  <2>1. HoldsLock(w, j) /\ job' = job
    BY <1>3 DEF HoldsLock, tableVars
  <2> QED
    BY <1>3, <2>1, RetryIsPaced
<1>4. CASE task[w][j].pc = "retry" /\ task'[w][j] = task[w][j]
  <2>1. Running(w, j) /\ Running(w, j)'
    BY <1>4 DEF Running
  <2>2. CASE job'[j].attemptCount = job[j].attemptCount /\ HoldsLock(w, j)
    <3>1. job'[j].deadlineAt = job[j].deadlineAt
      BY <2>2, DeadlineStays DEF HoldsLock
    <3> QED
      BY <1>4, <2>2, <3>1 DEF PaceInv
  <2>3. CASE job'[j] = job[j]
    BY <2>2, <2>3 DEF HoldsLock
  <2>4. ASSUME NEW v \in Workers, NEW picked \in Batches, LockRows(picked, v),
               v = w => \A k \in Jobs : ~Running(w, k)
        PROVE  job'[j] = job[j]
    <3>1. CASE j \in picked
      BY <2>1, <2>4, <3>1, LockRowsEffect DEF HoldsLock
    <3> QED
      BY <2>4, <3>1, LockRowsEffect
  <2>5. ASSUME NEW v \in Workers, ClaimDueJobs(v) \/ ClaimLost(v)
        PROVE  job'[j] = job[j]
    <3>1. /\ v = w => \A k \in Jobs : ~Running(w, k)
          /\ \E picked \in Batches : LockRows(picked, v)
      BY <2>5 DEF ClaimDueJobs, ClaimLost, Idle
    <3> QED
      BY <2>4, <3>1
  <2>6. ASSUME NEW v \in Workers, NEW k \in Jobs, Enqueue(v, k)
        PROVE  job'[j] = job[j]
    <3>1. job[j].status # "absent"
      BY <2>1 DEF IInv, TaskInv
    <3> QED
      BY <2>6, <3>1, EnqueueEffect
  <2>7. ASSUME NEW v \in Workers, NEW k \in Jobs, RefreshUrl(v, k)
        PROVE  job'[j].attemptCount = job[j].attemptCount /\ HoldsLock(w, j)
    BY <2>7, RefreshEffect DEF HoldsLock
  <2>8. ASSUME NEW v \in Workers, NEW k \in Jobs, RecordCommits(v, k)
        PROVE  job'[j] = job[j]
    <3>1. PICK outcome, status, next : RecordEffect(v, k, outcome, status, next)
      BY <2>8, RecordHasEffect
    <3>2. status # "delivering"
      BY <3>1 DEF RecordEffect, RecordKind
    <3> QED
      BY <3>1, <3>2 DEF RecordEffect, HoldsLock
  <2>9. CASE UNCHANGED job
    BY <2>3, <2>9
  <2> QED
    BY <2>2, <2>3, <2>5, <2>6, <2>7, <2>8, <2>9, JobSteps
<1> QED
  BY <1>2, <1>3, <1>4

LEMMA NextPaceInv ==
  ASSUME NEW p \in Int, \A d \in Delays, v \in Workers : p <= d + Earlier(0, Skew[v])
  PROVE  IInv /\ PaceInv(p) /\ [Next]_vars => PaceInv(p)'
<1> SUFFICES ASSUME IInv, PaceInv(p), [Next]_vars
             PROVE  PaceInv(p)'
  OBVIOUS
<1>1. ASSUME NEW j \in Jobs
      PROVE  /\ job'[j].status \in Pending =>
                  Paced(p, job'[j].attemptCount, job'[j].nextAttemptAt, job'[j].deadlineAt)
             /\ job'[j].status = "delivering" => job'[j].nextAttemptAt <= now'
  BY NextJobPaced
<1>2. ASSUME NEW w \in Workers, NEW j \in Jobs, task'[w][j].pc = "retry", HoldsLock(w, j)'
      PROVE  Paced(p, job'[j].attemptCount + 1, task'[w][j].nextAttemptAt, job'[j].deadlineAt)
  BY <1>2, NextTaskPaced
<1> QED
  BY <1>1, <1>2 DEF PaceInv, Paced, Earlier

\* Whatever locks are lost, whoever takes over and whichever clocks are ahead, the
\* n-th retry of a job is n paces after its acceptance or at its deadline
\* (delivery.rs record_failure, db.rs claim_due_jobs).  Its hypothesis, that some
\* pace is the least, is true of every finite set of workers.
THEOREM Backoff ==
  ASSUME \E d \in Delays, w \in Workers : \A e \in Delays, v \in Workers :
           d + Earlier(0, Skew[w]) <= e + Earlier(0, Skew[v])
  PROVE  Spec => []BackoffIsKept
<1> DEFINE paces == {d + Earlier(0, Skew[w]) : d \in Delays, w \in Workers}
<1>1. /\ Pace \in paces
      /\ \A q \in paces : Pace <= q
  <2>1. \E p \in paces : \A q \in paces : p <= q
    OBVIOUS
  <2>2. Pace = CHOOSE p \in paces : \A q \in paces : p <= q
    BY DEF Pace
  <2> HIDE DEF paces
  <2> QED
    BY <2>1, <2>2
<1>2. Pace \in Int
  BY <1>1, QueueAssumption DEF Earlier
<1>3. \A d \in Delays, v \in Workers : Pace <= d + Earlier(0, Skew[v])
  BY <1>1
<1>4. Init => PaceInv(Pace)
  BY DEF Init, TableInit, AbsentJob, NoTask, PaceInv, Pending
<1>5. IInv /\ PaceInv(Pace) /\ [Next]_vars => PaceInv(Pace)'
  BY <1>2, <1>3, NextPaceInv
<1>6. PaceInv(Pace) => BackoffIsKept
  BY DEF PaceInv, Paced, BackoffIsKept
<1> QED
  BY Invariance, <1>4, <1>5, <1>6, PTL DEF Spec

-----------------------------------------------------------------------------

\* The refinement mapping of Ledger, by name.
Phases == [j \in Jobs |-> PhaseOf(job[j].status)]
OutcomeLog ==
  [j \in Jobs |-> [n \in 1 .. job[j].attemptCount |-> AttemptNumbered(j, n).outcome]]
OverdueJobs == {j \in Jobs : Overdue(j)}

LEMMA ChosenRow ==
  ASSUME NEW S, NEW j, NEW n, NEW row \in S, row.job = j, row.number = n,
         \A r, s \in S : r.job = j /\ s.job = j /\ r.number = s.number => r = s
  PROVE  (CHOOSE r \in S : r.job = j /\ r.number = n) = row
<1> DEFINE chosen == CHOOSE r \in S : r.job = j /\ r.number = n
<1>1. chosen \in S /\ chosen.job = j /\ chosen.number = n
  OBVIOUS
<1> QED
  BY <1>1

\* What is in the log stays in it.
LEMMA NumberedStays ==
  ASSUME IInv, IInv', attempts \subseteq attempts', NEW j \in Jobs, NEW n \in Nat,
         1 <= n, n <= job[j].attemptCount
  PROVE  /\ AttemptNumbered(j, n)' = AttemptNumbered(j, n)
         /\ AttemptNumbered(j, n).outcome \in Outcomes
<1>1. PICK row \in attempts : row.job = j /\ row.number = n
  BY DEF IInv, LogInv, AttemptExists
<1>2. AttemptNumbered(j, n) = row
  BY <1>1, ChosenRow DEF AttemptNumbered, IInv, LogInv
<1>3. AttemptNumbered(j, n)' = row
  BY <1>1, ChosenRow DEF AttemptNumbered, IInv, LogInv
<1>4. row.outcome \in Outcomes
  BY <1>1 DEF IInv, TypeOK, AttemptRow
<1> QED
  BY <1>2, <1>3, <1>4

LEMMA SameCountSameLog ==
  ASSUME IInv, IInv', attempts \subseteq attempts', NEW j \in Jobs,
         job'[j].attemptCount = job[j].attemptCount
  PROVE  OutcomeLog'[j] = OutcomeLog[j]
<1>1. job[j].attemptCount \in Nat
  BY DEF IInv, TypeOK, JobRow
<1>2. \A n \in 1 .. job[j].attemptCount : AttemptNumbered(j, n)' = AttemptNumbered(j, n)
  BY <1>1, NumberedStays
<1> QED
  BY <1>2 DEF OutcomeLog

\* One outcome more at the end.
LEMMA OneMore ==
  ASSUME NEW c \in Nat, NEW s \in [1 .. c -> Outcomes], NEW o \in Outcomes,
         NEW t \in [1 .. (c + 1) -> Outcomes],
         \A n \in 1 .. c : t[n] = s[n], t[c + 1] = o
  PROVE  t = Append(s, o)
<1>1. s \in Seq(Outcomes) /\ Len(s) = c
  OBVIOUS
<1>2. t \in Seq(Outcomes) /\ Len(t) = c + 1
  OBVIOUS
<1>3. /\ Append(s, o) \in Seq(Outcomes)
      /\ Len(Append(s, o)) = c + 1
      /\ \A n \in 1 .. c : Append(s, o)[n] = s[n]
      /\ Append(s, o)[c + 1] = o
  BY <1>1, AppendProperties
<1>4. \A n \in 1 .. Len(t) : t[n] = Append(s, o)[n]
  BY <1>2, <1>3
<1> QED
  BY <1>2, <1>3, <1>4, SeqEqual

\* A committed record_* transaction appends its outcome to the log of its job.
LEMMA RecordAppends ==
  ASSUME IInv, IInv', NEW w \in Workers, NEW j \in Jobs, NEW outcome, NEW status, NEW next,
         RecordEffect(w, j, outcome, status, next)
  PROVE  OutcomeLog' = [OutcomeLog EXCEPT ![j] = Append(@, outcome)]
<1>2. PICK count \in Nat : count = job[j].attemptCount
  BY DEF IInv, TypeOK, JobRow
<1> DEFINE row == [job |-> j, number |-> count + 1, outcome |-> outcome, nextAttemptAt |-> next]
<1>1. /\ attempts' = attempts \cup {row}
      /\ job'[j].attemptCount = count + 1
      /\ \A k \in Jobs : k # j => job'[k] = job[k]
      /\ outcome \in Outcomes
  BY <1>2 DEF RecordEffect, RecordKind, Outcomes
<1>3. \A k \in Jobs : k # j => OutcomeLog'[k] = OutcomeLog[k]
  BY <1>1, SameCountSameLog
<1>4. \A n \in 1 .. count :
        /\ AttemptNumbered(j, n)' = AttemptNumbered(j, n)
        /\ AttemptNumbered(j, n).outcome \in Outcomes
  BY <1>1, <1>2, NumberedStays
<1>5. AttemptNumbered(j, count + 1)'.outcome = outcome
  <2>1. row \in attempts' /\ row.job = j /\ row.number = count + 1 /\ row.outcome = outcome
    BY <1>1
  <2>2. \A r, s \in attempts' : r.job = j /\ s.job = j /\ r.number = s.number => r = s
    BY DEF IInv, LogInv
  <2> HIDE DEF row
  <2>3. (CHOOSE r \in attempts' : r.job = j /\ r.number = count + 1) = row
    BY <2>1, <2>2, ChosenRow
  <2> QED
    BY <2>1, <2>3 DEF AttemptNumbered
<1>6. OutcomeLog[j] = [n \in 1 .. count |-> AttemptNumbered(j, n).outcome]
  BY <1>2 DEF OutcomeLog
<1>7. OutcomeLog'[j] = [n \in 1 .. (count + 1) |-> AttemptNumbered(j, n)'.outcome]
  BY <1>1 DEF OutcomeLog
<1> HIDE DEF row
<1>8. OutcomeLog'[j] = Append(OutcomeLog[j], outcome)
  <2>1. OutcomeLog[j] \in [1 .. count -> Outcomes]
    BY <1>4, <1>6
  <2>2. \A n \in 1 .. (count + 1) :
          n \in 1 .. count \/ n = count + 1
    BY <1>2
  <2>3. /\ OutcomeLog'[j] \in [1 .. (count + 1) -> Outcomes]
        /\ \A n \in 1 .. count : OutcomeLog'[j][n] = OutcomeLog[j][n]
        /\ OutcomeLog'[j][count + 1] = outcome
    BY <1>1, <1>2, <1>4, <1>5, <1>6, <1>7, <2>2
  <2> QED
    BY <1>1, <1>2, <2>1, <2>3, OneMore
<1>9. OutcomeLog = [k \in Jobs |-> OutcomeLog[k]] /\ OutcomeLog' = [k \in Jobs |-> OutcomeLog'[k]]
  BY DEF OutcomeLog
<1> QED
  BY <1>3, <1>8, <1>9

\* While no deadline moves, the jobs that are overdue stay so.
LEMMA OverdueStaysSo ==
  ASSUME IInv, [Next]_vars, \A j \in Jobs : job[j].status # "absent" => job'[j].status # "absent"
  PROVE  /\ OverdueJobs \subseteq OverdueJobs'
         /\ \A j \in OverdueJobs' : PhaseOf(job'[j].status) # "absent"
<1>1. ASSUME NEW j \in Jobs, Overdue(j)
      PROVE  Overdue(j)'
  BY <1>1, OverdueStays DEF Overdue
<1> QED
  BY <1>1 DEF OverdueJobs, Overdue, PhaseOf, Pending

\* A step that neither inserts nor records moves no job in the ledger.
LEMMA OthersExpire ==
  ASSUME IInv, IInv', [Next]_vars, attempts' = attempts,
         \A j \in Jobs : /\ job'[j].attemptCount = job[j].attemptCount
                         /\ PhaseOf(job'[j].status) = PhaseOf(job[j].status)
  PROVE  Ledger!Expire
<1>1. \A j \in Jobs : job[j].status # "absent" <=> job'[j].status # "absent"
  BY DEF PhaseOf, Pending
<1>2. /\ OverdueJobs \subseteq OverdueJobs'
      /\ \A j \in OverdueJobs' : j \in Jobs /\ PhaseOf(job[j].status) # "absent"
  <2>1. /\ OverdueJobs \subseteq OverdueJobs'
        /\ \A j \in OverdueJobs' : PhaseOf(job'[j].status) # "absent"
    BY <1>1, OverdueStaysSo
  <2>2. \A j \in OverdueJobs' : j \in Jobs
    BY DEF OverdueJobs
  <2> QED
    BY <2>1, <2>2
<1>3. Phases' = Phases
  BY DEF Phases
<1>4. OutcomeLog' = OutcomeLog
  <2>1. \A j \in Jobs : OutcomeLog'[j] = OutcomeLog[j]
    BY SameCountSameLog
  <2>2. OutcomeLog = [k \in Jobs |-> OutcomeLog[k]] /\ OutcomeLog' = [k \in Jobs |-> OutcomeLog'[k]]
    BY DEF OutcomeLog
  <2> QED
    BY <2>1, <2>2
<1>5. OverdueJobs' \in SUBSET Jobs /\ \A j \in OverdueJobs' : Phases[j] # "absent"
  BY <1>2 DEF OverdueJobs, Phases
<1> QED
  BY <1>2, <1>3, <1>4, <1>5 DEF Ledger!Expire, Phases, OutcomeLog, OverdueJobs

\* An insert accepts the job.
LEMMA EnqueueIsAccept ==
  ASSUME IInv, IInv', NEW w \in Workers, NEW j \in Jobs, Enqueue(w, j)
  PROVE  Ledger!Accept(j)
<1>1. /\ job[j].status = "absent"
      /\ job'[j].status = "queued"
      /\ job'[j].attemptCount = job[j].attemptCount
      /\ \A k \in Jobs : k # j => job'[k] = job[k]
      /\ now' = now
      /\ attempts' = attempts
  BY EnqueueEffect
<1>2. /\ Phases[j] = "absent"
      /\ Phases' = [Phases EXCEPT ![j] = "pending"]
  BY <1>1 DEF Phases, PhaseOf, Pending
<1>3. OutcomeLog' = OutcomeLog
  <2>1. \A k \in Jobs : OutcomeLog'[k] = OutcomeLog[k]
    BY <1>1, SameCountSameLog
  <2>2. OutcomeLog = [k \in Jobs |-> OutcomeLog[k]] /\ OutcomeLog' = [k \in Jobs |-> OutcomeLog'[k]]
    BY DEF OutcomeLog
  <2> QED
    BY <2>1, <2>2
<1>4. OverdueJobs' \in {OverdueJobs, OverdueJobs \cup {j}}
  <2>1. \A k \in Jobs : k # j => (Overdue(k)' <=> Overdue(k))
    BY <1>1 DEF Overdue, AppNow
  <2>2. ~Overdue(j)
    BY <1>1 DEF Overdue
  <2> QED
    BY <2>1, <2>2 DEF OverdueJobs
<1> QED
  BY <1>2, <1>3, <1>4 DEF Ledger!Accept, Ledger!Move, Phases, OutcomeLog, OverdueJobs

\* A committed record_* transaction is the ledger's step of the same outcome.
LEMMA RecordIsLogged ==
  ASSUME IInv, IInv', DeadlineInv, NEW w \in Workers, NEW j \in Jobs, RecordCommits(w, j)
  PROVE  Ledger!Retry(j) \/ Ledger!Succeed(j) \/ Ledger!Fail(j)
<1>1. PICK outcome, status, next : RecordEffect(w, j, outcome, status, next)
  BY RecordHasEffect
<1>2. /\ job[j].status = "delivering"
      /\ job'[j].status = status
      /\ job'[j].deadlineAt = job[j].deadlineAt
      /\ \A k \in Jobs : k # j => job'[k] = job[k]
      /\ now' = now
      /\ RecordKind(task[w][j].pc, outcome, status, next)
  BY <1>1 DEF RecordEffect, HoldsLock, RecordCommits
<1>3. Phases[j] = "pending" /\ Phases' = [Phases EXCEPT ![j] = PhaseOf(status)]
  BY <1>2 DEF Phases, PhaseOf, Pending
<1>4. OutcomeLog' = [OutcomeLog EXCEPT ![j] = Append(@, outcome)]
  BY <1>1, RecordAppends
<1>5. OverdueJobs' = OverdueJobs
  <2>1. \A k \in Jobs : Overdue(k)' <=> Overdue(k)
    BY <1>2 DEF Overdue, AppNow, RecordKind
  <2> QED
    BY <2>1 DEF OverdueJobs
<1>6. task[w][j].pc \in {"final", "expired"} => j \in OverdueJobs
  BY <1>2 DEF DeadlineInv, OverdueJobs, Overdue
<1>7. CASE task[w][j].pc = "retry"
  <2>1. outcome = "failure" /\ PhaseOf(status) = "pending"
    BY <1>2, <1>7 DEF RecordKind, PhaseOf, Pending
  <2> QED
    BY <1>3, <1>4, <1>5, <2>1
       DEF Ledger!Retry, Ledger!Move, Ledger!Log, Phases, OutcomeLog, OverdueJobs
<1>8. CASE task[w][j].pc = "success"
  <2>1. outcome = "2xx" /\ PhaseOf(status) = "succeeded"
    BY <1>2, <1>8 DEF RecordKind, PhaseOf, Pending
  <2> QED
    BY <1>3, <1>4, <1>5, <2>1
       DEF Ledger!Succeed, Ledger!Move, Ledger!Log, Phases, OutcomeLog, OverdueJobs
<1>9. CASE task[w][j].pc \in {"final", "expired"}
  <2>1. outcome \in {"failure", "expired"} /\ PhaseOf(status) = "failed"
    BY <1>2, <1>9 DEF RecordKind, PhaseOf, Pending
  <2> QED
    BY <1>3, <1>4, <1>5, <1>6, <1>9, <2>1
       DEF Ledger!Fail, Ledger!Move, Ledger!Log, Phases, OutcomeLog, OverdueJobs
<1> QED
  BY <1>2, <1>7, <1>8, <1>9 DEF RecordKind

\* Every step of the queue is a step of the ledger or none.
LEMMA NextIsLedger ==
  ASSUME IInv, IInv', DeadlineInv, [Next]_vars
  PROVE  Ledger!Next
<1>1. CASE UNCHANGED tableVars
  <2>1. job' = job /\ attempts' = attempts
    BY <1>1 DEF tableVars
  <2> QED
    BY <2>1, OthersExpire DEF Ledger!Next
<1>2. ASSUME NEW w \in Workers, NEW picked \in Batches, LockRows(picked, w)
      PROVE  Ledger!Next
  <2>1. ASSUME NEW j \in Jobs
        PROVE  /\ job'[j].attemptCount = job[j].attemptCount
               /\ PhaseOf(job'[j].status) = PhaseOf(job[j].status)
    <3>1. CASE j \in picked
      BY <1>2, <3>1, LockRowsEffect DEF Due, Stale, PhaseOf, Pending
    <3> QED
      BY <1>2, <3>1, LockRowsEffect
  <2>2. attempts' = attempts
    BY <1>2 DEF LockRows
  <2> QED
    BY <2>1, <2>2, OthersExpire DEF Ledger!Next
<1>3. ASSUME NEW w \in Workers, NEW j \in Jobs, RefreshUrl(w, j)
      PROVE  Ledger!Next
  <2>1. /\ attempts' = attempts
        /\ \A k \in Jobs : /\ job'[k].attemptCount = job[k].attemptCount
                           /\ PhaseOf(job'[k].status) = PhaseOf(job[k].status)
    BY <1>3, RefreshEffect
  <2> QED
    BY <2>1, OthersExpire DEF Ledger!Next
<1>4. ASSUME NEW w \in Workers, NEW j \in Jobs, Enqueue(w, j) \/ RecordCommits(w, j)
      PROVE  Ledger!Next
  BY <1>4, EnqueueIsAccept, RecordIsLogged DEF Ledger!Next
<1> QED
  BY <1>1, <1>2, <1>3, <1>4, TableSteps

\* The workers with their locks, crashes and takeovers keep a ledger: each attempt is
\* appended once and in order, and only a 2xx or the deadline ends a job (db.rs
\* record_success, record_retry and record_final_failure).
THEOREM ImplementsLedger == Spec => LedgerSpec
<1>1. Init => Ledger!Init
  <2> SUFFICES ASSUME Init PROVE Ledger!Init
    OBVIOUS
  <2>1. \A j \in Jobs : job[j].status = "absent" /\ job[j].attemptCount = 0
    BY DEF Init, TableInit, AbsentJob
  <2>2. Phases = [j \in Jobs |-> "absent"]
    BY <2>1 DEF Phases, PhaseOf, Pending
  <2>3. OutcomeLog = [j \in Jobs |-> <<>>]
    <3>1. ASSUME NEW j \in Jobs
          PROVE  [n \in 1 .. job[j].attemptCount |-> AttemptNumbered(j, n).outcome] = <<>>
      BY <2>1
    <3> QED
      BY <3>1 DEF OutcomeLog
  <2>4. OverdueJobs = {}
    BY <2>1 DEF OverdueJobs, Overdue
  <2> QED
    BY <2>2, <2>3, <2>4 DEF Ledger!Init, Phases, OutcomeLog, OverdueJobs
<1>2. Init => DeadlineInv
  BY DEF Init, TableInit, AbsentJob, NoTask, DeadlineInv, FailedOnlyAfterDeadline
<1>3. IInv /\ IInv' /\ DeadlineInv /\ [Next]_vars => Ledger!Next
  BY NextIsLedger
<1> QED
  BY Invariance, NextDeadlineInv, <1>1, <1>2, <1>3, PTL DEF Spec, LedgerSpec, Ledger!Spec
=============================================================================
