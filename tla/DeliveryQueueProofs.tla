------------------------ MODULE DeliveryQueueProofs ------------------------
(***************************************************************************)
(* Proofs about DeliveryQueue, for every set of jobs and workers, every    *)
(* configuration, clock skew and bound.                                    *)
(***************************************************************************)
EXTENDS DeliveryQueue, TLAPS

(***************************************************************************)
(* The inductive invariant.  TypeOK alone is not inductive: that a new     *)
(* attempt's number is positive, for one, follows from the claim.          *)
(***************************************************************************)

\* A row is locked exactly while it is 'delivering', and was locked in the past.
LockInv ==
  \A j \in Jobs :
    /\ job[j].status = "absent" => job[j].attemptCount = 0
    /\ job[j].status = "delivering" <=> job[j].lockedAt # Null
    /\ job[j].status = "delivering" <=> job[j].lockedBy # Null
    /\ job[j].lockedAt # Null => job[j].lockedAt <= now

\* A running task's job was inserted, and its claim lies in the past.
TaskInv ==
  \A w \in Workers, j \in Jobs :
    Running(w, j) =>
      /\ job[j].status # "absent"
      /\ task[w][j].attempt # 0
      /\ task[w][j].lockedAt <= now

\* A running task that holds the lock is the task of the claim that took it.
ClaimInv ==
  \A w \in Workers, j \in Jobs :
    Running(w, j) /\ HoldsLock(w, j) =>
      /\ task[w][j].lockedAt = job[j].lockedAt
      /\ task[w][j].attempt = job[j].attemptCount + 1
      /\ task[w][j].pc # "refresh" => task[w][j].url = job[j].url

\* AttemptLogMatchesCount, by elements.
LogInv ==
  \A j \in Jobs :
    /\ \A r \in attempts : r.job = j => r.number <= job[j].attemptCount
    /\ \A n \in Nat \ {0} : n <= job[j].attemptCount => AttemptExists(j, n)
    /\ \A r, s \in attempts : r.job = j /\ s.job = j /\ r.number = s.number => r = s

IInv ==
  /\ TypeOK
  /\ LockInv
  /\ TaskInv
  /\ ClaimInv
  /\ LogInv
  /\ LockLostOnlyWhenStale

-----------------------------------------------------------------------------

\* Nothing is locked, running or recorded at the start.
LEMMA InitIInv == Init => IInv
<1> SUFFICES ASSUME Init PROVE IInv
  OBVIOUS
<1> USE TableAssumption, QueueAssumption
    DEF Init, TableInit, AbsentJob, NoTask
<1>1. TypeOK
  BY DEF TypeOK, JobRow, TaskState, TaskPcs, Pending, Terminal
<1>2. LockInv
  BY DEF LockInv
<1>3. TaskInv /\ ClaimInv /\ LockLostOnlyWhenStale
  BY DEF TaskInv, ClaimInv, LockLostOnlyWhenStale, Running
<1>4. LogInv
  BY DEF LogInv
<1> QED
  BY <1>1, <1>2, <1>3, <1>4 DEF IInv

-----------------------------------------------------------------------------

\* Setting one task, element by element.
LEMMA SetTaskEffect ==
  ASSUME TypeOK, NEW w \in Workers, NEW j \in Jobs, NEW t, SetTask(w, j, t)
  PROVE  \A v \in Workers, k \in Jobs :
           task'[v][k] = IF v = w /\ k = j THEN t ELSE task[v][k]
  BY DEF TypeOK, SetTask

\* A step that only moves one running task, or ends it, preserves the invariant if
\* the task keeps its claim and knows the stored URL unless it is to refresh it.
LEMMA LocalStep ==
  ASSUME IInv, NEW w \in Workers, NEW j \in Jobs, NEW t \in TaskState,
         Running(w, j), SetTask(w, j, t),
         \/ t.pc = "none"
         \/ /\ t.attempt = task[w][j].attempt
            /\ t.lockedAt = task[w][j].lockedAt
            /\ HoldsLock(w, j) /\ t.pc # "refresh" => t.url = job[j].url,
         UNCHANGED <<now, tableVars>>,
         up' \subseteq Workers, acked' \subseteq Jobs, faults' \in Nat
  PROVE  IInv'
<1> USE DEF tableVars
<1>1. \A v \in Workers, k \in Jobs :
        task'[v][k] = IF v = w /\ k = j THEN t ELSE task[v][k]
  BY SetTaskEffect DEF IInv
<1>2. TypeOK'
  BY DEF IInv, TypeOK, SetTask
<1>3. LockInv' /\ LogInv'
  BY DEF IInv, LockInv, LogInv, AttemptExists
<1>4. \A v \in Workers, k \in Jobs : HoldsLock(v, k)' <=> HoldsLock(v, k)
  BY DEF HoldsLock
<1>5. TaskInv'
  BY <1>1 DEF IInv, TaskInv, Running
<1>6. ClaimInv'
  BY <1>1, <1>4 DEF IInv, ClaimInv, Running
<1>7. LockLostOnlyWhenStale'
  BY <1>1, <1>4 DEF IInv, LockLostOnlyWhenStale, Running
<1> QED
  BY <1>2, <1>3, <1>5, <1>6, <1>7 DEF IInv

\* Recording the outcome of a running task: the row it updates is the one its claim
\* locked, so the attempt number is the next one and no other task loses anything.
LEMMA RecordStep ==
  ASSUME IInv, NEW w \in Workers, NEW j \in Jobs, Running(w, j),
         NEW outcome \in Outcomes, NEW status \in Terminal \cup {"retrying"},
         NEW next \in Int \cup {Null}, NEW n, n = task[w][j].attempt,
         RecordOutcome(w, j, n, outcome, status, next),
         EndTask(w, j),
         UNCHANGED <<now, up, acked, faults>>
  PROVE  IInv'
<1> USE TableAssumption, QueueAssumption
<1> DEFINE r == [job |-> j, number |-> n, outcome |-> outcome, nextAttemptAt |-> next]
<1>1. /\ HoldsLock(w, j)
      /\ n = job[j].attemptCount + 1
      /\ n \in Nat \ {0}
      /\ job[j].attemptCount \in Nat
  BY DEF RecordOutcome, CanRecord, IInv, ClaimInv, TypeOK, JobRow
<1>2. /\ attempts' = attempts \cup {r}
      /\ r \in AttemptRow
  BY <1>1 DEF RecordOutcome, AttemptRow
<1>3. \A k \in Jobs : k # j => job'[k] = job[k]
  BY DEF RecordOutcome, IInv, TypeOK
<1>3a. job'[j] = [job[j] EXCEPT !.status = status, !.attemptCount = n,
                                  !.nextAttemptAt = IF next = Null THEN job[j].nextAttemptAt ELSE next,
                                  !.lockedAt = Null, !.lockedBy = Null]
  BY DEF RecordOutcome, IInv, TypeOK
<1>4. \A v \in Workers, k \in Jobs :
        task'[v][k] = IF v = w /\ k = j THEN NoTask ELSE task[v][k]
  BY SetTaskEffect DEF EndTask, IInv
<1>5. /\ job'[j] \in JobRow
      /\ job'[j].status = status
      /\ job'[j].attemptCount = n
      /\ job'[j].lockedAt = Null
      /\ job'[j].lockedBy = Null
  <2>1. job[j] \in JobRow
    BY DEF IInv, TypeOK
  <2>2. status \in {"absent"} \cup Pending \cup Terminal
    BY DEF Pending
  <2> QED
    BY <1>1, <1>3a, <2>1, <2>2 DEF JobRow
<1>6. TypeOK'
  <2>1. job' \in [Jobs -> JobRow]
    <3>1. \A k \in Jobs : job'[k] \in JobRow
      BY <1>3, <1>5 DEF IInv, TypeOK
    <3> QED
      BY <3>1 DEF RecordOutcome, IInv, TypeOK
  <2>2. attempts' \subseteq AttemptRow
    BY <1>2 DEF IInv, TypeOK
  <2>3. task' \in [Workers -> [Jobs -> TaskState]]
    BY DEF IInv, TypeOK, EndTask, SetTask, NoTask, TaskState, TaskPcs
  <2> QED
    BY <2>1, <2>2, <2>3 DEF IInv, TypeOK
<1>7. LockInv'
  BY <1>1, <1>3, <1>5 DEF IInv, LockInv, Terminal
<1>8. TaskInv'
  BY <1>3, <1>4, <1>5 DEF IInv, TaskInv, Running, NoTask, Terminal
<1>9. \A v \in Workers, k \in Jobs :
        k # j => (HoldsLock(v, k)' <=> HoldsLock(v, k))
  BY <1>3 DEF HoldsLock
<1>10. ClaimInv'
  BY <1>3, <1>4, <1>5, <1>9 DEF IInv, ClaimInv, Running, NoTask, HoldsLock, Terminal
<1>11. LogInv'
  <2>1. \A s \in attempts : s.job = j => s.number # n
    BY <1>1 DEF IInv, LogInv, TypeOK, AttemptRow
  <2> SUFFICES ASSUME NEW k \in Jobs
               PROVE  /\ \A s \in attempts' : s.job = k => s.number <= job'[k].attemptCount
                      /\ \A m \in Nat \ {0} :
                           m <= job'[k].attemptCount => AttemptExists(k, m)'
                      /\ \A s, u \in attempts' :
                           s.job = k /\ u.job = k /\ s.number = u.number => s = u
    BY DEF LogInv
  <2>2. \A s \in attempts : s.number \in Nat
    BY DEF IInv, TypeOK, AttemptRow
  <2>3. \A s \in attempts' : s.job = k => s.number <= job'[k].attemptCount
    BY <1>1, <1>2, <1>3, <1>5, <2>2 DEF IInv, LogInv
  <2>4. \A m \in Nat \ {0} : m <= job'[k].attemptCount => AttemptExists(k, m)'
    <3> SUFFICES ASSUME NEW m \in Nat \ {0}, m <= job'[k].attemptCount
                 PROVE  \E s \in attempts' : s.job = k /\ s.number = m
      BY DEF AttemptExists
    <3>1. m <= job[k].attemptCount => \E s \in attempts : s.job = k /\ s.number = m
      BY DEF IInv, LogInv, AttemptExists
    <3>2. CASE k = j /\ m = n
      <4>1. r \in attempts' /\ r.job = j /\ r.number = n
        BY <1>2
      <4> QED
        BY <3>2, <4>1
    <3>3. CASE k = j /\ m # n
      <4>1. m <= job[k].attemptCount
        <5>1. /\ job'[k].attemptCount = n /\ n = job[k].attemptCount + 1 /\ m # n
              /\ job[k].attemptCount \in Nat /\ m \in Nat
          BY <1>1, <1>5, <3>3
        <5> QED
          BY ONLY <5>1, m <= job'[k].attemptCount
      <4>2. PICK s \in attempts : s.job = k /\ s.number = m
        BY <3>1, <4>1
      <4> QED
        BY <1>2, <4>2
    <3>4. CASE k # j
      BY <1>2, <1>3, <3>1, <3>4
    <3> QED
      BY <3>2, <3>3, <3>4
  <2>5. \A s, u \in attempts' : s.job = k /\ u.job = k /\ s.number = u.number => s = u
    BY <1>2, <2>1 DEF IInv, LogInv
  <2> QED
    BY <2>3, <2>4, <2>5
<1>12. LockLostOnlyWhenStale'
  <2>1. \A v \in Workers : Running(v, j)' => ~HoldsLock(v, j)
    BY <1>1, <1>4 DEF HoldsLock, Running, NoTask
  <2> QED
    BY <1>3, <1>4, <1>9, <2>1 DEF IInv, LockLostOnlyWhenStale, Running, NoTask
<1> QED
  BY <1>6, <1>7, <1>8, <1>10, <1>11, <1>12 DEF IInv

\* What claim_due_jobs does to a row it picks, and to the others.
LEMMA LockRowsEffect ==
  ASSUME IInv, NEW w \in Workers, NEW picked \in Batches,
         LockRows(picked, w)
  PROVE  /\ \A j \in Jobs \ picked : job'[j] = job[j]
         /\ \A j \in picked :
              /\ j \in Jobs
              /\ Due(j) \/ Stale(j)
              /\ job'[j].status = "delivering"
              /\ job'[j].lockedAt = now
              /\ job'[j].lockedBy = w
              /\ job'[j].attemptCount = job[j].attemptCount
              /\ job'[j].url = job[j].url
              /\ job'[j].deadlineAt = job[j].deadlineAt
         /\ job' \in [Jobs -> JobRow]
<1>1. \A j \in picked : j \in Jobs /\ (Due(j) \/ Stale(j))
  BY DEF Batches, Picks
<1>2. \A j \in Jobs : job[j] \in JobRow
  BY DEF IInv, TypeOK
<1>3. now \in Nat
  BY DEF IInv, TypeOK
<1>4. \A j \in Jobs \ picked : job'[j] = job[j]
  BY DEF LockRows
<1>5. \A j \in picked :
        job'[j] = [job[j] EXCEPT !.status = "delivering", !.lockedAt = now, !.lockedBy = w]
  BY <1>1 DEF LockRows
<1>6. \A j \in picked : job'[j] \in JobRow
  <2>1. ASSUME NEW row \in JobRow
        PROVE  [row EXCEPT !.status = "delivering", !.lockedAt = now, !.lockedBy = w] \in JobRow
    BY <1>3 DEF JobRow, Pending
  <2>2. ASSUME NEW j \in picked
        PROVE  job'[j] \in JobRow
    <3>1. job[j] \in JobRow
      BY <1>1, <1>2
    <3> QED
      BY <2>1, <3>1, <1>5
  <2> QED
    BY <2>2
<1>7. job' \in [Jobs -> JobRow]
  <2>1. \A j \in Jobs : job'[j] \in JobRow
    BY <1>2, <1>4, <1>6
  <2> QED
    BY <2>1 DEF LockRows
<1>8. ASSUME NEW j \in picked
      PROVE  /\ job'[j].status = "delivering"
             /\ job'[j].lockedAt = now
             /\ job'[j].lockedBy = w
             /\ job'[j].attemptCount = job[j].attemptCount
             /\ job'[j].url = job[j].url
             /\ job'[j].deadlineAt = job[j].deadlineAt
  <2>1. ASSUME NEW row \in JobRow, NEW r,
               r = [row EXCEPT !.status = "delivering", !.lockedAt = now, !.lockedBy = w]
        PROVE  /\ r.status = "delivering" /\ r.lockedAt = now /\ r.lockedBy = w
               /\ r.attemptCount = row.attemptCount
               /\ r.url = row.url
               /\ r.deadlineAt = row.deadlineAt
    BY <2>1 DEF JobRow
  <2>2. job[j] \in JobRow /\ job'[j] = [job[j] EXCEPT !.status = "delivering", !.lockedAt = now, !.lockedBy = w]
    BY <1>1, <1>2, <1>5, <1>8
  <2> QED
    BY <2>1, <2>2
<1> QED
  BY <1>1, <1>4, <1>7, <1>8

\* The claim of an idle worker: the tasks it starts are those of the rows it locks,
\* and a task that loses its row has held it for longer than the stale-lock time.
LEMMA ClaimStep ==
  ASSUME IInv, NEW w \in Workers, Idle(w), NEW picked \in Batches, LockRows(picked, w),
         task' \in [Workers -> [Jobs -> TaskState]],
         \A v \in Workers, k \in Jobs : v # w => task'[v][k] = task[v][k],
         \A k \in Jobs :
           \/ task'[w][k].pc = "none"
           \/ /\ k \in picked
              /\ task'[w][k].attempt = job[k].attemptCount + 1
              /\ task'[w][k].url = job[k].url
              /\ task'[w][k].lockedAt = now,
         UNCHANGED <<now, up, acked>>, faults' \in Nat
  PROVE  IInv'
<1> USE TableAssumption
<1>1. /\ \A j \in Jobs \ picked : job'[j] = job[j]
      /\ \A j \in picked :
           /\ j \in Jobs
           /\ Due(j) \/ Stale(j)
           /\ job'[j].status = "delivering"
           /\ job'[j].lockedAt = now
           /\ job'[j].lockedBy = w
           /\ job'[j].attemptCount = job[j].attemptCount
           /\ job'[j].url = job[j].url
           /\ job'[j].deadlineAt = job[j].deadlineAt
      /\ job' \in [Jobs -> JobRow]
  BY LockRowsEffect
<1>2. attempts' = attempts /\ now' = now /\ now \in Nat
  BY DEF LockRows, IInv, TypeOK
<1>3. TypeOK'
  BY <1>1, <1>2 DEF IInv, TypeOK
<1>4. \A j \in Jobs : job[j].attemptCount \in Nat
  BY DEF IInv, TypeOK, JobRow
<1>5. LockInv'
  BY <1>1, <1>2 DEF IInv, LockInv
<1>6. TaskInv'
  <2> SUFFICES ASSUME NEW v \in Workers, NEW j \in Jobs, Running(v, j)'
               PROVE  /\ job'[j].status # "absent"
                      /\ task'[v][j].attempt # 0
                      /\ task'[v][j].lockedAt <= now'
    BY DEF TaskInv
  <2>1. CASE v = w
    BY <1>1, <1>2, <1>4, <2>1 DEF Running
  <2>2. CASE v # w
    BY <1>1, <1>2, <2>2 DEF IInv, TaskInv, Running
  <2> QED
    BY <2>1, <2>2
<1>7. \A v \in Workers, j \in Jobs :
        v # w => (HoldsLock(v, j)' <=> HoldsLock(v, j) /\ j \notin picked)
  BY <1>1 DEF HoldsLock
<1>8. \A j \in picked : HoldsLock(w, j)'
  BY <1>1 DEF HoldsLock
<1>9. ClaimInv'
  <2> SUFFICES ASSUME NEW v \in Workers, NEW j \in Jobs, Running(v, j)', HoldsLock(v, j)'
               PROVE  /\ task'[v][j].lockedAt = job'[j].lockedAt
                      /\ task'[v][j].attempt = job'[j].attemptCount + 1
                      /\ task'[v][j].pc # "refresh" => task'[v][j].url = job'[j].url
    BY DEF ClaimInv
  <2>1. CASE v = w
    BY <1>1, <2>1 DEF Running
  <2>2. CASE v # w
    BY <1>1, <1>7, <2>2 DEF IInv, ClaimInv, Running
  <2> QED
    BY <2>1, <2>2
<1>10. LogInv'
  BY <1>1, <1>2 DEF IInv, LogInv, AttemptExists
<1>11. LockLostOnlyWhenStale'
  <2> SUFFICES ASSUME NEW v \in Workers, NEW j \in Jobs, Running(v, j)', ~HoldsLock(v, j)'
               PROVE  task'[v][j].lockedAt + StaleLock < now'
    BY DEF LockLostOnlyWhenStale
  <2>1. v # w
    BY <1>8 DEF Running
  <2>2. Running(v, j) /\ task'[v][j] = task[v][j]
    BY <2>1 DEF Running
  <2>3. CASE ~HoldsLock(v, j)
    BY <1>2, <2>2, <2>3 DEF IInv, LockLostOnlyWhenStale
  <2>4. CASE HoldsLock(v, j)
    <3>1. j \in picked
      BY <1>7, <2>1, <2>4
    <3>2. Stale(j)
      BY <1>1, <2>4, <3>1 DEF Due, HoldsLock
    <3>3. task[v][j].lockedAt = job[j].lockedAt
      BY <2>2, <2>4 DEF IInv, ClaimInv
    <3>4. task[v][j].lockedAt \in Nat
      BY DEF IInv, TypeOK, TaskState
    <3> QED
      BY <1>2, <2>2, <3>2, <3>3, <3>4 DEF Stale
  <2> QED
    BY <2>3, <2>4
<1> QED
  BY <1>3, <1>5, <1>6, <1>9, <1>10, <1>11 DEF IInv

\* A new row is unlocked, without attempts, and no task runs for it.
LEMMA EnqueueStep ==
  ASSUME IInv, NEW w \in Workers, NEW j \in Jobs, Enqueue(w, j)
  PROVE  IInv'
<1> USE TableAssumption, QueueAssumption
<1>1. /\ job[j].status = "absent"
      /\ \A k \in Jobs : k # j => job'[k] = job[k]
      /\ UNCHANGED <<now, attempts, up, task, acked, faults>>
  BY DEF Enqueue, InsertJob, IInv, TypeOK
<1>2. AppNow(w) \in Int /\ ConfigUrl[w][j] \in Urls
  BY DEF Enqueue, AppNow, IInv, TypeOK
<1>3. /\ job'[j] \in JobRow
      /\ job'[j].status = "queued"
      /\ job'[j].attemptCount = 0
      /\ job'[j].lockedAt = Null
      /\ job'[j].lockedBy = Null
  <2>1. job'[j] = [AbsentJob EXCEPT !.status = "queued", !.url = ConfigUrl[w][j],
                                    !.nextAttemptAt = AppNow(w),
                                    !.deadlineAt = AppNow(w) + RetryWindow]
    BY DEF Enqueue, InsertJob, IInv, TypeOK
  <2>2. AbsentJob \in JobRow
    BY DEF AbsentJob, JobRow
  <2>3. AppNow(w) + RetryWindow \in Int
    BY <1>2
  <2> QED
    BY <1>2, <2>1, <2>2, <2>3 DEF JobRow, AbsentJob, Pending
<1>4. TypeOK'
  <2>1. \A k \in Jobs : job'[k] \in JobRow
    BY <1>1, <1>3 DEF IInv, TypeOK
  <2>2. job' \in [Jobs -> JobRow]
    BY <2>1 DEF Enqueue, InsertJob, IInv, TypeOK
  <2> QED
    BY <1>1, <2>2 DEF IInv, TypeOK
<1>5. job[j].attemptCount = 0
  BY <1>1 DEF IInv, LockInv
<1>6. \A v \in Workers : ~Running(v, j)
  BY <1>1 DEF IInv, TaskInv
<1>7. LockInv'
  BY <1>1, <1>3 DEF IInv, LockInv
<1>8. TaskInv'
  BY <1>1, <1>6 DEF IInv, TaskInv, Running
<1>9. \A v \in Workers, k \in Jobs : k # j => (HoldsLock(v, k)' <=> HoldsLock(v, k))
  BY <1>1 DEF HoldsLock
<1>10. ClaimInv' /\ LockLostOnlyWhenStale'
  BY <1>1, <1>6, <1>9 DEF IInv, ClaimInv, LockLostOnlyWhenStale, Running
<1>11. LogInv'
  BY <1>1, <1>3, <1>5 DEF IInv, LogInv, AttemptExists
<1> QED
  BY <1>4, <1>7, <1>8, <1>10, <1>11 DEF IInv

\* The refresh of the stored URL leaves lock, count and log alone.
LEMMA RefreshStep ==
  ASSUME IInv, NEW w \in Workers, NEW j \in Jobs, RefreshUrl(w, j)
  PROVE  IInv'
<1> DEFINE t == [task[w][j] EXCEPT !.pc = "posting"]
<1>1. /\ HoldsLock(w, j)
      /\ task[w][j].pc = "refresh"
      /\ task[w][j] \in TaskState
      /\ job[j] \in JobRow
      /\ UNCHANGED <<now, attempts, up, acked, faults>>
  BY DEF RefreshUrl, SetDestinationUrl, IInv, TypeOK
<1>2. \A v \in Workers, k \in Jobs :
        task'[v][k] = IF v = w /\ k = j THEN t ELSE task[v][k]
  BY SetTaskEffect DEF RefreshUrl, IInv
<1>3. \A k \in Jobs :
        job'[k] = IF k = j THEN [job[j] EXCEPT !.url = task[w][j].url] ELSE job[k]
  BY DEF RefreshUrl, SetDestinationUrl, IInv, TypeOK
<1>4. /\ t \in TaskState
      /\ t.pc = "posting"
      /\ t.url = task[w][j].url
      /\ t.attempt = task[w][j].attempt
      /\ t.lockedAt = task[w][j].lockedAt
  BY <1>1 DEF TaskState, TaskPcs
<1>5. /\ job'[j] \in JobRow
      /\ job'[j].url = task[w][j].url
      /\ job'[j].status = job[j].status
      /\ job'[j].attemptCount = job[j].attemptCount
      /\ job'[j].lockedAt = job[j].lockedAt
      /\ job'[j].lockedBy = job[j].lockedBy
  BY <1>1, <1>3 DEF JobRow, TaskState
<1>6. TypeOK'
  <2>1. \A k \in Jobs : job'[k] \in JobRow
    BY <1>3, <1>5 DEF IInv, TypeOK
  <2>2. job' \in [Jobs -> JobRow]
    BY <2>1 DEF RefreshUrl, SetDestinationUrl, IInv, TypeOK
  <2>3. task' \in [Workers -> [Jobs -> TaskState]]
    BY <1>4 DEF RefreshUrl, SetTask, IInv, TypeOK
  <2> QED
    BY <1>1, <2>2, <2>3 DEF IInv, TypeOK
<1>7. \A k \in Jobs :
        /\ job'[k].status = job[k].status
        /\ job'[k].attemptCount = job[k].attemptCount
        /\ job'[k].lockedAt = job[k].lockedAt
        /\ job'[k].lockedBy = job[k].lockedBy
        /\ k # j => job'[k].url = job[k].url
  BY <1>3, <1>5
<1>8. LockInv' /\ LogInv'
  BY <1>1, <1>7 DEF IInv, LockInv, LogInv, AttemptExists
<1>9. \A v \in Workers, k \in Jobs : HoldsLock(v, k)' <=> HoldsLock(v, k)
  BY <1>7 DEF HoldsLock
<1>10. \A v \in Workers, k \in Jobs :
         /\ Running(v, k)' <=> Running(v, k)
         /\ task'[v][k].lockedAt = task[v][k].lockedAt
         /\ task'[v][k].attempt = task[v][k].attempt
  BY <1>1, <1>2, <1>4 DEF Running
<1>11. TaskInv' /\ LockLostOnlyWhenStale'
  BY <1>1, <1>7, <1>9, <1>10 DEF IInv, TaskInv, LockLostOnlyWhenStale
<1>12. ClaimInv'
  <2>1. \A v \in Workers : HoldsLock(v, j) => v = w
    BY <1>1 DEF HoldsLock
  <2>2. \A v \in Workers, k \in Jobs :
          Running(v, k)' /\ HoldsLock(v, k)' /\ task'[v][k].pc # "refresh"
            => task'[v][k].url = job'[k].url
    <3> SUFFICES ASSUME NEW v \in Workers, NEW k \in Jobs,
                        Running(v, k)', HoldsLock(v, k)', task'[v][k].pc # "refresh"
                 PROVE  task'[v][k].url = job'[k].url
      OBVIOUS
    <3>1. CASE k = j
      BY <1>2, <1>4, <1>5, <1>9, <2>1, <3>1
    <3>2. CASE k # j
      BY <1>2, <1>7, <1>9, <1>10, <3>2 DEF IInv, ClaimInv
    <3> QED
      BY <3>1, <3>2
  <2> QED
    BY <1>7, <1>9, <1>10, <2>2 DEF IInv, ClaimInv
<1> QED
  BY <1>6, <1>8, <1>11, <1>12 DEF IInv

\* A crash ends tasks and leaves the tables alone.
LEMMA CrashStep ==
  ASSUME IInv, NEW w \in Workers, Crash(w)
  PROVE  IInv'
<1> USE DEF tableVars
<1>1. /\ UNCHANGED <<now, job, attempts, acked>>
      /\ up' \subseteq Workers
      /\ faults' \in Nat
  BY DEF Crash, Fault, IInv, TypeOK
<1>2. task' \in [Workers -> [Jobs -> TaskState]]
  BY QueueAssumption, TableAssumption
     DEF Crash, IInv, TypeOK, NoTask, TaskState, TaskPcs
<1>3. \A v \in Workers, k \in Jobs :
        Running(v, k)' => Running(v, k) /\ task'[v][k] = task[v][k]
  BY DEF Crash, IInv, TypeOK, Running, NoTask
<1>4. TypeOK' /\ LockInv' /\ LogInv'
  BY <1>1, <1>2 DEF IInv, TypeOK, LockInv, LogInv, AttemptExists
<1>5. \A v \in Workers, k \in Jobs : HoldsLock(v, k)' <=> HoldsLock(v, k)
  BY <1>1 DEF HoldsLock
<1>6. TaskInv' /\ ClaimInv' /\ LockLostOnlyWhenStale'
  BY <1>1, <1>3, <1>5 DEF IInv, TaskInv, ClaimInv, LockLostOnlyWhenStale
<1> QED
  BY <1>4, <1>6 DEF IInv

\* Time only makes what was older older still.
LEMMA TickStep ==
  ASSUME IInv, Tick
  PROVE  IInv'
<1> USE DEF tableVars
<1>1. /\ UNCHANGED <<job, attempts, up, task, acked, faults>>
      /\ now \in Nat
      /\ now' = now + 1
  BY DEF Tick, IInv, TypeOK
<1>2. TypeOK'
  BY <1>1 DEF IInv, TypeOK
<1>3. LockInv'
  BY <1>1, TableAssumption DEF IInv, LockInv, TypeOK, JobRow
<1>4. \A v \in Workers, k \in Jobs :
        /\ HoldsLock(v, k)' <=> HoldsLock(v, k)
        /\ Running(v, k)' <=> Running(v, k)
        /\ task[v][k].lockedAt \in Nat
  BY <1>1 DEF HoldsLock, Running, IInv, TypeOK, TaskState
<1>5. TaskInv' /\ ClaimInv' /\ LockLostOnlyWhenStale'
  BY <1>1, <1>4, TableAssumption DEF IInv, TaskInv, ClaimInv, LockLostOnlyWhenStale
<1>6. LogInv'
  BY <1>1 DEF IInv, LogInv, AttemptExists
<1> QED
  BY <1>2, <1>3, <1>5, <1>6 DEF IInv

-----------------------------------------------------------------------------

\* One step of a task, action by action.
LEMMA TaskStepIInv ==
  ASSUME IInv, NEW w \in Workers, NEW j \in Jobs, TaskStep(w, j)
  PROVE  IInv'
<1> USE TableAssumption, QueueAssumption
<1>1. /\ task[w][j] \in TaskState
      /\ job[j] \in JobRow
      /\ up \subseteq Workers /\ acked \subseteq Jobs /\ faults \in Nat
  BY DEF IInv, TypeOK
<1>2. NoTask \in TaskState /\ NoTask.pc = "none"
  BY DEF NoTask, TaskState, TaskPcs
<1>3. Running(w, j) /\ HoldsLock(w, j) /\ task[w][j].pc # "refresh"
        => task[w][j].url = job[j].url
  BY DEF IInv, ClaimInv
<1>4. CASE BeginExpired(w, j)
  <2> DEFINE t == [task[w][j] EXCEPT !.pc = "expired"]
  <2>1. /\ t \in TaskState
        /\ t.attempt = task[w][j].attempt
        /\ t.lockedAt = task[w][j].lockedAt
        /\ t.url = task[w][j].url
    BY <1>1 DEF TaskState, TaskPcs, DbPcs, RecordPcs
  <2>2. Running(w, j) /\ task[w][j].pc # "refresh"
    BY <1>4 DEF BeginExpired, Running
  <2> HIDE DEF t
  <2>3. SetTask(w, j, t)
    BY <1>4 DEF BeginExpired, t
  <2> QED
    BY <1>1, <1>3, <1>4, <2>1, <2>2, <2>3, LocalStep DEF BeginExpired
<1>5. CASE BeginDelivery(w, j)
  <2> DEFINE url == ResolveUrl(w, j)
             t == [task[w][j] EXCEPT
                     !.pc = IF url = task[w][j].url THEN "posting" ELSE "refresh",
                     !.url = url]
  <2>1. url \in Urls \cup {Null}
    BY <1>1 DEF ResolveUrl, TaskState
  <2>2. /\ t \in TaskState
        /\ t.attempt = task[w][j].attempt
        /\ t.lockedAt = task[w][j].lockedAt
        /\ t.pc # "refresh" => t.url = task[w][j].url
    BY <1>1, <2>1 DEF TaskState, TaskPcs, DbPcs
  <2>3. Running(w, j) /\ task[w][j].pc # "refresh"
    BY <1>5 DEF BeginDelivery, Running
  <2> HIDE DEF t
  <2>4. SetTask(w, j, t)
    BY <1>5 DEF BeginDelivery, t
  <2> QED
    BY <1>1, <1>3, <1>5, <2>2, <2>3, <2>4, LocalStep DEF BeginDelivery
<1>6. CASE RefreshUrl(w, j)
  BY <1>6, RefreshStep
<1>7. CASE RefreshLost(w, j)
  <2>1. Running(w, j)
    BY <1>7 DEF RefreshLost, Running
  <2> QED
    BY <1>1, <1>2, <1>7, <2>1, LocalStep DEF RefreshLost, EndTask
<1>8. CASE AnswerSuccess(w, j)
  <2> DEFINE t == [task[w][j] EXCEPT !.pc = "success"]
  <2>1. /\ t \in TaskState
        /\ t.attempt = task[w][j].attempt
        /\ t.lockedAt = task[w][j].lockedAt
        /\ t.url = task[w][j].url
    BY <1>1 DEF TaskState, TaskPcs, DbPcs, RecordPcs
  <2>2. Running(w, j) /\ task[w][j].pc # "refresh"
    BY <1>8 DEF AnswerSuccess, Running
  <2> HIDE DEF t
  <2>3. SetTask(w, j, t)
    BY <1>8 DEF AnswerSuccess, t
  <2>4. acked' \subseteq Jobs
    BY <1>1, <1>8 DEF AnswerSuccess
  <2> QED
    BY <1>1, <1>3, <1>8, <2>1, <2>2, <2>3, <2>4, LocalStep DEF AnswerSuccess
<1>9. CASE AnswerFailureFinal(w, j)
  <2> DEFINE t == [task[w][j] EXCEPT !.pc = "final"]
  <2>1. /\ t \in TaskState
        /\ t.attempt = task[w][j].attempt
        /\ t.lockedAt = task[w][j].lockedAt
        /\ t.url = task[w][j].url
    BY <1>1 DEF TaskState, TaskPcs, DbPcs, RecordPcs
  <2>2. Running(w, j) /\ task[w][j].pc # "refresh"
    BY <1>9 DEF AnswerFailureFinal, Running
  <2> HIDE DEF t
  <2>3. SetTask(w, j, t)
    BY <1>9 DEF AnswerFailureFinal, t
  <2> QED
    BY <1>1, <1>3, <1>9, <2>1, <2>2, <2>3, LocalStep DEF AnswerFailureFinal
<1>10. CASE AnswerFailureRetry(w, j)
  <2> PICK delay \in Delays :
        SetTask(w, j, [task[w][j] EXCEPT
          !.pc = "retry",
          !.nextAttemptAt = Earlier(AppNow(w) + delay, job[j].deadlineAt)])
    BY <1>10 DEF AnswerFailureRetry
  <2> DEFINE next == Earlier(AppNow(w) + delay, job[j].deadlineAt)
             t == [task[w][j] EXCEPT !.pc = "retry", !.nextAttemptAt = next]
  <2>1. next \in Int
    BY <1>1 DEF Earlier, AppNow, JobRow, IInv, TypeOK
  <2>2. /\ t \in TaskState
        /\ t.attempt = task[w][j].attempt
        /\ t.lockedAt = task[w][j].lockedAt
        /\ t.url = task[w][j].url
    BY <1>1, <2>1 DEF TaskState, TaskPcs, DbPcs, RecordPcs
  <2>3. Running(w, j) /\ task[w][j].pc # "refresh"
    BY <1>10 DEF AnswerFailureRetry, Running
  <2>4. SetTask(w, j, t)
    OBVIOUS
  <2> HIDE DEF t
  <2> QED
    BY <1>1, <1>3, <1>10, <2>2, <2>3, <2>4, LocalStep DEF AnswerFailureRetry
<1>11. CASE RecordCommits(w, j)
  <2>1. Running(w, j)
    BY <1>11 DEF RecordCommits, Running
  <2>2. task[w][j].nextAttemptAt \in Int
    BY <1>1 DEF TaskState
  <2>3. /\ EndTask(w, j)
        /\ UNCHANGED <<now, up, acked, faults>>
    BY <1>11 DEF RecordCommits
  <2>4. PICK outcome \in Outcomes, status \in Terminal \cup {"retrying"},
             next \in Int \cup {Null} :
          RecordOutcome(w, j, task[w][j].attempt, outcome, status, next)
    BY <1>11, <2>2
       DEF RecordCommits, RecordSuccess, RecordRetry, RecordFinalFailure, Outcomes, Terminal
  <2> QED
    BY <2>1, <2>3, <2>4, RecordStep
<1>12. CASE RecordRefused(w, j)
  <2>1. Running(w, j)
    BY <1>12 DEF RecordRefused, Running, RecordPcs
  <2> QED
    BY <1>1, <1>2, <1>12, <2>1, LocalStep DEF RecordRefused, EndTask
<1> QED
  BY <1>4, <1>5, <1>6, <1>7, <1>8, <1>9, <1>10, <1>11, <1>12 DEF TaskStep

\* Every step preserves the invariant.
LEMMA NextIInv == IInv /\ [Next]_vars => IInv'
<1> SUFFICES ASSUME IInv, [Next]_vars PROVE IInv'
  OBVIOUS
<1> USE TableAssumption, QueueAssumption
<1>1. /\ task \in [Workers -> [Jobs -> TaskState]]
      /\ up \subseteq Workers /\ acked \subseteq Jobs
      /\ now \in Nat /\ faults \in Nat
  BY DEF IInv, TypeOK
<1>2. NoTask \in TaskState /\ NoTask.pc = "none"
  BY DEF NoTask, TaskState, TaskPcs
<1>3. CASE UNCHANGED vars
  BY <1>3 DEF vars, IInv, TypeOK, LockInv, TaskInv, ClaimInv, LogInv,
              LockLostOnlyWhenStale, Running, HoldsLock, AttemptExists
<1>4. CASE Tick
  BY <1>4, TickStep
<1>5. ASSUME NEW w \in Workers, ClaimDueJobs(w)
      PROVE  IInv'
  <2> PICK picked \in Batches :
        /\ LockRows(picked, w)
        /\ task' = [task EXCEPT ![w] =
                      [j \in Jobs |-> IF j \in picked THEN ClaimedTask(j) ELSE NoTask]]
    BY <1>5 DEF ClaimDueJobs
  <2>1. Idle(w) /\ UNCHANGED <<now, up, acked, faults>>
    BY <1>5 DEF ClaimDueJobs
  <2>2. ASSUME NEW j \in Jobs
        PROVE  /\ ClaimedTask(j) \in TaskState
               /\ ClaimedTask(j).attempt = job[j].attemptCount + 1
               /\ ClaimedTask(j).url = job[j].url
               /\ ClaimedTask(j).lockedAt = now
    <3>1. job[j].attemptCount \in Nat /\ job[j].url \in Urls \cup {Null}
      BY DEF IInv, TypeOK, JobRow
    <3> QED
      BY <1>1, <3>1 DEF ClaimedTask, TaskState, TaskPcs
  <2>3. \A j \in Jobs : task'[w][j] = IF j \in picked THEN ClaimedTask(j) ELSE NoTask
    BY <1>1
  <2>4. \A v \in Workers, k \in Jobs : v # w => task'[v][k] = task[v][k]
    BY <1>1
  <2>5. \A k \in Jobs : task'[w][k] \in TaskState
    BY <1>2, <2>2, <2>3
  <2>6. task' \in [Workers -> [Jobs -> TaskState]]
    BY <1>1, <2>5
  <2>7. \A k \in Jobs :
          \/ task'[w][k].pc = "none"
          \/ /\ k \in picked
             /\ task'[w][k].attempt = job[k].attemptCount + 1
             /\ task'[w][k].url = job[k].url
             /\ task'[w][k].lockedAt = now
    BY <1>2, <2>2, <2>3
  <2>8. UNCHANGED <<now, up, acked>> /\ faults' \in Nat
    BY <1>1, <2>1
  <2> QED
    BY <2>1, <2>4, <2>6, <2>7, <2>8, ClaimStep
<1>6. ASSUME NEW w \in Workers, ClaimLost(w)
      PROVE  IInv'
  <2> PICK picked \in Batches : LockRows(picked, w)
    BY <1>6 DEF ClaimLost
  <2>1. Idle(w) /\ UNCHANGED <<now, up, task, acked>> /\ faults' \in Nat
    BY <1>1, <1>6 DEF ClaimLost, Fault
  <2>2. \A k \in Jobs : task'[w][k].pc = "none"
    BY <2>1 DEF Idle, Running
  <2>3. \A v \in Workers, k \in Jobs : v # w => task'[v][k] = task[v][k]
    BY <2>1
  <2>4. UNCHANGED <<now, up, acked>> /\ task' \in [Workers -> [Jobs -> TaskState]]
    BY <1>1, <2>1
  <2> QED
    BY <2>1, <2>2, <2>3, <2>4, ClaimStep
<1>7. ASSUME NEW w \in Workers, Crash(w)
      PROVE  IInv'
  BY <1>7, CrashStep
<1>8. ASSUME NEW w \in Workers, NEW j \in Jobs, Enqueue(w, j)
      PROVE  IInv'
  BY <1>8, EnqueueStep
<1>9. ASSUME NEW w \in Workers, NEW j \in Jobs, TaskStep(w, j)
      PROVE  IInv'
  BY <1>9, TaskStepIInv
<1>10. ASSUME NEW w \in Workers, NEW j \in Jobs, TaskFails(w, j)
       PROVE  IInv'
  <2>1. /\ Running(w, j)
        /\ SetTask(w, j, NoTask)
        /\ UNCHANGED <<now, tableVars, up, acked>>
        /\ faults' \in Nat
    BY <1>1, <1>10 DEF TaskFails, Fault, EndTask
  <2> QED
    BY <1>1, <1>2, <2>1, LocalStep
<1>11. ASSUME NEW w \in Workers, ClaimNothing(w)
       PROVE  IInv'
  BY <1>3, <1>11 DEF ClaimNothing
<1> QED
  BY <1>3, <1>4, <1>5, <1>6, <1>7, <1>8, <1>9, <1>10, <1>11 DEF Next

\* The inductive invariant holds in every reachable state.
THEOREM Invariance == Spec => []IInv
<1>1. Init => IInv
  BY InitIInv
<1>2. IInv /\ [Next]_vars => IInv'
  BY NextIInv
<1> QED
  BY <1>1, <1>2, PTL DEF Spec

-----------------------------------------------------------------------------

\* Every variable keeps its type: the columns of both tables, and what the tasks
\* hold between their steps (db.rs, delivery.rs).
THEOREM TypeCorrect == Spec => []TypeOK
<1>1. IInv => TypeOK
  BY DEF IInv
<1> QED
  BY Invariance, <1>1, PTL

\* delivery_attempts never has a gap, a duplicate or a surplus row: its rows for a
\* job are numbered 1 to attempt_count, whatever workers steal, lose or crash.
THEOREM AttemptLog == Spec => []AttemptLogMatchesCount
<1>1. IInv => AttemptLogMatchesCount
  <2> SUFFICES ASSUME IInv, NEW j \in Jobs
               PROVE  /\ {row.number : row \in {r \in attempts : r.job = j}}
                           = 1 .. job[j].attemptCount
                      /\ \A r, s \in attempts :
                           r.job = j /\ s.job = j /\ r.number = s.number => r = s
    BY DEF AttemptLogMatchesCount
  <2>1. \A r \in attempts : r.number \in Nat \ {0}
    BY DEF IInv, TypeOK, AttemptRow
  <2>2. job[j].attemptCount \in Nat
    BY DEF IInv, TypeOK, JobRow
  <2>3. ASSUME NEW r \in attempts, r.job = j
        PROVE  r.number \in 1 .. job[j].attemptCount
    BY <2>1, <2>2, <2>3 DEF IInv, LogInv
  <2>4. ASSUME NEW n \in 1 .. job[j].attemptCount
        PROVE  \E r \in attempts : r.job = j /\ r.number = n
    <3>1. n \in Nat \ {0} /\ n <= job[j].attemptCount
      BY <2>2
    <3> QED
      BY <3>1 DEF IInv, LogInv, AttemptExists
  <2>5. \A r, s \in attempts : r.job = j /\ s.job = j /\ r.number = s.number => r = s
    BY DEF IInv, LogInv
  <2> QED
    BY <2>3, <2>4, <2>5
<1> QED
  BY Invariance, <1>1, PTL

\* The worker id in locked_by identifies the claim: a task whose worker holds the
\* lock was started by the claim that took it, and its attempt number is free.
THEOREM LockHolder == Spec => []LockHolderIsCurrent
<1>1. IInv => LockHolderIsCurrent
  <2> SUFFICES ASSUME IInv, NEW w \in Workers, NEW j \in Jobs,
                      Running(w, j), HoldsLock(w, j)
               PROVE  /\ task[w][j].lockedAt = job[j].lockedAt
                      /\ task[w][j].attempt = job[j].attemptCount + 1
                      /\ ~AttemptExists(j, task[w][j].attempt)
    BY DEF LockHolderIsCurrent
  <2>1. /\ task[w][j].lockedAt = job[j].lockedAt
        /\ task[w][j].attempt = job[j].attemptCount + 1
    BY DEF IInv, ClaimInv
  <2>2. job[j].attemptCount \in Nat /\ \A r \in attempts : r.number \in Nat
    BY DEF IInv, TypeOK, JobRow, AttemptRow
  <2>3. \A r \in attempts : r.job = j => r.number # task[w][j].attempt
    BY <2>1, <2>2 DEF IInv, LogInv
  <2> QED
    BY <2>1, <2>3 DEF AttemptExists
<1> QED
  BY Invariance, <1>1, PTL

\* No task loses its lock before STALE_DELIVERY_LOCK_SECS have passed since its
\* claim, whoever else polls, crashes or records (db.rs claim_due_jobs).
THEOREM LockLost == Spec => []LockLostOnlyWhenStale
<1>1. IInv => LockLostOnlyWhenStale
  BY DEF IInv
<1> QED
  BY Invariance, <1>1, PTL

\* The request of a task that holds the lock goes to the URL the row stores,
\* whatever the configurations of the releases that run side by side.
THEOREM PostedUrl == Spec => []PostedUrlIsStored
<1>1. IInv => PostedUrlIsStored
  BY DEF IInv, ClaimInv, PostedUrlIsStored, Running
<1> QED
  BY Invariance, <1>1, PTL

-----------------------------------------------------------------------------

\* A task is never older than TaskBound.
TaskInTime ==
  \A w \in Workers, j \in Jobs :
    Running(w, j) => now <= task[w][j].lockedAt + TaskBound

\* A task that is still running after a step of some task was running before it,
\* for the same claim.
LEMMA TaskStepKeepsClaim ==
  ASSUME TypeOK, NEW w \in Workers, NEW j \in Jobs,
         TaskStep(w, j) \/ TaskFails(w, j),
         NEW v \in Workers, NEW k \in Jobs, Running(v, k)'
  PROVE  now' = now /\ Running(v, k) /\ task'[v][k].lockedAt = task[v][k].lockedAt
<1>1. task \in [Workers -> [Jobs -> TaskState]] /\ task[w][j] \in TaskState
  BY DEF TypeOK
<1> USE <1>1 DEF Running, SetTask, EndTask, NoTask, TaskState
<1>2. CASE BeginExpired(w, j)
  BY <1>2 DEF BeginExpired
<1>3. CASE BeginDelivery(w, j)
  BY <1>3 DEF BeginDelivery
<1>4. CASE RefreshUrl(w, j)
  BY <1>4 DEF RefreshUrl
<1>5. CASE RefreshLost(w, j)
  BY <1>5 DEF RefreshLost
<1>6. CASE AnswerSuccess(w, j)
  BY <1>6 DEF AnswerSuccess
<1>7. CASE AnswerFailureFinal(w, j)
  BY <1>7 DEF AnswerFailureFinal
<1>8. CASE AnswerFailureRetry(w, j)
  BY <1>8 DEF AnswerFailureRetry
<1>9. CASE RecordCommits(w, j)
  BY <1>9 DEF RecordCommits
<1>10. CASE RecordRefused(w, j)
  BY <1>10 DEF RecordRefused, RecordPcs
<1>11. CASE TaskFails(w, j)
  BY <1>11 DEF TaskFails
<1> QED
  BY <1>2, <1>3, <1>4, <1>5, <1>6, <1>7, <1>8, <1>9, <1>10, <1>11 DEF TaskStep

\* The clock waits for the tasks, and a claim starts them with age zero.
LEMMA NextTaskInTime == IInv /\ TaskInTime /\ [Next]_vars => TaskInTime'
<1> SUFFICES ASSUME IInv, TaskInTime, [Next]_vars,
                    NEW v \in Workers, NEW k \in Jobs, Running(v, k)'
             PROVE  now' <= task'[v][k].lockedAt + TaskBound
  BY DEF TaskInTime
<1> USE TableAssumption, QueueAssumption
<1>1. /\ task \in [Workers -> [Jobs -> TaskState]]
      /\ task[v][k].lockedAt \in Nat
      /\ now \in Nat
  BY DEF IInv, TypeOK, TaskState
<1>2. CASE UNCHANGED <<now, task>>
  BY <1>2 DEF TaskInTime, Running
<1>3. CASE Tick
  BY <1>1, <1>3 DEF Tick, Running
<1>4. ASSUME NEW w \in Workers, ClaimDueJobs(w)
      PROVE  now' <= task'[v][k].lockedAt + TaskBound
  <2>1. now' = now
    BY <1>4 DEF ClaimDueJobs
  <2> PICK picked :
        task' = [task EXCEPT ![w] =
                  [j \in Jobs |-> IF j \in picked THEN ClaimedTask(j) ELSE NoTask]]
    BY <1>4 DEF ClaimDueJobs
  <2>2. CASE v = w
    BY <1>1, <2>1, <2>2 DEF Running, ClaimedTask, NoTask
  <2>3. CASE v # w
    BY <1>1, <2>1, <2>3 DEF Running, TaskInTime
  <2> QED
    BY <2>2, <2>3
<1>5. ASSUME NEW w \in Workers, Crash(w)
      PROVE  now' <= task'[v][k].lockedAt + TaskBound
  BY <1>1, <1>5 DEF Crash, Running, NoTask, TaskInTime
<1>6. ASSUME NEW w \in Workers, NEW j \in Jobs, TaskStep(w, j) \/ TaskFails(w, j)
      PROVE  now' <= task'[v][k].lockedAt + TaskBound
  BY <1>6, TaskStepKeepsClaim DEF TaskInTime, IInv
<1> QED
  BY <1>2, <1>3, <1>4, <1>5, <1>6
     DEF Next, vars, ClaimNothing, ClaimLost, Enqueue

\* While tasks end within the stale-lock time, no job is delivered by two workers at
\* once: what the check of stale_delivery_lock_secs in config.rs is for.
THEOREM OneTask == TaskBound <= StaleLock => (Spec => []OneTaskPerJob)
<1> SUFFICES ASSUME TaskBound <= StaleLock PROVE Spec => []OneTaskPerJob
  OBVIOUS
<1>1. Init => TaskInTime
  BY DEF Init, TaskInTime, Running, NoTask
<1>2. IInv /\ TaskInTime => OneTaskPerJob
  <2> SUFFICES ASSUME IInv, TaskInTime, NEW v \in Workers, NEW w \in Workers, NEW j \in Jobs,
                      Running(v, j), Running(w, j)
               PROVE  v = w
    BY DEF OneTaskPerJob
  <2>1. ASSUME NEW u \in Workers, Running(u, j)
        PROVE  HoldsLock(u, j)
    <3>1. now <= task[u][j].lockedAt + TaskBound
      BY <2>1 DEF TaskInTime
    <3>2. task[u][j].lockedAt \in Nat /\ now \in Nat
      BY DEF IInv, TypeOK, TaskState
    <3>3. ~(task[u][j].lockedAt + StaleLock < now)
      BY <3>1, <3>2, TableAssumption, QueueAssumption
    <3> QED
      BY <2>1, <3>3 DEF IInv, LockLostOnlyWhenStale
  <2> QED
    BY <2>1 DEF HoldsLock
<1> QED
  BY Invariance, NextTaskInTime, <1>1, <1>2, PTL DEF Spec

\* A step that changes a row or adds an attempt finds the row not yet inserted, due,
\* or locked.
LEMMA EndedJobStays ==
  ASSUME IInv, [Next]_vars, NEW j \in Jobs, job[j].status \in Terminal
  PROVE  job'[j] = job[j] /\ \A row \in attempts' \ attempts : row.job # j
<1> USE DEF tableVars
<1>1. job \in [Jobs -> JobRow]
  BY DEF IInv, TypeOK
<1>2. job[j].status \notin {"absent"} \cup Pending
  BY DEF Terminal, Pending
<1>3. CASE UNCHANGED tableVars
  BY <1>3
<1>4. ASSUME NEW w \in Workers, NEW picked \in Batches, LockRows(picked, w)
      PROVE  job'[j] = job[j] /\ attempts' = attempts
  BY <1>1, <1>2, <1>4, LockRowsEffect DEF Due, Stale, Pending, LockRows
<1>5. ASSUME NEW w \in Workers, ClaimDueJobs(w) \/ ClaimLost(w)
      PROVE  job'[j] = job[j] /\ attempts' = attempts
  BY <1>4, <1>5 DEF ClaimDueJobs, ClaimLost
<1>6. ASSUME NEW w \in Workers, NEW k \in Jobs, Enqueue(w, k) \/ RefreshUrl(w, k)
      PROVE  job'[j] = job[j] /\ attempts' = attempts
  BY <1>1, <1>2, <1>6
     DEF Enqueue, InsertJob, RefreshUrl, SetDestinationUrl, HoldsLock, Pending
<1>7. ASSUME NEW w \in Workers, NEW k \in Jobs, RecordCommits(w, k)
      PROVE  job'[j] = job[j] /\ \A row \in attempts' \ attempts : row.job # j
  <2>1. PICK outcome, status, next :
          RecordOutcome(w, k, task[w][k].attempt, outcome, status, next)
    BY <1>7 DEF RecordCommits, RecordSuccess, RecordRetry, RecordFinalFailure
  <2>2. k # j
    BY <1>2, <2>1 DEF RecordOutcome, CanRecord, HoldsLock, Pending
  <2> QED
    BY <1>1, <2>1, <2>2 DEF RecordOutcome
<1>8. ASSUME NEW w \in Workers, NEW k \in Jobs, TaskStep(w, k) \/ TaskFails(w, k)
      PROVE  job'[j] = job[j] /\ \A row \in attempts' \ attempts : row.job # j
  BY <1>6, <1>7, <1>8
     DEF TaskStep, TaskFails, BeginExpired, BeginDelivery, RefreshLost, AnswerSuccess,
         AnswerFailureFinal, AnswerFailureRetry, RecordRefused
<1> QED
  BY <1>3, <1>5, <1>6, <1>8 DEF Next, vars, Tick, ClaimNothing, Crash

\* Once a job has succeeded or failed, no late task, steal or refresh changes its
\* row or adds an attempt to it.
THEOREM EndedFrozen == Spec => EndedJobsAreFrozen
<1>1. IInv /\ [Next]_vars =>
        [\A j \in Jobs : job[j].status \in Terminal =>
           /\ job'[j] = job[j]
           /\ \A row \in attempts' \ attempts : row.job # j]_vars
  BY EndedJobStays
<1> QED
  BY Invariance, <1>1, PTL DEF Spec, EndedJobsAreFrozen

-----------------------------------------------------------------------------

\* The decision to give a job up was taken when the deadline had passed.
DeadlineInv ==
  /\ \A w \in Workers, j \in Jobs :
       task[w][j].pc \in {"final", "expired"} => AppNow(w) >= job[j].deadlineAt
  /\ FailedOnlyAfterDeadline

\* A deadline is set once, and time never runs backwards.
LEMMA DeadlineStays ==
  ASSUME IInv, [Next]_vars
  PROVE  /\ now \in Nat /\ now' \in Nat /\ now <= now'
         /\ \A j \in Jobs : job[j].status # "absent" => job'[j].deadlineAt = job[j].deadlineAt
<1> USE DEF tableVars
<1>1. job \in [Jobs -> JobRow] /\ now \in Nat
  BY DEF IInv, TypeOK
<1>2. now' = now \/ now' = now + 1
  <2>1. ASSUME NEW w \in Workers, NEW j \in Jobs, TaskStep(w, j) \/ TaskFails(w, j)
        PROVE  now' = now
    BY <2>1
       DEF TaskStep, TaskFails, BeginExpired, BeginDelivery, RefreshUrl, RefreshLost,
           AnswerSuccess, AnswerFailureFinal, AnswerFailureRetry, RecordCommits, RecordRefused
  <2> QED
    BY <2>1 DEF Next, vars, Tick, ClaimDueJobs, ClaimNothing, ClaimLost, Crash, Enqueue
<1>3. ASSUME NEW j \in Jobs, job[j].status # "absent"
      PROVE  job'[j].deadlineAt = job[j].deadlineAt
  <2>1. ASSUME NEW w \in Workers, NEW picked \in Batches,
               LockRows(picked, w)
        PROVE  job'[j].deadlineAt = job[j].deadlineAt
    BY <2>1, LockRowsEffect
  <2>2. ASSUME NEW w \in Workers, ClaimDueJobs(w) \/ ClaimLost(w)
        PROVE  job'[j].deadlineAt = job[j].deadlineAt
    BY <2>1, <2>2 DEF ClaimDueJobs, ClaimLost
  <2>3. ASSUME NEW w \in Workers, NEW k \in Jobs, Enqueue(w, k)
        PROVE  job'[j].deadlineAt = job[j].deadlineAt
    BY <1>1, <1>3, <2>3 DEF Enqueue, InsertJob
  <2>4. ASSUME NEW w \in Workers, NEW k \in Jobs, RefreshUrl(w, k)
        PROVE  job'[j].deadlineAt = job[j].deadlineAt
    BY <1>1, <2>4 DEF RefreshUrl, SetDestinationUrl, JobRow
  <2>5. ASSUME NEW w \in Workers, NEW k \in Jobs, RecordCommits(w, k)
        PROVE  job'[j].deadlineAt = job[j].deadlineAt
    <3>1. PICK outcome, status, next :
            RecordOutcome(w, k, task[w][k].attempt, outcome, status, next)
      BY <2>5 DEF RecordCommits, RecordSuccess, RecordRetry, RecordFinalFailure
    <3> QED
      BY <1>1, <3>1 DEF RecordOutcome, JobRow
  <2>6. ASSUME NEW w \in Workers, NEW k \in Jobs, TaskStep(w, k) \/ TaskFails(w, k)
        PROVE  job'[j].deadlineAt = job[j].deadlineAt
    BY <2>4, <2>5, <2>6
       DEF TaskStep, TaskFails, BeginExpired, BeginDelivery, RefreshLost, AnswerSuccess,
           AnswerFailureFinal, AnswerFailureRetry, RecordRefused
  <2> QED
    BY <2>2, <2>3, <2>6 DEF Next, vars, Tick, ClaimNothing, Crash
<1> QED
  BY <1>1, <1>2, <1>3

\* A clock that has reached a deadline keeps having reached it.
LEMMA OverdueStays ==
  ASSUME IInv, [Next]_vars, NEW w \in Workers, NEW j \in Jobs,
         job[j].status # "absent", AppNow(w) >= job[j].deadlineAt
  PROVE  AppNow(w)' >= job'[j].deadlineAt
<1>1. job[j].deadlineAt \in Int
  BY DEF IInv, TypeOK, JobRow
<1> QED
  BY <1>1, DeadlineStays, QueueAssumption DEF AppNow

LEMMA NextDeadlineInv == IInv /\ DeadlineInv /\ [Next]_vars => DeadlineInv'
<1> SUFFICES ASSUME IInv, DeadlineInv, [Next]_vars PROVE DeadlineInv'
  OBVIOUS
<1> USE DEF tableVars
<1>1. ASSUME NEW v \in Workers, NEW k \in Jobs, task'[v][k].pc \in {"final", "expired"}
      PROVE  AppNow(v)' >= job'[k].deadlineAt
  <2>1. task \in [Workers -> [Jobs -> TaskState]]
    BY DEF IInv, TypeOK
  <2>2. \/ task[v][k].pc \in {"final", "expired"}
        \/ task[v][k].pc \in {"claimed", "posting"} /\ AppNow(v) >= job[k].deadlineAt
    <3>1. CASE UNCHANGED task
      BY <1>1, <3>1
    <3>2. ASSUME NEW w \in Workers, ClaimDueJobs(w) \/ Crash(w)
          PROVE  task[v][k].pc \in {"final", "expired"}
      BY <1>1, <2>1, <3>2 DEF ClaimDueJobs, Crash, ClaimedTask, NoTask
    <3>3. ASSUME NEW w \in Workers, NEW j \in Jobs, TaskFails(w, j)
          PROVE  task[v][k].pc \in {"final", "expired"}
      BY <1>1, <2>1, <3>3 DEF TaskFails, EndTask, SetTask, NoTask
    <3>4. ASSUME NEW w \in Workers, NEW j \in Jobs, BeginExpired(w, j)
          PROVE  \/ task[v][k].pc \in {"final", "expired"}
                 \/ task[v][k].pc \in {"claimed", "posting"} /\ AppNow(v) >= job[k].deadlineAt
      BY <1>1, <2>1, <3>4 DEF BeginExpired, SetTask
    <3>5. ASSUME NEW w \in Workers, NEW j \in Jobs, AnswerFailureFinal(w, j)
          PROVE  \/ task[v][k].pc \in {"final", "expired"}
                 \/ task[v][k].pc \in {"claimed", "posting"} /\ AppNow(v) >= job[k].deadlineAt
      BY <1>1, <2>1, <3>5 DEF AnswerFailureFinal, SetTask
    <3>6. ASSUME NEW w \in Workers, NEW j \in Jobs, BeginDelivery(w, j)
          PROVE  task[v][k].pc \in {"final", "expired"}
      BY <1>1, <2>1, <3>6 DEF BeginDelivery, SetTask, TaskState
    <3>7. ASSUME NEW w \in Workers, NEW j \in Jobs,
                 RefreshUrl(w, j) \/ AnswerSuccess(w, j) \/ AnswerFailureRetry(w, j)
          PROVE  task[v][k].pc \in {"final", "expired"}
      <4>1. CASE v = w /\ k = j
        <5>1. \E t : SetTask(w, j, t) /\ t.pc \in {"posting", "success", "retry"}
          <6>1. task[w][j] \in TaskState
            BY <2>1
          <6>2. CASE RefreshUrl(w, j)
            BY <6>1, <6>2 DEF RefreshUrl, TaskState
          <6>3. CASE AnswerSuccess(w, j)
            BY <6>1, <6>3 DEF AnswerSuccess, TaskState
          <6>4. CASE AnswerFailureRetry(w, j)
            <7>1. PICK next : SetTask(w, j, [task[w][j] EXCEPT !.pc = "retry",
                                                               !.nextAttemptAt = next])
              BY <6>4 DEF AnswerFailureRetry
            <7>2. [task[w][j] EXCEPT !.pc = "retry", !.nextAttemptAt = next].pc = "retry"
              BY <6>1 DEF TaskState
            <7> QED
              BY <7>1, <7>2
          <6> QED
            BY <3>7, <6>2, <6>3, <6>4
        <5> QED
          BY <1>1, <2>1, <4>1, <5>1 DEF SetTask
      <4>2. CASE ~(v = w /\ k = j)
        <5>1. PICK t : SetTask(w, j, t)
          BY <3>7 DEF RefreshUrl, AnswerSuccess, AnswerFailureRetry
        <5>2. task'[v][k] = task[v][k]
          BY <4>2, <5>1, SetTaskEffect DEF IInv
        <5> QED
          BY <1>1, <5>2
      <4> QED
        BY <4>1, <4>2
    <3>8. ASSUME NEW w \in Workers, NEW j \in Jobs,
                 RefreshLost(w, j) \/ RecordCommits(w, j) \/ RecordRefused(w, j)
          PROVE  task[v][k].pc \in {"final", "expired"}
      BY <1>1, <2>1, <3>8
         DEF RefreshLost, RecordCommits, RecordRefused, EndTask, SetTask, NoTask
    <3> QED
      BY <3>1, <3>2, <3>3, <3>4, <3>5, <3>6, <3>7, <3>8
         DEF Next, TaskStep, vars, Tick, ClaimNothing, ClaimLost, Enqueue
  <2>3. Running(v, k) /\ AppNow(v) >= job[k].deadlineAt
    BY <2>2 DEF DeadlineInv, Running
  <2>4. job[k].status # "absent"
    BY <2>3 DEF IInv, TaskInv
  <2> QED
    BY <2>3, <2>4, OverdueStays
<1>2. ASSUME NEW k \in Jobs, job'[k].status = "failed"
      PROVE  \E v \in Workers : AppNow(v)' >= job'[k].deadlineAt
  <2>1. job \in [Jobs -> JobRow]
    BY DEF IInv, TypeOK
  <2>2. \/ job[k].status = "failed"
        \/ \E w \in Workers : task[w][k].pc \in {"final", "expired"}
    <3>1. CASE job'[k].status = job[k].status
      BY <1>2, <3>1
    <3>2. ASSUME NEW w \in Workers, NEW picked \in Batches,
                 LockRows(picked, w)
          PROVE  job[k].status = "failed"
      <4>1. k \in picked => job'[k].status = "delivering"
        BY <3>2, LockRowsEffect
      <4>2. k \notin picked => job'[k] = job[k]
        BY <3>2, LockRowsEffect
      <4> QED
        BY <1>2, <4>1, <4>2
    <3>3. ASSUME NEW w \in Workers, ClaimDueJobs(w) \/ ClaimLost(w)
          PROVE  job[k].status = "failed"
      BY <3>2, <3>3 DEF ClaimDueJobs, ClaimLost
    <3>4. ASSUME NEW w \in Workers, NEW j \in Jobs, Enqueue(w, j) \/ RefreshUrl(w, j)
          PROVE  job[k].status = "failed"
      <4>1. CASE k # j
        BY <1>2, <2>1, <3>4, <4>1 DEF Enqueue, InsertJob, RefreshUrl, SetDestinationUrl
      <4>2. CASE k = j /\ Enqueue(w, j)
        <5>1. job'[j].status = "queued"
          BY <2>1, <4>2 DEF Enqueue, InsertJob, AbsentJob
        <5> QED
          BY <1>2, <4>2, <5>1
      <4>3. CASE k = j /\ RefreshUrl(w, j)
        BY <1>2, <2>1, <4>3 DEF RefreshUrl, SetDestinationUrl, JobRow
      <4> QED
        BY <3>4, <4>1, <4>2, <4>3
    <3>5. ASSUME NEW w \in Workers, NEW j \in Jobs, RecordCommits(w, j)
          PROVE  job[k].status = "failed" \/ task[w][k].pc \in {"final", "expired"}
      <4>1. PICK outcome, status, next :
              /\ RecordOutcome(w, j, task[w][j].attempt, outcome, status, next)
              /\ status = "failed" => task[w][j].pc \in {"final", "expired"}
        BY <3>5 DEF RecordCommits, RecordSuccess, RecordRetry, RecordFinalFailure
      <4>2. job[j] \in JobRow
        BY <2>1
      <4>3. job'[j].status = status /\ (k # j => job'[k] = job[k])
        BY <2>1, <4>1, <4>2 DEF RecordOutcome, JobRow
      <4> QED
        BY <1>2, <4>1, <4>3
    <3>6. ASSUME NEW w \in Workers, NEW j \in Jobs,
                 \/ BeginExpired(w, j) \/ BeginDelivery(w, j) \/ RefreshLost(w, j)
                 \/ AnswerSuccess(w, j) \/ AnswerFailureFinal(w, j)
                 \/ AnswerFailureRetry(w, j) \/ RecordRefused(w, j) \/ TaskFails(w, j)
          PROVE  job'[k].status = job[k].status
      BY <3>6
         DEF BeginExpired, BeginDelivery, RefreshLost, AnswerSuccess, AnswerFailureFinal,
             AnswerFailureRetry, RecordRefused, TaskFails
    <3> QED
      BY <3>1, <3>3, <3>4, <3>5, <3>6 DEF Next, TaskStep, vars, Tick, ClaimNothing, Crash
  <2>3. CASE job[k].status = "failed"
    BY <2>3, OverdueStays DEF DeadlineInv, FailedOnlyAfterDeadline
  <2>4. ASSUME NEW w \in Workers, task[w][k].pc \in {"final", "expired"}
        PROVE  AppNow(w)' >= job'[k].deadlineAt
    <3>1. AppNow(w) >= job[k].deadlineAt /\ job[k].status # "absent"
      BY <2>4 DEF DeadlineInv, IInv, TaskInv, Running
    <3> QED
      BY <3>1, OverdueStays
  <2> QED
    BY <2>2, <2>3, <2>4
<1> QED
  BY <1>1, <1>2 DEF DeadlineInv, FailedOnlyAfterDeadline

\* No job is failed before some process's clock has reached its deadline, however
\* the clocks differ from the database's and from each other (delivery.rs
\* deliver_and_record and record_failure).
THEOREM FailureIsLate == Spec => []FailedOnlyAfterDeadline
<1>1. Init => DeadlineInv
  BY DEF Init, TableInit, AbsentJob, NoTask, DeadlineInv, FailedOnlyAfterDeadline
<1>2. DeadlineInv => FailedOnlyAfterDeadline
  BY DEF DeadlineInv
<1> QED
  BY Invariance, NextDeadlineInv, <1>1, <1>2, PTL DEF Spec
=============================================================================
