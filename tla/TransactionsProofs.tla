------------------------- MODULE TransactionsProofs -------------------------
(***************************************************************************)
(* Proofs about Transactions, for every set of jobs, workers and sessions. *)
(* The record_* transactions, claims and refreshes, interleaved statement  *)
(* by statement, implement the single steps of AtomicTable.                *)
(***************************************************************************)
EXTENDS Transactions, FiniteSetTheorems, TLAPS

(***************************************************************************)
(* The inductive invariant.                                                *)
(***************************************************************************)

NumberOf(s) == session[s].task.number

\* An attempt's number is never beyond the next one: attempt_count only grows.
NumberInv ==
  /\ \A task \in tasks : task.number <= job[task.job].attemptCount + 1
  /\ \A s \in Sessions :
       session[s].pc # "idle" =>
         /\ session[s].task \in Task
         /\ session[s].kind \in Kinds
         /\ NumberOf(s) <= job[JobOf(s)].attemptCount + 1

\* The unique key: what a transaction has inserted nobody else has, committed or not.
KeyInv ==
  /\ \A s \in Sessions : HoldsKey(s) => ~AttemptExists(JobOf(s), NumberOf(s))
  /\ \A r, s \in Sessions :
       r # s /\ HoldsKey(r) /\ HoldsKey(s) => JobOf(r) # JobOf(s) \/ NumberOf(r) # NumberOf(s)

\* The row locks: no claim has locked a row whose attempt is being recorded, and the
\* lock columns its UPDATE has seen stay as they are until it commits.
RowInv ==
  /\ \A s \in Sessions : HoldsRowShare(s) => ~ClaimLocked(JobOf(s))
  /\ \A s \in Sessions : HoldsRow(s) => HoldsLock(session[s].task.worker, JobOf(s))
  /\ \A r, s \in Sessions : r # s /\ HoldsRow(r) /\ HoldsRow(s) => JobOf(r) # JobOf(s)

\* The rows a claim has locked are still those it selected, and nobody else's.
ClaimInv ==
  /\ \A w \in Workers, j \in Jobs :
       j \in claiming[w] => job[j].status \in Pending /\ job[j].attemptCount < MaxAttempts
  /\ \A v, w \in Workers : v # w => claiming[v] \cap claiming[w] = {}
  /\ \A w \in Workers : Cardinality(claiming[w]) <= ClaimLimit

\* Every attempt a job counts has been stored.
LogInv ==
  \A j \in Jobs : \A n \in Nat \ {0} : n <= job[j].attemptCount => AttemptExists(j, n)

IInv == TxnTypeOK /\ NumberInv /\ KeyInv /\ RowInv /\ ClaimInv /\ LogInv

-----------------------------------------------------------------------------

LEMMA InitIInv == TxnInit => IInv
<1> SUFFICES ASSUME TxnInit PROVE IInv
  OBVIOUS
<1> USE TableAssumption, TxnAssumption DEF TxnInit, Init
<1>1. PICK url \in Urls :
        job = [j \in Jobs |-> [AbsentJob EXCEPT !.status = "queued", !.url = url]]
  OBVIOUS
<1>2. \A j \in Jobs : job[j] \in JobRow /\ job[j].attemptCount = 0
  <2> SUFFICES ASSUME NEW j \in Jobs PROVE job[j] \in JobRow /\ job[j].attemptCount = 0
    OBVIOUS
  <2>1. job[j] = [status |-> "queued", attemptCount |-> 0, url |-> url, nextAttemptAt |-> 0,
                  deadlineAt |-> 0, lockedAt |-> Null, lockedBy |-> Null]
    BY <1>1 DEF AbsentJob
  <2>2. job[j].status \in {"absent"} \cup Pending \cup Terminal
    BY ONLY <2>1 DEF Pending
  <2> QED
    BY ONLY <2>1, <2>2, url \in Urls DEF JobRow
<1>3. IdleSession \in SessionState
  BY DEF IdleSession, SessionState, TxnPcs
<1>4. TxnTypeOK
  BY <1>1, <1>2, <1>3 DEF TxnTypeOK
<1>5. \A s \in Sessions : session[s].pc = "idle"
  BY DEF IdleSession
<1>6. NumberInv /\ KeyInv /\ RowInv
  BY <1>5 DEF NumberInv, KeyInv, RowInv, HoldsKey, HoldsRowShare, HoldsRow
<1>7. ClaimInv /\ LogInv
  BY <1>2, FS_EmptySet DEF ClaimInv, LogInv
<1> QED
  BY <1>4, <1>6, <1>7 DEF IInv

-----------------------------------------------------------------------------
(* The steps that only move one transaction. *)

\* What a transaction in state t would have to satisfy in place of s's.
MayHold(s, t) ==
  /\ t.pc # "idle" =>
       t.task \in Task /\ t.kind \in Kinds /\ t.task.number <= job[t.task.job].attemptCount + 1
  /\ t.pc \in {"key", "update", "commit", "rollback"} =>
       /\ ~AttemptExists(t.task.job, t.task.number)
       /\ \A r \in Sessions \ {s} :
            HoldsKey(r) => JobOf(r) # t.task.job \/ NumberOf(r) # t.task.number
  /\ t.pc \in {"update", "commit", "rollback"} => ~ClaimLocked(t.task.job)
  /\ t.pc = "commit" =>
       /\ HoldsLock(t.task.worker, t.task.job)
       /\ \A r \in Sessions \ {s} : HoldsRow(r) => JobOf(r) # t.task.job

\* A step that moves one transaction to a state it may be in preserves the invariant.
LEMMA MoveSession ==
  ASSUME IInv, NEW s \in Sessions, NEW t \in SessionState, MayHold(s, t),
         session' = [session EXCEPT ![s] = t],
         UNCHANGED <<now, job, attempts, claiming>>, tasks' \subseteq tasks
  PROVE  IInv'
<1> USE DEF IInv
<1>1. /\ session'[s] = t
      /\ \A r \in Sessions : r # s => session'[r] = session[r]
  BY DEF TxnTypeOK
<1>2. TxnTypeOK'
  BY DEF TxnTypeOK
<1>3. NumberInv'
  BY <1>1 DEF NumberInv, MayHold, NumberOf, JobOf
<1>4. KeyInv'
  BY <1>1 DEF KeyInv, MayHold, NumberOf, JobOf, HoldsKey, AttemptExists
<1>5. RowInv'
  BY <1>1 DEF RowInv, MayHold, JobOf, HoldsRowShare, HoldsRow, ClaimLocked, HoldsLock
<1>6. ClaimInv' /\ LogInv'
  BY DEF ClaimInv, LogInv, AttemptExists
<1> QED
  BY <1>2, <1>3, <1>4, <1>5, <1>6

\* Closing a transaction is such a step.
LEMMA CloseStep ==
  ASSUME IInv, NEW s \in Sessions, Close(s),
         UNCHANGED <<now, job, attempts, claiming>>, tasks' \subseteq tasks
  PROVE  IInv'
<1>1. IdleSession \in SessionState /\ MayHold(s, IdleSession)
  BY DEF IdleSession, SessionState, TxnPcs, MayHold
<1> QED
  BY <1>1, MoveSession DEF Close

\* Going on to another statement is one if the transaction may be there.
LEMMA GotoStep ==
  ASSUME IInv, NEW s \in Sessions, NEW pc \in TxnPcs, Goto(s, pc),
         MayHold(s, [session[s] EXCEPT !.pc = pc]),
         UNCHANGED <<now, job, attempts, claiming, tasks>>
  PROVE  IInv'
<1> DEFINE t == [session[s] EXCEPT !.pc = pc]
<1>1. session[s] \in SessionState
  BY DEF IInv, TxnTypeOK
<1>2. t \in SessionState
  BY <1>1 DEF SessionState
<1>3. session' = [session EXCEPT ![s] = t]
  BY DEF Goto
<1>4. MayHold(s, t)
  OBVIOUS
<1> QED
  BY <1>2, <1>3, <1>4, MoveSession

-----------------------------------------------------------------------------
(* The steps of a transaction. *)

LEMMA BeginStep ==
  ASSUME IInv, NEW s \in Sessions, Begin(s)
  PROVE  IInv'
<1>1. PICK task \in tasks, kind \in Kinds :
        /\ session' = [session EXCEPT ![s] =
                         [pc |-> "insert", task |-> task, kind |-> kind, client |-> TRUE]]
        /\ tasks' = tasks \ {task}
  BY DEF Begin
<1> DEFINE t == [pc |-> "insert", task |-> task, kind |-> kind, client |-> TRUE]
<1>2. task \in Task
  BY DEF IInv, TxnTypeOK
<1>3. t \in SessionState
  BY <1>2 DEF SessionState, TxnPcs
<1>4. MayHold(s, t)
  BY <1>2 DEF MayHold, IInv, NumberInv
<1>5. session' = [session EXCEPT ![s] = t] /\ tasks' \subseteq tasks
  BY <1>1
<1>6. UNCHANGED <<now, job, attempts, claiming>>
  BY DEF Begin, tableVars
<1> HIDE DEF t
<1> QED
  BY <1>3, <1>4, <1>5, <1>6, MoveSession

\* What the invariant says of a transaction that is open, and of the same one further on.
LEMMA SessionFacts ==
  ASSUME IInv, NEW s \in Sessions, NEW pc \in TxnPcs
  PROVE  /\ session[s] \in SessionState
         /\ LET t == [session[s] EXCEPT !.pc = pc]
            IN  t.pc = pc /\ t.task = session[s].task /\ t.kind = session[s].kind
         /\ session[s].pc # "idle" =>
              /\ session[s].task \in Task
              /\ session[s].kind \in Kinds
              /\ NumberOf(s) <= job[JobOf(s)].attemptCount + 1
<1>1. session[s] \in SessionState
  BY DEF IInv, TxnTypeOK
<1>2. LET t == [session[s] EXCEPT !.pc = pc]
      IN  t.pc = pc /\ t.task = session[s].task /\ t.kind = session[s].kind
  BY <1>1 DEF SessionState
<1> QED
  BY <1>1, <1>2 DEF IInv, NumberInv

LEMMA InsertAttemptStep ==
  ASSUME IInv, NEW s \in Sessions, InsertAttempt(s)
  PROVE  IInv'
<1> USE DEF InsertAttempt, tableVars
<1>1. CASE AttemptExists(JobOf(s), NumberOf(s))
  <2>1. Close(s)
    BY <1>1 DEF NumberOf
  <2> QED
    BY <2>1, CloseStep
<1>2. CASE ~AttemptExists(JobOf(s), NumberOf(s))
  <2>1. Goto(s, "key") /\ "key" \in TxnPcs
    BY <1>2 DEF NumberOf, TxnPcs
  <2>2. \A r \in Sessions \ {s} :
          HoldsKey(r) => JobOf(r) # JobOf(s) \/ NumberOf(r) # NumberOf(s)
    BY DEF KeyIsTaken, NumberOf
  <2>3. MayHold(s, [session[s] EXCEPT !.pc = "key"])
    BY <1>2, <2>1, <2>2, SessionFacts DEF MayHold, NumberOf, JobOf
  <2> QED
    BY <2>1, <2>3, GotoStep
<1> QED
  BY <1>1, <1>2

LEMMA CheckForeignKeyStep ==
  ASSUME IInv, NEW s \in Sessions, CheckForeignKey(s)
  PROVE  IInv'
<1>1. /\ Goto(s, "update") /\ "update" \in TxnPcs
      /\ session[s].pc = "key" /\ ~ClaimLocked(JobOf(s))
      /\ UNCHANGED <<now, job, attempts, claiming, tasks>>
  BY DEF CheckForeignKey, TxnPcs, tableVars
<1>2. HoldsKey(s) /\ ~AttemptExists(JobOf(s), NumberOf(s))
  BY <1>1 DEF HoldsKey, IInv, KeyInv
<1>3. \A r \in Sessions \ {s} :
        HoldsKey(r) => JobOf(r) # JobOf(s) \/ NumberOf(r) # NumberOf(s)
  BY <1>2 DEF IInv, KeyInv
<1>4. MayHold(s, [session[s] EXCEPT !.pc = "update"])
  BY <1>1, <1>2, <1>3, SessionFacts DEF MayHold, NumberOf, JobOf
<1> QED
  BY <1>1, <1>4, GotoStep

LEMMA UpdateJobStep ==
  ASSUME IInv, NEW s \in Sessions, UpdateJob(s)
  PROVE  IInv'
<1> DEFINE pc == IF HoldsLock(session[s].task.worker, JobOf(s)) THEN "commit" ELSE "rollback"
<1>1. /\ Goto(s, pc) /\ pc \in TxnPcs \ {"idle"}
      /\ session[s].pc = "update" /\ ~RowUpdated(JobOf(s))
      /\ UNCHANGED <<now, job, attempts, claiming, tasks>>
  BY DEF UpdateJob, TxnPcs, tableVars
<1>2. HoldsKey(s) /\ HoldsRowShare(s)
  BY <1>1 DEF HoldsKey, HoldsRowShare
<1>3. ~AttemptExists(JobOf(s), NumberOf(s)) /\ ~ClaimLocked(JobOf(s))
  BY <1>2 DEF IInv, KeyInv, RowInv
<1>4. \A r \in Sessions \ {s} :
        HoldsKey(r) => JobOf(r) # JobOf(s) \/ NumberOf(r) # NumberOf(s)
  BY <1>2 DEF IInv, KeyInv
<1>5. \A r \in Sessions \ {s} : HoldsRow(r) => JobOf(r) # JobOf(s)
  BY <1>1 DEF RowUpdated
<1>6. pc = "commit" => HoldsLock(session[s].task.worker, JobOf(s))
  OBVIOUS
<1> HIDE DEF pc
<1>7. MayHold(s, [session[s] EXCEPT !.pc = pc])
  BY <1>1, <1>3, <1>4, <1>5, <1>6, SessionFacts DEF MayHold, NumberOf, JobOf
<1> QED
  BY <1>1, <1>7, GotoStep

LEMMA LoseClientStep ==
  ASSUME IInv, NEW s \in Sessions, LoseClient(s)
  PROVE  IInv'
<1> DEFINE t == [session[s] EXCEPT !.client = FALSE]
<1>1. session[s] \in SessionState
  BY DEF IInv, TxnTypeOK
<1>2. /\ t \in SessionState
      /\ t.pc = session[s].pc /\ t.task = session[s].task /\ t.kind = session[s].kind
  BY <1>1 DEF SessionState
<1>3. session' = [session EXCEPT ![s] = t]
  BY DEF LoseClient
<1>4. UNCHANGED <<now, job, attempts, claiming, tasks>>
  BY DEF LoseClient, tableVars
<1> HIDE DEF t
<1>5. MayHold(s, t)
  BY <1>2 DEF MayHold, IInv, NumberInv, KeyInv, RowInv, NumberOf, JobOf,
              HoldsKey, HoldsRowShare, HoldsRow
<1> QED
  BY <1>2, <1>3, <1>4, <1>5, MoveSession

-----------------------------------------------------------------------------
(* COMMIT and the statements that are transactions of their own. *)

\* A transaction about to commit stores the next attempt of its job.
LEMMA CommitsNext ==
  ASSUME IInv, NEW s \in Sessions, HoldsRow(s)
  PROVE  /\ session[s].task \in Task /\ session[s].kind \in Kinds
         /\ HoldsLock(session[s].task.worker, JobOf(s))
         /\ ~AttemptExists(JobOf(s), NumberOf(s))
         /\ NumberOf(s) = job[JobOf(s)].attemptCount + 1
<1>1. HoldsKey(s) /\ session[s].pc # "idle"
  BY DEF HoldsRow, HoldsKey
<1>2. /\ session[s].task \in Task /\ session[s].kind \in Kinds
      /\ NumberOf(s) <= job[JobOf(s)].attemptCount + 1
      /\ ~AttemptExists(JobOf(s), NumberOf(s))
      /\ HoldsLock(session[s].task.worker, JobOf(s))
  BY <1>1 DEF IInv, NumberInv, KeyInv, RowInv
<1>3. JobOf(s) \in Jobs /\ NumberOf(s) \in Nat \ {0}
  BY <1>2, TxnAssumption DEF Task, JobOf, NumberOf
<1>4. job[JobOf(s)].attemptCount \in Nat
  BY <1>3 DEF IInv, TxnTypeOK, JobRow
<1>5. ~(NumberOf(s) <= job[JobOf(s)].attemptCount)
  BY <1>2, <1>3 DEF IInv, LogInv
<1> QED
  BY <1>2, <1>3, <1>4, <1>5

LEMMA CommitStep ==
  ASSUME IInv, NEW s \in Sessions, Commit(s)
  PROVE  IInv'
<1> USE TableAssumption, TxnAssumption
<1> DEFINE task == session[s].task
           kind == session[s].kind
           j    == JobOf(s)
           n    == NumberOf(s)
           row  == [job |-> j, number |-> n, outcome |-> kind.outcome,
                    nextAttemptAt |-> kind.next]
<1>1. HoldsRow(s) /\ HoldsRowShare(s) /\ HoldsKey(s)
  BY DEF Commit, HoldsRow, HoldsRowShare, HoldsKey
<1>2. /\ task \in Task /\ kind \in Kinds
      /\ HoldsLock(task.worker, j) /\ ~AttemptExists(j, n)
      /\ n = job[j].attemptCount + 1
  BY <1>1, CommitsNext
<1>3. /\ j \in Jobs /\ n \in 1 .. MaxAttempts /\ job[j] \in JobRow
      /\ job \in [Jobs -> JobRow] /\ attempts \subseteq AttemptRow
  BY <1>2 DEF Task, JobOf, NumberOf, IInv, TxnTypeOK
<1>4. /\ kind.status \in Pending \cup Terminal
      /\ kind.outcome \in Outcomes
      /\ kind.next \in {0, Null}
  BY <1>2 DEF Kinds, Pending, Terminal, Outcomes
<1>5. attempts' = attempts \cup {row}
  BY DEF Commit, Publish, JobOf, NumberOf
<1>6. /\ job'[j] = [job[j] EXCEPT
                      !.status = kind.status, !.attemptCount = n,
                      !.nextAttemptAt = IF kind.next = Null THEN job[j].nextAttemptAt ELSE kind.next,
                      !.lockedAt = Null, !.lockedBy = Null]
      /\ \A k \in Jobs \ {j} : job'[k] = job[k]
      /\ job' = [job EXCEPT ![j] = job'[j]]
  BY <1>3 DEF Commit, Publish, JobOf, NumberOf
<1>7. /\ session'[s] = IdleSession
      /\ \A r \in Sessions \ {s} : session'[r] = session[r]
      /\ session' \in [Sessions -> SessionState]
  <2>1. IdleSession \in SessionState
    BY DEF IdleSession, SessionState, TxnPcs
  <2> QED
    BY <2>1 DEF Commit, Close, IInv, TxnTypeOK
<1>8. UNCHANGED <<now, tasks, claiming>>
  BY DEF Commit
<1>9. row \in AttemptRow /\ row.job = j /\ row.number = n
  BY <1>3, <1>4 DEF AttemptRow
<1> HIDE DEF task, kind, j, n, row
<1>10. job'[j] \in JobRow /\ job'[j].attemptCount = n
  <2> DEFINE next == IF kind.next = Null THEN job[j].nextAttemptAt ELSE kind.next
  <2>1. n \in Nat
    BY <1>3
  <2>2. next \in Int
    BY <1>3, <1>4 DEF JobRow
  <2>3. job'[j] = [job[j] EXCEPT !.status = kind.status, !.attemptCount = n,
                                 !.nextAttemptAt = next, !.lockedAt = Null, !.lockedBy = Null]
    BY <1>6
  <2> HIDE DEF next
  <2> QED
    BY <1>3, <1>4, <2>1, <2>2, <2>3 DEF JobRow
<1>11. \A k \in Jobs, m \in Nat :
         AttemptExists(k, m)' <=> AttemptExists(k, m) \/ (k = j /\ m = n)
  BY <1>5, <1>9 DEF AttemptExists
<1>12. \A k \in Jobs :
         /\ job[k].attemptCount \in Nat /\ job'[k].attemptCount \in Nat
         /\ job[k].attemptCount <= job'[k].attemptCount
  <2> SUFFICES ASSUME NEW k \in Jobs
               PROVE  /\ job[k].attemptCount \in Nat /\ job'[k].attemptCount \in Nat
                      /\ job[k].attemptCount <= job'[k].attemptCount
    OBVIOUS
  <2>1. job[k].attemptCount \in Nat
    BY <1>3 DEF JobRow
  <2>2. CASE k = j
    BY <1>2, <1>3, <1>10, <2>1, <2>2
  <2>3. CASE k # j
    BY <1>6, <2>1, <2>3
  <2> QED
    BY <2>2, <2>3
<1>13. \A r \in Sessions :
         /\ HoldsKey(r)' => r # s /\ HoldsKey(r)
         /\ HoldsRowShare(r)' => r # s /\ HoldsRowShare(r)
         /\ HoldsRow(r)' => r # s /\ HoldsRow(r)
  BY <1>7 DEF HoldsKey, HoldsRowShare, HoldsRow, IdleSession
<1>14. \A r \in Sessions \ {s} : JobOf(r)' = JobOf(r) /\ NumberOf(r)' = NumberOf(r)
  BY <1>7 DEF JobOf, NumberOf
<1>15. \A r \in Sessions :
         session[r].pc # "idle" => JobOf(r) \in Jobs /\ NumberOf(r) \in Nat
  BY DEF IInv, NumberInv, Task, JobOf, NumberOf
<1>16. TxnTypeOK'
  BY <1>3, <1>5, <1>6, <1>7, <1>8, <1>9, <1>10 DEF IInv, TxnTypeOK
<1>17. NumberInv'
  <2>1. \A t \in tasks' : t.number <= job'[t.job].attemptCount + 1
    <3> SUFFICES ASSUME NEW t \in tasks PROVE t.number <= job'[t.job].attemptCount + 1
      BY <1>8
    <3>1. t.job \in Jobs /\ t.number \in Nat /\ t.number <= job[t.job].attemptCount + 1
      BY DEF IInv, TxnTypeOK, NumberInv, Task
    <3> QED
      BY <1>12, <3>1
  <2>2. ASSUME NEW r \in Sessions, session'[r].pc # "idle"
        PROVE  /\ session'[r].task \in Task /\ session'[r].kind \in Kinds
               /\ NumberOf(r)' <= job'[JobOf(r)'].attemptCount + 1
    <3>1. r # s /\ session[r].pc # "idle" /\ session'[r] = session[r]
      BY <1>7, <2>2 DEF IdleSession
    <3>2. /\ session[r].task \in Task /\ session[r].kind \in Kinds
          /\ NumberOf(r) <= job[JobOf(r)].attemptCount + 1
      BY <3>1 DEF IInv, NumberInv
    <3> QED
      BY <1>12, <1>14, <1>15, <3>1, <3>2
  <2> QED
    BY <2>1, <2>2 DEF NumberInv
<1>18. KeyInv'
  <2>1. ASSUME NEW r \in Sessions, HoldsKey(r)'
        PROVE  ~AttemptExists(JobOf(r), NumberOf(r))'
    <3>1. /\ r # s /\ HoldsKey(r)
          /\ JobOf(r)' = JobOf(r) /\ NumberOf(r)' = NumberOf(r)
      BY <1>13, <1>14, <2>1
    <3>2. /\ ~AttemptExists(JobOf(r), NumberOf(r))
          /\ JobOf(r) # j \/ NumberOf(r) # n
      BY <1>1, <3>1 DEF IInv, KeyInv, j, n
    <3>3. JobOf(r) \in Jobs /\ NumberOf(r) \in Nat
      BY <1>15, <3>1 DEF HoldsKey
    <3>4. ~AttemptExists(JobOf(r), NumberOf(r))' <=> ~(\E a \in attempts' : a.job = JobOf(r) /\ a.number = NumberOf(r))
      BY <3>1 DEF AttemptExists
    <3> QED
      BY <1>5, <1>9, <3>2, <3>4 DEF AttemptExists
  <2>2. \A r, v \in Sessions :
          r # v /\ HoldsKey(r)' /\ HoldsKey(v)' =>
            JobOf(r)' # JobOf(v)' \/ NumberOf(r)' # NumberOf(v)'
    BY <1>13, <1>14 DEF IInv, KeyInv
  <2> QED
    BY <2>1, <2>2 DEF KeyInv
<1>19. RowInv'
  <2>1. \A r \in Sessions : HoldsRowShare(r)' => ~ClaimLocked(JobOf(r))'
    BY <1>8, <1>13, <1>14 DEF IInv, RowInv, ClaimLocked
  <2>2. ASSUME NEW r \in Sessions, HoldsRow(r)'
        PROVE  HoldsLock(session[r].task.worker, JobOf(r))'
    <3>1. r # s /\ HoldsRow(r) /\ session'[r] = session[r] /\ JobOf(r)' = JobOf(r)
      BY <1>7, <1>13, <1>14, <2>2
    <3>2. JobOf(r) # j /\ HoldsLock(session[r].task.worker, JobOf(r))
      BY <1>1, <3>1 DEF IInv, RowInv, j
    <3>3. JobOf(r) \in Jobs
      BY <1>15, <3>1 DEF HoldsRow
    <3>4. job'[JobOf(r)] = job[JobOf(r)]
      BY <1>6, <3>2, <3>3
    <3> QED
      BY <3>1, <3>2, <3>4 DEF HoldsLock
  <2>3. \A r, v \in Sessions : r # v /\ HoldsRow(r)' /\ HoldsRow(v)' => JobOf(r)' # JobOf(v)'
    BY <1>13, <1>14 DEF IInv, RowInv
  <2> QED
    BY <2>1, <2>2, <2>3 DEF RowInv
<1>20. ClaimInv'
  <2>1. \A w \in Workers : j \notin claiming[w]
    BY <1>1 DEF IInv, RowInv, ClaimLocked, j
  <2> QED
    BY <1>6, <1>8, <2>1 DEF IInv, ClaimInv
<1>21. LogInv'
  <2> SUFFICES ASSUME NEW k \in Jobs, NEW m \in Nat \ {0}, m <= job'[k].attemptCount
               PROVE  AttemptExists(k, m)'
    BY DEF LogInv
  <2>1. CASE k = j /\ m = n
    BY <1>11, <2>1
  <2>2. CASE ~(k = j /\ m = n)
    <3>1. m <= job[k].attemptCount
      <4>1. CASE k = j
        BY <1>2, <1>10, <1>12, <2>2, <4>1
      <4>2. CASE k # j
        BY <1>6, <4>2
      <4> QED
        BY <4>1, <4>2
    <3>2. AttemptExists(k, m)
      BY <3>1 DEF IInv, LogInv
    <3> QED
      BY <1>11, <3>2
  <2> QED
    BY <2>1, <2>2
<1> QED
  BY <1>16, <1>17, <1>18, <1>19, <1>20, <1>21 DEF IInv

LEMMA ClaimLocksStep ==
  ASSUME IInv, NEW w \in Workers, ClaimLocks(w)
  PROVE  IInv'
<1>1. PICK picked \in SUBSET {j \in Jobs : Claimable(j)} \ {{}} :
        Cardinality(picked) <= ClaimLimit /\ claiming' = [claiming EXCEPT ![w] = picked]
  BY DEF ClaimLocks
<1>2. UNCHANGED <<now, job, attempts, tasks, session>>
  BY DEF ClaimLocks, tableVars
<1>3. /\ claiming \in [Workers -> SUBSET Jobs] /\ picked \subseteq Jobs
      /\ claiming'[w] = picked
      /\ \A v \in Workers \ {w} : claiming'[v] = claiming[v]
  BY <1>1 DEF IInv, TxnTypeOK
<1>4. \A j \in picked :
        /\ job[j].status \in Pending /\ job[j].attemptCount < MaxAttempts
        /\ ~ClaimLocked(j) /\ ~RowShared(j)
  BY DEF Claimable
<1>5. TxnTypeOK'
  BY <1>1, <1>2, <1>3 DEF IInv, TxnTypeOK
<1>6. NumberInv' /\ KeyInv' /\ LogInv'
  BY <1>2 DEF IInv, NumberInv, KeyInv, LogInv, NumberOf, JobOf, HoldsKey, AttemptExists
<1>7. RowInv'
  BY <1>2, <1>3, <1>4 DEF IInv, RowInv, JobOf, HoldsRowShare, HoldsRow, HoldsLock,
                          ClaimLocked, RowShared
<1>8. ClaimInv'
  <2>1. \A v, u \in Workers : v # u => claiming'[v] \cap claiming'[u] = {}
    BY <1>3, <1>4 DEF IInv, ClaimInv, ClaimLocked
  <2>2. \A v \in Workers, j \in Jobs :
          j \in claiming'[v] => job[j].status \in Pending /\ job[j].attemptCount < MaxAttempts
    BY <1>3, <1>4 DEF IInv, ClaimInv
  <2>3. \A v \in Workers : Cardinality(claiming'[v]) <= ClaimLimit
    BY <1>1, <1>3 DEF IInv, ClaimInv
  <2> QED
    BY <1>2, <2>1, <2>2, <2>3 DEF ClaimInv
<1> QED
  BY <1>5, <1>6, <1>7, <1>8 DEF IInv

LEMMA ClaimCommitsStep ==
  ASSUME IInv, NEW w \in Workers, ClaimCommits(w)
  PROVE  IInv'
<1> USE TableAssumption, TxnAssumption
<1> DEFINE new == {[worker |-> w, job |-> j, number |-> job[j].attemptCount + 1] : j \in claiming[w]}
<1>1. /\ tasks' = tasks \cup new
      /\ claiming' = [claiming EXCEPT ![w] = {}]
      /\ LockRows(claiming[w], w)
      /\ UNCHANGED <<now, attempts, session>>
  BY DEF ClaimCommits, LockRows
<1>2. /\ claiming \in [Workers -> SUBSET Jobs] /\ job \in [Jobs -> JobRow] /\ now \in Nat
      /\ claiming'[w] = {}
      /\ \A v \in Workers \ {w} : claiming'[v] = claiming[v]
  BY <1>1 DEF IInv, TxnTypeOK
<1>3. job' \in [Jobs -> JobRow]
  <2>1. \A j \in Jobs :
          [job[j] EXCEPT !.status = "delivering", !.lockedAt = now, !.lockedBy = w] \in JobRow
    <3> SUFFICES ASSUME NEW j \in Jobs
                 PROVE  [job[j] EXCEPT !.status = "delivering", !.lockedAt = now, !.lockedBy = w] \in JobRow
      OBVIOUS
    <3>1. job[j] \in JobRow /\ "delivering" \in {"absent"} \cup Pending \cup Terminal
      BY <1>2 DEF Pending
    <3> QED
      BY ONLY <1>2, <3>1, w \in Workers DEF JobRow
  <2> QED
    BY <1>1, <1>2, <2>1 DEF LockRows
<1>4. \A j \in Jobs :
        /\ job'[j].attemptCount = job[j].attemptCount
        /\ j \notin claiming[w] => job'[j] = job[j]
  <2> SUFFICES ASSUME NEW j \in Jobs
               PROVE  /\ job'[j].attemptCount = job[j].attemptCount
                      /\ j \notin claiming[w] => job'[j] = job[j]
    OBVIOUS
  <2>1. CASE j \in claiming[w]
    <3>1. job'[j] = [job[j] EXCEPT !.status = "delivering", !.lockedAt = now, !.lockedBy = w]
      BY <1>1, <2>1 DEF LockRows
    <3>2. job[j] \in JobRow
      BY <1>2
    <3> QED
      BY <2>1, <3>1, <3>2 DEF JobRow
  <2>2. CASE j \notin claiming[w]
    BY <1>1, <2>2 DEF LockRows
  <2> QED
    BY <2>1, <2>2
<1>5. new \subseteq Task /\ \A t \in new : t.number = job[t.job].attemptCount + 1
  <2> SUFFICES ASSUME NEW j \in claiming[w]
               PROVE  /\ j \in Jobs
                      /\ job[j].attemptCount + 1 \in 1 .. MaxAttempts
    BY DEF Task
  <2>1. j \in Jobs /\ job[j].attemptCount \in Nat
    BY <1>2 DEF JobRow
  <2>2. job[j].attemptCount < MaxAttempts
    BY <2>1 DEF IInv, ClaimInv
  <2> QED
    BY <2>1, <2>2
<1> HIDE DEF new
<1>6. TxnTypeOK'
  BY <1>1, <1>2, <1>3, <1>5 DEF IInv, TxnTypeOK
<1>7. NumberInv'
  <2>1. \A t \in tasks' : t.number <= job'[t.job].attemptCount + 1
    <3> SUFFICES ASSUME NEW t \in tasks' PROVE t.number <= job'[t.job].attemptCount + 1
      OBVIOUS
    <3>1. t \in Task /\ t.number <= job[t.job].attemptCount + 1
      <4>1. CASE t \in tasks
        BY <4>1 DEF IInv, NumberInv, TxnTypeOK
      <4>2. CASE t \in new
        <5>1. t \in Task /\ t.number = job[t.job].attemptCount + 1 /\ t.number \in Int
          BY <1>5, <4>2 DEF Task
        <5> QED
          BY <5>1
      <4> QED
        BY <1>1, <4>1, <4>2
    <3>2. job'[t.job].attemptCount = job[t.job].attemptCount
      BY <1>4, <3>1 DEF Task
    <3> QED
      BY <3>1, <3>2
  <2>2. ASSUME NEW s \in Sessions, session[s].pc # "idle"
        PROVE  /\ session[s].task \in Task /\ session[s].kind \in Kinds
               /\ NumberOf(s) <= job'[JobOf(s)].attemptCount + 1
    <3>1. /\ session[s].task \in Task /\ session[s].kind \in Kinds
          /\ NumberOf(s) <= job[JobOf(s)].attemptCount + 1
      BY <2>2 DEF IInv, NumberInv
    <3>2. JobOf(s) \in Jobs
      BY <3>1 DEF Task, JobOf
    <3> QED
      BY <1>4, <3>1, <3>2
  <2> QED
    BY <1>1, <2>1, <2>2 DEF NumberInv, NumberOf, JobOf
<1>8. KeyInv' /\ LogInv'
  BY <1>1, <1>4 DEF IInv, KeyInv, LogInv, NumberOf, JobOf, HoldsKey, AttemptExists
<1>9. RowInv'
  <2>1. ASSUME NEW s \in Sessions, HoldsRow(s)
        PROVE  job'[JobOf(s)] = job[JobOf(s)]
    <3>1. JobOf(s) \notin claiming[w]
      BY <2>1 DEF IInv, RowInv, HoldsRow, HoldsRowShare, ClaimLocked
    <3>2. JobOf(s) \in Jobs
      BY <2>1 DEF IInv, NumberInv, HoldsRow, Task, JobOf
    <3> QED
      BY <1>4, <3>1, <3>2
  <2>2. \A s \in Sessions : HoldsRow(s) => HoldsLock(session[s].task.worker, JobOf(s))'
    BY <1>1, <2>1 DEF IInv, RowInv, HoldsLock, JobOf
  <2>3. \A s \in Sessions : HoldsRowShare(s) => ~ClaimLocked(JobOf(s))'
    BY <1>1, <1>2 DEF IInv, RowInv, ClaimLocked, JobOf
  <2> QED
    BY <1>1, <2>2, <2>3 DEF IInv, RowInv, HoldsRow, HoldsRowShare, JobOf
<1>10. ClaimInv'
  <2>1. \A v \in Workers, j \in Jobs : j \in claiming'[v] => v # w /\ job'[j] = job[j]
    BY <1>2, <1>4 DEF IInv, ClaimInv
  <2>2. Cardinality(claiming'[w]) <= ClaimLimit
    BY <1>2, FS_EmptySet
  <2> QED
    BY <1>2, <2>1, <2>2 DEF IInv, ClaimInv
<1> QED
  BY <1>6, <1>7, <1>8, <1>9, <1>10 DEF IInv

LEMMA RefreshUrlStep ==
  ASSUME IInv, NEW task \in tasks, RefreshUrl(task)
  PROVE  IInv'
<1>1. PICK url \in Urls : SetDestinationUrl(task.worker, task.job, url)
  BY DEF RefreshUrl
<1>2. job' = [job EXCEPT ![task.job].url = url] /\ UNCHANGED <<now, attempts, txnVars>>
  BY <1>1 DEF RefreshUrl, SetDestinationUrl
<1>3. job \in [Jobs -> JobRow] /\ task.job \in Jobs
  BY DEF IInv, TxnTypeOK, Task
<1>4. job' \in [Jobs -> JobRow]
  BY <1>2, <1>3 DEF JobRow
<1>5. \A j \in Jobs :
        /\ job'[j].status = job[j].status /\ job'[j].attemptCount = job[j].attemptCount
        /\ job'[j].lockedBy = job[j].lockedBy
  BY <1>2, <1>3 DEF JobRow
<1>6. \A s \in Sessions : session[s].pc # "idle" => JobOf(s) \in Jobs
  BY DEF IInv, NumberInv, Task, JobOf
<1>7. TxnTypeOK'
  BY <1>2, <1>4 DEF IInv, TxnTypeOK, txnVars
<1>8. NumberInv'
  <2>1. \A t \in tasks : t.job \in Jobs
    BY DEF IInv, TxnTypeOK, Task
  <2> QED
    BY <1>2, <1>5, <1>6, <2>1 DEF IInv, NumberInv, NumberOf, JobOf, txnVars
<1>9. KeyInv' /\ LogInv' /\ ClaimInv'
  BY <1>2, <1>5 DEF IInv, KeyInv, LogInv, ClaimInv, NumberOf, JobOf, HoldsKey, AttemptExists, txnVars
<1>10. RowInv'
  BY <1>2, <1>5, <1>6 DEF IInv, RowInv, JobOf, HoldsRowShare, HoldsRow, HoldsLock, ClaimLocked, txnVars
<1> QED
  BY <1>7, <1>8, <1>9, <1>10 DEF IInv

LEMMA NextIInv == IInv /\ [TxnNext]_vars => IInv'
<1> SUFFICES ASSUME IInv, [TxnNext]_vars PROVE IInv'
  OBVIOUS
<1>1. CASE UNCHANGED vars
  BY <1>1 DEF vars, tableVars, txnVars, IInv, TxnTypeOK, NumberInv, KeyInv, RowInv, ClaimInv, LogInv,
              NumberOf, JobOf, HoldsKey, HoldsRowShare, HoldsRow, HoldsLock, ClaimLocked, AttemptExists
<1>2. CASE Finished
  BY <1>1, <1>2 DEF Finished
<1>3. ASSUME NEW s \in Sessions, Begin(s) \/ SessionStep(s) \/ LoseClient(s)
      PROVE  IInv'
  <2>1. CASE Rollback(s) \/ Abort(s)
    BY <2>1, CloseStep DEF Rollback, Abort, tableVars
  <2> QED
    BY <1>3, <2>1, BeginStep, InsertAttemptStep, CheckForeignKeyStep, UpdateJobStep, CommitStep,
       LoseClientStep
       DEF SessionStep
<1>4. ASSUME NEW w \in Workers, ClaimLocks(w) \/ ClaimCommits(w)
      PROVE  IInv'
  BY <1>4, ClaimLocksStep, ClaimCommitsStep
<1>5. ASSUME NEW task \in tasks, RefreshUrl(task)
      PROVE  IInv'
  BY <1>5, RefreshUrlStep
<1> QED
  BY <1>1, <1>2, <1>3, <1>4, <1>5 DEF TxnNext

-----------------------------------------------------------------------------

\* The inductive invariant of the transactions holds in every reachable state.
THEOREM Invariance == TxnSpec => []IInv
  BY InitIInv, NextIInv, PTL DEF TxnSpec

\* Every variable of the transactions keeps its type.
THEOREM TypeCorrect == TxnSpec => []TxnTypeOK
<1>1. IInv => TxnTypeOK
  BY DEF IInv
<1> QED
  BY Invariance, <1>1, PTL

\* What the UPDATE of a record_* transaction has seen still holds at its COMMIT
\* (db.rs record_success, record_retry, record_final_failure).
THEOREM StillDue == TxnSpec => []CommitIsStillDue
<1>1. IInv => CommitIsStillDue
  BY CommitsNext DEF CommitIsStillDue, CanRecord, NumberOf
<1> QED
  BY Invariance, <1>1, PTL

-----------------------------------------------------------------------------
(* The refinement. *)

LEMMA CommitRefines ==
  ASSUME IInv, NEW s \in Sessions, Commit(s)
  PROVE  \E w \in Workers, j \in Jobs : Table!Record(w, j)
<1> DEFINE w == session[s].task.worker
           j == JobOf(s)
           n == NumberOf(s)
           kind == session[s].kind
<1>1. HoldsRow(s)
  BY DEF Commit, HoldsRow
<1>2. /\ session[s].task \in Task /\ kind \in Kinds
      /\ HoldsLock(w, j) /\ ~AttemptExists(j, n)
      /\ n = job[j].attemptCount + 1
  BY <1>1, CommitsNext
<1>3. w \in Workers /\ j \in Jobs /\ n \in Nat \ {0} /\ job[j].attemptCount \in Nat
  BY <1>2, TxnAssumption DEF Task, JobOf, NumberOf, IInv, TxnTypeOK, JobRow
<1>4. n \in 1 .. job[j].attemptCount + 1
  BY <1>2, <1>3
<1>5. Table!CanRecord(w, j, n)
  BY <1>2 DEF Table!CanRecord, Table!HoldsLock, Table!AttemptExists, HoldsLock, AttemptExists
<1>6. Table!RecordOutcome(w, j, n, kind.outcome, kind.status, kind.next)
  BY <1>5 DEF Commit, Publish, Table!RecordOutcome, JobOf, NumberOf
<1> HIDE DEF w, j, n, kind
<1>7. \/ Table!RecordSuccess(w, j, n)
      \/ Table!RecordRetry(w, j, n, 0)
      \/ Table!RecordFinalFailure(w, j, n, "failure")
  BY <1>2, <1>6 DEF Kinds, Table!RecordSuccess, Table!RecordRetry, Table!RecordFinalFailure
<1> QED
  BY <1>3, <1>4, <1>7 DEF Table!Record

\* The commits of a record_* transaction, of a claim and of a refresh are the steps of
\* the tables; nothing else can be seen from outside.
LEMMA NextRefines == IInv /\ [TxnNext]_vars => [Table!Next]_<<now, tableVars>>
<1> SUFFICES ASSUME IInv, [TxnNext]_vars, <<now, tableVars>>' # <<now, tableVars>>
             PROVE  Table!Next
  OBVIOUS
<1>1. now' = now
  BY DEF TxnNext, SessionStep, Begin, InsertAttempt, CheckForeignKey, UpdateJob, Commit, Rollback,
         Abort, LoseClient, ClaimLocks, ClaimCommits, RefreshUrl, Finished, vars
<1>2. ASSUME NEW s \in Sessions, Commit(s) PROVE Table!Next
  BY <1>1, <1>2, CommitRefines DEF Table!Next
<1>3. ASSUME NEW w \in Workers, ClaimCommits(w) PROVE Table!Next
  <2> DEFINE picked == claiming[w]
  <2>1. picked \in SUBSET {j \in Jobs : job[j].status \in Table!Pending}
    BY DEF IInv, TxnTypeOK, ClaimInv, Pending, Table!Pending
  <2>2. Table!Cardinality(picked) <= ClaimLimit
    <3>1. Table!Cardinality(picked) = Cardinality(picked)
      BY DEF Table!Cardinality, Cardinality
    <3> QED
      BY <3>1 DEF IInv, ClaimInv
  <2>3. Table!LockRows(picked, w)
    BY <1>3 DEF ClaimCommits, LockRows, Table!LockRows
  <2>4. Table!Claim(w)
    BY <2>1, <2>2, <2>3 DEF Table!Claim
  <2> QED
    BY <1>1, <2>4 DEF Table!Next
<1>4. ASSUME NEW task \in tasks, RefreshUrl(task) PROVE Table!Next
  <2>1. PICK url \in Urls : SetDestinationUrl(task.worker, task.job, url)
    BY <1>4 DEF RefreshUrl
  <2>2. Table!SetDestinationUrl(task.worker, task.job, url)
    BY <2>1 DEF SetDestinationUrl, HoldsLock, Table!SetDestinationUrl, Table!HoldsLock
  <2>3. task.worker \in Workers /\ task.job \in Jobs
    BY DEF IInv, TxnTypeOK, Task
  <2> QED
    BY <1>1, <2>2, <2>3 DEF Table!Next
<1>5. \A s \in Sessions :
        ~(\/ Begin(s) \/ InsertAttempt(s) \/ CheckForeignKey(s) \/ UpdateJob(s)
          \/ Rollback(s) \/ Abort(s) \/ LoseClient(s))
  BY DEF Begin, InsertAttempt, CheckForeignKey, UpdateJob, Rollback, Abort, LoseClient
<1>6. \A w \in Workers : ~ClaimLocks(w)
  BY DEF ClaimLocks
<1>7. ~Finished /\ ~UNCHANGED vars
  BY DEF Finished, vars
<1> QED
  BY <1>2, <1>3, <1>4, <1>5, <1>6, <1>7 DEF TxnNext, SessionStep

\* The transactions implement the atomic tables: what all other modules take for one
\* step of the database is one (db.rs claim_due_jobs, update_claimed_job_destination_url
\* and record_*).
THEOREM ImplementsAtomicTable == TxnSpec => AtomicSpec
<1>1. TxnInit => Table!Init
  BY DEF TxnInit, Init, Table!Init, AbsentJob, Table!AbsentJob
<1>2. [Table!Next]_<<now, tableVars>> => [Table!Next]_<<now, Table!tableVars>>
  BY DEF tableVars, Table!tableVars
<1> QED
  BY <1>1, <1>2, NextRefines, Invariance, PTL DEF TxnSpec, AtomicSpec, Table!Spec
=============================================================================
