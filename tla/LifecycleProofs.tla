-------------------------- MODULE LifecycleProofs --------------------------
(***************************************************************************)
(* Proofs about Lifecycle, for every number of workers, set of jobs, claim *)
(* limit, timeout and bound.                                               *)
(***************************************************************************)
EXTENDS Lifecycle, FiniteSetTheorems, TLAPS

(***************************************************************************)
(* The inductive invariant.                                                *)
(***************************************************************************)

\* A worker has a batch only between the answer of a claim and the end of its tasks,
\* and no more of it than a claim may lock.
BatchInv ==
  \A w \in Workers :
    /\ loop[w] \notin {"answered", "batch"} => batch[w] = {}
    /\ IsFiniteSet(batch[w])
    /\ Cardinality(batch[w]) <= ClaimLimit

\* The flag tells how far main is, and a worker that has sent a claim after the
\* signal does not come to send another.
SignalInv ==
  /\ main \in {"binding", "serving", "failed"} => ~shutdown
  /\ main \in {"closing", "draining", "returned"} => shutdown
  /\ \A w \in Workers :
       /\ main # "exited" => loop[w] # "aborted"
       /\ late[w] <= 1
       /\ late[w] # 0 => shutdown /\ loop[w] # "polling"

\* Batches begin no later than the signal, which workers without one obey at once.
ClockInv ==
  /\ signalAt <= now
  /\ \A w \in Workers :
       /\ startedAt[w] <= now
       /\ shutdown /\ main # "exited" =>
            /\ startedAt[w] <= signalAt
            /\ now = signalAt \/ loop[w] \in {"top", "batch", "stopped"}

IInv == TypeOK /\ BatchInv /\ SignalInv /\ ClockInv

-----------------------------------------------------------------------------

LEMMA WorkersAreNat == Workers \subseteq Nat \ {0} /\ 1 \in Workers /\ WorkerCount \in Workers
  BY LifecycleAssumption DEF Workers

LEMMA InitIInv == Init => IInv
<1> SUFFICES ASSUME Init PROVE IInv
  OBVIOUS
<1> USE LifecycleAssumption, WorkersAreNat DEF Init
<1>1. TypeOK
  BY DEF TypeOK, MainPcs, LoopPcs
<1>2. BatchInv
  BY FS_EmptySet DEF BatchInv
<1>3. SignalInv /\ ClockInv
  BY DEF SignalInv, ClockInv
<1> QED
  BY <1>1, <1>2, <1>3 DEF IInv

\* The rows a claim locks are due, and no more than ClaimLimit.
LEMMA PicksAreBounded ==
  ASSUME TypeOK, NEW picked \in Picks
  PROVE  /\ picked \subseteq due
         /\ IsFiniteSet(picked)
         /\ Cardinality(picked) <= ClaimLimit
<1> USE LifecycleAssumption
<1>1. IsFiniteSet(due) /\ Cardinality(due) \in Nat
  BY FS_Subset, FS_CardinalityType DEF TypeOK
<1> DEFINE m == Min({ClaimLimit, Cardinality(due)})
<1>2. m <= ClaimLimit
  <2>1. \E x \in {ClaimLimit, Cardinality(due)} :
          \A y \in {ClaimLimit, Cardinality(due)} : x =< y
    BY <1>1
  <2> QED
    BY <2>1, <1>1 DEF Min
<1>3. picked \subseteq due /\ Cardinality(picked) = m
  BY DEF Picks, kSubset
<1>4. IsFiniteSet(picked)
  BY <1>1, <1>3, FS_Subset
<1> QED
  BY <1>2, <1>3, <1>4

-----------------------------------------------------------------------------

\* The steps of Next, with main's two ends of the process taken together.
LEMMA NextCases ==
  ASSUME [Next]_vars
  PROVE  \/ UNCHANGED vars
         \/ Tick \/ Bind \/ Signal \/ ServerCloses \/ JoinWorker \/ EndProcess
         \/ \E j \in Jobs : Arrive(j)
         \/ \E w \in Workers :
              \/ LoopTop(w) \/ SendClaim(w) \/ ClaimAnswers(w) \/ Receive(w)
              \/ Stop(w) \/ Wake(w) \/ BatchEnds(w) \/ ClaimFails(w) \/ GhostClaim(w)
         \/ \E w \in Workers, j \in Jobs : TaskRecords(w, j) \/ TaskFails(w, j)
  BY DEF Next, LoopStep, RuntimeDropped, Killed, Exited

LEMMA TypeStep == IInv /\ [Next]_vars => TypeOK'
<1> SUFFICES ASSUME IInv, [Next]_vars PROVE TypeOK'
  OBVIOUS
<1> USE LifecycleAssumption, WorkersAreNat
    DEF IInv, TypeOK, MainPcs, LoopPcs, Ended, Goto, Fault, LockRows,
        vars, mainVars, loopVars, tableVars
<1>1. CASE UNCHANGED vars
  BY <1>1
<1>2. CASE Tick
  BY <1>2 DEF Tick
<1>3. CASE Bind
  BY <1>3 DEF Bind
<1>4. CASE Signal
  BY <1>4 DEF Signal
<1>5. CASE ServerCloses
  BY <1>5 DEF ServerCloses
<1>6. CASE JoinWorker
  <2>1. handle' \in Workers
    <3>1. handle \in Nat /\ handle >= 1 /\ handle <= WorkerCount
      BY DEF Workers
    <3>2. handle' = handle \/ (handle' = handle + 1 /\ handle # WorkerCount)
      BY <1>6 DEF JoinWorker, NextHandle
    <3> QED
      BY ONLY <3>1, <3>2, LifecycleAssumption DEF Workers
  <2>2. waitUntil' \in Nat /\ main' \in MainPcs
    BY <1>6 DEF JoinWorker, NextHandle
  <2> QED
    BY <1>6, <2>1, <2>2 DEF JoinWorker
<1>7. CASE EndProcess
  BY <1>7 DEF EndProcess
<1>8. ASSUME NEW j \in Jobs, Arrive(j) PROVE TypeOK'
  BY <1>8 DEF Arrive
<1>9. ASSUME NEW w \in Workers, LoopTop(w) PROVE TypeOK'
  BY <1>9 DEF LoopTop
<1>10. ASSUME NEW w \in Workers, SendClaim(w) PROVE TypeOK'
  BY <1>10 DEF SendClaim
<1>11. ASSUME NEW w \in Workers, ClaimAnswers(w) PROVE TypeOK'
  BY <1>11, PicksAreBounded DEF ClaimAnswers
<1>12. ASSUME NEW w \in Workers, Receive(w) PROVE TypeOK'
  BY <1>12 DEF Receive
<1>13. ASSUME NEW w \in Workers, Stop(w) PROVE TypeOK'
  BY <1>13 DEF Stop
<1>14. ASSUME NEW w \in Workers, Wake(w) PROVE TypeOK'
  BY <1>14 DEF Wake
<1>15. ASSUME NEW w \in Workers, BatchEnds(w) PROVE TypeOK'
  BY <1>15 DEF BatchEnds
<1>16. ASSUME NEW w \in Workers, ClaimFails(w) PROVE TypeOK'
  BY <1>16 DEF ClaimFails
<1>17. ASSUME NEW w \in Workers, GhostClaim(w) PROVE TypeOK'
  BY <1>17, PicksAreBounded DEF GhostClaim
<1>18. ASSUME NEW w \in Workers, NEW j \in Jobs, TaskRecords(w, j) PROVE TypeOK'
  BY <1>18 DEF TaskRecords
<1>19. ASSUME NEW w \in Workers, NEW j \in Jobs, TaskFails(w, j) PROVE TypeOK'
  BY <1>19 DEF TaskFails
<1> QED
  BY <1>1, <1>2, <1>3, <1>4, <1>5, <1>6, <1>7, <1>8, <1>9, <1>10, <1>11, <1>12, <1>13, <1>14, <1>15, <1>16, <1>17, <1>18, <1>19, NextCases

\* A task that ends leaves a smaller batch.
LEMMA RemoveOne ==
  ASSUME BatchInv, NEW w \in Workers, NEW j
  PROVE  /\ IsFiniteSet(batch[w] \ {j})
         /\ Cardinality(batch[w] \ {j}) <= ClaimLimit
<1>1. IsFiniteSet(batch[w]) /\ Cardinality(batch[w]) <= ClaimLimit
  BY DEF BatchInv
<1>2. Cardinality(batch[w]) \in Nat
  BY <1>1, FS_CardinalityType
<1>3. /\ IsFiniteSet(batch[w] \ {j})
      /\ \/ Cardinality(batch[w] \ {j}) = Cardinality(batch[w])
         \/ Cardinality(batch[w] \ {j}) = Cardinality(batch[w]) - 1
  BY <1>1, FS_RemoveElement
<1> QED
  BY <1>1, <1>2, <1>3, LifecycleAssumption

LEMMA BatchStep == IInv /\ [Next]_vars => BatchInv'
<1> SUFFICES ASSUME IInv, [Next]_vars PROVE BatchInv'
  OBVIOUS
<1> USE LifecycleAssumption, WorkersAreNat
    DEF IInv, TypeOK, BatchInv, Goto, vars, mainVars, loopVars, tableVars
<1>1. CASE UNCHANGED vars
  BY <1>1
<1>2. CASE Tick
  BY <1>2 DEF Tick
<1>3. CASE Bind
  BY <1>3 DEF Bind
<1>4. CASE Signal
  BY <1>4 DEF Signal
<1>5. CASE ServerCloses
  BY <1>5 DEF ServerCloses
<1>6. CASE JoinWorker
  BY <1>6 DEF JoinWorker, NextHandle
<1>7. CASE EndProcess
  BY <1>7, FS_EmptySet DEF EndProcess
<1>8. ASSUME NEW j \in Jobs, Arrive(j) PROVE BatchInv'
  BY <1>8 DEF Arrive
<1>9. ASSUME NEW w \in Workers, LoopTop(w) PROVE BatchInv'
  BY <1>9 DEF LoopTop
<1>10. ASSUME NEW w \in Workers, SendClaim(w) PROVE BatchInv'
  BY <1>10 DEF SendClaim
<1>11. ASSUME NEW w \in Workers, ClaimAnswers(w) PROVE BatchInv'
  <2>1. PICK picked \in Picks : batch' = [batch EXCEPT ![w] = @ \cup picked]
    BY <1>11 DEF ClaimAnswers
  <2>2. batch'[w] = picked /\ \A v \in Workers \ {w} : batch'[v] = batch[v]
    BY <2>1, <1>11 DEF ClaimAnswers
  <2>3. IsFiniteSet(picked) /\ Cardinality(picked) <= ClaimLimit
    BY PicksAreBounded
  <2> QED
    BY <1>11, <2>2, <2>3 DEF ClaimAnswers
<1>12. ASSUME NEW w \in Workers, Receive(w) PROVE BatchInv'
  BY <1>12 DEF Receive
<1>13. ASSUME NEW w \in Workers, Stop(w) PROVE BatchInv'
  BY <1>13, FS_EmptySet DEF Stop
<1>14. ASSUME NEW w \in Workers, Wake(w) PROVE BatchInv'
  BY <1>14 DEF Wake
<1>15. ASSUME NEW w \in Workers, BatchEnds(w) PROVE BatchInv'
  BY <1>15 DEF BatchEnds
<1>16. ASSUME NEW w \in Workers, ClaimFails(w) PROVE BatchInv'
  BY <1>16, FS_EmptySet DEF ClaimFails
<1>17. ASSUME NEW w \in Workers, GhostClaim(w) PROVE BatchInv'
  BY <1>17 DEF GhostClaim
<1>18. ASSUME NEW w \in Workers, NEW j \in Jobs, TaskRecords(w, j) PROVE BatchInv'
  BY <1>18, RemoveOne DEF TaskRecords
<1>19. ASSUME NEW w \in Workers, NEW j \in Jobs, TaskFails(w, j) PROVE BatchInv'
  BY <1>19, RemoveOne DEF TaskFails
<1> QED
  BY <1>1, <1>2, <1>3, <1>4, <1>5, <1>6, <1>7, <1>8, <1>9, <1>10, <1>11, <1>12, <1>13, <1>14, <1>15, <1>16, <1>17, <1>18, <1>19, NextCases

LEMMA SignalStep == IInv /\ [Next]_vars => SignalInv'
<1> SUFFICES ASSUME IInv, [Next]_vars PROVE SignalInv'
  OBVIOUS
<1> USE LifecycleAssumption, WorkersAreNat
    DEF IInv, TypeOK, SignalInv, MainPcs, LoopPcs, Ended, Goto,
        vars, mainVars, loopVars, tableVars
<1>1. CASE UNCHANGED vars
  BY <1>1
<1>2. CASE Tick
  BY <1>2 DEF Tick
<1>3. CASE Bind
  BY <1>3 DEF Bind
<1>4. CASE Signal
  BY <1>4 DEF Signal
<1>5. CASE ServerCloses
  BY <1>5 DEF ServerCloses
<1>6. CASE JoinWorker
  BY <1>6 DEF JoinWorker, NextHandle
<1>7. CASE EndProcess
  BY <1>7 DEF EndProcess
<1>8. ASSUME NEW j \in Jobs, Arrive(j) PROVE SignalInv'
  BY <1>8 DEF Arrive
<1>9. ASSUME NEW w \in Workers, LoopTop(w) PROVE SignalInv'
  BY <1>9 DEF LoopTop
<1>10. ASSUME NEW w \in Workers, SendClaim(w) PROVE SignalInv'
  BY <1>10 DEF SendClaim
<1>11. ASSUME NEW w \in Workers, ClaimAnswers(w) PROVE SignalInv'
  BY <1>11 DEF ClaimAnswers
<1>12. ASSUME NEW w \in Workers, Receive(w) PROVE SignalInv'
  BY <1>12 DEF Receive
<1>13. ASSUME NEW w \in Workers, Stop(w) PROVE SignalInv'
  BY <1>13 DEF Stop
<1>14. ASSUME NEW w \in Workers, Wake(w) PROVE SignalInv'
  BY <1>14 DEF Wake
<1>15. ASSUME NEW w \in Workers, BatchEnds(w) PROVE SignalInv'
  BY <1>15 DEF BatchEnds
<1>16. ASSUME NEW w \in Workers, ClaimFails(w) PROVE SignalInv'
  BY <1>16 DEF ClaimFails
<1>17. ASSUME NEW w \in Workers, GhostClaim(w) PROVE SignalInv'
  BY <1>17 DEF GhostClaim
<1>18. ASSUME NEW w \in Workers, NEW j \in Jobs, TaskRecords(w, j) PROVE SignalInv'
  BY <1>18 DEF TaskRecords
<1>19. ASSUME NEW w \in Workers, NEW j \in Jobs, TaskFails(w, j) PROVE SignalInv'
  BY <1>19 DEF TaskFails
<1> QED
  BY <1>1, <1>2, <1>3, <1>4, <1>5, <1>6, <1>7, <1>8, <1>9, <1>10, <1>11, <1>12, <1>13, <1>14, <1>15, <1>16, <1>17, <1>18, <1>19, NextCases

LEMMA ClockStep == IInv /\ [Next]_vars => ClockInv'
<1> SUFFICES ASSUME IInv, [Next]_vars PROVE ClockInv'
  OBVIOUS
<1> USE LifecycleAssumption, WorkersAreNat
    DEF IInv, TypeOK, SignalInv, ClockInv, LoopPcs, Ended, Goto,
        vars, mainVars, loopVars, tableVars
<1>1. CASE UNCHANGED vars
  BY <1>1
<1>2. CASE Tick
  BY <1>2 DEF Tick, WorkerIsReady, ChannelIsReady
<1>3. CASE Bind
  BY <1>3 DEF Bind
<1>4. CASE Signal
  BY <1>4 DEF Signal
<1>5. CASE ServerCloses
  BY <1>5 DEF ServerCloses
<1>6. CASE JoinWorker
  BY <1>6 DEF JoinWorker, NextHandle
<1>7. CASE EndProcess
  BY <1>7 DEF EndProcess
<1>8. ASSUME NEW j \in Jobs, Arrive(j) PROVE ClockInv'
  BY <1>8 DEF Arrive
<1>9. ASSUME NEW w \in Workers, LoopTop(w) PROVE ClockInv'
  BY <1>9 DEF LoopTop
<1>10. ASSUME NEW w \in Workers, SendClaim(w) PROVE ClockInv'
  BY <1>10 DEF SendClaim
<1>11. ASSUME NEW w \in Workers, ClaimAnswers(w) PROVE ClockInv'
  BY <1>11 DEF ClaimAnswers
<1>12. ASSUME NEW w \in Workers, Receive(w) PROVE ClockInv'
  BY <1>12 DEF Receive
<1>13. ASSUME NEW w \in Workers, Stop(w) PROVE ClockInv'
  BY <1>13 DEF Stop
<1>14. ASSUME NEW w \in Workers, Wake(w) PROVE ClockInv'
  BY <1>14 DEF Wake
<1>15. ASSUME NEW w \in Workers, BatchEnds(w) PROVE ClockInv'
  BY <1>15 DEF BatchEnds
<1>16. ASSUME NEW w \in Workers, ClaimFails(w) PROVE ClockInv'
  BY <1>16 DEF ClaimFails
<1>17. ASSUME NEW w \in Workers, GhostClaim(w) PROVE ClockInv'
  BY <1>17 DEF GhostClaim
<1>18. ASSUME NEW w \in Workers, NEW j \in Jobs, TaskRecords(w, j) PROVE ClockInv'
  BY <1>18 DEF TaskRecords
<1>19. ASSUME NEW w \in Workers, NEW j \in Jobs, TaskFails(w, j) PROVE ClockInv'
  BY <1>19 DEF TaskFails
<1> QED
  BY <1>1, <1>2, <1>3, <1>4, <1>5, <1>6, <1>7, <1>8, <1>9, <1>10, <1>11, <1>12, <1>13, <1>14, <1>15, <1>16, <1>17, <1>18, <1>19, NextCases

LEMMA NextIInv == IInv /\ [Next]_vars => IInv'
  BY TypeStep, BatchStep, SignalStep, ClockStep DEF IInv

-----------------------------------------------------------------------------

\* The inductive invariant of the process holds in every reachable state.
THEOREM Invariance == Spec => []IInv
  BY InitIInv, NextIInv, PTL DEF Spec

\* Every variable of the process keeps its type.
THEOREM TypeCorrect == Spec => []TypeOK
<1>1. IInv => TypeOK
  BY DEF IInv
<1> QED
  BY Invariance, <1>1, PTL

\* A worker sends at most one claim after the signal (delivery.rs run_worker).
THEOREM LateClaim == Spec => []OneLateClaim
<1>1. IInv => OneLateClaim
  BY DEF IInv, SignalInv, OneLateClaim
<1> QED
  BY Invariance, <1>1, PTL

-----------------------------------------------------------------------------
(* The drain. *)

\* w is done, or has had the whole drain timeout for its last batch.
HadItsTime(w) ==
  \/ loop[w] = "stopped"
  \/ loop[w] \in {"batch", "top"} /\ now >= startedAt[w] + DrainTimeout

\* Main waits for each handle until one timeout has passed since the signal or more;
\* the workers it no longer waits for have had theirs.
DrainInv ==
  /\ main = "draining" =>
       /\ waitUntil >= signalAt + DrainTimeout
       /\ \A w \in Workers : w < handle => HadItsTime(w)
  /\ main = "returned" => \A w \in Workers : HadItsTime(w)

\* A worker that has had its time takes no step that changes that.
LEMMA NextDrainInv == IInv /\ DrainInv /\ [Next]_vars => DrainInv'
<1> SUFFICES ASSUME IInv, DrainInv, [Next]_vars PROVE DrainInv'
  OBVIOUS
<1> USE LifecycleAssumption, WorkersAreNat
    DEF IInv, TypeOK, SignalInv, ClockInv, DrainInv, HadItsTime, LoopPcs, Ended, Goto,
        vars, mainVars, loopVars, tableVars
<1>1. CASE UNCHANGED vars
  BY <1>1
<1>2. CASE Tick
  BY <1>2 DEF Tick
<1>3. CASE Bind
  BY <1>3 DEF Bind
<1>4. CASE Signal
  BY <1>4 DEF Signal
<1>5. CASE ServerCloses
  BY <1>5 DEF ServerCloses
<1>6. CASE JoinWorker
  <2>1. handle \in Workers /\ HadItsTime(handle)
    BY <1>6 DEF JoinWorker
  <2>2. \A w \in Workers : w <= handle => HadItsTime(w)
    <3> SUFFICES ASSUME NEW w \in Workers, w <= handle PROVE HadItsTime(w)
      OBVIOUS
    <3>1. CASE w = handle
      BY <2>1, <3>1
    <3>2. CASE w < handle
      BY <1>6, <3>2 DEF JoinWorker
    <3> QED
      BY <2>1, <3>1, <3>2
  <2>3. \A w \in Workers : HadItsTime(w)' <=> HadItsTime(w)
    BY <1>6 DEF JoinWorker
  <2>4. CASE handle = WorkerCount
    <3>1. \A w \in Workers : w <= handle
      BY <2>4 DEF Workers
    <3>2. main' = "returned"
      BY <1>6, <2>4 DEF JoinWorker, NextHandle
    <3> QED
      BY <2>2, <2>3, <3>1, <3>2
  <2>5. CASE handle # WorkerCount
    <3>1. /\ main' = "draining" /\ handle' = handle + 1 /\ waitUntil' = now + DrainTimeout
          /\ signalAt' = signalAt
      BY <1>6, <2>5 DEF JoinWorker, NextHandle
    <3>2. \A w \in Workers : w < handle + 1 => w <= handle
      BY <2>1
    <3> QED
      BY <2>2, <2>3, <3>1, <3>2
  <2> QED
    BY <2>4, <2>5
<1>7. CASE EndProcess
  BY <1>7 DEF EndProcess
<1>8. ASSUME NEW j \in Jobs, Arrive(j) PROVE DrainInv'
  BY <1>8 DEF Arrive
<1>9. ASSUME NEW w \in Workers, LoopTop(w) PROVE DrainInv'
  BY <1>9 DEF LoopTop
<1>10. ASSUME NEW w \in Workers, SendClaim(w) PROVE DrainInv'
  BY <1>10 DEF SendClaim
<1>11. ASSUME NEW w \in Workers, ClaimAnswers(w) PROVE DrainInv'
  BY <1>11 DEF ClaimAnswers
<1>12. ASSUME NEW w \in Workers, Receive(w) PROVE DrainInv'
  BY <1>12 DEF Receive
<1>13. ASSUME NEW w \in Workers, Stop(w) PROVE DrainInv'
  BY <1>13 DEF Stop
<1>14. ASSUME NEW w \in Workers, Wake(w) PROVE DrainInv'
  BY <1>14 DEF Wake
<1>15. ASSUME NEW w \in Workers, BatchEnds(w) PROVE DrainInv'
  BY <1>15 DEF BatchEnds
<1>16. ASSUME NEW w \in Workers, ClaimFails(w) PROVE DrainInv'
  BY <1>16 DEF ClaimFails
<1>17. ASSUME NEW w \in Workers, GhostClaim(w) PROVE DrainInv'
  BY <1>17 DEF GhostClaim
<1>18. ASSUME NEW w \in Workers, NEW j \in Jobs, TaskRecords(w, j) PROVE DrainInv'
  BY <1>18 DEF TaskRecords
<1>19. ASSUME NEW w \in Workers, NEW j \in Jobs, TaskFails(w, j) PROVE DrainInv'
  BY <1>19 DEF TaskFails
<1> QED
  BY <1>1, <1>2, <1>3, <1>4, <1>5, <1>6, <1>7, <1>8, <1>9, <1>10, <1>11, <1>12, <1>13, <1>14, <1>15, <1>16, <1>17, <1>18, <1>19, NextCases

\* The drain cuts nothing short that fits in worker_drain_timeout (main.rs).
THEOREM GivenUp == Spec => []GivenUpOnlyWhenOverdue
<1>1. Init => DrainInv
  BY DEF Init, DrainInv
<1>2. IInv /\ DrainInv => GivenUpOnlyWhenOverdue
  BY DEF IInv, DrainInv, HadItsTime, GivenUpOnlyWhenOverdue
<1> QED
  BY <1>1, <1>2, NextDrainInv, Invariance, PTL DEF Spec

-----------------------------------------------------------------------------
(* How long the end takes. *)

\* Each handle adds at most one timeout, and once every request and every batch has
\* ended main has nobody to wait for.
ExitInv ==
  /\ main = "closing" => now <= signalAt + ServeBound
  /\ main = "draining" =>
       /\ now <= waitUntil
       /\ waitUntil <= signalAt + ServeBound + handle * DrainTimeout
  /\ main = "returned" => now <= signalAt + ServeBound + WorkerCount * DrainTimeout
  /\ main \in {"draining", "returned"} =>
       now <= signalAt + ServeBound \/ now <= signalAt + BatchBound

LEMMA ProductsAreNat ==
  /\ \A a \in Nat : a * DrainTimeout \in Nat
  /\ \A a \in Nat : (a + 1) * DrainTimeout = a * DrainTimeout + DrainTimeout
  /\ \A a, b \in Nat : a <= b => a * DrainTimeout <= b * DrainTimeout
  BY LifecycleAssumption

LEMMA NextExitInv == IInv /\ ExitInv /\ [Next]_vars => ExitInv'
<1> SUFFICES ASSUME IInv, ExitInv, [Next]_vars PROVE ExitInv'
  OBVIOUS
<1> USE LifecycleAssumption, WorkersAreNat
    DEF IInv, TypeOK, SignalInv, ClockInv, ExitInv, Ended, Goto,
        vars, mainVars, loopVars, tableVars
<1>1. CASE UNCHANGED vars
  BY <1>1
<1>2. CASE Tick
  <2>1. /\ now' = now + 1 /\ ~MainIsReady
        /\ \A w \in Workers :
             ~WorkerIsReady(w) /\ (loop[w] = "batch" => now < startedAt[w] + BatchBound)
        /\ UNCHANGED <<mainVars, loopVars>>
    BY <1>2 DEF Tick
  <2>2. CASE main = "closing"
    BY <1>2, <2>1, <2>2 DEF Tick
  <2>3. CASE main = "draining"
    <3>1. loop[handle] # "stopped" /\ now < waitUntil
      BY <2>1, <2>3 DEF MainIsReady
    <3>2. handle \in Workers /\ loop[handle] \in LoopPcs /\ startedAt[handle] \in Nat
      BY DEF LoopPcs
    <3>3. shutdown /\ startedAt[handle] <= signalAt
      BY <2>3, <3>2
    <3>4. now = signalAt \/ loop[handle] = "batch"
      BY <2>1, <2>3, <3>1, <3>2, <3>3 DEF WorkerIsReady
    <3>5. now + 1 <= signalAt + ServeBound \/ now + 1 <= signalAt + BatchBound
      <4>1. CASE loop[handle] = "batch"
        BY <2>1, <3>2, <3>3, <4>1
      <4>2. CASE loop[handle] # "batch"
        <5>1. loop[handle] = "aborted"
          BY <2>1, <2>3, <3>1, <3>2, <3>3, <4>2 DEF WorkerIsReady, ChannelIsReady, LoopPcs
        <5> QED
          BY <2>3, <3>2, <5>1
      <4> QED
        BY <4>1, <4>2
    <3> QED
      BY <2>1, <2>3, <3>1, <3>5
  <2>4. CASE main \notin {"closing", "draining"}
    BY <2>1, <2>4 DEF MainIsReady
  <2> QED
    BY <2>2, <2>3, <2>4
<1>3. CASE Bind
  BY <1>3 DEF Bind
<1>4. CASE Signal
  BY <1>4 DEF Signal
<1>5. CASE ServerCloses
  BY <1>5, ProductsAreNat DEF ServerCloses
<1>6. CASE JoinWorker
  <2>1. handle \in Nat /\ main = "draining" /\ UNCHANGED <<now, signalAt>>
    BY <1>6 DEF JoinWorker
  <2>2. CASE handle = WorkerCount
    BY <1>6, <2>1, <2>2, ProductsAreNat DEF JoinWorker, NextHandle
  <2>3. CASE handle # WorkerCount
    <3>1. /\ main' = "draining" /\ handle' = handle + 1 /\ waitUntil' = now + DrainTimeout
      BY <1>6, <2>3 DEF JoinWorker, NextHandle
    <3>2. /\ handle * DrainTimeout \in Nat
          /\ (handle + 1) * DrainTimeout = handle * DrainTimeout + DrainTimeout
      BY <2>1, ProductsAreNat
    <3>3. /\ now \in Nat /\ signalAt \in Nat /\ waitUntil \in Nat
          /\ now <= waitUntil
          /\ waitUntil <= signalAt + ServeBound + handle * DrainTimeout
          /\ now <= signalAt + ServeBound \/ now <= signalAt + BatchBound
      BY <2>1
    <3>4. now + DrainTimeout <= signalAt + ServeBound + (handle + 1) * DrainTimeout
      BY <3>2, <3>3
    <3>5. now <= now + DrainTimeout
      BY <3>3
    <3> QED
      BY ONLY <2>1, <3>1, <3>3, <3>4, <3>5 DEF ExitInv
  <2> QED
    BY <2>2, <2>3
<1>7. CASE EndProcess
  BY <1>7 DEF EndProcess
<1>8. ASSUME NEW j \in Jobs, Arrive(j) PROVE ExitInv'
  BY <1>8 DEF Arrive
<1>9. ASSUME NEW w \in Workers, LoopTop(w) PROVE ExitInv'
  BY <1>9 DEF LoopTop
<1>10. ASSUME NEW w \in Workers, SendClaim(w) PROVE ExitInv'
  BY <1>10 DEF SendClaim
<1>11. ASSUME NEW w \in Workers, ClaimAnswers(w) PROVE ExitInv'
  BY <1>11 DEF ClaimAnswers
<1>12. ASSUME NEW w \in Workers, Receive(w) PROVE ExitInv'
  BY <1>12 DEF Receive
<1>13. ASSUME NEW w \in Workers, Stop(w) PROVE ExitInv'
  BY <1>13 DEF Stop
<1>14. ASSUME NEW w \in Workers, Wake(w) PROVE ExitInv'
  BY <1>14 DEF Wake
<1>15. ASSUME NEW w \in Workers, BatchEnds(w) PROVE ExitInv'
  BY <1>15 DEF BatchEnds
<1>16. ASSUME NEW w \in Workers, ClaimFails(w) PROVE ExitInv'
  BY <1>16 DEF ClaimFails
<1>17. ASSUME NEW w \in Workers, GhostClaim(w) PROVE ExitInv'
  BY <1>17 DEF GhostClaim
<1>18. ASSUME NEW w \in Workers, NEW j \in Jobs, TaskRecords(w, j) PROVE ExitInv'
  BY <1>18 DEF TaskRecords
<1>19. ASSUME NEW w \in Workers, NEW j \in Jobs, TaskFails(w, j) PROVE ExitInv'
  BY <1>19 DEF TaskFails
<1> QED
  BY <1>1, <1>2, <1>3, <1>4, <1>5, <1>6, <1>7, <1>8, <1>9, <1>10, <1>11, <1>12, <1>13, <1>14, <1>15, <1>16, <1>17, <1>18, <1>19, NextCases

\* The drain lasts as long as the last batch begun before the signal, and no longer
\* than one timeout per worker (main.rs and delivery.rs run_worker).
THEOREM Exit == Spec => []ExitIsBounded
<1>1. Init => ExitInv
  BY DEF Init, ExitInv
<1>2. IInv /\ ExitInv => ExitIsBounded
  <2> SUFFICES ASSUME IInv, ExitInv, shutdown, main # "exited" PROVE now <= ExitBy
    BY DEF ExitIsBounded
  <2> DEFINE longest == ServeBound + WorkerCount * DrainTimeout
             drained == Min({BatchBound, longest})
             bound   == Max({ServeBound, drained})
  <2>1. longest \in Nat /\ ServeBound \in Nat /\ BatchBound \in Nat
    BY ProductsAreNat, LifecycleAssumption
  <2> HIDE DEF longest
  <2>2. /\ drained \in Nat
        /\ drained = BatchBound \/ drained = longest
    <3>1. \E x \in {BatchBound, longest} : \A y \in {BatchBound, longest} : x =< y
      BY <2>1
    <3> QED
      BY <2>1, <3>1 DEF Min
  <2> HIDE DEF drained
  <2>3. bound \in Nat /\ bound >= ServeBound /\ bound >= drained
    <3>1. \E x \in {ServeBound, drained} : \A y \in {ServeBound, drained} : x >= y
      BY <2>1, <2>2
    <3> QED
      BY <2>1, <2>2, <3>1 DEF Max
  <2> HIDE DEF bound
  <2>4. ExitBy = signalAt + bound
    BY DEF ExitBy, bound, drained, longest
  <2>5. now \in Nat /\ signalAt \in Nat
    BY DEF IInv, TypeOK
  <2>6. main \in {"closing", "draining", "returned"}
    BY DEF IInv, TypeOK, MainPcs, SignalInv
  <2>7. now <= signalAt + longest
    <3>1. ServeBound <= longest
      BY ProductsAreNat, LifecycleAssumption DEF longest
    <3>2. CASE main = "draining"
      <4>1. handle \in Nat /\ handle <= WorkerCount
        BY DEF IInv, TypeOK, Workers
      <4>2. handle * DrainTimeout \in Nat /\ handle * DrainTimeout <= WorkerCount * DrainTimeout
        BY <4>1, ProductsAreNat, LifecycleAssumption
      <4>3. now <= signalAt + ServeBound + handle * DrainTimeout
        BY <2>1, <2>5, <3>2, <4>2 DEF ExitInv, IInv, TypeOK
      <4>4. WorkerCount * DrainTimeout \in Nat
        BY ProductsAreNat, LifecycleAssumption
      <4> QED
        BY <2>1, <2>5, <4>2, <4>3, <4>4 DEF longest
    <3>3. CASE main = "returned"
      BY <2>1, <2>5, <3>3, ProductsAreNat, LifecycleAssumption DEF longest, ExitInv
    <3>4. CASE main = "closing"
      BY <2>1, <2>5, <3>1, <3>4 DEF ExitInv
    <3> QED
      BY <2>6, <3>2, <3>3, <3>4
  <2> QED
    BY <2>1, <2>2, <2>3, <2>4, <2>5, <2>6, <2>7 DEF ExitInv
<1> QED
  BY <1>1, <1>2, NextExitInv, Invariance, PTL DEF Spec

-----------------------------------------------------------------------------
(* What a process leaves behind. *)

\* Whether w has ended, as a number.
EndedCount(w) == IF loop[w] \in Ended THEN 1 ELSE 0

StrandBound(w) ==
  Cardinality(Stranded(w)) + ClaimLimit * ghost[w] <= ClaimLimit * (faults + EndedCount(w))

StrandInv == \A w \in Workers : StrandBound(w)

\* What a step may add is paid for by a fault or by the end of the worker.
LEMMA StrandArithmetic ==
  ASSUME NEW s \in Nat, NEW t \in Nat, NEW g \in Nat, NEW h \in Nat,
         NEW d \in Nat, NEW e \in Nat, NEW x \in {0, 1},
         s + ClaimLimit * g <= ClaimLimit * d,
         t <= s + ClaimLimit * x,
         h + x - g <= e - d
  PROVE  t + ClaimLimit * h <= ClaimLimit * e
<1> USE LifecycleAssumption
<1>1. ClaimLimit * (h + x) <= ClaimLimit * (g + e - d)
  <2>1. h + x \in Int /\ g + e - d \in Int /\ h + x <= g + e - d
    OBVIOUS
  <2> QED
    BY <2>1, \A a, b \in Int : a <= b => ClaimLimit * a <= ClaimLimit * b
<1>2. ClaimLimit * (h + x) = ClaimLimit * h + ClaimLimit * x
  OBVIOUS
<1>3. ClaimLimit * (g + e - d) = ClaimLimit * g + ClaimLimit * e - ClaimLimit * d
  OBVIOUS
<1>4. /\ ClaimLimit * h \in Int /\ ClaimLimit * x \in Int /\ ClaimLimit * g \in Int
      /\ ClaimLimit * e \in Int /\ ClaimLimit * d \in Int
  OBVIOUS
<1> QED
  BY <1>1, <1>2, <1>3, <1>4

\* A step of w, or of another worker, that adds the rows of extra to those w strands.
LEMMA StrandStep ==
  ASSUME TypeOK, TypeOK', NEW w \in Workers, StrandBound(w),
         NEW extra, IsFiniteSet(extra), Cardinality(extra) <= ClaimLimit,
         Stranded(w)' \subseteq Stranded(w) \cup extra,
         ghost'[w] + (IF extra = {} THEN 0 ELSE 1) - ghost[w]
           <= (faults' + EndedCount(w)') - (faults + EndedCount(w))
  PROVE  StrandBound(w)'
<1> USE LifecycleAssumption
<1> DEFINE x == IF extra = {} THEN 0 ELSE 1
<1>1. IsFiniteSet(Stranded(w)) /\ IsFiniteSet(Stranded(w)')
  <2>1. Stranded(w) \subseteq Jobs /\ Stranded(w)' \subseteq Jobs
    BY DEF TypeOK, Stranded
  <2> QED
    BY <2>1, FS_Subset
<1>2. /\ Cardinality(Stranded(w)) \in Nat /\ Cardinality(Stranded(w)') \in Nat
      /\ Cardinality(extra) \in Nat
  BY <1>1, FS_CardinalityType
<1>3. /\ IsFiniteSet(Stranded(w) \cup extra)
      /\ Cardinality(Stranded(w) \cup extra) <= Cardinality(Stranded(w)) + Cardinality(extra)
  <2>1. /\ IsFiniteSet(Stranded(w) \cup extra)
        /\ Cardinality(Stranded(w) \cup extra) =
             Cardinality(Stranded(w)) + Cardinality(extra) - Cardinality(Stranded(w) \cap extra)
    BY <1>1, FS_Union
  <2>2. Cardinality(Stranded(w) \cap extra) \in Nat
    BY <1>1, FS_Intersection, FS_CardinalityType
  <2> QED
    BY <1>2, <2>1, <2>2
<1>4. /\ Cardinality(Stranded(w)') <= Cardinality(Stranded(w) \cup extra)
      /\ Cardinality(Stranded(w) \cup extra) \in Nat
  BY <1>3, FS_Subset, FS_CardinalityType
<1>5. Cardinality(extra) <= ClaimLimit * x
  <2>1. CASE extra = {}
    BY <2>1, FS_EmptySet
  <2>2. CASE extra # {}
    BY <1>2, <2>2
  <2> QED
    BY <2>1, <2>2
<1>6. x \in {0, 1}
  OBVIOUS
<1> HIDE DEF x
<1>7. Cardinality(Stranded(w)') <= Cardinality(Stranded(w)) + ClaimLimit * x
  BY <1>2, <1>3, <1>4, <1>5, <1>6
<1>8. /\ ghost[w] \in Nat /\ ghost'[w] \in Nat
      /\ faults + EndedCount(w) \in Nat /\ faults' + EndedCount(w)' \in Nat
  <2>1. EndedCount(w) \in {0, 1} /\ EndedCount(w)' \in {0, 1}
    BY DEF EndedCount
  <2>2. faults \in Nat /\ faults' \in Nat
    BY DEF TypeOK
  <2>3. ghost[w] \in Nat /\ ghost'[w] \in Nat
    BY DEF TypeOK
  <2> QED
    BY <2>1, <2>2, <2>3
<1>9. ghost'[w] + x - ghost[w] <= (faults' + EndedCount(w)') - (faults + EndedCount(w))
  BY DEF x
<1>10. Cardinality(Stranded(w)) + ClaimLimit * ghost[w] <= ClaimLimit * (faults + EndedCount(w))
  BY DEF StrandBound
<1>11. Cardinality(Stranded(w)') + ClaimLimit * ghost'[w]
         <= ClaimLimit * (faults' + EndedCount(w)')
  BY <1>2, <1>6, <1>7, <1>8, <1>9, <1>10, StrandArithmetic
<1> QED
  BY <1>11 DEF StrandBound

LEMMA StrandSame ==
  ASSUME TypeOK, TypeOK', NEW w \in Workers, StrandBound(w),
         Stranded(w)' \subseteq Stranded(w),
         ghost'[w] - ghost[w] <= (faults' + EndedCount(w)') - (faults + EndedCount(w))
  PROVE  StrandBound(w)'
<1>1. IsFiniteSet({}) /\ Cardinality({}) <= ClaimLimit
  BY FS_EmptySet, LifecycleAssumption
<1>2. ghost[w] \in Nat /\ ghost'[w] \in Nat
  BY DEF TypeOK
<1>3. ghost'[w] + (IF {} = {} THEN 0 ELSE 1) - ghost[w]
        <= (faults' + EndedCount(w)') - (faults + EndedCount(w))
  BY <1>2
<1>4. Stranded(w)' \subseteq Stranded(w) \cup {}
  OBVIOUS
<1> QED
  BY <1>1, <1>3, <1>4, StrandStep

\* A step that changes nothing of u but where its loop is, and does not undo its end.
LEMMA StrandElsewhere ==
  ASSUME TypeOK, TypeOK', NEW u \in Workers, StrandBound(u),
         locked'[u] = locked[u], batch'[u] = batch[u], ghost'[u] = ghost[u],
         loop[u] \in Ended => loop'[u] \in Ended, faults' >= faults
  PROVE  StrandBound(u)'
<1>1. Stranded(u)' \subseteq Stranded(u)
  BY DEF Stranded
<1>2. /\ EndedCount(u) \in {0, 1} /\ EndedCount(u)' \in {0, 1}
      /\ EndedCount(u) <= EndedCount(u)'
  BY DEF EndedCount
<1>3. ghost[u] \in Nat /\ faults \in Nat /\ faults' \in Nat
  BY DEF TypeOK
<1>4. ghost'[u] - ghost[u] <= (faults' + EndedCount(u)') - (faults + EndedCount(u))
  BY <1>2, <1>3
<1> QED
  BY <1>1, <1>4, StrandSame

LEMMA NextStrandInv == IInv /\ StrandInv /\ [Next]_vars => StrandInv'
<1> SUFFICES ASSUME IInv, StrandInv, [Next]_vars, NEW u \in Workers PROVE StrandBound(u)'
  BY DEF StrandInv
<1>1. TypeOK /\ TypeOK' /\ StrandBound(u)
  BY NextIInv DEF IInv, StrandInv
<1>2. batch[u] \subseteq Jobs /\ IsFiniteSet(batch[u]) /\ Cardinality(batch[u]) <= ClaimLimit
  BY <1>1 DEF IInv, TypeOK, BatchInv
<1>3. loop[u] \notin {"answered", "batch"} => batch[u] = {}
  BY DEF IInv, BatchInv
<1>4. ghost[u] \in Nat /\ ghost'[u] \in Nat /\ faults \in Nat /\ faults' \in Nat
  BY <1>1 DEF TypeOK
<1> USE LifecycleAssumption, <1>1
        DEF Ended, Goto, vars, mainVars, loopVars, tableVars
<1>5. CASE UNCHANGED vars
  BY <1>4, <1>5, StrandElsewhere
<1>6. CASE Tick
  BY <1>4, <1>6, StrandElsewhere DEF Tick
<1>7. CASE Bind
  BY <1>4, <1>7, StrandElsewhere DEF Bind
<1>8. CASE Signal
  BY <1>4, <1>8, StrandElsewhere DEF Signal
<1>9. CASE ServerCloses
  BY <1>4, <1>9, StrandElsewhere DEF ServerCloses
<1>10. CASE JoinWorker
  BY <1>4, <1>10, StrandElsewhere DEF JoinWorker
<1>11. CASE EndProcess
  <2>1. /\ locked' = locked /\ batch'[u] = {} /\ UNCHANGED faults
        /\ ghost'[u] = ghost[u] + (IF loop[u] = "claiming" THEN 1 ELSE 0)
        /\ loop'[u] \in Ended
    BY <1>11 DEF EndProcess, TypeOK
  <2>2. EndedCount(u)' = 1
    BY <2>1 DEF EndedCount
  <2>3. CASE loop[u] \in {"answered", "batch"}
    <3>1. EndedCount(u) = 0 /\ ghost'[u] = ghost[u]
      BY <1>4, <2>1, <2>3 DEF EndedCount
    <3>2. Stranded(u)' \subseteq Stranded(u) \cup batch[u]
      BY <2>1 DEF Stranded
    <3>3. ghost'[u] + (IF batch[u] = {} THEN 0 ELSE 1) - ghost[u]
            <= (faults' + EndedCount(u)') - (faults + EndedCount(u))
      BY <1>4, <2>1, <2>2, <3>1
    <3> QED
      BY <1>2, <3>2, <3>3, StrandStep
  <2>4. CASE loop[u] \notin {"answered", "batch"}
    <3>1. Stranded(u)' \subseteq Stranded(u)
      BY <1>3, <2>1, <2>4 DEF Stranded
    <3>2. ghost'[u] - ghost[u] <= 1 - EndedCount(u)
      BY <1>4, <2>1 DEF EndedCount
    <3>3. EndedCount(u) \in {0, 1}
      BY DEF EndedCount
    <3>4. ghost'[u] - ghost[u] <= (faults' + EndedCount(u)') - (faults + EndedCount(u))
      BY <1>4, <2>1, <2>2, <3>2, <3>3
    <3> QED
      BY <3>1, <3>4, StrandSame
  <2> QED
    BY <2>3, <2>4
<1>12. ASSUME NEW j \in Jobs, Arrive(j) PROVE StrandBound(u)'
  BY <1>4, <1>12, StrandElsewhere DEF Arrive
<1>13. ASSUME NEW w \in Workers, LoopTop(w) PROVE StrandBound(u)'
  BY <1>4, <1>13, StrandElsewhere DEF LoopTop, TypeOK
<1>14. ASSUME NEW w \in Workers, SendClaim(w) PROVE StrandBound(u)'
  BY <1>4, <1>14, StrandElsewhere DEF SendClaim, TypeOK
<1>15. ASSUME NEW w \in Workers, Receive(w) PROVE StrandBound(u)'
  BY <1>4, <1>15, StrandElsewhere DEF Receive, TypeOK
<1>16. ASSUME NEW w \in Workers, Wake(w) PROVE StrandBound(u)'
  BY <1>4, <1>16, StrandElsewhere DEF Wake, TypeOK
<1>17. ASSUME NEW w \in Workers, BatchEnds(w) PROVE StrandBound(u)'
  BY <1>4, <1>17, StrandElsewhere DEF BatchEnds, TypeOK
<1>18. ASSUME NEW w \in Workers, ClaimAnswers(w) PROVE StrandBound(u)'
  <2>1. CASE u # w
    BY <1>4, <1>18, <2>1, StrandElsewhere DEF ClaimAnswers, TypeOK, LockRows
  <2>2. CASE u = w
    <3>1. PICK picked \in Picks : LockRows(picked, w) /\ batch' = [batch EXCEPT ![w] = @ \cup picked]
      BY <1>18 DEF ClaimAnswers
    <3>2. Stranded(u)' \subseteq Stranded(u)
      BY <1>18, <1>3, <2>2, <3>1 DEF ClaimAnswers, LockRows, Stranded, TypeOK
    <3>3. EndedCount(u) = 0 /\ EndedCount(u)' = 0 /\ UNCHANGED <<ghost, faults>>
      BY <1>18, <2>2 DEF ClaimAnswers, EndedCount, TypeOK
    <3>4. ghost'[u] - ghost[u] <= (faults' + EndedCount(u)') - (faults + EndedCount(u))
      BY <1>4, <3>3
    <3> QED
      BY <3>2, <3>4, StrandSame
  <2> QED
    BY <2>1, <2>2
<1>19. ASSUME NEW w \in Workers, Stop(w) PROVE StrandBound(u)'
  <2>1. CASE u # w
    BY <1>4, <1>19, <2>1, StrandElsewhere DEF Stop, TypeOK
  <2>2. CASE u = w
    <3>1. /\ batch'[u] = {} /\ locked' = locked /\ UNCHANGED faults
          /\ ghost'[u] = ghost[u] + (IF loop[u] = "claiming" THEN 1 ELSE 0)
          /\ EndedCount(u) = 0 /\ EndedCount(u)' = 1
      BY <1>19, <2>2 DEF Stop, EndedCount, TypeOK
    <3>2. CASE loop[u] = "answered"
      <4>1. Stranded(u)' \subseteq Stranded(u) \cup batch[u]
        BY <3>1 DEF Stranded
      <4>2. ghost'[u] + (IF batch[u] = {} THEN 0 ELSE 1) - ghost[u]
              <= (faults' + EndedCount(u)') - (faults + EndedCount(u))
        BY <1>4, <3>1, <3>2
      <4> QED
        BY <1>2, <4>1, <4>2, StrandStep
    <3>3. CASE loop[u] # "answered"
      <4>1. Stranded(u)' \subseteq Stranded(u)
        BY <1>19, <1>3, <2>2, <3>1, <3>3 DEF Stranded, Stop
      <4>2. ghost'[u] - ghost[u] <= (faults' + EndedCount(u)') - (faults + EndedCount(u))
        BY <1>4, <3>1
      <4> QED
        BY <4>1, <4>2, StrandSame
    <3> QED
      BY <3>2, <3>3
  <2> QED
    BY <2>1, <2>2
<1>20. ASSUME NEW w \in Workers, ClaimFails(w) PROVE StrandBound(u)'
  <2>1. CASE u # w
    BY <1>4, <1>20, <2>1, StrandElsewhere DEF ClaimFails, TypeOK, Fault
  <2>2. CASE u = w
    <3>1. /\ batch'[u] = {} /\ locked' = locked /\ faults' = faults + 1
          /\ EndedCount(u) = 0 /\ EndedCount(u)' = 0
      BY <1>20, <2>2 DEF ClaimFails, Fault, EndedCount, TypeOK
    <3>2. CASE loop[u] = "answered"
      <4>1. Stranded(u)' \subseteq Stranded(u) \cup batch[u]
        BY <3>1 DEF Stranded
      <4>2. ghost'[u] = ghost[u]
        BY <1>20, <2>2, <3>2 DEF ClaimFails, TypeOK
      <4>3. ghost'[u] + (IF batch[u] = {} THEN 0 ELSE 1) - ghost[u]
              <= (faults' + EndedCount(u)') - (faults + EndedCount(u))
        BY <1>4, <3>1, <4>2
      <4> QED
        BY <1>2, <4>1, <4>3, StrandStep
    <3>3. CASE loop[u] = "claiming"
      <4>1. Stranded(u)' \subseteq Stranded(u)
        BY <1>3, <3>1, <3>3 DEF Stranded
      <4>2. ghost'[u] <= ghost[u] + 1
        BY <1>20, <1>4, <2>2 DEF ClaimFails, TypeOK
      <4>3. ghost'[u] - ghost[u] <= (faults' + EndedCount(u)') - (faults + EndedCount(u))
        BY <1>4, <3>1, <4>2
      <4> QED
        BY <4>1, <4>3, StrandSame
    <3> QED
      BY <1>20, <2>2, <3>2, <3>3 DEF ClaimFails
  <2> QED
    BY <2>1, <2>2
<1>21. ASSUME NEW w \in Workers, GhostClaim(w) PROVE StrandBound(u)'
  <2>1. CASE u # w
    BY <1>4, <1>21, <2>1, StrandElsewhere DEF GhostClaim, TypeOK, LockRows
  <2>2. CASE u = w
    <3>1. PICK picked \in Picks \cup {{}} : LockRows(picked, w)
      BY <1>21 DEF GhostClaim
    <3>2. IsFiniteSet(picked) /\ Cardinality(picked) <= ClaimLimit
      BY PicksAreBounded, FS_EmptySet
    <3>3. Stranded(u)' \subseteq Stranded(u) \cup picked
      BY <1>21, <2>2, <3>1 DEF GhostClaim, LockRows, Stranded, TypeOK
    <3>4. /\ ghost'[u] = ghost[u] - 1 /\ UNCHANGED faults
          /\ EndedCount(u)' = EndedCount(u) /\ EndedCount(u) \in {0, 1}
      BY <1>21, <2>2 DEF GhostClaim, EndedCount, TypeOK
    <3>5. ghost'[u] + (IF picked = {} THEN 0 ELSE 1) - ghost[u]
            <= (faults' + EndedCount(u)') - (faults + EndedCount(u))
      BY <1>4, <3>4
    <3> QED
      BY <3>2, <3>3, <3>5, StrandStep
  <2> QED
    BY <2>1, <2>2
<1>22. ASSUME NEW w \in Workers, NEW j \in Jobs, TaskRecords(w, j) PROVE StrandBound(u)'
  <2>1. Stranded(u)' \subseteq Stranded(u)
    BY <1>22 DEF TaskRecords, Stranded, TypeOK
  <2>2. UNCHANGED <<ghost, faults>> /\ EndedCount(u)' = EndedCount(u) /\ EndedCount(u) \in {0, 1}
    BY <1>22 DEF TaskRecords, EndedCount
  <2>3. ghost'[u] - ghost[u] <= (faults' + EndedCount(u)') - (faults + EndedCount(u))
    BY <1>4, <2>2
  <2> QED
    BY <2>1, <2>3, StrandSame
<1>23. ASSUME NEW w \in Workers, NEW j \in Jobs, TaskFails(w, j) PROVE StrandBound(u)'
  <2>1. Stranded(u)' \subseteq Stranded(u) \cup {j}
    BY <1>23 DEF TaskFails, Stranded, TypeOK
  <2>2. IsFiniteSet({j}) /\ Cardinality({j}) <= ClaimLimit
    <3>1. IsFiniteSet({j}) /\ Cardinality({j}) = 1
      BY FS_Singleton
    <3> QED
      BY <3>1
  <2>3. /\ UNCHANGED ghost /\ faults' = faults + 1
        /\ EndedCount(u)' = EndedCount(u) /\ EndedCount(u) \in {0, 1}
    BY <1>23 DEF TaskFails, Fault, EndedCount
  <2>4. ghost'[u] + (IF {j} = {} THEN 0 ELSE 1) - ghost[u]
          <= (faults' + EndedCount(u)') - (faults + EndedCount(u))
    BY <1>4, <2>3
  <2> QED
    BY <2>1, <2>2, <2>4, StrandStep
<1> QED
  BY <1>5, <1>6, <1>7, <1>8, <1>9, <1>10, <1>11, <1>12, <1>13, <1>14, <1>15, <1>16, <1>17, <1>18, <1>19, <1>20, <1>21, <1>22, <1>23, NextCases

\* A process leaves at most one claim per worker to the stale-lock recovery, and as
\* many again for each fault (main.rs and delivery.rs run_worker).
THEOREM Stranding == Spec => []StrandedAtMostOneClaim
<1>1. Init => StrandInv
  <2> SUFFICES ASSUME Init, NEW w \in Workers PROVE StrandBound(w)
    BY DEF StrandInv
  <2>1. Stranded(w) = {} /\ ghost[w] = 0 /\ faults = 0 /\ EndedCount(w) = 0
    BY DEF Init, Stranded, EndedCount, Ended
  <2> QED
    BY <2>1, FS_EmptySet, LifecycleAssumption DEF StrandBound
<1>2. StrandInv => StrandedAtMostOneClaim
  BY DEF StrandInv, StrandBound, StrandedAtMostOneClaim, EndedCount
<1> QED
  BY <1>1, <1>2, NextStrandInv, Invariance, PTL DEF Spec

-----------------------------------------------------------------------------
(* The cycle of a worker. *)

\* Every step takes a worker's batch as a step of WorkerCycle does, or leaves it.
LEMMA NextRefinesCycle == IInv /\ [Next]_vars => [Cycle!Next]_batch
<1> SUFFICES ASSUME IInv, [Next]_vars, batch' # batch PROVE Cycle!Next
  OBVIOUS
<1>1. batch \in [Workers -> SUBSET Jobs] /\ loop \in [Workers -> LoopPcs]
  BY DEF IInv, TypeOK
<1>2. CASE EndProcess
  <2>1. batch' = [w \in Workers |-> IF w \in Workers THEN {} ELSE batch[w]]
    BY <1>2 DEF EndProcess
  <2>2. Cycle!LetGo(Workers)
    BY <2>1 DEF Cycle!LetGo
  <2> QED
    BY <2>2 DEF Cycle!Next
<1>3. ASSUME NEW w \in Workers, ClaimAnswers(w) PROVE Cycle!Next
  <2>1. PICK picked \in Picks : batch' = [batch EXCEPT ![w] = @ \cup picked]
    BY <1>3 DEF ClaimAnswers
  <2>2. batch[w] = {}
    BY <1>3 DEF ClaimAnswers, IInv, BatchInv
  <2>3. picked \in SUBSET Jobs /\ Cardinality(picked) <= ClaimLimit
    BY PicksAreBounded DEF IInv, TypeOK
  <2>4. batch' = [batch EXCEPT ![w] = picked]
    BY <2>1, <2>2
  <2>5. Cycle!Cardinality(picked) = Cardinality(picked)
    BY DEF Cycle!Cardinality, Cardinality
  <2>6. Cycle!Claim(w)
    BY <2>2, <2>3, <2>4, <2>5 DEF Cycle!Claim
  <2> QED
    BY <2>6 DEF Cycle!Next
<1>4. ASSUME NEW w \in Workers, batch' = [batch EXCEPT ![w] = {}] PROVE Cycle!Next
  <2>1. batch' = [v \in Workers |-> IF v \in {w} THEN {} ELSE batch[v]]
    BY <1>1, <1>4
  <2>2. Cycle!LetGo({w})
    BY <2>1 DEF Cycle!LetGo
  <2> QED
    BY <2>2 DEF Cycle!Next
<1>5. ASSUME NEW w \in Workers, NEW j \in Jobs, batch' = [batch EXCEPT ![w] = @ \ {j}]
      PROVE  Cycle!Next
  BY <1>5 DEF Cycle!Next, Cycle!Finish
<1>6. ASSUME NEW w \in Workers, Stop(w) \/ ClaimFails(w) PROVE Cycle!Next
  BY <1>4, <1>6 DEF Stop, ClaimFails
<1>7. ASSUME NEW w \in Workers, NEW j \in Jobs, TaskRecords(w, j) \/ TaskFails(w, j)
      PROVE  Cycle!Next
  BY <1>5, <1>7 DEF TaskRecords, TaskFails
<1>8. ~(Tick \/ Bind \/ Signal \/ ServerCloses \/ JoinWorker \/ UNCHANGED vars)
  BY DEF Tick, Bind, Signal, ServerCloses, JoinWorker, vars, loopVars
<1>9. \A j \in Jobs : ~Arrive(j)
  BY DEF Arrive, loopVars
<1>10. \A w \in Workers :
         ~(LoopTop(w) \/ SendClaim(w) \/ Receive(w) \/ Wake(w) \/ BatchEnds(w) \/ GhostClaim(w))
  BY DEF LoopTop, SendClaim, Receive, Wake, BatchEnds, GhostClaim
<1> QED
  BY <1>2, <1>3, <1>6, <1>7, <1>8, <1>9, <1>10, NextCases

\* A worker has one batch in hand at a time (delivery.rs run_worker, process_jobs).
THEOREM ImplementsCycle == Spec => CycleSpec
<1>1. Init => Cycle!Init
  BY DEF Init, Cycle!Init
<1> QED
  BY <1>1, NextRefinesCycle, Invariance, PTL DEF Spec, CycleSpec, Cycle!Spec
=============================================================================
