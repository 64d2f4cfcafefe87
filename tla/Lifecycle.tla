----------------------------- MODULE Lifecycle -----------------------------
(***************************************************************************)
(* One process of the router from bind to exit: main of src/main.rs with   *)
(* its graceful shutdown and drain, and the claim loop of run_worker in    *)
(* src/delivery.rs.  The tables are reduced to who has locked which row;   *)
(* what a task does with its row is the business of DeliveryQueue.         *)
(*                                                                         *)
(* The workers start on a persistent table: rows may be due before the     *)
(* socket is bound, and fall due at any time, since other processes store  *)
(* deliveries and retries, too.                                            *)
(*                                                                         *)
(* The watch channel carries one flag.  A receiver's changed() is ready    *)
(* exactly when the flag is set or the sender is gone, because a worker    *)
(* that has seen the change stops: the second send(true) of main changes   *)
(* nothing.                                                                *)
(***************************************************************************)
EXTENDS Integers, FiniteSets, FiniteSetsExt

CONSTANTS
  WorkerCount,    \* DELIVERY_WORKERS
  Jobs,           \* the rows that may fall due, a retry counted as a row of its own
  ClaimLimit,     \* DELIVERY_CLAIM_LIMIT
  DrainTimeout,   \* WORKER_DRAIN_TIMEOUT_SECS
  ServeBound,     \* the open connections end within this time of the signal
  BatchBound,     \* a batch of tasks ends within this time
  SignalBy,       \* bound: the signal comes by this time
  MaxTime,        \* bound: the clock stops here
  MaxFaults       \* bound: claims that return an error and tasks that fail

Workers == 1 .. WorkerCount

ASSUME LifecycleAssumption ==
  /\ WorkerCount \in Nat \ {0}
  /\ ClaimLimit \in Nat \ {0}
  /\ DrainTimeout \in Nat \ {0}
  /\ ServeBound \in Nat /\ BatchBound \in Nat
  /\ SignalBy \in Nat /\ MaxTime \in Nat /\ MaxFaults \in Nat
  /\ IsFiniteSet(Jobs)

VARIABLES
  now,            \* the clock
  main,           \* where main is
  shutdown,       \* the flag in the watch channel
  signalAt,       \* history: when the flag was set
  handle,         \* the worker whose handle main awaits
  waitUntil,      \* when main gives that worker up
  loop,           \* loop[w]: where run_worker is
  batch,          \* batch[w]: the rows a claim answered, then those whose task runs
  startedAt,      \* startedAt[w]: when the batch was claimed
  fresh,          \* the rows that are not due yet
  due,            \* the rows a claim may take
  locked,         \* locked[w]: the rows in 'delivering' with w in locked_by
  ghost,          \* ghost[w]: statements of w under way whose client has gone
  late,           \* history: late[w] is how many claims w sent after the signal
  faults          \* how many faults have happened

mainVars == <<main, shutdown, signalAt, handle, waitUntil>>
loopVars == <<loop, batch, startedAt, ghost, late>>
tableVars == <<fresh, due, locked>>
vars == <<now, mainVars, loopVars, tableVars, faults>>

MainPcs == {"binding", "serving", "closing", "draining", "returned", "failed", "exited"}
LoopPcs == {"top", "polling", "claiming", "answered", "batch", "sleeping", "stopped", "aborted"}
Ended   == {"stopped", "aborted"}

Init ==
  /\ now = 0
  /\ main = "binding" /\ shutdown = FALSE /\ signalAt = 0 /\ handle = 1 /\ waitUntil = 0
  /\ loop = [w \in Workers |-> "top"]
  /\ batch = [w \in Workers |-> {}]
  /\ startedAt = [w \in Workers |-> 0]
  /\ due \in SUBSET Jobs /\ fresh = Jobs \ due /\ locked = [w \in Workers |-> {}]
  /\ ghost = [w \in Workers |-> 0]
  /\ late = [w \in Workers |-> 0]
  /\ faults = 0

Fault == faults < MaxFaults /\ faults' = faults + 1

Goto(w, pc) == loop' = [loop EXCEPT ![w] = pc]

-----------------------------------------------------------------------------
(* main. *)

\* The workers are spawned before the socket is bound: when it cannot be, main
\* returns the error at once and drains nothing.
Bind ==
  /\ main = "binding"
  /\ main' \in {"serving", "failed"}
  /\ UNCHANGED <<now, shutdown, signalAt, handle, waitUntil, loopVars, tableVars, faults>>

\* A row falls due: a handler of this or of another process has stored it, or the
\* next_attempt_at of a retry has come.
Arrive(j) ==
  /\ j \in fresh
  /\ fresh' = fresh \ {j}
  /\ due' = due \cup {j}
  /\ UNCHANGED <<now, mainVars, loopVars, locked, faults>>

\* SIGINT or SIGTERM, or a handler that cannot be installed: shutdown_signal sets
\* the flag and the server stops accepting.
Signal ==
  /\ main = "serving"
  /\ now <= SignalBy
  /\ main' = "closing"
  /\ shutdown' = TRUE
  /\ signalAt' = now
  /\ UNCHANGED <<now, handle, waitUntil, loopVars, tableVars, faults>>

\* axum::serve returns when the last open connection has ended.
ServerCloses ==
  /\ main = "closing"
  /\ main' = "draining"
  /\ handle' = 1
  /\ waitUntil' = now + DrainTimeout
  /\ UNCHANGED <<now, shutdown, signalAt, loopVars, tableVars, faults>>

\* Mutant of NextHandle: one handle too many.
NextHandleBeyond ==
  IF handle > WorkerCount
  THEN main' = "returned" /\ UNCHANGED <<handle, waitUntil>>
  ELSE handle' = handle + 1 /\ waitUntil' = now + DrainTimeout /\ UNCHANGED main

\* Mutant of NextHandle: the loop over the handles ends with the first one.
NextHandleBreaks ==
  /\ main' = "returned"
  /\ UNCHANGED <<handle, waitUntil>>

\* Mutant of NextHandle: main comes back to the first worker as long as one runs.
NextHandleAgain ==
  IF \A w \in Workers : loop[w] = "stopped"
  THEN main' = "returned" /\ UNCHANGED <<handle, waitUntil>>
  ELSE handle' = 1 + (handle % WorkerCount) /\ waitUntil' = now + DrainTimeout /\ UNCHANGED main

\* The next handle with a timeout of its own, or Ok(()).
NextHandle ==
  IF handle = WorkerCount
  THEN main' = "returned" /\ UNCHANGED <<handle, waitUntil>>
  ELSE handle' = handle + 1 /\ waitUntil' = now + DrainTimeout /\ UNCHANGED main

\* Mutant of JoinWorker: no timeout.
JoinWorkerUntimed ==
  /\ main = "draining"
  /\ loop[handle] = "stopped"
  /\ NextHandle
  /\ UNCHANGED <<now, shutdown, signalAt, loopVars, tableVars, faults>>

\* The worker is joined, or given up: its JoinHandle is dropped and it runs on.
JoinWorker ==
  /\ main = "draining"
  /\ loop[handle] = "stopped" \/ now >= waitUntil
  /\ NextHandle
  /\ UNCHANGED <<now, shutdown, signalAt, loopVars, tableVars, faults>>

\* The process ends with whatever still runs in it; a statement at the database
\* runs on.
EndProcess ==
  /\ main' = "exited"
  /\ loop' = [w \in Workers |-> IF loop[w] \in Ended THEN loop[w] ELSE "aborted"]
  /\ batch' = [w \in Workers |-> {}]
  /\ ghost' = [w \in Workers |-> ghost[w] + IF loop[w] = "claiming" THEN 1 ELSE 0]
  /\ UNCHANGED <<now, shutdown, signalAt, handle, waitUntil, startedAt, late, tableVars, faults>>

\* main has returned and #[tokio::main] drops the runtime.
RuntimeDropped == main \in {"returned", "failed"} /\ EndProcess

\* SIGKILL at the end of the platform's grace period, or a crash.
Killed == main # "exited" /\ EndProcess

-----------------------------------------------------------------------------
(* run_worker. *)

\* Mutant of LoopTop: the flag is not read at the top of the loop.
LoopTopUnchecked(w) ==
  /\ loop[w] = "top"
  /\ Goto(w, "polling")
  /\ UNCHANGED <<now, mainVars, batch, startedAt, tableVars, ghost, late, faults>>

LoopTop(w) ==
  /\ loop[w] = "top"
  /\ Goto(w, IF shutdown THEN "stopped" ELSE "polling")
  /\ UNCHANGED <<now, mainVars, batch, startedAt, tableVars, ghost, late, faults>>

\* The select! polls the claim: the statement leaves, even if the flag was set
\* after it was read above.
SendClaim(w) ==
  /\ loop[w] = "polling"
  /\ Goto(w, "claiming")
  /\ late' = [late EXCEPT ![w] = @ + IF shutdown THEN 1 ELSE 0]
  /\ UNCHANGED <<now, mainVars, batch, startedAt, tableVars, ghost, faults>>

\* The rows the claim statement may lock.
Picks == kSubset(Min({ClaimLimit, Cardinality(due)}), due)

LockRows(picked, w) ==
  /\ due' = due \ picked
  /\ locked' = [locked EXCEPT ![w] = @ \cup picked]

\* The statement commits and its answer is ready.
ClaimAnswers(w) ==
  /\ loop[w] = "claiming"
  /\ \E picked \in Picks :
       /\ LockRows(picked, w)
       /\ batch' = [batch EXCEPT ![w] = @ \cup picked]
  /\ startedAt' = [startedAt EXCEPT ![w] = now]
  /\ Goto(w, "answered")
  /\ UNCHANGED <<now, mainVars, fresh, ghost, late, faults>>

\* Mutant of Receive: the tasks are spawned and not awaited.
ReceiveUnawaited(w) ==
  /\ loop[w] = "answered"
  /\ Goto(w, IF batch[w] = {} THEN "sleeping" ELSE "top")
  /\ UNCHANGED <<now, mainVars, batch, startedAt, tableVars, ghost, late, faults>>

\* The select! polls the answer first, whether or not the flag is set meanwhile:
\* process_jobs, or a sleep when nothing was due.
Receive(w) ==
  /\ loop[w] = "answered"
  /\ Goto(w, IF batch[w] = {} THEN "sleeping" ELSE "batch")
  /\ UNCHANGED <<now, mainVars, batch, startedAt, tableVars, ghost, late, faults>>

\* The connection fails before the statement commits, or after.
ClaimFails(w) ==
  /\ loop[w] \in {"claiming", "answered"}
  /\ Fault
  /\ \E under_way \in IF loop[w] = "claiming" THEN {0, 1} ELSE {0} :
       ghost' = [ghost EXCEPT ![w] = @ + under_way]
  /\ batch' = [batch EXCEPT ![w] = {}]
  /\ Goto(w, "sleeping")
  /\ UNCHANGED <<now, mainVars, startedAt, tableVars, late>>

\* changed() is ready: Ok with the flag set, or an error once main has returned the
\* error of the bind and its sender is dropped.
ChannelIsReady == shutdown \/ main = "failed"

\* The select! polls changed() first, in the loop or in sleep_or_shutdown: the
\* claim is dropped, whatever it has done or is about to do at the database.
Stop(w) ==
  /\ loop[w] \in {"polling", "claiming", "answered", "sleeping"}
  /\ ChannelIsReady
  /\ Goto(w, "stopped")
  /\ batch' = [batch EXCEPT ![w] = {}]
  /\ ghost' = [ghost EXCEPT ![w] = @ + IF loop[w] = "claiming" THEN 1 ELSE 0]
  /\ UNCHANGED <<now, mainVars, startedAt, tableVars, late, faults>>

\* Mutant of Wake: a sleeping worker waits for the flag alone.
WakeOnFlag(w) ==
  /\ loop[w] = "sleeping"
  /\ shutdown
  /\ Goto(w, "top")
  /\ UNCHANGED <<now, mainVars, batch, startedAt, tableVars, ghost, late, faults>>

\* IDLE_SLEEP has passed.
Wake(w) ==
  /\ loop[w] = "sleeping"
  /\ Goto(w, "top")
  /\ UNCHANGED <<now, mainVars, batch, startedAt, tableVars, ghost, late, faults>>

\* A task records its outcome.
TaskRecords(w, j) ==
  /\ loop[w] = "batch"
  /\ j \in batch[w]
  /\ locked' = [locked EXCEPT ![w] = @ \ {j}]
  /\ batch' = [batch EXCEPT ![w] = @ \ {j}]
  /\ UNCHANGED <<now, mainVars, fresh, due, loop, startedAt, ghost, late, faults>>

\* It ends with an error or a panic; its row stays locked.
TaskFails(w, j) ==
  /\ loop[w] = "batch"
  /\ j \in batch[w]
  /\ Fault
  /\ batch' = [batch EXCEPT ![w] = @ \ {j}]
  /\ UNCHANGED <<now, mainVars, loop, startedAt, tableVars, ghost, late>>

\* Mutant of BatchEnds: a worker that had work claims again without a look at the flag.
BatchEndsUnchecked(w) ==
  /\ loop[w] = "batch"
  /\ batch[w] = {}
  /\ Goto(w, "polling")
  /\ UNCHANGED <<now, mainVars, batch, startedAt, tableVars, ghost, late, faults>>

\* process_jobs has joined every task.
BatchEnds(w) ==
  /\ loop[w] = "batch"
  /\ batch[w] = {}
  /\ Goto(w, "top")
  /\ UNCHANGED <<now, mainVars, batch, startedAt, tableVars, ghost, late, faults>>

\* A statement whose client has gone commits, or is found to have no client.
GhostClaim(w) ==
  /\ ghost[w] > 0
  /\ \E picked \in Picks \cup {{}} : LockRows(picked, w)
  /\ ghost' = [ghost EXCEPT ![w] = @ - 1]
  /\ UNCHANGED <<now, mainVars, loop, batch, startedAt, fresh, late, faults>>

-----------------------------------------------------------------------------

LoopStep(w) ==
  \/ LoopTop(w)
  \/ SendClaim(w)
  \/ ClaimAnswers(w)
  \/ Receive(w)
  \/ Stop(w)
  \/ Wake(w)
  \/ BatchEnds(w)

\* Steps the runtime takes at once, without the clock moving.
MainIsReady ==
  \/ main \in {"returned", "failed"}
  \/ main = "draining" /\ (loop[handle] = "stopped" \/ now >= waitUntil)

WorkerIsReady(w) ==
  \/ loop[w] \in {"top", "polling", "answered"}
  \/ loop[w] = "batch" /\ batch[w] = {}
  \/ loop[w] \in {"claiming", "sleeping"} /\ ChannelIsReady

\* Nothing is ready, the server has not outlived its connections nor a batch its bound.
Tick ==
  /\ now < MaxTime
  /\ main # "exited"
  /\ ~MainIsReady
  /\ main = "closing" => now < signalAt + ServeBound
  /\ \A w \in Workers :
       /\ ~WorkerIsReady(w)
       /\ loop[w] = "batch" => now < startedAt[w] + BatchBound
  /\ now' = now + 1
  /\ UNCHANGED <<mainVars, loopVars, tableVars, faults>>

Exited == main = "exited" /\ UNCHANGED vars

Next ==
  \/ Tick
  \/ Bind
  \/ Signal
  \/ ServerCloses
  \/ JoinWorker
  \/ RuntimeDropped
  \/ Killed
  \/ Exited
  \/ \E j \in Jobs : Arrive(j)
  \/ \E w \in Workers :
       \/ LoopStep(w)
       \/ ClaimFails(w)
       \/ GhostClaim(w)
       \/ \E j \in Jobs : TaskRecords(w, j) \/ TaskFails(w, j)

Spec == Init /\ [][Next]_vars

\* tokio polls whatever is ready, time passes and the open connections end: the
\* TimeoutLayer ends every request, and nobody keeps one half sent.  A task may hang.
Fairness ==
  /\ WF_vars(Tick)
  /\ WF_vars(Bind)
  /\ WF_vars(ServerCloses)
  /\ WF_vars(JoinWorker)
  /\ WF_vars(RuntimeDropped)
  /\ \A w \in Workers : WF_vars(LoopStep(w))

\* The client's timeout and the database end every task.
TasksEnd == \A w \in Workers : WF_vars(\E j \in Jobs : TaskRecords(w, j))

HangingSpec == Spec /\ Fairness

FairSpec == HangingSpec /\ TasksEnd

-----------------------------------------------------------------------------
(* Properties. *)

TypeOK ==
  /\ now \in Nat /\ signalAt \in Nat /\ waitUntil \in Nat /\ faults \in Nat
  /\ main \in MainPcs
  /\ shutdown \in BOOLEAN
  /\ handle \in Workers
  /\ loop \in [Workers -> LoopPcs]
  /\ batch \in [Workers -> SUBSET Jobs]
  /\ startedAt \in [Workers -> Nat]
  /\ fresh \subseteq Jobs /\ due \subseteq Jobs
  /\ locked \in [Workers -> SUBSET Jobs]
  /\ ghost \in [Workers -> Nat] /\ late \in [Workers -> Nat]

\* After the signal a worker sends at most one claim, the one whose select! was
\* already being polled, and stops after at most one more batch.
OneLateClaim == \A w \in Workers : late[w] <= 1

\* Rows locked by w for which no task of w runs: only the stale-lock branch of a
\* later claim delivers them.
Stranded(w) == locked[w] \ batch[w]

\* However a process ends (drained, given up, killed, or without a socket after its
\* workers have claimed rows that were due already), each worker leaves at most one
\* claim's worth of rows to the stale-lock recovery, and a claim that failed or a
\* task that failed adds at most as many.
StrandedAtMostOneClaim ==
  \A w \in Workers :
    LET ended == IF loop[w] \in Ended THEN 1 ELSE 0
    IN  Cardinality(Stranded(w)) + ClaimLimit * ghost[w] <= ClaimLimit * (faults + ended)

\* main returns from a drain with a worker still running only if its batch has had
\* the whole worker_drain_timeout: the drain cuts nothing short that fits in it.
GivenUpOnlyWhenOverdue ==
  main = "returned" =>
    \A w \in Workers \ {v \in Workers : loop[v] = "stopped"} :
      loop[w] \in {"batch", "top"} /\ now >= startedAt[w] + DrainTimeout

\* When the process must have ended: the drain lasts as long as the last batch
\* begun before the signal, and never longer than one timeout per worker.
ExitBy ==
  signalAt + Max({ServeBound, Min({BatchBound, ServeBound + WorkerCount * DrainTimeout})})

ExitIsBounded == shutdown /\ main # "exited" => now <= ExitBy

Cycle == INSTANCE WorkerCycle WITH inHand <- batch

\* A worker has one batch in hand at a time, also when claims fail, are dropped by
\* the select! or outlive the process (delivery.rs run_worker and process_jobs).
CycleSpec == Cycle!Spec

\* A signal ends the process, even if every worker hangs.
SignalEndsProcess == shutdown ~> main = "exited"

\* A row that is due is claimed while the process lives: no worker sleeps for ever
\* or waits for a batch that never ends.
DueRowIsClaimed ==
  \A j \in Jobs : j \in due ~> j \notin due \/ shutdown \/ main = "exited"
=============================================================================
