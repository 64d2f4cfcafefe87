# Verification of resend-router

TLA+ models of the durable parts of resend-router, TLC configurations that check
them on small instances, and TLAPS proofs of what matters most for every value of
the constants. Paths are relative to the repository, so `src/db.rs` is the file
of that name in its `src/` directory.

## 1. The system

resend-router receives Resend webhooks, stores what has to be forwarded in
Postgres, answers `202`, and forwards each stored delivery to its destination
until a 2xx answer or the end of the retry window (three days by default).

| component | state | operations | hard behaviour |
|---|---|---|---|
| Webhook intake (`web.rs`, `db.rs enqueue_event`) | `webhook_events`, `delivery_jobs`; one transaction per request; the pool | verify, parse, match, insert the event, insert one job per match, commit, answer | copies of one svix-id at once, also in two releases; the 30 s timeout or an error between any two statements; a COMMIT in doubt; requests that wait for each other |
| Delivery tables (`db.rs`, `migrations/0001_initial.sql`) | `delivery_jobs`, `delivery_attempts` | insert, claim (`FOR UPDATE SKIP LOCKED`), refresh of the URL, record success, retry or final failure | the lock is a worker's name and a time; takeover of stale locks; `UNIQUE (job_id, attempt_number)` |
| Delivery workers (`delivery.rs`) | a batch of claimed rows, one task each | claim, check the deadline, resolve and refresh the URL, POST, record the outcome | a task acts on a row read long ago; a lost claim; a task that fails; a crash between POST and record; clocks of several machines |
| Process lifecycle (`main.rs`, `run_worker`) | watch channel, worker handles, the place of each loop | bind, serve, signal, graceful shutdown, drain with a timeout per worker | shutdown during a claim, a sleep or a batch; exit with tasks running; statements that outlive their client |
| Retry schedule (`delivery.rs retry_delay`) | none | delay after attempt n, with jitter | the ends of the steps, the clamp |
| Routing and event parsing (`router.rs`, `resend.rs`, `DestinationConfig`) | normalised destinations | validate, normalise, extract domains, match | a criterion lost by normalisation; two normalisers that must agree |
| Configuration (`config.rs`) | none after start | validation | integer casts and sums, the stale-lock check, names as keys |
| Signatures (`resend.rs`, `signing.rs`), `error.rs`, health endpoints, tracing | none | pure functions, I/O | none for a model |

How they interact: the handler and the workers share only the database. A commit
of the handler makes jobs visible to every worker of every process; workers
exclude each other only by the columns `status`, `locked_at` and `locked_by`. The
handler and the workers of one process share the connection pool. `main` tells
the workers to stop through a watch channel. During a deployment two releases
with different `DESTINATIONS_JSON` run against one database.

What makes each component correct: the intake stores an event once, with all its
deliveries, before anyone is told `202`, and answers every event in the end; the
tables hold exactly the attempts a job counts; only the task of the current claim
changes a job; an ended job stays as it is; no job fails before its deadline;
retries keep their distance; every accepted job ends; a signal ends the process in
bounded time and leaves little behind; an event goes where the operator's text says;
an accepted configuration is one the other guarantees hold for.

## 2. The modules

    JobTable <-- DeliveryQueue <-- LedgerRefinement <-- MCDeliveryQueue
       ^              ^                 |    ^
       |              |                 |    LedgerProofs (and DeliveryQueueProofs)
       |     DeliveryQueueProofs        +-- INSTANCE DeliveryLedger
       |
    AtomicTable <-- Transactions <-- TransactionsProofs
                         +-- INSTANCE AtomicTable
    Lifecycle <-- LifecycleProofs              EventIntake <-- INSTANCE -- Ingest
         +-- INSTANCE WorkerCycle                         MCIngest, IngestProofs
    RetrySchedule <-- RetryScheduleProofs      Routing <-- MCRouting, RoutingProofs
    ConfigCheck <-- ConfigCheckProofs          ConfigCheck, RetrySchedule <-- MCParameters

The parts meet in three places. `WorkerCycle` is what the claim loop promises about
a worker's batch; Lifecycle, which has the loop, implements it, and the guard `Idle` of
DeliveryQueue, which has the tasks, takes it for granted.
`Transactions` shows that the database steps DeliveryQueue takes as atomic are so.
`RetrySchedule` and `ConfigCheck` give the constants of DeliveryQueue their ranges.

**JobTable** holds the two delivery tables and the statements of `db.rs`. Each
statement, or transaction of two statements, is one operator and therefore one
step; `Transactions` shows that they may be. `Picks` is the `SELECT` of
`claim_due_jobs` (due or stale rows, oldest first, up to the limit, without the
rows that are skipped as locked), `LockRows` its `UPDATE`. `RecordOutcome` is the
common shape of `record_success`, `record_retry` and `record_final_failure`: the
attempt is inserted and the job updated where `locked_by` and `status` still match,
or nothing happens (`CanRecord`). Columns that no statement tests are left out.

**DeliveryQueue** adds workers. `task[w][j]` is the task worker `w` runs for job
`j`: a copy of the row it was claimed with and the place in `deliver_and_record`
where it waits. Each action runs from one await to the next:

| action | code |
|---|---|
| `Enqueue` | the commit of `enqueue_event`, for one job |
| `ClaimDueJobs`, `ClaimNothing` | `run_worker` and `claim_due_jobs`; the worker claims again only when `process_jobs` has joined every task |
| `ClaimLost` | the `UPDATE` commits and its rows never arrive: connection error, or the `select!` with shutdown drops the claim |
| `BeginExpired`, `BeginDelivery` | the deadline check and `resolve_destination_url` |
| `RefreshUrl`, `RefreshLost` | `update_claimed_job_destination_url` |
| `AnswerSuccess`, `AnswerFailureFinal`, `AnswerFailureRetry` | the answer to `deliver`; `record_failure` reads its clock and clamps the retry |
| `RecordCommits`, `RecordRefused` | the `record_*` transactions; a refusal is a lost lock or a taken attempt number |
| `TaskFails` | an error returned with `?`, or a panic, that `process_jobs` logs |
| `Crash` | the process dies, or exits when `worker_drain_timeout` has passed |
| `Tick` | time; a task is never older than `TaskBound` |

A worker stands for itself and the process it runs in: its configuration
(`ConfigUrl`), its clock (`Skew`) and the handler there. A restarted worker has a
fresh id (`run_worker` takes a new UUID), so crashed workers never come back; the
second worker plays the successor. The jobs of one event become visible together
in the code and one by one here, which allows more behaviours. The deadline is
read from the row, where it never changes, instead of from the task's copy.
`Delays` is a set of positive numbers, which `DelaysAreBounded` proves of `retry_delay`.
Three variables or fields are history and guard nothing: `acked`,
`task[w][j].lockedAt` (which also bounds the age of a task) and, for the bound on
faults, `faults`.

**DeliveryLedger** is the abstract specification: each job has a phase and a log
of outcomes; outcomes are appended one at a time, a 2xx ends the job, and a job
fails only once it is overdue. There are no workers, locks or tables.
**LedgerRefinement** is the mapping: the log is the attempts in order of their
number.

**Ingest** is `resend_webhook` and `enqueue_event` at the level of statements.
`request[e][c]` is one open request for svix-id `e`. `KeyIsFree` is the wait on
the unique index while another transaction has inserted the same key. `Remains`
says what is left when a request fails or its future is dropped at an await: a
transaction the server still has to roll back (`Abort`), or a COMMIT that may or
may not have arrived (`CommitInDoubt`). Requests that fail verification or
parsing change nothing and do not appear; one that matches nothing is told 204 at
once. `Match` gives each release its own
routes. **EventIntake** is its abstract specification: an event is stored in one
step with a set of deliveries some release offers, and `told` only afterwards.

**Lifecycle** is one process from bind to exit. The workers start before the socket is
bound (`main.rs:28-38`), on a table that other processes and earlier runs have filled:
any rows may be `due` in `Init`, and others fall due at any time (`Arrive`), so that a
process that never gets its socket has claimed some. `main` goes through binding,
serving, closing (the open requests end), draining (one handle after the other,
each with a timeout of its own, as in `main.rs:49`) and returned; then the runtime is
dropped with whatever runs in it. `Killed` ends the process anywhere. Each worker's
loop has the awaits of `run_worker` as places: `LoopTop` reads the flag, `SendClaim`
polls the statement, `ClaimAnswers` is its commit with the rows ready, `Receive` and
`Stop` are the two branches of the `select!`, `Wake` the end of the sleep; `changed()` is
ready when the flag is set or `main` has returned its bind error and with it dropped the
sender (`ChannelIsReady`). A worker
that is stopped while its claim is under way leaves a `ghost`: the statement may still
commit. The takeover of rows that are left locked is the business of DeliveryQueue. A
handler of `ctrl_c` that cannot be installed completes its branch at once
(`main.rs:71`): that is `Signal` at the first moment. The tables are reduced to who
has locked what. **WorkerCycle** is the abstract specification described above.

**Transactions** is the inside of the three `record_*` transactions, with the claims
and refreshes beside them, statement by statement: the insert of the attempt waits for
its unique key, its foreign key takes a share lock on the job's row, the update waits
for the row and evaluates its WHERE again, and a client may vanish between any two
statements. This is PostgreSQL's documented behaviour at READ COMMITTED, marked
external in the map where no line of the code stands for it. Time is left out: a claim
may find any pending row stale. **AtomicTable** is the abstract specification:
the operators of JobTable, one step each.

**RetrySchedule** is `base_retry_delay_secs` and `retry_delay` in seconds, and the
requests of a job that always fails. **ConfigCheck** is `Config::validate`: its checks
in their order over words that end at `MaxSigned`, with the casts and sums the code makes, and
the lookup of a destination by name. Secrets, the signature tolerance and
`warn_after_attempts` guard nothing modelled. **Routing** is the path of an event to a
destination: `DestinationConfig::validate`, `normalize_destination`, the domains
`parse_event_for_routing` extracts, and `destination_matches`. Texts are
sequences of the characters the code distinguishes, since the trims are what the
properties are about.

## 3. The runs

Each property is stated, with the code it is about, in the module where it is
defined. Every property of a passing run is known to be violated by a plausible
bug: the operators marked "Mutant of X" in the modules are those bugs (a dropped
lock check, `<=` for `<` in the stale test, a missing `locked_at`, and so on), and
`PROJECT.json` names the run and the property that each must break.

| run | distinct states | shows |
|---|---|---|
| `slow_tasks` | 510 380 | two jobs, two releases, tasks that outlive the stale lock, one fault: `TypeOK`, `AttemptLogMatchesCount`, `AttemptLogTellsStatus`, `LockHolderIsCurrent`, `LockLostOnlyWhenStale`, `PostedUrlIsStored`, `EndedJobsAreFrozen` |
| `ledger` | 110 491 | one job, one clock behind the database's and one ahead, two faults, three attempts: `LedgerSpec`, `BackoffIsKept`, `FailedOnlyAfterDeadline` |
| `prompt` | 362 240 | tasks within the stale-lock time, one fault anywhere: `OneTaskPerJob`, `AckedIsRecorded`, and under fairness `EveryJobEnds` |
| `transactions` | 336 098 | two connections that record, two workers that claim, a client that vanishes: `TxnTypeOK`, `CommitIsStillDue`, `AtomicSpec`, `TransactionsEnd` |
| `intake` | 171 216 | two events with two requests each, two releases, a pool of one connection, one fault: `TypeOK`, `StoredOnceAndWhole`, `IntakeSpec`, `EveryEventIsAnswered` |
| `shutdown` | 1 597 580 | two workers, rows due before and after the bind, which may fail, batches that hang, one fault: `TypeOK`, `OneLateClaim`, `StrandedAtMostOneClaim`, `GivenUpOnlyWhenOverdue`, `ExitIsBounded`, `CycleSpec`, `SignalEndsProcess` |
| `serving` | 453 702 | batches that end: `ExitIsBounded` where the batch, not the drain timeout, is the bound, and `DueRowIsClaimed` |
| `routing` | 1 356 531 | every domain text of up to three characters, every sender of up to five: `RoutesAsConfigured`, `ExtractedIsNormal`, `MailboxDomainIsExtracted` |
| `parameters` | 77 366 | configurations around every limit and wrap-around; every jitter of eight failures: `AcceptedConfigFits`, `NameFindsItsDestination`, `PaceIsKept` |
| `lost_success` | stops at a violation | `TwoHundredMeansDelivered`, see section 6 |
| `announced_retry` | stops at a violation | `AnnouncedRetryIsSent`, see section 6 |
| `quoted_name` | stops at a violation | `SenderDomainIsExtracted`, see section 6 |

Bounds of the delivery runs. `MaxTime` stops the clock and `QuietFrom` stops
inserts and faults; in `slow_tasks` and `prompt`, `MaxTime` leaves at least the
stale-lock time after the last fault, and in `prompt` also the retry window after the
last insert, so that a takeover and the deadline really happen. A retry window of
2 to 5 units and delays of 1 to 3 give several attempts and the clamp at the
deadline. `TaskBound = 3` against `StaleLock = 1` makes tasks lose their lock;
`TaskBound <= StaleLock` is the regime `Config::validate` aims at. `MaxAttempts`
restricts the environment, not the code: destinations do not refuse more often than
that before the deadline; the ends of jobs by 2xx and by deadline stay possible.
`MaxFaults` counts crashes, lost claims and failed tasks together, placed anywhere.
Two workers are enough for a holder and a taker; two jobs for a batch and the order
of `Picks`. `AckedIsRecorded` speaks of behaviours before the first fault, since a
crash between the answer and its record loses the answer. Only `ledger` switches the
deadlock check off among these: two crashes leave nobody to act.

Bounds of `transactions`: one job suffices, because no statement of a `record_*` call
touches a second one and the claim skips what is locked; two connections make every
pair of concurrent records, two workers a claim beside them and a takeover, two
attempts a record of an old number. `MaxFaults` counts vanished clients.

Bounds of `intake`: two copies of an event make a winner and one that waits or comes
too late; `Match` in `MCIngest` gives the releases different sets for `e1` and lets
only the new one know `e2`, so that 204 and 202 both occur for one event.
`PoolSize = 1` makes a request wait both for a connection and for a key.

Bounds of `shutdown` and `serving`: `SignalBy` places the signal before, during or
after the first claims. In `shutdown` a batch may take 7 units where the whole drain
is over after 1 + 2 x 2, so both timeouts expire; in `serving` batches end after 2 and
the drain waits for them. One fault is a failed claim or a failed task. Two rows, each
due from the start or later, give either worker a claim before the bind, one after it and
one that the `select!` drops.

Bounds of `routing`: the trims look at the ends of a text, so three characters hold one
of each kind (white space, `@` or dot, letter) and every clash of two; a sender of five
holds `<`, `@`, a letter, `>` and one more, such as a `>` in the name. `quoted_name` puts
up to three characters in quotation marks before one address. `MCRouting` gives an event of any
sender only to one plain destination, whose route does not matter to the extraction.
Bounds of `parameters`: words of 20 bits instead of 64 (`MaxSigned` = 2^19 - 1) hold the default values
and wrap around like the real ones; eight failures reach the hour and stay there.
`CHECK_DEADLOCK` is off in both, where checking or routing ends the story.

## 4. Fairness

`FairSpec` of DeliveryQueue: time passes; a worker that is up polls for ever
(`run_worker` is a loop with a sleep of `IDLE_SLEEP`); every task takes its next
step (tokio runs it, the client's timeout ends a request, a statement ends). A
crashed worker does nothing, faults are bounded, and at least one worker stays.
Nothing is assumed of `Enqueue` or of answers being 2xx.

`FairSpec` of Ingest: the sender repeats an event until it is told 2xx (Svix
retries; the bounded faults never exhaust it); the pool queue is fair, hence
strong fairness of `Begin`; every statement ends, and one that waits for a key
ends when the transaction holding it does, which includes `Abort`.

`HangingSpec` of Lifecycle: tokio polls what is ready, time passes, and the open
connections end within `ServeBound`. The 30 s timeout of `web.rs:37` gives that for every
request that has reached a handler; that no client keeps a half-sent one open is an
assumption about the environment, and `ExitIsBounded` and `SignalEndsProcess` rest on it:
`axum::serve` would wait for that client, and only the platform's kill would end the
process. Nothing is assumed of tasks, so `SignalEndsProcess` holds with every task
hanging, nor of `Arrive`, `Signal` and `GhostClaim`. `FairSpec` adds `TasksEnd`, the
client's timeout, without which a worker need not claim again.

`FairTxnSpec` of Transactions: strong fairness of a session's next statement, because
PostgreSQL queues those who wait for a row or a key and wakes them in turn; a claim
that has its rows commits.

## 5. The proofs

All theorems hold for every value of the constants; the assumptions are the named
ASSUMEs of the modules, ranges of the constants and that NULL is not a value.

`DeliveryQueueProofs`, from `TableAssumption` and `QueueAssumption`:

- The inductive invariant `IInv` is `TypeOK`, `LockInv` (a row has a lock exactly
  while it is 'delivering', taken in the past), `TaskInv` (a task's job exists and
  its claim is in the past), `ClaimInv` (a task whose worker is named in the row is
  the task of that very claim and knows the next attempt number and the URL),
  `LogInv` (attempts are 1 .. `attempt_count`, each once) and
  `LockLostOnlyWhenStale`. `ClaimInv` is the heart: the lock is a worker id, and
  it identifies a claim only because a worker claims when all its tasks have ended
  and a restart takes a new id. `TypeOK` alone is not inductive: that an attempt
  number is positive comes from the claim, and that `UNIQUE` never refuses the
  current task from `LogInv` with `ClaimInv`.
- From it: `TypeCorrect`, `AttemptLog`, `LockHolder`, `LockLost`, `PostedUrl`, and
  `EndedFrozen` (an action property: a job that has ended is not locked, so no
  statement matches it).
- `OneTask`: if `TaskBound <= StaleLock`, two workers never run a task for one job,
  because a takeover needs a lock older than any task.
- `FailureIsLate`: `DeadlineInv` adds that a task about to record a final failure
  has seen its clock at the deadline, and clocks do not go back.

`LedgerProofs`, over the same invariant. `TableSteps` says that a step is a claim, an
insert, a refresh, a commit or leaves the tables alone; each theorem then has one case
per kind.

- `LogTellsStatus`: what the last attempt row announces is what the job row says.
- `AckedRecorded`, if `TaskBound <= StaleLock`: before the first fault a task with a
  2xx holds its lock until it records it, and `UNIQUE` cannot refuse the record.
- `Backoff`: `PaceInv` adds that a claimed job was due and that a task about to store
  a retry has paced it, by induction on the attempts. Its hypothesis, that a least pace
  exists, holds of any finite set of workers.
- `ImplementsLedger`: the log is read from the attempts by their numbers; `LogInv`
  makes the choice unique, so a commit appends exactly one outcome (`RecordAppends`)
  and every other step is `Accept`, `Expire` or a stutter.

`TransactionsProofs`, from `TableAssumption` and `TxnAssumption`: `IInv` is
`TxnTypeOK`, `NumberInv` (a number is never beyond the next one), `KeyInv` (an attempt
inserted by one transaction is inserted by no other, committed or not), `RowInv` (no
claim locks a row whose attempt is being recorded, and what an UPDATE has seen stays
until its COMMIT), `ClaimInv` (the rows a claim has locked stay what it selected) and
`LogInv` (every attempt a job counts is stored). It gives `TypeCorrect`, `StillDue` and
`ImplementsAtomicTable`: COMMIT is the atomic `Record`, the claim's commit the atomic
`Claim`, the rest stutters.

`LifecycleProofs`, from `LifecycleAssumption`: `BatchInv`, `SignalInv`, `ClockInv` and
`DrainInv` say where a worker and `main` can be at a moment; `ExitInv` bounds the time
left by the handles still to await, `StrandInv` counts what a worker has locked
and lost. They give `TypeCorrect`, `LateClaim`, `GivenUp`, `Exit`, `Stranding` and
`ImplementsCycle`.

`IngestProofs`, for all events, processes, routes, pools and faults, from
`IngestAssumption`: the inductive invariant is `TypeOK`, `KeyInv` (a svix-id is
held by at most one transaction, and by none once it has a row), `MatchInv` (a
transaction that commits holds the jobs of all its matches), `AnswerInv` (a
request about to answer 202 stands for a committed row) and `RowInv`. It gives
`TypeCorrect`, `StoredOnce`, and `ImplementsIntake`: the two commits are `Store`,
the answer 202 is `Tell`, and every other step is a stutter.

`RetryScheduleProofs`: `DelaysAreBounded` and `BackoffGrows` about `RetryDelays` for
every attempt number, and `Pace` for every number of failures.

`ConfigCheckProofs`, from `ConfigAssumption` (the fields have the types they are parsed
into): the inductive invariant `Checked` says that an accepted configuration has passed
every check (`CheckedHolds`). `AcceptedFits` follows because neither the casts nor the sum
change a number in range (`SignedInRange`); `NameFinds` because, where no two names are
equal, the first destination of a name is the only one.

`RoutingProofs`, for texts of any length over any characters, from `RoutingAssumption`:

- Each trim, find and split returns a slice of its argument, and slices of slices are
  slices; one lemma per operator says where its slice begins and ends. The first and last
  positions exist by well-foundedness of the natural numbers, used as "a non-empty set has
  a minimal element", which needs no operator parameter.
- `IsNormal` is the form both sides share: not empty, lower case, no white space or `@`
  in front, no white space or dot behind. `DomainTextIsNormal` and `ExtractedForm` show
  it of what `extract_email_domain` returns.
- `BareIsNamed`: the operator's text names a domain in that form exactly if
  `normalize_domain` turns the text into it. `CriterionIsKept`: as validation refuses
  texts without a domain, normalisation never empties a list.
- `RouteInv`, the inductive invariant, says that the router matches with the normalised
  form of an accepted destination (`RouteInvHolds`). With the lemmas it gives `RoutesRight`,
  `OneForm` and `MailboxFound`. The last follows the extraction from the `@` outwards
  (`Reaches`): no trim before the split removes it, so the last `@` of what remains is it.
  Its hypothesis is that the first `<`, if there is one, opens the address: the display
  name holds no `<` and the local part no `>`. What happens otherwise is the finding
  `quoted_name`.

Model-checked only: the liveness properties (`EveryJobEnds`, `EveryEventIsAnswered`,
`SignalEndsProcess`, `DueRowIsClaimed`, `TransactionsEnd`), because fairness is beyond
the prover. Every other property of a passing run is proved.

## 6. Where code and documents disagree

- `lost_success`: README line 16 says delivery succeeds on any 2xx. A 2xx that
  arrives after the lock went stale and was taken over is dropped
  (`delivery.rs:194`); the job is sent again and can end as failed. `OneTask` and
  `AckedRecorded` say when this cannot happen: while tasks end within the
  stale-lock time and nothing fails. `Config::validate` does not guarantee that: a
  task also waits for connections, which the test `stale > timeout + 5` ignores.
- `announced_retry`: README line 17 and the log line "webhook delivery failed;
  scheduled retry" announce a retry that is never sent when the delay is clamped
  to the deadline (`delivery.rs:321`): the claim made then fails the job without a
  request and counts one more attempt.
- `quoted_name`: README line 13 says that routing goes by the sender domain of
  `data.from`. `extract_email_domain` takes what stands between the first `<` and the next
  `>` for the address (`resend.rs:99`), even inside a quoted display name: of
  `"Sales <EU>" <hello@example.com>` it takes `EU`, finds no domain, and the event is
  dropped with 204. `MailboxFound` says for which senders this cannot happen.

Seven remarks that no run checks as a violation:

- `config.rs:164` refuses a stale-lock time of exactly timeout + 5, while its message
  (`config.rs:166`) asks for "at least" that.
- `ExitIsBounded` counts one drain timeout per worker, since `main` awaits the handles in
  turn. With the defaults a process whose tasks hang ends up to 30 + 2 x 30 s after the
  signal; README line 94 and `.env.example` give the platform 60 s, after which it kills
  the process. `StrandedAtMostOneClaim` covers that end too.
- On a process whose clock lags the database's, a short or clamped retry may be due when
  it is stored. `Pace` in `BackoffIsKept` is therefore the shortest delay less the largest
  lag: it says nothing when the lag reaches the first delay of 12 s.
- README line 61 says "Domain matching is exact after lowercasing and trimming a leading
  `@`". `normalize_domain` (`router.rs:88-92`) also trims white space, every further `@` and
  trailing dots, so that a domain configured as `A.` or `@@A` matches `a`.
  `RoutesAsConfigured` therefore reads the operator's text with the trims of the code
  (`Names`), not with those of the README: it shows that no criterion is lost or added, not
  that the match is as exact as line 61 has it.
- `config.rs:164` casts the timeout to `i64` before it compares: 2^64 - 1, which somebody may
  set to mean "no timeout", counts as -1, so any lock above 4 s is accepted, against the
  message of `config.rs:166`, and a request that hangs loses its lock.
- The check behind "RETRY_WINDOW_SECS must be greater than zero" (`config.rs:144`) tests the
  `u64`, and `retry_window` casts it (`config.rs:81`): 2^64 - 1, for "for ever", means -1 s and
  every job fails without a request. `AcceptedConfigFits` holds for numbers that fit the
  signed word (`InRange`); that is where the two casts are harmless.
- A window that fits the signed word but leads past the year 9999 passes validation, and
  `now + retry_window` (`db.rs:57`) then panics in the handler. Dates have no end in the
  models.

## 7. Not modelled

Signatures and HMAC, header parsing, the mapping of errors to status codes, health
endpoints and tracing: pure functions or I/O without state that another part reads. The
stored bodies and headers, columns no statement tests, and the text of last errors.
Reading the environment (`from_env`) beyond its numbers; JSON itself. The pool of
connections appears in `Ingest`, where requests wait for it while they hold keys; in the delivery
modules it is part of `TaskBound`.

What could be added: the jobs of one event becoming due together in `DeliveryQueue`,
which the present model lets happen one by one.

## 8. Running

    tlc -config slow_tasks.cfg MCDeliveryQueue.tla     (also ledger, prompt,
                                                        lost_success, announced_retry)
    tlc -config intake.cfg MCIngest.tla
    tlc -config shutdown.cfg Lifecycle.tla             (also serving)
    tlc -config transactions.cfg Transactions.tla
    tlc -config routing.cfg MCRouting.tla              (also quoted_name)
    tlc -config parameters.cfg MCParameters.tla
    tlapm M.tla   for M in DeliveryQueueProofs, LedgerProofs, TransactionsProofs,
                  LifecycleProofs, IngestProofs, RetryScheduleProofs,
                  ConfigCheckProofs, RoutingProofs
