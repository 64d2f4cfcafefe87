------------------------------- MODULE Ingest -------------------------------
(***************************************************************************)
(* POST /webhooks/resend: src/web.rs resend_webhook and the transaction of *)
(* src/db.rs enqueue_event.  Several requests for one svix-id may be in    *)
(* flight in the processes of an old and a new release.  Requests that     *)
(* fail verification or parsing change nothing and are left out.           *)
(***************************************************************************)
EXTENDS Integers, FiniteSets

CONSTANTS
  Events,         \* svix-ids
  Destinations,
  Processes,
  Null,
  Match,          \* Match[p][e]: the destinations p's configuration routes e to
  Copies,         \* bound: the requests for one event that may be open at once
  PoolSize,       \* DATABASE_MAX_CONNECTIONS
  MaxFaults       \* bound: failed requests and crashes in a behaviour

ASSUME IngestAssumption ==
  /\ Match \in [Processes -> [Events -> SUBSET Destinations]]
  /\ Null \notin Processes
  /\ PoolSize \in Nat \ {0}
  /\ MaxFaults \in Nat

VARIABLES
  eventRows,      \* committed rows of webhook_events with each svix-id
  jobRows,        \* committed rows of delivery_jobs for each event and destination
  request,        \* request[e][c]: the state of one open request
  answers,        \* history: the 2xx statuses the sender received for each event
  faults

vars == <<eventRows, jobRows, request, answers, faults>>

\* An open request waits for a connection, then for each statement in turn; it is
\* "stored" when its transaction is over and 202 is all that is left to do.  When its
\* future is dropped the server still holds the transaction ("dropped"), or a COMMIT
\* that may or may not have reached it ("in_doubt").
InTransaction == {"insert", "jobs", "commit", "duplicate", "dropped", "in_doubt"}
RequestPcs    == {"none", "matched", "stored"} \cup InTransaction

\* key: the transaction has inserted the svix-id into the unique index.
RequestState ==
  [pc : RequestPcs, at : Processes \cup {Null}, matched : SUBSET Destinations,
   inserted : SUBSET Destinations, key : BOOLEAN]

NoRequest ==
  [pc |-> "none", at |-> Null, matched |-> {}, inserted |-> {}, key |-> FALSE]

Init ==
  /\ eventRows = [e \in Events |-> 0]
  /\ jobRows = [e \in Events |-> [d \in Destinations |-> 0]]
  /\ request = [e \in Events |-> [c \in Copies |-> NoRequest]]
  /\ answers = [e \in Events |-> {}]
  /\ faults = 0

tables == <<eventRows, jobRows>>

Set(e, c, state) == request' = [request EXCEPT ![e][c] = state]

Go(e, c, from, to) ==
  /\ request[e][c].pc = from
  /\ Set(e, c, [request[e][c] EXCEPT !.pc = to])

Tell(e, status) == answers' = [answers EXCEPT ![e] = @ \cup {status}]

-----------------------------------------------------------------------------
(* The handler. *)

\* Mutant of Unmatched: an early return of StatusCode::OK.
UnmatchedOk(e, p) ==
  /\ Match[p][e] = {}
  /\ Tell(e, 200)
  /\ UNCHANGED <<tables, request, faults>>

\* No destination matches: 204, and nothing is stored.
Unmatched(e, p) ==
  /\ Match[p][e] = {}
  /\ Tell(e, 204)
  /\ UNCHANGED <<tables, request, faults>>

Receive(e, c, p) ==
  /\ request[e][c].pc = "none"
  /\ Match[p][e] # {}
  /\ Set(e, c, [NoRequest EXCEPT !.pc = "matched", !.at = p, !.matched = Match[p][e]])
  /\ UNCHANGED <<tables, answers, faults>>

Connections(p) ==
  {ec \in Events \X Copies :
     LET r == request[ec[1]][ec[2]] IN r.at = p /\ r.pc \in InTransaction}

\* pool.begin() waits for a free connection.
Begin(e, c) ==
  /\ Go(e, c, "matched", "insert")
  /\ Cardinality(Connections(request[e][c].at)) < PoolSize
  /\ UNCHANGED <<tables, answers, faults>>

\* The INSERT waits while another transaction has inserted the same svix-id.
KeyIsFree(e) == \A c \in Copies : ~request[e][c].key

\* Mutant of InsertEvent: no conflict with the row of a committed transaction.
InsertEventAgain(e, c) ==
  /\ request[e][c].pc = "insert"
  /\ KeyIsFree(e)
  /\ Set(e, c, [request[e][c] EXCEPT !.pc = "jobs", !.key = TRUE])
  /\ UNCHANGED <<tables, answers, faults>>

\* Mutant of InsertEvent: executed on the pool, outside the transaction.
InsertEventOutside(e, c) ==
  /\ request[e][c].pc = "insert"
  /\ KeyIsFree(e)
  /\ eventRows[e] = 0
  /\ eventRows' = [eventRows EXCEPT ![e] = 1]
  /\ Set(e, c, [request[e][c] EXCEPT !.pc = "jobs"])
  /\ UNCHANGED <<jobRows, answers, faults>>

InsertEvent(e, c) ==
  /\ request[e][c].pc = "insert"
  /\ KeyIsFree(e)
  /\ eventRows[e] = 0
  /\ Set(e, c, [request[e][c] EXCEPT !.pc = "jobs", !.key = TRUE])
  /\ UNCHANGED <<tables, answers, faults>>

\* ON CONFLICT (source_svix_id) DO NOTHING returned no row: EnqueueOutcome::Duplicate.
InsertConflict(e, c) ==
  /\ KeyIsFree(e)
  /\ eventRows[e] > 0
  /\ Go(e, c, "insert", "duplicate")
  /\ UNCHANGED <<tables, answers, faults>>

InsertJob(e, c) ==
  /\ request[e][c].pc = "jobs"
  /\ \E d \in request[e][c].matched \ request[e][c].inserted :
       Set(e, c, [request[e][c] EXCEPT !.inserted = @ \cup {d}])
  /\ UNCHANGED <<tables, answers, faults>>

SendCommit(e, c) ==
  /\ request[e][c].inserted = request[e][c].matched
  /\ Go(e, c, "jobs", "commit")
  /\ UNCHANGED <<tables, answers, faults>>

\* The rows of the transaction become visible together.
Publish(e, c) ==
  /\ eventRows' = [eventRows EXCEPT ![e] = @ + 1]
  /\ jobRows' = [jobRows EXCEPT ![e] =
       [d \in Destinations |->
          jobRows[e][d] + IF d \in request[e][c].inserted THEN 1 ELSE 0]]

Commit(e, c) ==
  /\ request[e][c].pc = "commit"
  /\ Publish(e, c)
  /\ Set(e, c, [request[e][c] EXCEPT !.pc = "stored", !.key = FALSE])
  /\ UNCHANGED <<answers, faults>>

RollbackDuplicate(e, c) ==
  /\ Go(e, c, "duplicate", "stored")
  /\ UNCHANGED <<tables, answers, faults>>

Accepted(e, c) ==
  /\ request[e][c].pc = "stored"
  /\ Tell(e, 202)
  /\ Set(e, c, NoRequest)
  /\ UNCHANGED <<tables, faults>>

-----------------------------------------------------------------------------
(* What goes wrong. *)

Open == {"matched", "insert", "jobs", "commit", "duplicate", "stored"}

\* What is left of a request whose future is dropped or returns early with ?.
Remains(r) ==
  CASE r.pc = "commit" -> [r EXCEPT !.pc = "in_doubt"]
    [] r.pc \in {"insert", "jobs", "duplicate"} -> [r EXCEPT !.pc = "dropped"]
    [] r.pc \in {"matched", "stored"} -> NoRequest
    [] OTHER -> r

Fault ==
  /\ faults < MaxFaults
  /\ faults' = faults + 1

\* A statement fails, no connection is free in time, TimeoutLayer answers 408, or
\* the sender's connection breaks: the sender sees no 2xx.
Fail(e, c) ==
  /\ request[e][c].pc \in Open
  /\ Fault
  /\ Set(e, c, Remains(request[e][c]))
  /\ UNCHANGED <<tables, answers>>

\* The process dies and is restarted with an empty pool.
Crash(p) ==
  /\ Fault
  /\ request' = [e \in Events |-> [c \in Copies |->
       LET r == request[e][c]
       IN  IF r.at = p THEN [Remains(r) EXCEPT !.at = Null] ELSE r]]
  /\ UNCHANGED <<tables, answers>>

\* Mutant of Abort: a transaction that inserted the event is left open.
AbortUnlessKeyed(e, c) ==
  /\ request[e][c].pc \in {"dropped", "in_doubt"}
  /\ ~request[e][c].key
  /\ Set(e, c, NoRequest)
  /\ UNCHANGED <<tables, answers, faults>>

\* The server rolls a dropped transaction back.
Abort(e, c) ==
  /\ request[e][c].pc \in {"dropped", "in_doubt"}
  /\ Set(e, c, NoRequest)
  /\ UNCHANGED <<tables, answers, faults>>

\* The COMMIT had reached the server after all.
CommitInDoubt(e, c) ==
  /\ request[e][c].pc = "in_doubt"
  /\ Publish(e, c)
  /\ Set(e, c, NoRequest)
  /\ UNCHANGED <<answers, faults>>

-----------------------------------------------------------------------------

Statement(e, c) ==
  \/ InsertEvent(e, c)
  \/ InsertConflict(e, c)
  \/ InsertJob(e, c)
  \/ SendCommit(e, c)
  \/ Commit(e, c)
  \/ RollbackDuplicate(e, c)
  \/ Accepted(e, c)
  \/ Abort(e, c)
  \/ CommitInDoubt(e, c)

Next ==
  \/ \E p \in Processes : Crash(p)
  \/ \E e \in Events, p \in Processes : Unmatched(e, p)
  \/ \E e \in Events, c \in Copies, p \in Processes : Receive(e, c, p)
  \/ \E e \in Events, c \in Copies : Begin(e, c) \/ Statement(e, c) \/ Fail(e, c)

Spec == Init /\ [][Next]_vars

\* The sender repeats an event until it is told 2xx; the pool is a fair queue;
\* statements end, and so does a wait for a transaction that ends.
Fairness ==
  \A e \in Events :
    /\ WF_vars(answers[e] = {} /\ \E c \in Copies, p \in Processes :
                 Receive(e, c, p) \/ Unmatched(e, p))
    /\ \A c \in Copies : SF_vars(Begin(e, c)) /\ WF_vars(Statement(e, c))

FairSpec == Spec /\ Fairness

-----------------------------------------------------------------------------
(* Properties. *)

TypeOK ==
  /\ eventRows \in [Events -> Nat]
  /\ jobRows \in [Events -> [Destinations -> Nat]]
  /\ request \in [Events -> [Copies -> RequestState]]
  /\ answers \in [Events -> SUBSET {202, 204}]
  /\ faults \in Nat

\* No svix-id is stored twice, and the jobs stored with it are those one release
\* routes it to, one for each destination: never a part of them, never the jobs of
\* two releases or of two copies (db.rs enqueue_event, README "deduplicated by
\* svix-id").
StoredOnceAndWhole ==
  \A e \in Events :
    \/ eventRows[e] = 0 /\ \A d \in Destinations : jobRows[e][d] = 0
    \/ /\ eventRows[e] = 1
       /\ \E p \in Processes : \A d \in Destinations :
            jobRows[e][d] = IF d \in Match[p][e] THEN 1 ELSE 0

Stored(e) == {d \in Destinations : jobRows[e][d] > 0}

Intake == INSTANCE EventIntake WITH
  Offers <- [e \in Events |-> {Match[p][e] : p \in Processes}],
  stored <- [e \in Events |-> Stored(e)],
  told   <- {e \in Events : 202 \in answers[e]}

\* "Matching deliveries are persisted in Postgres before the handler returns 202
\* Accepted" (README), for the request that inserts and for one that finds a
\* duplicate, whatever fails between the statements of enqueue_event.
IntakeSpec == Intake!Spec

\* Every event is answered 2xx in the end: no request waits for ever for a
\* connection or for a transaction that nobody will end.
EveryEventIsAnswered == \A e \in Events : <>(answers[e] # {})
=============================================================================
