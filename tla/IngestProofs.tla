---------------------------- MODULE IngestProofs ----------------------------
(***************************************************************************)
(* Proofs about Ingest, for every set of events, processes, destinations,  *)
(* routes, open requests and faults.                                       *)
(***************************************************************************)
EXTENDS Ingest, TLAPS

\* The unique index: the svix-id of an event without a row is held by at most one
\* transaction, and by none once it has a row.
KeyInv ==
  \A e \in Events, c \in Copies :
    /\ request[e][c].pc \in {"jobs", "commit", "in_doubt"} => request[e][c].key
    /\ request[e][c].key =>
         /\ request[e][c].pc \in {"jobs", "commit", "in_doubt", "dropped"}
         /\ eventRows[e] = 0
         /\ \A b \in Copies : request[e][b].key => b = c

\* A request holds the matches of one process, and commits jobs for all of them.
MatchInv ==
  \A e \in Events, c \in Copies :
    request[e][c].pc # "none" =>
      /\ request[e][c].matched # {}
      /\ \E p \in Processes : request[e][c].matched = Match[p][e]
      /\ request[e][c].pc \in {"commit", "in_doubt"} =>
           request[e][c].inserted = request[e][c].matched

\* A request about to answer 202, and a 202 answered, stand for a committed row.
AnswerInv ==
  \A e \in Events :
    /\ \A c \in Copies : request[e][c].pc \in {"duplicate", "stored"} => eventRows[e] = 1
    /\ 202 \in answers[e] => eventRows[e] = 1

\* StoredOnceAndWhole, and some job is stored with every event.
RowInv ==
  \A e \in Events :
    \/ eventRows[e] = 0 /\ \A d \in Destinations : jobRows[e][d] = 0
    \/ /\ eventRows[e] = 1
       /\ \E p \in Processes :
            /\ Match[p][e] # {}
            /\ \A d \in Destinations : jobRows[e][d] = IF d \in Match[p][e] THEN 1 ELSE 0

IInv == TypeOK /\ KeyInv /\ MatchInv /\ AnswerInv /\ RowInv

LEMMA InitIInv == Init => IInv
  BY DEF Init, IInv, TypeOK, KeyInv, MatchInv, AnswerInv, RowInv, NoRequest,
         RequestState, RequestPcs

\* Setting one request, element by element.
LEMMA SetEffect ==
  ASSUME TypeOK, NEW e \in Events, NEW c \in Copies, NEW r \in RequestState, Set(e, c, r)
  PROVE  /\ request' \in [Events -> [Copies -> RequestState]]
         /\ \A f \in Events, b \in Copies :
              request'[f][b] = IF f = e /\ b = c THEN r ELSE request[f][b]
  BY DEF TypeOK, Set

\* A step of one request that leaves the tables and the answers alone.
LEMMA LocalStep ==
  ASSUME IInv, NEW e \in Events, NEW c \in Copies, NEW r \in RequestState,
         Set(e, c, r), UNCHANGED <<tables, answers>>, faults' \in Nat,
         r.pc \in {"jobs", "commit", "in_doubt"} => r.key,
         r.key => /\ r.pc \in {"jobs", "commit", "in_doubt", "dropped"}
                  /\ request[e][c].key \/ (KeyIsFree(e) /\ eventRows[e] = 0),
         r.pc # "none" =>
           /\ r.matched # {}
           /\ \E p \in Processes : r.matched = Match[p][e]
           /\ r.pc \in {"commit", "in_doubt"} => r.inserted = r.matched,
         r.pc \in {"duplicate", "stored"} => eventRows[e] = 1
  PROVE  IInv'
<1> USE DEF tables
<1>1. /\ request' \in [Events -> [Copies -> RequestState]]
      /\ \A f \in Events, b \in Copies :
           request'[f][b] = IF f = e /\ b = c THEN r ELSE request[f][b]
  BY SetEffect DEF IInv
<1>2. TypeOK'
  BY <1>1 DEF IInv, TypeOK
<1>3. KeyInv'
  BY <1>1 DEF IInv, KeyInv, KeyIsFree
<1>4. MatchInv'
  BY <1>1 DEF IInv, MatchInv
<1>5. AnswerInv'
  BY <1>1 DEF IInv, AnswerInv
<1>6. RowInv'
  BY DEF IInv, RowInv
<1> QED
  BY <1>2, <1>3, <1>4, <1>5, <1>6 DEF IInv

\* The step that makes the rows of a transaction visible.
LEMMA PublishStep ==
  ASSUME IInv, NEW e \in Events, NEW c \in Copies, NEW r \in RequestState,
         request[e][c].pc \in {"commit", "in_doubt"}, Publish(e, c), Set(e, c, r),
         UNCHANGED <<answers, faults>>,
         ~r.key, r.pc \in {"none", "stored"},
         r.pc = "stored" => r.matched = request[e][c].matched
  PROVE  IInv'
<1>1. /\ request' \in [Events -> [Copies -> RequestState]]
      /\ \A f \in Events, b \in Copies :
           request'[f][b] = IF f = e /\ b = c THEN r ELSE request[f][b]
  BY SetEffect DEF IInv
<1>2. /\ request[e][c].key
      /\ request[e][c].pc # "none"
      /\ eventRows[e] = 0
      /\ request[e][c].inserted = request[e][c].matched
  BY DEF IInv, KeyInv, MatchInv
<1>3. /\ eventRows' \in [Events -> Nat]
      /\ \A f \in Events : eventRows'[f] = IF f = e THEN 1 ELSE eventRows[f]
  BY <1>2 DEF IInv, TypeOK, Publish
<1>4. \A d \in Destinations : jobRows[e][d] = 0
  BY <1>2 DEF IInv, RowInv
<1>5. /\ jobRows' \in [Events -> [Destinations -> Nat]]
      /\ \A f \in Events, d \in Destinations :
           jobRows'[f][d] = IF f # e THEN jobRows[f][d]
                            ELSE IF d \in request[e][c].inserted THEN 1 ELSE 0
  BY <1>4 DEF IInv, TypeOK, Publish
<1>6. TypeOK'
  BY <1>1, <1>3, <1>5 DEF IInv, TypeOK
<1>7. KeyInv'
  <2> SUFFICES ASSUME NEW f \in Events, NEW b \in Copies
               PROVE  KeyInv!(f, b)'
    BY DEF KeyInv
  <2>1. CASE f # e
    <3>1. /\ \A a \in Copies : request'[f][a] = request[f][a]
          /\ eventRows'[f] = eventRows[f]
      BY <2>1, <1>1, <1>3
    <3> QED
      BY <3>1 DEF IInv, KeyInv
  <2>2. CASE f = e
    <3>1. ~request'[e][b].key
      BY <1>1, <1>2 DEF IInv, KeyInv
    <3>2. b # c => ~request[e][b].key
      BY <1>2 DEF IInv, KeyInv
    <3>3. request'[e][b].pc \notin {"jobs", "commit", "in_doubt"}
      BY <1>1, <3>2 DEF IInv, KeyInv
    <3> QED
      BY <2>2, <3>1, <3>3
  <2> QED
    BY <2>1, <2>2
<1>8. MatchInv'
  BY <1>1, <1>2 DEF IInv, MatchInv
<1>9. AnswerInv'
  BY <1>1, <1>3 DEF IInv, AnswerInv
<1>10. RowInv'
  <2> SUFFICES ASSUME NEW f \in Events
               PROVE  RowInv!(f)'
    BY DEF RowInv
  <2>1. CASE f # e
    <3>1. /\ eventRows'[f] = eventRows[f]
          /\ \A d \in Destinations : jobRows'[f][d] = jobRows[f][d]
      BY <2>1, <1>3, <1>5
    <3> QED
      BY <3>1 DEF IInv, RowInv
  <2>2. CASE f = e
    <3>1. PICK p \in Processes : request[e][c].matched = Match[p][e]
      BY <1>2 DEF IInv, MatchInv
    <3>2. Match[p][e] # {}
      BY <3>1, <1>2 DEF IInv, MatchInv
    <3> QED
      BY <2>2, <3>1, <3>2, <1>2, <1>3, <1>5
  <2> QED
    BY <2>1, <2>2
<1> QED
  BY <1>6, <1>7, <1>8, <1>9, <1>10 DEF IInv

\* What is left of a request.
LEMMA RemainsFacts ==
  ASSUME NEW r \in RequestState
  PROVE  /\ Remains(r) \in RequestState
         /\ Remains(r).at \in {r.at, Null}
         /\ Remains(r) = NoRequest \/
              /\ Remains(r).pc \in {"dropped", "in_doubt", "none"}
              /\ Remains(r).pc = "in_doubt" => r.pc \in {"commit", "in_doubt"}
              /\ Remains(r).pc = "dropped" => r.pc \in {"insert", "jobs", "duplicate", "dropped"}
              /\ Remains(r).pc = "none" => r.pc = "none"
              /\ Remains(r).key = r.key
              /\ Remains(r).matched = r.matched
              /\ Remains(r).inserted = r.inserted
  BY DEF Remains, NoRequest, RequestState, RequestPcs, InTransaction

LEMMA CrashStep ==
  ASSUME IInv, NEW p \in Processes, Crash(p)
  PROVE  IInv'
<1> USE DEF tables
<1>1. \A f \in Events, b \in Copies :
        /\ request[f][b] \in RequestState
        /\ request[f][b].key => request[f][b].pc # "none"
  BY DEF IInv, TypeOK, KeyInv
<1> DEFINE After(r) == IF r.at = p THEN [Remains(r) EXCEPT !.at = Null] ELSE r
<1>2. ASSUME NEW r \in RequestState, r.key => r.pc # "none"
      PROVE  /\ After(r) \in RequestState
             /\ After(r).key => r.key /\ After(r).pc # "none"
             /\ After(r).pc # "none" =>
                  /\ r.pc # "none"
                  /\ After(r).key = r.key
                  /\ After(r).matched = r.matched
                  /\ After(r).inserted = r.inserted
                  /\ After(r).pc \in {r.pc, "dropped", "in_doubt"}
                  /\ After(r).pc = "in_doubt" => r.pc \in {"commit", "in_doubt"}
                  /\ After(r).pc = "dropped" =>
                       r.pc \in {"insert", "jobs", "duplicate", "dropped"}
  <2>1. CASE r.at # p
    BY <1>2, <2>1
  <2>2. CASE r.at = p
    <3>1. /\ Remains(r) \in RequestState
          /\ After(r) = [Remains(r) EXCEPT !.at = Null]
      BY <2>2, RemainsFacts
    <3>2. /\ After(r) \in RequestState
          /\ After(r).key = Remains(r).key
          /\ After(r).pc = Remains(r).pc
          /\ After(r).matched = Remains(r).matched
          /\ After(r).inserted = Remains(r).inserted
      BY <3>1 DEF RequestState
    <3> QED
      BY <1>2, <3>2, RemainsFacts DEF NoRequest
  <2> QED
    BY <2>1, <2>2
<1>3. /\ request' = [f \in Events |-> [b \in Copies |-> After(request[f][b])]]
      /\ UNCHANGED <<eventRows, jobRows, answers>>
      /\ faults' = faults + 1
  BY DEF Crash, Fault
<1> HIDE DEF After
<1>4. TypeOK'
  BY <1>1, <1>2, <1>3 DEF IInv, TypeOK
<1>5. \A f \in Events, b \in Copies : request'[f][b] = After(request[f][b])
  BY <1>3
<1>6. KeyInv'
  BY <1>1, <1>2, <1>3, <1>5 DEF IInv, KeyInv
<1>7. MatchInv'
  BY <1>1, <1>2, <1>5 DEF IInv, MatchInv
<1>8. AnswerInv'
  BY <1>1, <1>2, <1>3, <1>5 DEF IInv, AnswerInv
<1>9. RowInv'
  BY <1>3 DEF IInv, RowInv
<1> QED
  BY <1>4, <1>6, <1>7, <1>8, <1>9 DEF IInv

\* The two answers.
LEMMA AnswerStep ==
  ASSUME IInv, NEW e \in Events,
         \/ \E p \in Processes : Unmatched(e, p)
         \/ \E c \in Copies : Accepted(e, c)
  PROVE  IInv'
<1> USE DEF tables
<1>1. CASE \E p \in Processes : Unmatched(e, p)
  <2>1. /\ answers' = [answers EXCEPT ![e] = @ \cup {204}]
        /\ UNCHANGED <<eventRows, jobRows, request, faults>>
    BY <1>1 DEF Unmatched, Tell
  <2>2. TypeOK'
    BY <2>1 DEF IInv, TypeOK
  <2>3. KeyInv' /\ MatchInv'
    BY <2>1 DEF IInv, KeyInv, MatchInv
  <2>4. AnswerInv'
    BY <2>1 DEF IInv, TypeOK, AnswerInv
  <2>5. RowInv'
    BY <2>1 DEF IInv, RowInv
  <2> QED
    BY <2>2, <2>3, <2>4, <2>5 DEF IInv
<1>2. ASSUME NEW c \in Copies, Accepted(e, c)
      PROVE  IInv'
  <2>1. /\ answers' = [answers EXCEPT ![e] = @ \cup {202}]
        /\ Set(e, c, NoRequest)
        /\ UNCHANGED <<eventRows, jobRows, faults>>
        /\ eventRows[e] = 1
    BY <1>2 DEF Accepted, Tell, IInv, AnswerInv
  <2>2. NoRequest \in RequestState
    BY DEF NoRequest, RequestState, RequestPcs
  <2>3. /\ request' \in [Events -> [Copies -> RequestState]]
        /\ \A f \in Events, b \in Copies :
             request'[f][b] = IF f = e /\ b = c THEN NoRequest ELSE request[f][b]
    BY <2>1, <2>2, SetEffect DEF IInv
  <2>4. ~NoRequest.key /\ NoRequest.pc = "none"
    BY DEF NoRequest
  <2>5. TypeOK'
    <3>1. answers \in [Events -> SUBSET {202, 204}] /\ faults \in Nat
          /\ eventRows \in [Events -> Nat] /\ jobRows \in [Events -> [Destinations -> Nat]]
      BY DEF IInv, TypeOK
    <3>2. answers[e] \cup {202} \in SUBSET {202, 204}
      BY <3>1
    <3>3. answers' \in [Events -> SUBSET {202, 204}]
      BY <2>1, <3>1, <3>2
    <3> QED
      BY <2>1, <2>3, <3>1, <3>3 DEF TypeOK
  <2>6a. KeyInv'
    <3>1. \A f \in Events, b \in Copies :
            /\ request'[f][b].key => request[f][b].key
            /\ request'[f][b].pc # "none" => request'[f][b] = request[f][b]
            /\ request'[f][b].key => request'[f][b] = request[f][b]
      BY <2>3, <2>4
    <3>2. eventRows' = eventRows
      BY <2>1
    <3> QED
      BY <3>1, <3>2 DEF IInv, KeyInv
  <2>6b. MatchInv'
    BY <2>1, <2>3, <2>4 DEF IInv, MatchInv
  <2>7. AnswerInv'
    <3>1. \A f \in Events, b \in Copies :
            request'[f][b].pc \in {"duplicate", "stored"} => eventRows[f] = 1
      BY <2>3, <2>4 DEF IInv, AnswerInv
    <3>2. answers \in [Events -> SUBSET {202, 204}]
      BY DEF IInv, TypeOK
    <3>3. \A f \in Events : 202 \in answers'[f] => f = e \/ 202 \in answers[f]
      BY <2>1, <3>2
    <3> QED
      BY <2>1, <3>1, <3>3 DEF IInv, AnswerInv
  <2>8. RowInv'
    BY <2>1 DEF IInv, RowInv
  <2> QED
    BY <2>5, <2>6a, <2>6b, <2>7, <2>8 DEF IInv
<1> QED
  BY <1>1, <1>2

\* The steps of one request that store nothing and answer nothing.
LEMMA RequestStep ==
  ASSUME IInv, NEW e \in Events, NEW c \in Copies,
         \/ \E p \in Processes : Receive(e, c, p)
         \/ Begin(e, c)
         \/ InsertEvent(e, c)
         \/ InsertConflict(e, c)
         \/ InsertJob(e, c)
         \/ SendCommit(e, c)
         \/ RollbackDuplicate(e, c)
         \/ Fail(e, c)
         \/ Abort(e, c)
  PROVE  IInv'
<1> DEFINE q == request[e][c]
<1>0. /\ q \in RequestState
      /\ faults \in Nat
      /\ q.pc \in {"jobs", "commit", "in_doubt"} => q.key
      /\ q.key => q.pc \in {"jobs", "commit", "in_doubt", "dropped"}
      /\ q.pc # "none" =>
           /\ q.matched # {}
           /\ \E p \in Processes : q.matched = Match[p][e]
           /\ q.pc \in {"commit", "in_doubt"} => q.inserted = q.matched
      /\ q.pc \in {"duplicate", "stored"} => eventRows[e] = 1
  BY DEF IInv, TypeOK, KeyInv, MatchInv, AnswerInv
<1>1. ASSUME NEW pc \in RequestPcs
      PROVE  /\ [q EXCEPT !.pc = pc] \in RequestState
             /\ [q EXCEPT !.pc = pc].pc = pc
             /\ [q EXCEPT !.pc = pc].key = q.key
             /\ [q EXCEPT !.pc = pc].matched = q.matched
             /\ [q EXCEPT !.pc = pc].inserted = q.inserted
  BY <1>0 DEF RequestState
<1>2. NoRequest \in RequestState /\ ~NoRequest.key /\ NoRequest.pc = "none"
  BY DEF NoRequest, RequestState, RequestPcs
<1>3. {"insert", "jobs", "commit", "duplicate", "stored"} \subseteq RequestPcs
  BY DEF RequestPcs, InTransaction
<1>4. ASSUME NEW p \in Processes, Receive(e, c, p)
      PROVE  IInv'
  <2> DEFINE r == [NoRequest EXCEPT !.pc = "matched", !.at = p, !.matched = Match[p][e]]
  <2>1. Match[p][e] \in SUBSET Destinations /\ Match[p][e] # {}
    BY <1>4, IngestAssumption DEF Receive
  <2>2. r \in RequestState /\ ~r.key /\ r.pc = "matched" /\ r.matched = Match[p][e]
    BY <2>1 DEF NoRequest, RequestState, RequestPcs
  <2>3. Set(e, c, r) /\ UNCHANGED <<tables, answers>> /\ faults' \in Nat
    BY <1>4, <1>0 DEF Receive
  <2> HIDE DEF r
  <2> QED
    BY <2>1, <2>2, <2>3, LocalStep
<1>5. CASE Begin(e, c)
  <2> DEFINE r == [q EXCEPT !.pc = "insert"]
  <2>1. /\ Set(e, c, r) /\ UNCHANGED <<tables, answers>> /\ faults' \in Nat
        /\ q.pc = "matched"
    BY <1>5, <1>0 DEF Begin, Go
  <2>2. r \in RequestState /\ r.pc = "insert" /\ ~r.key /\ r.matched = q.matched
    BY <1>0, <1>1, <1>3, <2>1
  <2> HIDE DEF r
  <2> QED
    BY <1>0, <2>1, <2>2, LocalStep
<1>6. CASE InsertEvent(e, c)
  <2> DEFINE r == [q EXCEPT !.pc = "jobs", !.key = TRUE]
  <2>1. /\ Set(e, c, r) /\ UNCHANGED <<tables, answers>> /\ faults' \in Nat
        /\ q.pc = "insert" /\ KeyIsFree(e) /\ eventRows[e] = 0
    BY <1>6, <1>0 DEF InsertEvent
  <2>2. r \in RequestState /\ r.pc = "jobs" /\ r.key /\ r.matched = q.matched
    BY <1>0 DEF RequestState, RequestPcs, InTransaction
  <2> HIDE DEF r
  <2> QED
    BY <1>0, <2>1, <2>2, LocalStep
<1>7. CASE InsertConflict(e, c)
  <2> DEFINE r == [q EXCEPT !.pc = "duplicate"]
  <2>1. /\ Set(e, c, r) /\ UNCHANGED <<tables, answers>> /\ faults' \in Nat
        /\ q.pc = "insert" /\ eventRows[e] > 0
    BY <1>7, <1>0 DEF InsertConflict, Go
  <2>2. eventRows[e] = 1
    BY <2>1 DEF IInv, RowInv
  <2>3. r \in RequestState /\ r.pc = "duplicate" /\ ~r.key /\ r.matched = q.matched
    BY <1>0, <1>1, <1>3, <2>1
  <2> HIDE DEF r
  <2> QED
    BY <1>0, <2>1, <2>2, <2>3, LocalStep
<1>8. CASE InsertJob(e, c)
  <2>1. PICK d \in q.matched \ q.inserted :
             Set(e, c, [q EXCEPT !.inserted = @ \cup {d}])
    BY <1>8 DEF InsertJob
  <2> DEFINE r == [q EXCEPT !.inserted = @ \cup {d}]
  <2>2. /\ Set(e, c, r) /\ UNCHANGED <<tables, answers>> /\ faults' \in Nat
        /\ q.pc = "jobs"
    BY <1>8, <1>0, <2>1 DEF InsertJob
  <2>3. r \in RequestState /\ r.pc = "jobs" /\ r.key = q.key /\ r.matched = q.matched
    BY <1>0, <2>1, <2>2 DEF RequestState
  <2> HIDE DEF r
  <2> QED
    BY <1>0, <2>2, <2>3, LocalStep
<1>9. CASE SendCommit(e, c)
  <2> DEFINE r == [q EXCEPT !.pc = "commit"]
  <2>1. /\ Set(e, c, r) /\ UNCHANGED <<tables, answers>> /\ faults' \in Nat
        /\ q.pc = "jobs" /\ q.inserted = q.matched
    BY <1>9, <1>0 DEF SendCommit, Go
  <2>2. /\ r \in RequestState /\ r.pc = "commit" /\ r.key = q.key
        /\ r.matched = q.matched /\ r.inserted = q.inserted
    BY <1>1, <1>3
  <2> HIDE DEF r
  <2> QED
    BY <1>0, <2>1, <2>2, LocalStep
<1>10. CASE RollbackDuplicate(e, c)
  <2> DEFINE r == [q EXCEPT !.pc = "stored"]
  <2>1. /\ Set(e, c, r) /\ UNCHANGED <<tables, answers>> /\ faults' \in Nat
        /\ q.pc = "duplicate"
    BY <1>10, <1>0 DEF RollbackDuplicate, Go
  <2>2. r \in RequestState /\ r.pc = "stored" /\ ~r.key /\ r.matched = q.matched
    BY <1>0, <1>1, <1>3, <2>1
  <2> HIDE DEF r
  <2> QED
    BY <1>0, <2>1, <2>2, LocalStep
<1>11. CASE Fail(e, c)
  <2> DEFINE r == Remains(q)
  <2>1. /\ Set(e, c, r) /\ UNCHANGED <<tables, answers>> /\ faults' \in Nat
        /\ q.pc # "none"
    BY <1>11, <1>0 DEF Fail, Fault, Open
  <2>2. r \in RequestState
    BY <1>0, RemainsFacts
  <2>3. CASE r = NoRequest
    <3> HIDE DEF r
    <3> QED
      BY <2>1, <2>2, <2>3, <1>2, LocalStep
  <2>4. CASE r # NoRequest
    <3>1. /\ r.pc \in {"dropped", "in_doubt", "none"}
          /\ r.pc = "in_doubt" => q.pc \in {"commit", "in_doubt"}
          /\ r.key = q.key /\ r.matched = q.matched /\ r.inserted = q.inserted
          /\ r.pc # "none"
      BY <1>0, <2>1, <2>4, RemainsFacts
    <3> HIDE DEF r
    <3> QED
      BY <1>0, <2>1, <2>2, <3>1, LocalStep
  <2> QED
    BY <2>3, <2>4
<1>12. CASE Abort(e, c)
  <2>1. /\ Set(e, c, NoRequest) /\ UNCHANGED <<tables, answers>> /\ faults' \in Nat
    BY <1>12, <1>0 DEF Abort
  <2> QED
    BY <2>1, <1>2, LocalStep
<1> QED
  BY <1>4, <1>5, <1>6, <1>7, <1>8, <1>9, <1>10, <1>11, <1>12

LEMMA NextIInv == IInv /\ [Next]_vars => IInv'
<1> SUFFICES ASSUME IInv, [Next]_vars
             PROVE  IInv'
  OBVIOUS
<1>1. CASE UNCHANGED vars
  <2>1. UNCHANGED <<eventRows, jobRows, request, answers, faults>>
    BY <1>1 DEF vars
  <2>2. TypeOK' /\ KeyInv'
    BY <2>1 DEF IInv, TypeOK, KeyInv
  <2>3. MatchInv' /\ AnswerInv' /\ RowInv'
    BY <2>1 DEF IInv, MatchInv, AnswerInv, RowInv
  <2> QED
    BY <2>2, <2>3 DEF IInv
<1>2. ASSUME NEW p \in Processes, Crash(p)
      PROVE  IInv'
  BY <1>2, CrashStep
<1>3. ASSUME NEW e \in Events, NEW p \in Processes, Unmatched(e, p)
      PROVE  IInv'
  BY <1>3, AnswerStep
<1>4. ASSUME NEW e \in Events, NEW c \in Copies, NEW p \in Processes, Receive(e, c, p)
      PROVE  IInv'
  BY <1>4, RequestStep
<1>5. ASSUME NEW e \in Events, NEW c \in Copies,
             Begin(e, c) \/ Statement(e, c) \/ Fail(e, c)
      PROVE  IInv'
  <2>1. CASE Accepted(e, c)
    BY <2>1, AnswerStep
  <2>2. CASE Commit(e, c)
    <3> DEFINE r == [request[e][c] EXCEPT !.pc = "stored", !.key = FALSE]
    <3>1. request[e][c] \in RequestState
      BY DEF IInv, TypeOK
    <3>2. /\ r \in RequestState /\ ~r.key /\ r.pc = "stored"
          /\ r.matched = request[e][c].matched
      BY <3>1 DEF RequestState, RequestPcs
    <3>3. /\ request[e][c].pc = "commit" /\ Publish(e, c) /\ Set(e, c, r)
          /\ UNCHANGED <<answers, faults>>
      BY <2>2 DEF Commit
    <3> HIDE DEF r
    <3> QED
      BY <3>2, <3>3, PublishStep
  <2>3. CASE CommitInDoubt(e, c)
    <3>1. NoRequest \in RequestState /\ ~NoRequest.key /\ NoRequest.pc = "none"
      BY DEF NoRequest, RequestState, RequestPcs
    <3>2. /\ request[e][c].pc = "in_doubt" /\ Publish(e, c) /\ Set(e, c, NoRequest)
          /\ UNCHANGED <<answers, faults>>
      BY <2>3 DEF CommitInDoubt
    <3> QED
      BY <3>1, <3>2, PublishStep
  <2>4. CASE \/ Begin(e, c) \/ InsertEvent(e, c) \/ InsertConflict(e, c)
             \/ InsertJob(e, c) \/ SendCommit(e, c) \/ RollbackDuplicate(e, c)
             \/ Fail(e, c) \/ Abort(e, c)
    BY <2>4, RequestStep
  <2> QED
    BY <1>5, <2>1, <2>2, <2>3, <2>4 DEF Statement
<1> QED
  BY <1>1, <1>2, <1>3, <1>4, <1>5 DEF Next

\* The inductive invariant holds in every reachable state.
THEOREM Invariance == Spec => []IInv
  BY InitIInv, NextIInv, PTL DEF Spec

\* Every variable keeps its type.
THEOREM TypeCorrect == Spec => []TypeOK
<1>1. IInv => TypeOK
  BY DEF IInv
<1> QED
  BY <1>1, Invariance, PTL

\* enqueue_event stores no svix-id twice, and either nothing or the whole set of
\* jobs one release routes the event to, however many copies of it race, fail,
\* time out or are left in doubt at COMMIT.
THEOREM StoredOnce == Spec => []StoredOnceAndWhole
<1>1. IInv => StoredOnceAndWhole
  BY DEF IInv, RowInv, StoredOnceAndWhole
<1> QED
  BY <1>1, Invariance, PTL

-----------------------------------------------------------------------------
(* Ingest implements EventIntake. *)

\* What is stored for an event with a row, and for one without.
LEMMA StoredFacts ==
  ASSUME IInv, NEW e \in Events
  PROVE  /\ Stored(e) = {} <=> eventRows[e] = 0
         /\ eventRows[e] = 1 => \E p \in Processes : Stored(e) = Match[p][e]
<1>1. CASE eventRows[e] = 0
  BY <1>1 DEF IInv, RowInv, Stored
<1>2. CASE eventRows[e] # 0
  <2>1. PICK p \in Processes :
             /\ Match[p][e] # {}
             /\ \A d \in Destinations : jobRows[e][d] = IF d \in Match[p][e] THEN 1 ELSE 0
    BY <1>2 DEF IInv, RowInv
  <2>2. Match[p][e] \subseteq Destinations
    BY IngestAssumption
  <2>3. Stored(e) = Match[p][e]
    BY <2>1, <2>2 DEF Stored
  <2> QED
    BY <1>2, <2>1, <2>3
<1> QED
  BY <1>1, <1>2

LEMMA InitRefines == Init => Intake!Init
  BY DEF Init, Intake!Init, Stored

\* A step that leaves the rows of delivery_jobs and the answers alone is a stutter.
LEMMA QuietStep ==
  ASSUME UNCHANGED <<jobRows, answers>>
  PROVE  UNCHANGED Intake!vars
  BY DEF Intake!vars, Stored

\* The commit of a new event is a Store.
LEMMA PublishRefines ==
  ASSUME IInv, IInv', NEW e \in Events, NEW c \in Copies,
         request[e][c].pc \in {"commit", "in_doubt"}, Publish(e, c), UNCHANGED answers
  PROVE  Intake!Store(e)
<1>1. eventRows[e] = 0
  BY DEF IInv, KeyInv
<1>2. eventRows'[e] = 1
  BY <1>1 DEF IInv, TypeOK, Publish
<1>3. Stored(e) = {}
  BY <1>1, StoredFacts
<1>4. Stored(e)' # {} /\ \E p \in Processes : Stored(e)' = Match[p][e]
  <2>1. eventRows'[e] = 1 /\ eventRows'[e] # 0
    BY <1>2
  <2>2. /\ (Stored(e) = {} <=> eventRows[e] = 0)'
        /\ (eventRows[e] = 1 => \E p \in Processes : Stored(e) = Match[p][e])'
    BY StoredFacts, PTL
  <2> QED
    BY <2>1, <2>2
<1>5. \A f \in Events \ {e} : Stored(f)' = Stored(f)
  BY DEF Publish, Stored, IInv, TypeOK
<1> QED
  BY <1>3, <1>4, <1>5 DEF Intake!Store

\* Answering 202 is a Tell.
LEMMA AcceptedRefines ==
  ASSUME IInv, NEW e \in Events, NEW c \in Copies, Accepted(e, c)
  PROVE  Intake!Tell(e)
<1>1. eventRows[e] = 1
  BY DEF IInv, AnswerInv, Accepted
<1>2. Stored(e) # {}
  BY <1>1, StoredFacts
<1>3. /\ jobRows' = jobRows
      /\ \A f \in Events : 202 \in answers'[f] <=> f = e \/ 202 \in answers[f]
  BY DEF Accepted, Tell, tables, IInv, TypeOK
<1> QED
  BY <1>2, <1>3 DEF Intake!Tell, Stored

\* Answering 204 tells nobody 202.
LEMMA UnmatchedRefines ==
  ASSUME IInv, NEW e \in Events, NEW p \in Processes, Unmatched(e, p)
  PROVE  UNCHANGED Intake!vars
<1>1. /\ jobRows' = jobRows
      /\ \A f \in Events : 202 \in answers'[f] <=> 202 \in answers[f]
  BY DEF Unmatched, Tell, tables, IInv, TypeOK
<1> QED
  BY <1>1 DEF Intake!vars, Stored

LEMMA NextRefines == IInv /\ IInv' /\ [Next]_vars => [Intake!Next]_(Intake!vars)
<1> SUFFICES ASSUME IInv, IInv', [Next]_vars
             PROVE  [Intake!Next]_(Intake!vars)
  OBVIOUS
<1>1. CASE UNCHANGED vars
  BY <1>1, QuietStep DEF vars
<1>2. ASSUME NEW p \in Processes, Crash(p)
      PROVE  UNCHANGED Intake!vars
  BY <1>2, QuietStep DEF Crash, tables
<1>3. ASSUME NEW e \in Events, NEW p \in Processes, Unmatched(e, p)
      PROVE  UNCHANGED Intake!vars
  BY <1>3, UnmatchedRefines
<1>4. ASSUME NEW e \in Events, NEW c \in Copies, NEW p \in Processes, Receive(e, c, p)
      PROVE  UNCHANGED Intake!vars
  BY <1>4, QuietStep DEF Receive, tables
<1>5. ASSUME NEW e \in Events, NEW c \in Copies,
             Begin(e, c) \/ Statement(e, c) \/ Fail(e, c)
      PROVE  [Intake!Next]_(Intake!vars)
  <2>1. CASE Accepted(e, c)
    BY <2>1, AcceptedRefines DEF Intake!Next
  <2>2. CASE Commit(e, c) \/ CommitInDoubt(e, c)
    <3>1. /\ request[e][c].pc \in {"commit", "in_doubt"}
          /\ Publish(e, c)
          /\ UNCHANGED answers
      BY <2>2 DEF Commit, CommitInDoubt
    <3> QED
      BY <3>1, PublishRefines DEF Intake!Next
  <2>3. CASE \/ Begin(e, c) \/ InsertEvent(e, c) \/ InsertConflict(e, c)
             \/ InsertJob(e, c) \/ SendCommit(e, c) \/ RollbackDuplicate(e, c)
             \/ Fail(e, c) \/ Abort(e, c)
    <3>1. UNCHANGED <<jobRows, answers>>
      BY <2>3 DEF Begin, InsertEvent, InsertConflict, InsertJob, SendCommit,
                  RollbackDuplicate, Fail, Abort, tables
    <3> QED
      BY <3>1, QuietStep
  <2> QED
    BY <1>5, <2>1, <2>2, <2>3 DEF Statement
<1> QED
  BY <1>1, <1>2, <1>3, <1>4, <1>5 DEF Next

\* The handler with its transaction, its races, faults and commits in doubt does
\* what EventIntake promises: 202 is said only about an event whose deliveries are
\* stored, all of them in one step and once.
THEOREM ImplementsIntake == Spec => IntakeSpec
  BY InitRefines, NextRefines, Invariance, PTL DEF Spec, IntakeSpec, Intake!Spec
=============================================================================
