---------------------------- MODULE AtomicTable ----------------------------
(***************************************************************************)
(* The delivery tables as the other modules use them: every statement of   *)
(* src/db.rs on them is one step.  Time is left out: a claim may find any  *)
(* pending row due or stale.                                               *)
(***************************************************************************)
EXTENDS JobTable

Init ==
  /\ now = 0
  /\ attempts = {}
  /\ \E url \in Urls :
       job = [j \in Jobs |-> [AbsentJob EXCEPT !.status = "queued", !.url = url]]

Claim(w) ==
  \E picked \in SUBSET {j \in Jobs : job[j].status \in Pending} :
    /\ Cardinality(picked) <= ClaimLimit
    /\ LockRows(picked, w)

Record(w, j) ==
  \E n \in 1 .. job[j].attemptCount + 1 :
    \/ RecordSuccess(w, j, n)
    \/ RecordRetry(w, j, n, 0)
    \/ RecordFinalFailure(w, j, n, "failure")

Next ==
  /\ UNCHANGED now
  /\ \E w \in Workers :
       \/ Claim(w)
       \/ \E j \in Jobs, url \in Urls : SetDestinationUrl(w, j, url)
       \/ \E j \in Jobs : Record(w, j)

Spec == Init /\ [][Next]_<<now, tableVars>>
=============================================================================
