---------------------------- MODULE MCParameters ----------------------------
(***************************************************************************)
(* The numbers of the service: configurations around every limit that      *)
(* Config::validate knows, with the code's own margin and maximum, and     *)
(* under the default configuration the retries of one job.                 *)
(***************************************************************************)
EXTENDS ConfigCheck, RetrySchedule, SequencesExt

CONSTANTS app, mail

MCNames == {app, mail}

DefaultConfig ==
  [names |-> <<app>>, workers |-> 2, connections |-> 5, claimLimit |-> 5,
   timeout |-> 20, window |-> 259200, stale |-> 300, drain |-> 30]

\* Numbers around the limits, zero, the ends of the signed and unsigned words, and
\* those whose cast or sum wraps around.
NumericConfigs ==
  [names : {<<app>>}, workers : {0, 1}, connections : {0, 1}, drain : {0, 1},
   claimLimit : {-1, 0, 1, 5, MaxClaimLimit, MaxClaimLimit + 1},
   timeout : {0, 1, 20, MaxSigned - Margin - 1, MaxSigned - Margin,
              MaxSigned - Margin + 1, MaxSigned, MaxSigned + 1, MaxUnsigned},
   window : {0, 1, 259200, MaxSigned, MaxSigned + 1, MaxUnsigned},
   stale : {-(MaxSigned + 1), -1, 0, 1, Margin, Margin + 1, Margin + 2, 24, 25, 26, 300,
            MaxSigned - 1, MaxSigned}]

\* Every list of up to three names, in the default configuration.
NamedConfigs ==
  {[DefaultConfig EXCEPT !.names = names] : names \in BoundedSeq(MCNames, 3)}

MCConfigs == NumericConfigs \cup NamedConfigs

Init == CheckInit /\ ScheduleInit

Next ==
  \/ Validate /\ UNCHANGED scheduleVars
  \/ /\ verdict = "accepted" /\ config = DefaultConfig
     /\ Fail
     /\ UNCHANGED checkVars

Spec == Init /\ [][Next]_<<checkVars, scheduleVars>>
=============================================================================
