---------------------------- MODULE ConfigCheck ----------------------------
(***************************************************************************)
(* Config::validate of src/config.rs: its checks in their order, with the  *)
(* casts and the addition of the 64-bit numbers as the release build       *)
(* performs them, for words of any size; and destination_url, which        *)
(* finds a stored job's destination by its name.  The checks of the two    *)
(* secrets, of the signature tolerance and of warn_after_attempts guard    *)
(* nothing that is modelled and are left out; those of one destination are *)
(* in Routing.                                                             *)
(***************************************************************************)
EXTENDS Integers, Sequences, FiniteSetsExt

CONSTANTS
  MaxSigned,      \* i64::MAX, 2 ^ 63 - 1
  Margin,         \* the seconds added to the timeout, 5 in the code
  MaxClaimLimit,  \* 100 in the code
  Names,          \* the names an operator may give to destinations
  Configs         \* the configurations parsed from the environment

MaxUnsigned == 2 * MaxSigned + 1

\* Config, the fields that are modelled with the types they are parsed into.
ConfigRecord ==
  [names : Seq(Names), workers : 0 .. MaxUnsigned, connections : 0 .. MaxUnsigned,
   claimLimit : -(MaxSigned + 1) .. MaxSigned, timeout : 0 .. MaxUnsigned,
   window : 0 .. MaxUnsigned, stale : -(MaxSigned + 1) .. MaxSigned,
   drain : 0 .. MaxUnsigned]

ASSUME ConfigAssumption ==
  /\ {MaxSigned, Margin, MaxClaimLimit} \subseteq Nat \ {0}
  /\ Margin <= MaxSigned
  /\ Configs \subseteq ConfigRecord

VARIABLES
  config,
  verdict         \* "unchecked", "accepted" or the check that refused

checkVars == <<config, verdict>>

\* What the low bits of n mean as a signed word: `as i64`, and + when it overflows.
Signed(n) == ((n + MaxSigned + 1) % (MaxUnsigned + 1)) - (MaxSigned + 1)

\* Mutant of StaleTooShort: < for <=.
StaleBelow(c) == c.stale < Signed(Signed(c.timeout) + Margin)

\* stale_delivery_lock_secs <= delivery_timeout_secs as i64 + 5
StaleTooShort(c) == c.stale <= Signed(Signed(c.timeout) + Margin)

\* Mutant of NameRepeats: only neighbours are compared.
NeighbourRepeats(names) == \E i \in 2 .. Len(names) : names[i] = names[i - 1]

\* names.insert returns false.
NameRepeats(names) == \E i, k \in DOMAIN names : i < k /\ names[i] = names[k]

\* The checks of validate in their order, each with the condition that refuses.
Checks(c) ==
  << <<"no destinations", c.names = <<>> >>,
     <<"workers", c.workers = 0>>,
     <<"connections", c.connections = 0>>,
     <<"claim limit", c.claimLimit <= 0>>,
     <<"claim limit too high", c.claimLimit > MaxClaimLimit>>,
     <<"timeout", c.timeout = 0>>,
     <<"retry window", c.window = 0>>,
     <<"stale lock", c.stale <= 0>>,
     <<"stale lock below timeout", StaleTooShort(c)>>,
     <<"drain timeout", c.drain = 0>>,
     <<"duplicate name", NameRepeats(c.names)>> >>

CheckInit == config \in Configs /\ verdict = "unchecked"

Validate ==
  /\ verdict = "unchecked"
  /\ LET refusing == {i \in DOMAIN Checks(config) : Checks(config)[i][2]}
     IN  verdict' = IF refusing = {} THEN "accepted" ELSE Checks(config)[Min(refusing)][1]
  /\ UNCHANGED config

CheckSpec == CheckInit /\ [][Validate]_checkVars

\* retry_window() in seconds.
RetryWindowSecs == Signed(config.window)

\* destination_url: the first destination with the name.
Named(name) == Min({i \in DOMAIN config.names : config.names[i] = name})

-----------------------------------------------------------------------------
(* Properties. *)

\* What the code can hold without wrapping.  Outside, validate accepts what its messages
\* exclude, because the timeout and the window are used after `as i64`: a timeout of
\* 2^64 - 1 counts as -1 beside the stale lock, a window of 2^64 - 1 is one of -1 s.
InRange ==
  /\ config.timeout + Margin <= MaxSigned
  /\ config.window <= MaxSigned

\* An accepted configuration gives the delivery queue what its guarantees rest on:
\* a positive window and claim limit, workers and connections, and a lock that
\* outlives the request by more than the margin.
AcceptedConfigFits ==
  verdict = "accepted" /\ InRange =>
    /\ RetryWindowSecs > 0
    /\ config.claimLimit \in 1 .. MaxClaimLimit
    /\ 0 \notin {config.workers, config.connections, config.timeout, config.drain}
    /\ config.stale > config.timeout + Margin

\* A stored job names its destination: the URL it resolves to is that of the very
\* destination that was matched, because no two have the same name.
NameFindsItsDestination ==
  verdict = "accepted" => \A i \in DOMAIN config.names : Named(config.names[i]) = i
=============================================================================
