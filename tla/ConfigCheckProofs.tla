------------------------- MODULE ConfigCheckProofs -------------------------
(***************************************************************************)
(* What Config::validate guarantees for words of every size, for every     *)
(* margin, and for every configuration an operator may write.              *)
(***************************************************************************)
EXTENDS ConfigCheck, WellFoundedInduction, TLAPS

LEMMA Constants ==
  /\ MaxSigned \in Nat \ {0} /\ Margin \in Nat \ {0} /\ MaxClaimLimit \in Nat \ {0}
  /\ Margin <= MaxSigned
  /\ MaxUnsigned = 2 * MaxSigned + 1
BY ConfigAssumption DEF MaxUnsigned

\* A number that fits a signed word is what it was: neither a cast nor a sum
\* changes it.
LEMMA SignedInRange ==
  ASSUME NEW n \in 0 .. MaxSigned
  PROVE  Signed(n) = n
<1>1. n + MaxSigned + 1 \in 0 .. (MaxUnsigned + 1) - 1 /\ MaxUnsigned + 1 \in Nat \ {0}
  BY Constants
<1>2. (n + MaxSigned + 1) % (MaxUnsigned + 1) = n + MaxSigned + 1
  <2>1. \A a \in Int, b \in Nat \ {0} : a \in 0 .. b - 1 => a % b = a
    OBVIOUS
  <2> QED BY <1>1, <2>1
<1> QED BY <1>2, Constants DEF Signed

-----------------------------------------------------------------------------

\* Of the checks that refuse there is a first one.
LEMMA FirstExists ==
  ASSUME NEW S \in SUBSET Nat, S # {}
  PROVE  Min(S) \in S
<1> DEFINE R == OpToRel(<, Nat)
<1>1. IsWellFoundedOn(R, Nat)
  BY NatLessThanWellFounded
<1>2. \A x, y \in Nat : y < x => <<y, x>> \in R
  BY DEF OpToRel
<1> HIDE DEF R
<1>3. PICK x \in S : \A y \in S : ~ (<<y, x>> \in R)
  BY <1>1, WFMin
<1>4. \A y \in S : ~ (y < x)
  BY <1>2, <1>3
<1>5. \A y \in S : x =< y
  BY <1>4
<1> QED BY <1>5 DEF Min

LEMMA CheckDomain ==
  ASSUME NEW c
  PROVE  DOMAIN Checks(c) = 1 .. 11
BY DEF Checks

\* No check is named like the verdict on a configuration that passes them all.
LEMMA ChecksRefuse ==
  ASSUME NEW c, NEW i \in DOMAIN Checks(c)
  PROVE  Checks(c)[i][1] # "accepted"
<1>1. /\ Checks(c)[1][1] # "accepted" /\ Checks(c)[2][1] # "accepted"
      /\ Checks(c)[3][1] # "accepted" /\ Checks(c)[4][1] # "accepted"
      /\ Checks(c)[5][1] # "accepted" /\ Checks(c)[6][1] # "accepted"
      /\ Checks(c)[7][1] # "accepted" /\ Checks(c)[8][1] # "accepted"
      /\ Checks(c)[9][1] # "accepted" /\ Checks(c)[10][1] # "accepted"
      /\ Checks(c)[11][1] # "accepted"
  BY DEF Checks
<1>2. i \in 1 .. 11
  BY CheckDomain
<1> QED BY <1>1, <1>2

\* What a configuration satisfies when no check refuses it.
Passed(c) ==
  /\ c.workers # 0 /\ c.connections # 0 /\ c.timeout # 0 /\ c.window # 0 /\ c.drain # 0
  /\ c.claimLimit \in 1 .. MaxClaimLimit
  /\ ~ StaleTooShort(c)
  /\ ~ NameRepeats(c.names)

LEMMA PassesAll ==
  ASSUME NEW c \in ConfigRecord, \A i \in DOMAIN Checks(c) : ~ Checks(c)[i][2]
  PROVE  Passed(c)
<1>1. /\ Checks(c)[2][2] <=> c.workers = 0
      /\ Checks(c)[3][2] <=> c.connections = 0
      /\ Checks(c)[4][2] <=> c.claimLimit <= 0
      /\ Checks(c)[5][2] <=> c.claimLimit > MaxClaimLimit
      /\ Checks(c)[6][2] <=> c.timeout = 0
      /\ Checks(c)[7][2] <=> c.window = 0
      /\ Checks(c)[10][2] <=> c.drain = 0
  BY DEF Checks
<1>2. /\ Checks(c)[9][2] <=> StaleTooShort(c)
      /\ Checks(c)[11][2] <=> NameRepeats(c.names)
  BY DEF Checks
<1>3. DOMAIN Checks(c) = 1 .. 11
  BY CheckDomain
<1>4. c.claimLimit \in Int
  BY DEF ConfigRecord
<1> QED BY <1>1, <1>2, <1>3, <1>4, Constants DEF Passed

\* The inductive invariant: only what passes every check is accepted.
Checked ==
  /\ config \in ConfigRecord
  /\ verdict = "accepted" => Passed(config)

\* What Config::validate accepts has passed all its checks, for every configuration
\* (config.rs Config::validate).
THEOREM CheckedHolds == CheckSpec => []Checked
<1>1. CheckInit => Checked
  BY ConfigAssumption DEF CheckInit, Checked
<1>2. Checked /\ [Validate]_checkVars => Checked'
  <2> SUFFICES ASSUME Checked, Validate PROVE Checked'
    BY DEF Checked, checkVars, Passed, StaleTooShort, NameRepeats
  <2> DEFINE refusing == {i \in DOMAIN Checks(config) : Checks(config)[i][2]}
  <2>1. config' = config /\ config \in ConfigRecord
    BY DEF Validate, Checked
  <2>2. CASE refusing = {}
    BY <2>1, <2>2, PassesAll DEF Checked
  <2>3. CASE refusing # {}
    <3>1. refusing \subseteq DOMAIN Checks(config) /\ DOMAIN Checks(config) \subseteq Nat
      BY CheckDomain
    <3>2. Min(refusing) \in DOMAIN Checks(config)
      BY <2>3, <3>1, FirstExists
    <3>3. verdict' = Checks(config)[Min(refusing)][1]
      BY <2>3 DEF Validate
    <3> QED BY <2>1, <3>2, <3>3, ChecksRefuse DEF Checked
  <2> QED BY <2>2, <2>3
<1> QED BY <1>1, <1>2, PTL DEF CheckSpec

-----------------------------------------------------------------------------

\* An accepted configuration gives the delivery queue what its guarantees rest on,
\* as long as timeout and window fit the signed words they are cast to
\* (config.rs Config::validate, retry_window).
THEOREM AcceptedFits == CheckSpec => []AcceptedConfigFits
<1>1. ASSUME Checked PROVE AcceptedConfigFits
  <2> SUFFICES ASSUME verdict = "accepted", InRange
               PROVE  /\ RetryWindowSecs > 0
                      /\ config.claimLimit \in 1 .. MaxClaimLimit
                      /\ 0 \notin {config.workers, config.connections,
                                   config.timeout, config.drain}
                      /\ config.stale > config.timeout + Margin
    BY DEF AcceptedConfigFits
  <2>1. Passed(config)
    BY <1>1 DEF Checked
  <2>2. /\ config.timeout \in Nat /\ config.window \in Nat
        /\ config.stale \in Int
    BY <1>1, Constants DEF Checked, ConfigRecord
  <2>3. RetryWindowSecs > 0
    <3>1. config.window \in 0 .. MaxSigned
      BY <2>2, Constants DEF InRange
    <3>2. RetryWindowSecs = config.window
      BY <3>1, SignedInRange DEF RetryWindowSecs
    <3> QED BY <2>1, <2>2, <3>2 DEF Passed
  <2>4. config.stale > config.timeout + Margin
    <3>1. /\ config.timeout \in 0 .. MaxSigned
          /\ config.timeout + Margin \in 0 .. MaxSigned
      BY <2>2, Constants DEF InRange
    <3>2. Signed(config.timeout) = config.timeout
      BY <3>1, SignedInRange
    <3>3. Signed(config.timeout + Margin) = config.timeout + Margin
      BY <3>1, SignedInRange
    <3>4. ~ (config.stale <= config.timeout + Margin)
      BY <2>1, <3>2, <3>3 DEF Passed, StaleTooShort
    <3> QED BY <2>2, <3>4, Constants
  <2> QED BY <2>1, <2>3, <2>4 DEF Passed
<1> QED BY <1>1, CheckedHolds, PTL

\* A stored job's destination name leads back to the very destination that was
\* matched: the first of that name is the only one (config.rs destination_url and
\* the names set of Config::validate).
THEOREM NameFinds == CheckSpec => []NameFindsItsDestination
<1>1. ASSUME Checked PROVE NameFindsItsDestination
  <2> SUFFICES ASSUME verdict = "accepted", NEW i \in DOMAIN config.names
               PROVE  Named(config.names[i]) = i
    BY DEF NameFindsItsDestination
  <2>1. ~ NameRepeats(config.names) /\ config.names \in Seq(Names)
    BY <1>1 DEF Checked, Passed, ConfigRecord
  <2>2. DOMAIN config.names \subseteq Nat
    BY <2>1
  <2>3. \A k \in DOMAIN config.names : config.names[k] = config.names[i] => k = i
    <3> SUFFICES ASSUME NEW k \in DOMAIN config.names,
                        config.names[k] = config.names[i], k # i
                 PROVE  FALSE
      OBVIOUS
    <3>1. i < k \/ k < i
      BY <2>2
    <3> QED BY <2>1, <3>1 DEF NameRepeats
  <2>4. {k \in DOMAIN config.names : config.names[k] = config.names[i]} = {i}
    BY <2>3
  <2>5. {i} \subseteq Nat /\ {i} # {}
    BY <2>2
  <2>6. Min({i}) \in {i}
    BY <2>5, FirstExists
  <2> QED BY <2>4, <2>6 DEF Named
<1> QED BY <1>1, CheckedHolds, PTL
=============================================================================
