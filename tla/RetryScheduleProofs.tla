------------------------ MODULE RetryScheduleProofs ------------------------
(***************************************************************************)
(* What the retry schedule guarantees for every number of failures.        *)
(***************************************************************************)
EXTENDS RetrySchedule, TLAPS

\* The least and the greatest delay after failure n, for the jitter of a fifth.
LEMMA DelayRange ==
  ASSUME NEW n \in Int, NEW d \in RetryDelays(n)
  PROVE  /\ d \in Nat
         /\ n <= 1 => d \in 12 .. 18
         /\ n = 2 => d \in 48 .. 72
         /\ n = 3 => d \in 240 .. 360
         /\ n = 4 => d \in 720 .. 1080
         /\ n = 5 => d \in 1440 .. 2160
         /\ n >= 6 => d \in 2880 .. 3600
<1> DEFINE base == BaseRetryDelay(n)
           window == base \div 5
<1>1. PICK random \in 0 .. 2 * window : d = Clamp(base + (random - window))
  BY DEF RetryDelays
<1>2. CASE n <= 1
  <2>1. base = 15 /\ window = 3
    BY <1>2 DEF BaseRetryDelay
  <2> QED BY <1>1, <1>2, <2>1 DEF Clamp, MaxRetryDelay
<1>3. CASE n = 2
  <2>1. base = 60 /\ window = 12
    BY <1>3 DEF BaseRetryDelay
  <2> QED BY <1>1, <1>3, <2>1 DEF Clamp, MaxRetryDelay
<1>4. CASE n = 3
  <2>1. base = 300 /\ window = 60
    BY <1>4 DEF BaseRetryDelay
  <2> QED BY <1>1, <1>4, <2>1 DEF Clamp, MaxRetryDelay
<1>5. CASE n = 4
  <2>1. base = 900 /\ window = 180
    BY <1>5 DEF BaseRetryDelay
  <2> QED BY <1>1, <1>5, <2>1 DEF Clamp, MaxRetryDelay
<1>6. CASE n = 5
  <2>1. base = 1800 /\ window = 360
    BY <1>6 DEF BaseRetryDelay
  <2> QED BY <1>1, <1>6, <2>1 DEF Clamp, MaxRetryDelay
<1>7. CASE n >= 6
  <2>1. base = 3600 /\ window = 720
    BY <1>7 DEF BaseRetryDelay, MaxRetryDelay
  <2> QED BY <1>1, <1>7, <2>1 DEF Clamp, MaxRetryDelay
<1> QED BY <1>2, <1>3, <1>4, <1>5, <1>6, <1>7

\* retry_delay is never shorter than 12 s nor longer than an hour: what
\* DeliveryQueue assumes of Delays, and more (delivery.rs MAX_RETRY_DELAY_SECS).
THEOREM DelaysAreBounded ==
  \A n \in Int : RetryDelays(n) \subseteq 12 .. MaxRetryDelay
BY DelayRange DEF MaxRetryDelay

\* Until it reaches the hour the backoff grows with every failure: no jitter makes
\* a later delay as short as an earlier one (delivery.rs base_retry_delay_secs).
THEOREM BackoffGrows ==
  ASSUME NEW n \in 1 .. 5, NEW d \in RetryDelays(n), NEW e \in RetryDelays(n + 1)
  PROVE  d < e
<1>1. n \in Int /\ n + 1 \in Int
  OBVIOUS
<1>2. /\ d \in Nat
      /\ n <= 1 => d \in 12 .. 18
      /\ n = 2 => d \in 48 .. 72
      /\ n = 3 => d \in 240 .. 360
      /\ n = 4 => d \in 720 .. 1080
      /\ n = 5 => d \in 1440 .. 2160
  BY <1>1, DelayRange
<1>3. /\ e \in Nat
      /\ n + 1 = 2 => e \in 48 .. 72
      /\ n + 1 = 3 => e \in 240 .. 360
      /\ n + 1 = 4 => e \in 720 .. 1080
      /\ n + 1 = 5 => e \in 1440 .. 2160
      /\ n + 1 >= 6 => e \in 2880 .. 3600
  BY <1>1, DelayRange
<1> QED BY <1>2, <1>3

\* PaceIsKept says nothing of the first five failures; its induction needs them.
IInv ==
  /\ ScheduleTypeOK
  /\ failures = 0 => elapsed = 0
  /\ failures = 1 => elapsed \in 12 .. 18
  /\ failures = 2 => elapsed \in 60 .. 90
  /\ failures = 3 => elapsed \in 300 .. 450
  /\ failures = 4 => elapsed \in 1020 .. 1530
  /\ PaceIsKept

LEMMA FailStep == IInv /\ Fail => IInv'
<1> SUFFICES ASSUME IInv, Fail
             PROVE  IInv'
  OBVIOUS
<1>1. PICK delay \in RetryDelays(failures + 1) : elapsed' = elapsed + delay
  BY DEF Fail
<1>2. /\ failures \in Nat /\ elapsed \in Nat
      /\ failures' = failures + 1
  BY DEF IInv, ScheduleTypeOK, Fail
<1>3. failures + 1 \in Int
  BY <1>2
<1>4. /\ delay \in Nat
      /\ failures + 1 <= 1 => delay \in 12 .. 18
      /\ failures + 1 = 2 => delay \in 48 .. 72
      /\ failures + 1 = 3 => delay \in 240 .. 360
      /\ failures + 1 = 4 => delay \in 720 .. 1080
      /\ failures + 1 = 5 => delay \in 1440 .. 2160
      /\ failures + 1 >= 6 => delay \in 2880 .. 3600
  BY <1>3, DelayRange
<1>5. ScheduleTypeOK'
  BY <1>1, <1>2, <1>4 DEF ScheduleTypeOK
<1>6. CASE failures <= 4
  <2>1. /\ failures = 0 => elapsed = 0
        /\ failures = 1 => elapsed \in 12 .. 18
        /\ failures = 2 => elapsed \in 60 .. 90
        /\ failures = 3 => elapsed \in 300 .. 450
        /\ failures = 4 => elapsed \in 1020 .. 1530
    BY DEF IInv
  <2>2. failures' = 1 => elapsed' \in 12 .. 18
    BY <1>1, <1>2, <1>4, <2>1
  <2>3. failures' = 2 => elapsed' \in 60 .. 90
    BY <1>1, <1>2, <1>4, <2>1
  <2>4. failures' = 3 => elapsed' \in 300 .. 450
    BY <1>1, <1>2, <1>4, <2>1
  <2>5. failures' = 4 => elapsed' \in 1020 .. 1530
    BY <1>1, <1>2, <1>4, <2>1
  <2>6. failures' = 5 => elapsed' \in 2460 .. 3690
    BY <1>1, <1>2, <1>4, <2>1
  <2>7. PaceIsKept'
    BY <1>2, <1>6, <2>6 DEF PaceIsKept
  <2> QED BY <1>2, <1>5, <2>2, <2>3, <2>4, <2>5, <2>7 DEF IInv
<1>7. CASE failures >= 5
  <2>1. delay \in 2880 .. 3600
    BY <1>2, <1>4, <1>7
  <2>2. elapsed \in (2460 + 2880 * (failures - 5)) .. (3690 + 3600 * (failures - 5))
    BY <1>2, <1>7 DEF IInv, PaceIsKept
  <2>3. elapsed' \in (2460 + 2880 * (failures' - 5)) .. (3690 + 3600 * (failures' - 5))
    BY <1>1, <1>2, <1>7, <2>1, <2>2
  <2>4. PaceIsKept'
    BY <2>3 DEF PaceIsKept
  <2> QED BY <1>2, <1>5, <1>7, <2>4 DEF IInv
<1> QED BY <1>2, <1>6, <1>7

\* The pace of the requests to a destination that is down, after any number of
\* failures (delivery.rs record_failure with retry_delay).
THEOREM Pace == ScheduleSpec => []PaceIsKept
<1>1. ScheduleInit => IInv
  BY DEF ScheduleInit, IInv, ScheduleTypeOK, PaceIsKept
<1>2. IInv /\ [Fail]_scheduleVars => IInv'
  <2> SUFFICES ASSUME IInv, [Fail]_scheduleVars
               PROVE  IInv'
    OBVIOUS
  <2>1. CASE Fail
    BY <2>1, FailStep
  <2>2. CASE UNCHANGED scheduleVars
    BY <2>2 DEF scheduleVars, IInv, ScheduleTypeOK, PaceIsKept
  <2> QED BY <2>1, <2>2
<1>3. IInv => PaceIsKept
  BY DEF IInv
<1> QED BY <1>1, <1>2, <1>3, PTL DEF ScheduleSpec
=============================================================================
