--------------------------- MODULE RetrySchedule ---------------------------
(***************************************************************************)
(* base_retry_delay_secs and retry_delay of src/delivery.rs, in seconds,   *)
(* and the requests of a job whose destination never answers 2xx.          *)
(***************************************************************************)
EXTENDS Integers

CONSTANT MaxFailures    \* bound: no more failures than this

ASSUME ScheduleAssumption == MaxFailures \in Nat

MaxRetryDelay == 60 * 60

\* attempt_after_failure selects the base; the pattern's lower bound is i32::MIN.
BaseRetryDelay(n) ==
  IF n <= 1 THEN 15
  ELSE IF n = 2 THEN 60
  ELSE IF n = 3 THEN 5 * 60
  ELSE IF n = 4 THEN 15 * 60
  ELSE IF n = 5 THEN 30 * 60
  ELSE MaxRetryDelay

\* Mutant of Clamp: the jitter of the last step is not cut off.
ClampBelow(d) == IF d < 1 THEN 1 ELSE d

\* .max(1) and .min(MAX_RETRY_DELAY_SECS)
Clamp(d) == IF d < 1 THEN 1 ELSE IF d > MaxRetryDelay THEN MaxRetryDelay ELSE d

\* What retry_delay may return: a fifth of the base up or down.
RetryDelays(n) ==
  LET window == BaseRetryDelay(n) \div 5
  IN  {Clamp(BaseRetryDelay(n) + (random - window)) : random \in 0 .. 2 * window}

VARIABLES
  failures,       \* how many attempts have failed
  elapsed         \* the time since the first one, requests taking none

scheduleVars == <<failures, elapsed>>

ScheduleInit == failures = 0 /\ elapsed = 0

\* record_failure: the next attempt comes a delay later.
Fail ==
  /\ failures < MaxFailures
  /\ failures' = failures + 1
  /\ \E delay \in RetryDelays(failures + 1) : elapsed' = elapsed + delay

ScheduleSpec == ScheduleInit /\ [][Fail]_scheduleVars

-----------------------------------------------------------------------------

\* The elapsed time is a number of seconds.
ScheduleTypeOK == failures \in Nat /\ elapsed \in Nat

\* A destination that is down sees its sixth request 41 to 61 minutes after the
\* first, and from then on one every 48 to 60 minutes: 76 to 95 requests in the
\* three days of the default window, however the jitter falls.
PaceIsKept ==
  LET n == failures - 5
  IN  n >= 0 => elapsed \in (2460 + 2880 * n) .. (3690 + 3600 * n)
=============================================================================
