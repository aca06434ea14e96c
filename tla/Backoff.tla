------------------------------ MODULE Backoff ------------------------------
(***************************************************************************)
(* The failures of one task and the delays before its retries:             *)
(* BackoffPolicy.delay_for_attempt, and the budget of can_retry.           *)
(*                                                                         *)
(* A multiplier is a fraction <<n, d>> that a double represents exactly,   *)
(* as it does the small powers taken here.  The power and its product with *)
(* the base are taken before the cap; beyond FloatMax (the largest double, *)
(* scaled down) the power raises OverflowError, or the product is infinite *)
(* and int() raises it.  So does datetime.now() plus the delay, under both *)
(* strategies, when it is past year 9999: nothing bounds the base and the  *)
(* cap from above.  The exception leaves handle_execution_failure, and the *)
(* attempt is rolled back with it.                                         *)
(*                                                                         *)
(* Every retry is taken to be delivered, at its time or later; whether it  *)
(* is, is AtlasQueue's.                                                    *)
(***************************************************************************)
EXTENDS Integers

CONSTANTS
  Bases, Caps,    \* base_delay_seconds, max_delay_seconds
  Multipliers,    \* pairs <<n, d>> for n/d
  MaxRetries,     \* bound on max_retries
  FloatMax,
  Horizon         \* seconds from the submission to the end of year 9999, scaled down

ASSUME MultipliersAssumption ==
  \A m \in Multipliers : m[1] \in Nat /\ m[2] \in Nat \ {0} /\ m[1] >= m[2]
ASSUME DelaysAssumption == Bases \subseteq Nat /\ Caps \subseteq Nat \ {0}
ASSUME LimitsAssumption == MaxRetries \in Nat /\ FloatMax \in Nat /\ Horizon \in Nat

\* What BackoffPolicyDTO admits.
BackoffPolicy == [strategy : {"fixed", "exponential"}, base : Bases, max : Caps,
                  multiplier : Multipliers]

VARIABLES
  policy, maxRetries,  \* of the task
  attempts,            \* its failures so far
  delay,               \* before the retry it waits for; -1: none yet
  calendar,            \* seconds from its last failure to the end of year 9999
  outcome              \* "retrying", "dead_letter", or "raised"

vars == <<policy, maxRetries, attempts, delay, calendar, outcome>>

Init ==
  /\ policy \in BackoffPolicy
  /\ maxRetries \in 0..MaxRetries
  /\ attempts = 0
  /\ delay = -1
  /\ calendar = Horizon
  /\ outcome = "retrying"

Power(b, n) == LET pow[k \in Nat] == IF k = 0 THEN 1 ELSE b * pow[k - 1] IN pow[n]

Capped(d) == IF d <= policy.max THEN d ELSE policy.max

\* Mutant: the attempt is not reduced by one.
ExponentOfAttempt(attempt) == attempt

\* attempt - 1, and 0 for an attempt that has not been counted
Exponent(attempt) == IF attempt > 0 THEN attempt - 1 ELSE 0

\* base * multiplier ** e over FloatMax
Overflows(e) ==
  LET largest == FloatMax * Power(policy.multiplier[2], e)
      power == Power(policy.multiplier[1], e)
  IN policy.strategy = "exponential" /\ (power > largest \/ policy.base * power > largest)

\* int(base * multiplier ** e)
Grown(e) ==
  (policy.base * Power(policy.multiplier[1], e)) \div Power(policy.multiplier[2], e)

\* Mutant: the first retry is delayed by the multiplier already.
DelayEarly(attempt) ==
  IF policy.strategy = "exponential" THEN Capped(Grown(attempt)) ELSE policy.base

\* delay_for_attempt; the fixed strategy knows no cap.
DelayForAttempt(attempt) ==
  IF policy.strategy = "exponential" THEN Capped(Grown(Exponent(attempt))) ELSE policy.base

Fail == outcome = "retrying" /\ UNCHANGED <<policy, maxRetries>>

\* A retry that was delayed begins, and fails, no earlier than after its delay.
TimePasses == calendar' \in 0 .. calendar - (IF delay = -1 THEN 0 ELSE delay)

\* Of the failure that is being handled: its delay, or the time of the retry,
\* is out of range.
RetryRaises ==
  Overflows(Exponent(attempts + 1)) \/ DelayForAttempt(attempts + 1) > calendar'

\* The failure of an attempt that was the last.
FailFinally ==
  /\ Fail
  /\ attempts + 1 >= maxRetries
  /\ attempts' = attempts + 1
  /\ outcome' = "dead_letter"
  /\ UNCHANGED <<delay, calendar>>

\* One with budget left.
FailAndRetry ==
  /\ Fail
  /\ attempts + 1 < maxRetries
  /\ TimePasses
  /\ ~RetryRaises
  /\ attempts' = attempts + 1
  /\ delay' = DelayForAttempt(attempts + 1)
  /\ UNCHANGED outcome

FailAndRaise ==
  /\ Fail
  /\ attempts + 1 < maxRetries
  /\ TimePasses
  /\ RetryRaises
  /\ outcome' = "raised"
  /\ UNCHANGED <<attempts, delay>>

Next == FailFinally \/ FailAndRetry \/ FailAndRaise

Spec == Init /\ [][Next]_vars
-----------------------------------------------------------------------------
Times(d) == (d * policy.multiplier[1]) \div policy.multiplier[2]

(***************************************************************************)
(* The delay against its definition without powers and truncation: under   *)
(* the exponential strategy the first is the base, and each further one is *)
(* within a second of the multiple of the one before it, up to the cap.    *)
(***************************************************************************)
DelaysFollowThePolicy ==
  [][FailAndRetry /\ policy.strategy = "exponential" =>
       IF delay = -1
         THEN delay' = Capped(policy.base)
         ELSE delay' \in Capped(Times(delay))..Capped(Times(delay + 1))]_vars

\* The last retry of the budget, if it were to be scheduled now.
LastRetryRaises ==
  Overflows(maxRetries - 2) \/ DelayForAttempt(maxRetries - 1) > calendar

(***************************************************************************)
(* Raising can be told from the last retry alone, although time passes and *)
(* the cap keeps delays from growing with what overflows: a task raises    *)
(* only when its last retry would raise at that moment, and one that comes *)
(* to the dead letters had a last retry that did not.                      *)
(***************************************************************************)
OverflowIsForeseeable ==
  /\ outcome = "raised" => LastRetryRaises
  /\ outcome = "dead_letter" /\ maxRetries >= 2 => ~LastRetryRaises
-----------------------------------------------------------------------------
(* The inductive invariant behind both: a task that retries has waited for *)
(* the delay of its last failure, which was not its last and raised        *)
(* nothing.                                                                *)
BackoffInv ==
  /\ policy \in BackoffPolicy
  /\ maxRetries \in 0..MaxRetries
  /\ attempts \in Nat
  /\ calendar \in Nat
  /\ outcome \in {"retrying", "dead_letter", "raised"}
  /\ outcome = "retrying" /\ attempts = 0 => delay = -1
  /\ outcome = "retrying" /\ attempts > 0 =>
       /\ attempts < maxRetries
       /\ ~Overflows(attempts - 1)
       /\ delay = DelayForAttempt(attempts)
       /\ delay <= calendar
  /\ OverflowIsForeseeable
=============================================================================
