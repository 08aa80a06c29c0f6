------------------------------ MODULE Backoff ------------------------------
(***************************************************************************)
(* The delays between the attempts of one event: RetryPolicy::delay_after  *)
(* and Attempt::next of src/src/lifecycle.rs, at small integer widths.     *)
(* The fields of RetryPolicy are public and unvalidated, so every policy   *)
(* is one a program can hold, the zero multiplier included.                *)
(***************************************************************************)
EXTENDS Integers, FiniteSetsExt

CONSTANTS MaxFactor,    \* u32::MAX
          MaxDuration,  \* Duration::MAX
          Policies      \* RetryPolicy values: base, max, multiplier

VARIABLES policy,   \* of the run
          attempt,  \* the attempt that just failed
          slept     \* the delay before it, -1 for the first

vars == <<policy, attempt, slept>>

Init == policy \in Policies /\ attempt = 1 /\ slept = -1

\* Attempt::next saturates.
NextAttempt(a) == Min({a + 1, MaxFactor})

\* TLC leaves 0^0 undefined; u32::pow gives 1.
Power(m, n) == IF n = 0 THEN 1 ELSE m^n

\* u32::checked_pow and Duration::saturating_mul.
Fits(m, n)         == Power(m, n) <= MaxFactor
SaturatedMul(d, f) == Min({d * f, MaxDuration})

\* Mutant: the power wraps instead of being checked.
DelayAfterWrapped(p, done) ==
    Min({SaturatedMul(p.base, Power(p.multiplier, done - 1) % (MaxFactor + 1)), p.max})

\* RetryPolicy::delay_after.
DelayAfter(p, done) ==
    IF Fits(p.multiplier, done - 1)
    THEN Min({SaturatedMul(p.base, Power(p.multiplier, done - 1)), p.max})
    ELSE p.max

\* conclude's Retrying: the delay of the failed attempt, then the next one.
Retry ==
    /\ slept' = DelayAfter(policy, attempt)
    /\ attempt' = NextAttempt(attempt)
    /\ UNCHANGED policy

Spec == Init /\ [][Retry]_vars

-----------------------------------------------------------------------------
\* delay_after's law, as far as it holds: no wait exceeds max_delay or is
\* shorter than the one before it, where the power leaves u32, where the product
\* leaves Duration, at the cap and with the attempt counter saturated.  With
\* multiplier zero only the first wait, for 0^0 = 1, is longer than zero.
DelayLaw ==
    [][/\ slept' <= policy.max
       /\ IF policy.multiplier = 0 /\ attempt > 1 THEN slept' = 0 ELSE slept' >= slept]_vars
=============================================================================
