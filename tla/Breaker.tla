------------------------------ MODULE Breaker ------------------------------
(***************************************************************************)
(* The circuit breaker of src/src/breaker.rs as a value and the two        *)
(* operations its shared slot offers.  Every caller of one run goes        *)
(* through the same slot: Admit before an attempt, Observe after it.       *)
(*                                                                         *)
(* Durations are natural numbers: only their order, doubling and cap       *)
(* matter.  Duration::saturating_mul followed by min(max_cooldown) is the  *)
(* minimum of the exact product and the cap, because max_cooldown is       *)
(* itself a Duration.                                                      *)
(***************************************************************************)
EXTENDS Integers

CONSTANTS Threshold,     \* BreakerPolicy::failure_threshold, a NonZeroU32
          BaseCooldown,  \* BreakerPolicy::cooldown
          MaxCooldown    \* BreakerPolicy::max_cooldown

ASSUME BreakerAssumption ==
    /\ Threshold \in Nat \ {0}
    /\ BaseCooldown \in Nat
    /\ MaxCooldown \in Nat

NoWait == -1             \* the None of Option<Duration>

Capped(d) == IF d < MaxCooldown THEN d ELSE MaxCooldown

\* Closed counts consecutive failures; Open and HalfOpen carry a cooldown.
Closed(n)   == [state |-> "Closed",   failures |-> n, cooldown |-> 0]
Open(c)     == [state |-> "Open",     failures |-> 0, cooldown |-> c]
HalfOpen(c) == [state |-> "HalfOpen", failures |-> 0, cooldown |-> c]

BreakerStates == [state    : {"Closed", "Open", "HalfOpen"},
                  failures : Nat,
                  cooldown : Nat]

NewBreaker == Closed(0)

\* Mutant: the breaker opens one failure late.
FailClosedLate(b) ==
    IF b.failures + 1 > Threshold
    THEN Open(Capped(BaseCooldown))
    ELSE Closed(b.failures + 1)

\* Breaker<Closed>::fail: below the threshold it counts, at it it opens.
FailClosed(b) ==
    IF b.failures + 1 >= Threshold
    THEN Open(Capped(BaseCooldown))
    ELSE Closed(b.failures + 1)

\* Breaker<HalfOpen>::fail: reopen with a doubled, capped cooldown.
FailHalfOpen(b) == Open(Capped(2 * b.cooldown))

\* Shared::admit: the slot after a caller is let in, and what it must wait.
Admit(b)     == IF b.state = "Open" THEN HalfOpen(b.cooldown) ELSE b
AdmitWait(b) == IF b.state = "Open" THEN b.cooldown ELSE NoWait

\* Shared::observe, for a success and for a transient failure.
ObserveSuccess(b) == NewBreaker
ObserveFailure(b) ==
    CASE b.state = "Closed"   -> FailClosed(b)
      [] b.state = "Open"     -> b
      [] b.state = "HalfOpen" -> FailHalfOpen(b)
=============================================================================
