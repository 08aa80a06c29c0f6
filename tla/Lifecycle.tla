----------------------------- MODULE Lifecycle -----------------------------
(***************************************************************************)
(* What happens to one event: the typed machine of src/src/lifecycle.rs.   *)
(* A Tracked value is in one phase and is consumed by the method that      *)
(* leaves it; its phase may be recorded in between.  A run that fails      *)
(* drops the value wherever it is.                                         *)
(***************************************************************************)
EXTENDS Integers, Sequences

CONSTANTS UnboundedRetry,  \* RetryPolicy::attempts is Attempts::Unbounded
          MaxAttempts,     \* the bound of Attempts::Bounded
          AttemptLimit     \* u32::MAX, where Attempt::next saturates

VARIABLES stage,    \* the phase of the Tracked value, "none" before begin
          attempt,  \* the attempt every phase but Settled carries
          log       \* the ledger rows of the event

vars == <<stage, attempt, log>>

\* The phases that implement Recorded.  Routed does not: its rows are the
\* bus's, one per subscription.
Recorded == {"Judging", "Retrying", "Judged", "Failed", "Settled"}
Gone     == "Gone"   \* the value was dropped

\* What judge returned: answers, or an error that is_transient or is not.
Results == {"answers", "transient", "permanent"}

First == 1
AfterAttempt(a) == IF a < AttemptLimit THEN a + 1 ELSE AttemptLimit
Allows(a)       == UnboundedRetry \/ a < MaxAttempts

Init == stage = "none" /\ attempt = First /\ log = <<>>

\* The data view of a phase: Settled records no attempt.
Record(s, n) == [entry  |-> s,
                 n      |-> IF s = "Settled" THEN 0 ELSE n,
                 result |-> "none"]

\* The phase is the last one record() has written down.
IsRecorded ==
    \E i \in DOMAIN log :
        /\ log[i] = Record(stage, attempt)
        /\ \A j \in (i + 1)..Len(log) : log[j].entry \notin Recorded

\* A row of the bus's own: that an event is composed, what became of a route,
\* a dead letter or an acknowledgement.  It is no phase.
Annotated ==
    /\ Len(log') = Len(log) + 1
    /\ log' = Append(log, log'[Len(log')])
    /\ log'[Len(log')].entry \notin Recorded

Into(next) == stage' = next /\ UNCHANGED log

\* The bus makes the step together with a row of its own.
IntoBeside(next) == stage' = next /\ (Annotated \/ UNCHANGED log)

WriteDown ==
    /\ stage \in Recorded
    /\ ~IsRecorded
    /\ log' = Append(log, Record(stage, attempt))
    /\ UNCHANGED <<stage, attempt>>

Begin == stage = "none" /\ IntoBeside("Judging") /\ UNCHANGED attempt

\* conclude: a transient error is retried while the policy allows another
\* attempt; every other error, and the last transient one, is final.
Conclude(result) ==
    /\ stage = "Judging" /\ IsRecorded
    /\ Into(CASE result = "answers" -> "Judged"
              [] result = "transient" /\ Allows(attempt) -> "Retrying"
              [] OTHER -> "Failed")
    /\ UNCHANGED attempt

Resume ==
    /\ stage = "Retrying" /\ IsRecorded
    /\ attempt' = AfterAttempt(attempt)
    /\ Into("Judging")

\* decide: verdicts, or a RoutingError.
Decide ==
    /\ stage = "Judged" /\ IsRecorded
    /\ Into("Routed") \/ Into("Failed")
    /\ UNCHANGED attempt

Settle == stage = "Routed" /\ IntoBeside("Settled") /\ UNCHANGED attempt

\* The phase stays as it is while the bus writes a row of its own.
Annotate == Annotated /\ UNCHANGED <<stage, attempt>>

Drop == stage # Gone /\ Into(Gone) /\ UNCHANGED attempt

Next == \/ WriteDown \/ Begin \/ (\E result \in Results : Conclude(result))
        \/ Resume \/ Decide \/ Settle \/ Annotate \/ Drop

Spec == Init /\ [][Next]_vars
=============================================================================
