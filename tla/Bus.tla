-------------------------------- MODULE Bus --------------------------------
(***************************************************************************)
(* One run of the bus: Bus::run_fallible in src/src/bus.rs together with   *)
(* judge_resiliently, dispatch and dead_letter, the typed lifecycle of     *)
(* src/src/lifecycle.rs and the shared breaker.                            *)
(*                                                                         *)
(* The run is one task.  `judged` is a Buffered stream: it keeps at most   *)
(* Concurrency judge futures and hands their results out in input order.   *)
(* Its futures make progress only while the main loop awaits               *)
(* judged.next(), and only while the head future is not complete; during   *)
(* a dispatch, an acknowledgement or a ledger write of the main loop they  *)
(* are frozen.  An action is the code between two await points.            *)
(*                                                                         *)
(* Events are their positions 1..NumEvents in the input, subscriptions     *)
(* their positions 1..NumRoutes in registration order.  The judge, the     *)
(* ledger, the sinks and the acknowledgements are traits of the crate:     *)
(* their answers are nondeterministic.  A sleep ends at any time.          *)
(***************************************************************************)
EXTENDS Breaker, Sequences, FiniteSets

CONSTANTS NumEvents,       \* bound: events the input may carry
          Composite,       \* the events made by a combiner (Event::is_composite)
          NumRoutes,       \* subscriptions of the bus
          Reviewed,        \* the routes that have a review sink
          HasDeadLetters,  \* dead_letters is Some(sink)
          Exclusive,       \* BusConfig::policy is Policy::Exclusive
          Concurrency,     \* BusConfig::concurrency, a NonZeroUsize
          UnboundedRetry,  \* RetryPolicy::attempts is Attempts::Unbounded
          MaxAttempts,     \* the bound of Attempts::Bounded, a NonZeroU32
          AttemptLimit     \* u32::MAX, where Attempt::next saturates

Events == 1..NumEvents
Routes == 1..NumRoutes

ASSUME BusAssumption ==
    /\ NumEvents \in Nat
    /\ NumRoutes \in Nat
    /\ Composite \subseteq Events
    /\ Reviewed \subseteq Routes
    /\ HasDeadLetters \in BOOLEAN
    /\ Exclusive \in BOOLEAN
    /\ UnboundedRetry \in BOOLEAN
    /\ Concurrency \in Nat \ {0}
    /\ MaxAttempts \in Nat \ {0}
    /\ AttemptLimit \in Nat \ {0}
    /\ MaxAttempts <= AttemptLimit

VARIABLES pulled,   \* envelopes taken from the input
          ended,    \* the input is exhausted or has failed
          phase,    \* where each event's judge future stands
          attempt,  \* the attempt each event is at
          breaker,  \* the slot every judge future shares
          main,     \* where the main loop stands
          yielded,  \* results taken from `judged`; the last one is at hand
          verdict,  \* the disposition each route gets for the event at hand
          outcome,  \* what each route's sink answered, "pending" before
          audited,  \* Routed rows written for the event at hand
          answer,   \* the dead-letter sink's or the ack's answer
          taken,    \* the events each sink has accepted, in order
          acks,     \* the events whose ack was called, in order
          rows      \* the ledger rows of each event, in order

inputVars  == <<pulled, ended>>
taskVars   == <<phase, attempt, breaker>>
handVars   == <<verdict, outcome, audited, answer>>
worldVars  == <<taken, acks>>
vars       == <<inputVars, taskVars, main, yielded, handVars, worldVars, rows>>

-----------------------------------------------------------------------------
(* The judge phase of an event, named after what its future awaits.        *)

Recording == {"composing", "judging", "answered", "retrying"}
Complete  == {"judged", "failed", "aborted"}
Phases    == {"waiting", "fresh", "cooling", "calling", "backoff"}
                 \cup Recording \cup Complete

Terminal  == {"done", "stopped"}
Mains     == {"pull", "send", "routed", "settle", "failed", "publish",
              "deadLettered", "ack", "acknowledged"} \cup Terminal

Dispositions == {"Deliver", "Review", "Drop"}
Outcomes     == {"Delivered", "Reviewed", "Dropped", "Unreviewed",
                 "Unsubscribed", "SinkFailed", "Unhandled"}

\* A route has a deliver sink and perhaps a review sink; the bus has
\* perhaps one dead-letter sink.
DeadSink == <<"Dead", 0>>
Sinks    == ({"Deliver", "Review"} \X Routes) \cup {DeadSink}

\* decide yields one disposition per route.  Under Policy::Exclusive every
\* route but the winner is dropped.
Verdicts == {v \in [Routes -> Dispositions] :
                Exclusive => \A r, s \in Routes :
                                 v[r] # "Drop" /\ v[s] # "Drop" => r = s}

\* A ledger row: n is the attempt where the phase records one, the route of
\* a Routed row, otherwise 0.
Row(entry, n, result) == [entry |-> entry, n |-> n, result |-> result]
Lifecycle == {"Judging", "Retrying", "Judged", "Failed", "Settled"}
Entries   == Lifecycle \cup {"Composed", "Routed", "DeadLettered", "Acknowledged"}
Rows      == [entry  : Entries,
              n      : Nat,
              result : Outcomes \cup {"Acked", "AckFailed", "none"}]

\* RetryPolicy::attempts.allows_another and Attempt::next.
AllowsAnother(a) == UnboundedRetry \/ a < MaxAttempts
NextAttempt(a)   == IF a < AttemptLimit THEN a + 1 ELSE AttemptLimit

-----------------------------------------------------------------------------
Init ==
    /\ pulled = 0
    /\ ended = FALSE
    /\ phase = [e \in Events |-> "waiting"]
    /\ attempt = [e \in Events |-> 1]
    /\ breaker = NewBreaker
    /\ main = IF NumRoutes = 0 THEN "done" ELSE "pull"
    /\ yielded = 0
    /\ verdict = [r \in Routes |-> "Drop"]
    /\ outcome = [r \in Routes |-> "pending"]
    /\ audited = 0
    /\ answer = "none"
    /\ taken = [s \in Sinks |-> <<>>]
    /\ acks = <<>>
    /\ rows = [e \in Events |-> <<>>]

\* Buffered has futures in flight and its head is complete: the next poll
\* returns it without polling any other future.
HeadReady == yielded < pulled /\ phase[yielded + 1] \in Complete

\* The futures of `judged` may be polled.
Polling == main = "pull" /\ ~HeadReady

Write(e, row) == rows' = [rows EXCEPT ![e] = Append(@, row)]

-----------------------------------------------------------------------------
(* The input side of Buffered.                                             *)

\* Mutant: the input is read ahead during a dispatch, as by a spawned reader.
ReadsAhead == ~ended /\ pulled - yielded < Concurrency

\* Buffered fills its queue before it looks at its head.
CanPull == main = "pull" /\ ~ended /\ pulled - yielded < Concurrency

Pull ==
    /\ CanPull
    /\ pulled < NumEvents
    /\ pulled' = pulled + 1
    /\ phase' = [phase EXCEPT ![pulled + 1] =
                    IF pulled + 1 \in Composite THEN "composing" ELSE "fresh"]
    /\ UNCHANGED <<ended, attempt, breaker, main, yielded, handVars, worldVars, rows>>

EndOfInput ==
    /\ CanPull
    /\ ended' = TRUE
    /\ UNCHANGED <<pulled, taskVars, main, yielded, handVars, worldVars, rows>>

\* run_source passes a source error on as the last item, in input order.
SourceFails ==
    /\ CanPull
    /\ pulled < NumEvents
    /\ pulled' = pulled + 1
    /\ ended' = TRUE
    /\ phase' = [phase EXCEPT ![pulled + 1] = "aborted"]
    /\ UNCHANGED <<attempt, breaker, main, yielded, handVars, worldVars, rows>>

-----------------------------------------------------------------------------
(* judge_resiliently, one future per event.                                *)

\* gate: consult the breaker; an open one makes this caller wait, and every
\* other state lets it go on to record its Judging row.
Gate(e) ==
    /\ breaker' = Admit(breaker)
    /\ phase' = [phase EXCEPT ![e] =
                    IF AdmitWait(breaker) = NoWait THEN "judging" ELSE "cooling"]

Begin(e) ==
    /\ Polling
    /\ phase[e] = "fresh"
    /\ Gate(e)
    /\ UNCHANGED <<inputVars, attempt, main, yielded, handVars, worldVars, rows>>

RecordComposed(e) ==
    /\ Polling
    /\ phase[e] = "composing"
    /\ Write(e, Row("Composed", 0, "none"))
    /\ Gate(e)
    /\ UNCHANGED <<inputVars, attempt, main, yielded, handVars, worldVars>>

\* Mutant: a caller that waited also waits for the probe's result.
WaitsForProbe(e) ==
    /\ Polling
    /\ phase[e] = "cooling"
    /\ breaker.state = "Closed"
    /\ phase' = [phase EXCEPT ![e] = "judging"]
    /\ UNCHANGED <<inputVars, attempt, breaker, main, yielded, handVars, worldVars, rows>>

\* The cooldown has passed.  The breaker is not consulted again.
CooledDown(e) ==
    /\ Polling
    /\ phase[e] = "cooling"
    /\ phase' = [phase EXCEPT ![e] = "judging"]
    /\ UNCHANGED <<inputVars, attempt, breaker, main, yielded, handVars, worldVars, rows>>

\* The Judging row is written and the judge is called.
RecordJudging(e) ==
    /\ Polling
    /\ phase[e] = "judging"
    /\ Write(e, Row("Judging", attempt[e], "none"))
    /\ phase' = [phase EXCEPT ![e] = "calling"]
    /\ UNCHANGED <<inputVars, attempt, breaker, main, yielded, handVars, worldVars>>

\* The judge answers.
Answer(e) ==
    /\ Polling
    /\ phase[e] = "calling"
    /\ breaker' = ObserveSuccess(breaker)
    /\ phase' = [phase EXCEPT ![e] = "answered"]
    /\ UNCHANGED <<inputVars, attempt, main, yielded, handVars, worldVars, rows>>

\* Mutant: the budget is off by one.
TransientFailureOneMore(e) ==
    /\ Polling
    /\ phase[e] = "calling"
    /\ breaker' = ObserveFailure(breaker)
    /\ phase' = [phase EXCEPT ![e] =
                    IF AllowsAnother(attempt[e] - 1) THEN "retrying" ELSE "failed"]
    /\ UNCHANGED <<inputVars, attempt, main, yielded, handVars, worldVars, rows>>

\* The call fails transiently or times out: the breaker hears of it, and
\* conclude retries while the budget lasts.
TransientFailure(e) ==
    /\ Polling
    /\ phase[e] = "calling"
    /\ breaker' = ObserveFailure(breaker)
    /\ phase' = [phase EXCEPT ![e] =
                    IF AllowsAnother(attempt[e]) THEN "retrying" ELSE "failed"]
    /\ UNCHANGED <<inputVars, attempt, main, yielded, handVars, worldVars, rows>>

\* A permanent error ends the event's judge phase; the breaker is not told.
PermanentFailure(e) ==
    /\ Polling
    /\ phase[e] = "calling"
    /\ phase' = [phase EXCEPT ![e] = "failed"]
    /\ UNCHANGED <<inputVars, attempt, breaker, main, yielded, handVars, worldVars, rows>>

RecordJudged(e) ==
    /\ Polling
    /\ phase[e] = "answered"
    /\ Write(e, Row("Judged", attempt[e], "none"))
    /\ phase' = [phase EXCEPT ![e] = "judged"]
    /\ UNCHANGED <<inputVars, attempt, breaker, main, yielded, handVars, worldVars>>

RecordRetrying(e) ==
    /\ Polling
    /\ phase[e] = "retrying"
    /\ Write(e, Row("Retrying", attempt[e], "none"))
    /\ phase' = [phase EXCEPT ![e] = "backoff"]
    /\ UNCHANGED <<inputVars, attempt, breaker, main, yielded, handVars, worldVars>>

\* Mutant: the next attempt keeps the number of the last.
ResumeSameAttempt(e) ==
    /\ Polling
    /\ phase[e] = "backoff"
    /\ Gate(e)
    /\ UNCHANGED <<inputVars, attempt, main, yielded, handVars, worldVars, rows>>

\* The backoff has passed: the next attempt, gated like the first.
Resume(e) ==
    /\ Polling
    /\ phase[e] = "backoff"
    /\ attempt' = [attempt EXCEPT ![e] = NextAttempt(@)]
    /\ Gate(e)
    /\ UNCHANGED <<inputVars, main, yielded, handVars, worldVars, rows>>

\* The ledger refuses a row of the judge phase.  The error travels with the
\* event: the run stops only when its turn comes.
LedgerFailsJudging(e) ==
    /\ Polling
    /\ phase[e] \in Recording
    /\ phase' = [phase EXCEPT ![e] = "aborted"]
    /\ UNCHANGED <<inputVars, attempt, breaker, main, yielded, handVars, worldVars, rows>>

TaskStep(e) ==
    \/ Begin(e) \/ RecordComposed(e) \/ CooledDown(e) \/ RecordJudging(e)
    \/ Answer(e) \/ TransientFailure(e) \/ PermanentFailure(e)
    \/ RecordJudged(e) \/ RecordRetrying(e) \/ Resume(e)
    \/ LedgerFailsJudging(e)

-----------------------------------------------------------------------------
(* The main loop: take the next result in input order, dispatch it, ack it. *)

TakeHead ==
    /\ main = "pull"
    /\ HeadReady
    /\ yielded' = yielded + 1

\* Mutant: a result that carries an error is skipped, not returned.
SkipAborted ==
    /\ TakeHead
    /\ phase[yielded + 1] = "aborted"
    /\ UNCHANGED <<inputVars, taskVars, main, handVars, worldVars, rows>>

\* `next?` returns the source's or the ledger's error and ends the run.
YieldAborted ==
    /\ TakeHead
    /\ phase[yielded + 1] = "aborted"
    /\ main' = "stopped"
    /\ UNCHANGED <<inputVars, taskVars, handVars, worldVars, rows>>

\* The answers fit the plan: every route is offered the event.
YieldRouted ==
    /\ TakeHead
    /\ phase[yielded + 1] = "judged"
    /\ verdict' \in Verdicts
    /\ outcome' = [r \in Routes |-> "pending"]
    /\ audited' = 0
    /\ main' = "send"
    /\ UNCHANGED <<inputVars, taskVars, answer, worldVars, rows>>

\* Judging failed, or the answers do not fit the plan (RoutingError).
YieldFailed ==
    /\ TakeHead
    /\ phase[yielded + 1] \in {"judged", "failed"}
    /\ main' = "failed"
    /\ UNCHANGED <<inputVars, taskVars, handVars, worldVars, rows>>

\* send, one future per route under join_all: the routes finish in any order.
\* A dropped verdict and a review without a reviewer reach no sink.
NeedsNoSink(r) ==
    \/ verdict[r] = "Drop"
    \/ verdict[r] = "Review" /\ r \notin Reviewed

SendNothing(r) ==
    /\ main = "send"
    /\ outcome[r] = "pending"
    /\ NeedsNoSink(r)
    /\ outcome' = [outcome EXCEPT ![r] =
                      IF verdict[r] = "Drop" THEN "Dropped" ELSE "Unreviewed"]
    /\ UNCHANGED <<inputVars, taskVars, main, yielded, verdict, audited, answer,
                   worldVars, rows>>

\* Mutant: the publish is repeated although the sink took the event.
SinkAcceptsAgain(r) ==
    /\ main = "send"
    /\ outcome[r] = "pending"
    /\ ~NeedsNoSink(r)
    /\ Len(taken[<<verdict[r], r>>]) < NumEvents + 1
    /\ taken' = [taken EXCEPT ![<<verdict[r], r>>] = Append(@, yielded)]
    /\ UNCHANGED <<inputVars, taskVars, main, yielded, handVars, acks, rows>>

SinkAccepts(r) ==
    /\ main = "send"
    /\ outcome[r] = "pending"
    /\ ~NeedsNoSink(r)
    /\ outcome' = [outcome EXCEPT ![r] =
                      IF verdict[r] = "Deliver" THEN "Delivered" ELSE "Reviewed"]
    /\ taken' = [taken EXCEPT ![<<verdict[r], r>>] = Append(@, yielded)]
    /\ UNCHANGED <<inputVars, taskVars, main, yielded, verdict, audited, answer,
                   acks, rows>>

SinkRefuses(r) ==
    /\ main = "send"
    /\ outcome[r] = "pending"
    /\ ~NeedsNoSink(r)
    /\ \E refusal \in {"Unsubscribed", "SinkFailed"} :
          outcome' = [outcome EXCEPT ![r] = refusal]
    /\ UNCHANGED <<inputVars, taskVars, main, yielded, verdict, audited, answer,
                   worldVars, rows>>

\* Mutant: the first route to finish ends the wait.
JoinedFirst ==
    /\ main = "send"
    /\ \E r \in Routes : outcome[r] # "pending"
    /\ main' = "routed"
    /\ UNCHANGED <<inputVars, taskVars, yielded, handVars, worldVars, rows>>

\* join_all is ready once every route has an outcome.
Joined ==
    /\ main = "send"
    /\ \A r \in Routes : outcome[r] # "pending"
    /\ main' = "routed"
    /\ UNCHANGED <<inputVars, taskVars, yielded, handVars, worldVars, rows>>

\* Mutant: only the first route gets its row.
RecordFirstRouted ==
    /\ main = "routed"
    /\ Write(yielded, Row("Routed", 1, outcome[1]))
    /\ audited' = 1
    /\ main' = "settle"
    /\ UNCHANGED <<inputVars, taskVars, yielded, verdict, outcome, answer, worldVars>>

\* The Routed rows, in route order.
RecordRouted ==
    /\ main = "routed"
    /\ Write(yielded, Row("Routed", audited + 1, outcome[audited + 1]))
    /\ audited' = audited + 1
    /\ main' = IF audited + 1 = NumRoutes THEN "settle" ELSE "routed"
    /\ UNCHANGED <<inputVars, taskVars, yielded, verdict, outcome, answer, worldVars>>

RecordSettled ==
    /\ main = "settle"
    /\ Write(yielded, Row("Settled", 0, "none"))
    /\ main' = "ack"
    /\ UNCHANGED <<inputVars, taskVars, yielded, handVars, worldVars>>

\* Mutant: a failed event is acknowledged without its DeadLettered row.
RecordFailedOnly ==
    /\ main = "failed"
    /\ Write(yielded, Row("Failed", attempt[yielded], "none"))
    /\ main' = "ack"
    /\ UNCHANGED <<inputVars, taskVars, yielded, handVars, worldVars>>

\* dead_letter: the Failed row, the sink if there is one, the DeadLettered row.
RecordFailed ==
    /\ main = "failed"
    /\ Write(yielded, Row("Failed", attempt[yielded], "none"))
    /\ main' = IF HasDeadLetters THEN "publish" ELSE "deadLettered"
    /\ answer' = "Unhandled"
    /\ UNCHANGED <<inputVars, taskVars, yielded, verdict, outcome, audited, worldVars>>

DeadSinkAccepts ==
    /\ main = "publish"
    /\ taken' = [taken EXCEPT ![DeadSink] = Append(@, yielded)]
    /\ answer' = "Delivered"
    /\ main' = "deadLettered"
    /\ UNCHANGED <<inputVars, taskVars, yielded, verdict, outcome, audited, acks, rows>>

DeadSinkRefuses ==
    /\ main = "publish"
    /\ answer' \in {"Unsubscribed", "SinkFailed"}
    /\ main' = "deadLettered"
    /\ UNCHANGED <<inputVars, taskVars, yielded, verdict, outcome, audited, worldVars, rows>>

RecordDeadLettered ==
    /\ main = "deadLettered"
    /\ Write(yielded, Row("DeadLettered", 0, answer))
    /\ main' = "ack"
    /\ UNCHANGED <<inputVars, taskVars, yielded, handVars, worldVars>>

\* ack.ack().await: called before its row is written, its error only recorded.
CallAck ==
    /\ main = "ack"
    /\ acks' = Append(acks, yielded)
    /\ answer' \in {"Acked", "AckFailed"}
    /\ main' = "acknowledged"
    /\ UNCHANGED <<inputVars, taskVars, yielded, verdict, outcome, audited, taken, rows>>

RecordAcknowledged ==
    /\ main = "acknowledged"
    /\ Write(yielded, Row("Acknowledged", 0, answer))
    /\ main' = "pull"
    /\ UNCHANGED <<inputVars, taskVars, yielded, handVars, worldVars>>

\* Mutant: the ledger's error is dropped and the loop goes on.
LedgerErrorIgnored ==
    /\ main \in {"routed", "settle", "failed", "deadLettered", "acknowledged"}
    /\ main' = "pull"
    /\ UNCHANGED <<inputVars, taskVars, yielded, handVars, worldVars, rows>>

\* The ledger refuses a row of the main loop: the run returns the error.
LedgerFailsDispatching ==
    /\ main \in {"routed", "settle", "failed", "deadLettered", "acknowledged"}
    /\ main' = "stopped"
    /\ UNCHANGED <<inputVars, taskVars, yielded, handVars, worldVars, rows>>

\* Mutant: the end of the input ends the run, events still in flight.
FinishEarly ==
    /\ main = "pull"
    /\ ended
    /\ main' = "done"
    /\ UNCHANGED <<inputVars, taskVars, yielded, handVars, worldVars, rows>>

\* The stream is exhausted: run_fallible returns Ok.
Finish ==
    /\ main = "pull"
    /\ ended
    /\ yielded = pulled
    /\ main' = "done"
    /\ UNCHANGED <<inputVars, taskVars, yielded, handVars, worldVars, rows>>

Send(r) == SendNothing(r) \/ SinkAccepts(r) \/ SinkRefuses(r)

MainStep ==
    \/ YieldAborted \/ YieldRouted \/ YieldFailed
    \/ Joined \/ RecordRouted \/ RecordSettled
    \/ RecordFailed \/ DeadSinkAccepts \/ DeadSinkRefuses \/ RecordDeadLettered
    \/ CallAck \/ RecordAcknowledged \/ LedgerFailsDispatching \/ Finish

\* The run has returned; the bus is consumed.
Returned == main \in Terminal /\ UNCHANGED vars

Next ==
    \/ Pull \/ EndOfInput \/ SourceFails
    \/ \E e \in Events : TaskStep(e)
    \/ \E r \in Routes : Send(r)
    \/ MainStep
    \/ Returned

Spec == Init /\ [][Next]_vars

(***************************************************************************)
(* Fairness.  The input may stay silent for ever, so Pull has none.  A     *)
(* judge call ends because with_timeout bounds it, a sleep because the     *)
(* Sleeper ends it; that the ledger, the sinks and the ack answer is an    *)
(* assumption on the implementations behind those traits.                  *)
(***************************************************************************)
Fairness ==
    /\ \A e \in Events : WF_vars(TaskStep(e))
    /\ \A r \in Routes : WF_vars(Send(r))
    /\ WF_vars(MainStep)

FairSpec == Spec /\ Fairness
=============================================================================
