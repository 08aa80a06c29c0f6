--------------------------- MODULE BusProperties ---------------------------
(***************************************************************************)
(* What one run of the bus promises: the type invariant, the safety        *)
(* invariants and the liveness property of Bus.                            *)
(***************************************************************************)
EXTENDS Bus

TypeOK ==
    /\ pulled \in 0..NumEvents
    /\ ended \in BOOLEAN
    /\ phase \in [Events -> Phases]
    /\ attempt \in [Events -> Nat \ {0}]
    /\ breaker \in BreakerStates
    /\ main \in Mains
    /\ yielded \in 0..NumEvents
    /\ verdict \in [Routes -> Dispositions]
    /\ outcome \in [Routes -> Outcomes \cup {"pending"}]
    /\ audited \in 0..NumRoutes
    /\ answer \in Outcomes \cup {"none", "Acked", "AckFailed"}
    /\ taken \in [Sinks -> Seq(Events)]
    /\ acks \in Seq(Events)
    /\ rows \in [Events -> Seq(Rows)]

-----------------------------------------------------------------------------
(* Vocabulary.                                                             *)

In(x, seq)       == \E i \in DOMAIN seq : seq[i] = x
Acked(e)         == In(e, acks)
HasRow(e, entry) == \E i \in DOMAIN rows[e] : rows[e][i].entry = entry
FinalRow(e)      == HasRow(e, "Settled") \/ HasRow(e, "DeadLettered")

\* The event has been offered to a sink or has a row of its dispatch.
Dispatched(e) ==
    \/ HasRow(e, "Routed") \/ HasRow(e, "Settled")
    \/ HasRow(e, "Failed") \/ HasRow(e, "DeadLettered")
    \/ \E s \in Sinks : In(e, taken[s])

\* The event the main loop holds, if it holds one.
AtHand(e) == e = yielded /\ main \notin {"pull", "done"}

\* The row that says that a sink accepted an event.
AcceptedRow(s) ==
    CASE s[1] = "Deliver" -> Row("Routed", s[2], "Delivered")
      [] s[1] = "Review"  -> Row("Routed", s[2], "Reviewed")
      [] s[1] = "Dead"    -> Row("DeadLettered", 0, "Delivered")

RowOf(s, e) == In(AcceptedRow(s), rows[e])

-----------------------------------------------------------------------------
(* Safety.                                                                 *)

\* An event's ack is called only after its final ledger row (Settled or
\* DeadLettered) is written: "acknowledging each after its final ledger row"
\* (run_acked, bus.rs; Ack and Source, source.rs).
AckAfterFinalRow == \A e \in Events : Acked(e) => FinalRow(e)

\* Acks are called in input order, each event's once, and none is skipped,
\* whatever the order in which the concurrent judge calls complete.
AcksInInputOrder == \A i \in DOMAIN acks : acks[i] = i

\* No event is offered to a sink, settled or dead-lettered before every
\* earlier event is acknowledged: the concurrency of the judge phase never
\* shows in the effects of the run.
HeadOfLine ==
    \A e \in Events : Dispatched(e) => \A f \in 1..(e - 1) : Acked(f)

\* A sink accepted an event exactly when the ledger says so; only the event
\* at hand may be ahead of its row (dispatch sends before it records).
AuditTrail ==
    \A s \in Sinks, e \in Events :
        /\ RowOf(s, e) => In(e, taken[s])
        /\ In(e, taken[s]) => RowOf(s, e) \/ AtHand(e)

\* The ledger says Acknowledged exactly of the events whose ack was called;
\* only the event at hand may be ahead of its row.
AckTrail ==
    \A e \in Events :
        /\ HasRow(e, "Acknowledged") => Acked(e)
        /\ Acked(e) => HasRow(e, "Acknowledged") \/ AtHand(e)

\* At most Concurrency events are pulled and not yet acknowledged, the one
\* being dispatched included: Buffered is not polled during a dispatch.
UnackedBound == pulled - Len(acks) <= Concurrency

\* A run that returns Ok has handled everything its input yielded.
OkMeansHandled ==
    main = "done" /\ NumRoutes > 0 =>
        \A e \in 1..pulled : FinalRow(e) /\ HasRow(e, "Acknowledged")

\* The rows a row of event e may follow in the lifecycle of lifecycle.rs.
Follows(p, q) ==
    CASE q.entry = "Judging" ->
           \/ q.n = 1 /\ p.entry = "Composed"
           \/ p.entry = "Retrying" /\ q.n = NextAttempt(p.n)
      [] q.entry \in {"Judged", "Retrying"} -> p.entry = "Judging" /\ q.n = p.n
      [] q.entry = "Failed"  -> p.entry \in {"Judging", "Judged"} /\ q.n = p.n
      [] q.entry = "Routed"  -> \/ p.entry = "Judged" /\ q.n = 1
                                \/ p.entry = "Routed" /\ q.n = p.n + 1
      [] q.entry = "Settled" -> p.entry = "Routed" /\ p.n = NumRoutes
      [] q.entry = "DeadLettered" -> p.entry = "Failed"
      [] q.entry = "Acknowledged" -> p.entry \in {"Settled", "DeadLettered"}
      [] OTHER -> FALSE

\* The ledger rows of an event are a run of the lifecycle machine: no row is
\* missing, repeated or out of order, one Routed row per route in route
\* order, and a composite starts with its Composed row.
LifecycleWord ==
    \A e \in Events :
        /\ rows[e] # <<>> =>
              rows[e][1] = IF e \in Composite THEN Row("Composed", 0, "none")
                                              ELSE Row("Judging", 1, "none")
        /\ \A i \in 2..Len(rows[e]) : Follows(rows[e][i - 1], rows[e][i])

\* Breaker: a closed breaker is below its threshold; an open or half-open
\* one has a cooldown between the first one and the cap.
BreakerInvariant ==
    /\ breaker.state = "Closed" => breaker.failures < Threshold
    /\ breaker.state # "Closed" => /\ breaker.cooldown <= MaxCooldown
                                   /\ breaker.cooldown >= Capped(BaseCooldown)

-----------------------------------------------------------------------------
(* Refinement.                                                             *)

\* One run is, to its source and its sinks, a sequential consumer with
\* at-least-once delivery: the concurrent judge phase, the retries and the
\* breaker are stutters of BusContract.
Contract == INSTANCE BusContract
              WITH acked <- Len(acks),
                   final <- Len(acks) + (IF main = "ack" THEN 1 ELSE 0),
                   over  <- main \in Terminal

ImplementsContract == Contract!Spec

\* Where the Tracked value of an event is: in its judge future, in the main
\* loop, or consumed by the end of dispatch, of which the rows remain.
Handled(e) == e < yielded \/ (e = yielded /\ main \in {"pull", "ack", "acknowledged", "done"})
JudgeStage(p) ==
    CASE p \in {"waiting", "composing", "fresh"} -> "none"
      [] p \in {"cooling", "judging", "calling"} -> "Judging"
      [] p \in {"retrying", "backoff"}           -> "Retrying"
      [] p \in {"answered", "judged"}            -> "Judged"
      [] p = "failed"                            -> "Failed"
      [] OTHER                                   -> "Gone"
LoopStage(m) ==
    CASE m \in {"send", "routed"}                    -> "Routed"
      [] m = "settle"                                -> "Settled"
      [] m \in {"failed", "publish", "deadLettered"} -> "Failed"
      [] OTHER                                       -> "Gone"
Stage(e) ==
    IF e > yielded THEN JudgeStage(phase[e])
    ELSE IF ~Handled(e) THEN LoopStage(main)
    ELSE IF HasRow(e, "Settled") THEN "Settled"
    ELSE IF HasRow(e, "Failed") THEN "Failed" ELSE "Gone"

\* The bus supplies only the effects between the transitions: it walks every
\* event through the machine of lifecycle.rs, records each phase once before
\* it leaves it, and retries only within the policy's budget, however the
\* judge futures and the main loop interleave (judge_resiliently, dispatch).
Machine(e) == INSTANCE Lifecycle
                WITH stage   <- Stage(e),
                     attempt <- attempt[e],
                     log     <- rows[e]

\* Written out, it is \A e \in Events : Machine(e)!Spec in a form TLC accepts.
ImplementsLifecycle ==
    /\ \A e \in Events : Machine(e)!Init
    /\ [][\A e \in Events : [Machine(e)!Next]_(Machine(e)!vars)]_vars

-----------------------------------------------------------------------------
(* What the repository says and the code does not do.                      *)

\* ledger.rs:105: "The bus stops when a record cannot be written: an unaudited
\* delivery is treated as worse than no delivery."  Read as: when the run has
\* stopped, every event a sink accepted has its row.
NoUnauditedDelivery ==
    main = "stopped" =>
        \A s \in Sinks, e \in Events : In(e, taken[s]) => RowOf(s, e)

\* README.md, section on the breaker: once it opens, every later event waits
\* out the cooldown before its first attempt.
LaterEventsWaitOutCooldown ==
    [][\A e \in Events :
          (/\ phase[e] \in {"fresh", "composing"}
           /\ \E p \in Events : phase[p] = "cooling"
           /\ breaker.state # "Closed")
          => phase'[e] # "judging"]_vars

-----------------------------------------------------------------------------
(* Liveness, under FairSpec and a bounded attempt budget.                  *)

\* Every event the bus pulls is acknowledged, unless the run ends first: no
\* order of completions, breaker openings or retries wedges the pipeline.
PulledIsHandled ==
    \A e \in Events : (e <= pulled) ~> (Acked(e) \/ main \in Terminal)
=============================================================================
