# A TLA+ model of jevbus

jevbus is a streaming event bus in Rust. A *bus* pulls events from a source,
asks a judge (a model behind a trait) one question per subscription, and offers
each event to the sinks of the subscriptions the answers engage. Every step is
written to a ledger; an event is acknowledged to its source after its last row.
This directory holds TLA+ models of the code under `src/src/`, the TLC
configurations that check them, and TLAPS proofs.

`src/README.md` and `src/src/x.rs` below are paths of the repository snapshot.

## 1. The system

| Component | Code | State it keeps | Operations |
|---|---|---|---|
| Bus run | `bus.rs` `run_fallible`, `judge_resiliently`, `dispatch`, `dead_letter` | futures in flight, the event at hand, results of sinks | pull, judge with retries, dispatch, dead-letter, acknowledge |
| Lifecycle, retry | `lifecycle.rs` | phase and attempt of each event | `begin`, `conclude`, `resume`, `decide`, `settle`, `delay_after` |
| Breaker | `breaker.rs` | closed(failures) / open(cooldown) / half-open(cooldown), one slot per run | `admit`, `observe` |
| Construction | `bus.rs` `subscribe*`, `dead_letters*`, `blueprint`, `from_blueprint*` | routes, dead-letter sink | register, save, rebuild |
| Routing | `routing.rs`, `subscription.rs`, `probability.rs` | none | `plan`, `decide`, `dispose` |
| Merge | `merge.rs` | open groups, timers, ready queue | `windowed`: admit, flush, time out, end |
| Channels, sinks | `delivery.rs`, `sink.rs` | a bounded queue behind an async mutex | `publish`, read, drop |
| Link | `link.rs` | a bounded queue of handoffs, one reply slot each | `publish`, `next`, `ack` |
| Source, ack | `source.rs` | a broker's, outside the crate | `next`, `ack` |
| Ledger | `ledger.rs` | rows in order | `record` |
| Cache | `cache.rs` | an LRU map with expiry, three counters | `Cached::judge`, `get`, `put` |
| Judge, Jev, HTTP | `judge.rs`, `jev/`, `question.rs` | none | encode, ask, decode, classify an error |
| Time | `time.rs` | timers | `sleep`, `with_timeout` |

**How they interact.** A run is *one task*. Its input is mapped to judge
futures, and `buffered(concurrency)` keeps some of them in flight and gives out
their results in input order. The futures share the judge, the ledger and the
breaker slot by reference; a `std::sync::Mutex` guards the slot and is never
held across an await. The main loop takes one result, dispatches it to all
sinks at once (`join_all`), writes the rows, calls the ack and takes the next.
The judge futures are polled only while the main loop awaits `judged.next()`
and the head result is not ready: during a dispatch they stand still. A sink
may be a channel (read by another task), or a link whose other end is the
source of another bus (run by another task), which is where real parallelism
enters. A cache may stand between several buses and one judge.

**What is hard.** Completions out of order against effects in order; a shared
breaker driven by futures that sleep between reading and reporting; errors that
are found early and must take effect late; deliveries before their rows; timers
that outlive what they were started for; two ends of a link that each may vanish
while the other waits; a source that delivers again what a dead run had already
handed on; a clock read before a lock; a reply that is only partly sound. `PROJECT.json` lists these as
`hazards`, each at its line and with the properties that watch it.

## 2. Modules

| Module | Models | Notes |
|---|---|---|
| `Breaker` | `breaker.rs` | pure operators: `Admit`, `AdmitWait`, `ObserveSuccess`, `ObserveFailure` |
| `Bus` | one run | extends `Breaker`; an action per stretch of code between two awaits |
| `Lifecycle` | the typed machine of `lifecycle.rs`, one event | abstract: `Bus` implements it for every event |
| `BusContract` | what a run is to its source | abstract: a sequential consumer |
| `BusProperties` | properties of `Bus` | type invariant, safety, refinement, liveness |
| `BusProofs` | proofs: types, ack order, rows before acks | section 5 |
| `BusTrailProofs` | proofs: ledger, sinks and acks agree; `BusContract` | extends `BusProofs` |
| `BusLifecycleProofs` | proofs: an event's rows; `Lifecycle` | extends `BusProofs` |
| `Routing` | `plan`, `decide`, `dispose` | pure operators |
| `Wire` | `jev/`, `judge.rs`: encode, one exchange, decode, transience | extends `Routing`; pure operators |
| `Topology` | building a bus, then asking over the wire and deciding | extends `Wire` |
| `TopologyProofs` | proofs about `Routing`, `Wire` and `Topology` | section 5 |
| `Backoff` | `delay_after`, `Attempt::next` | small integer widths |
| `Merge` | `windowed` | groups, timers, generations |
| `MergeProofs` | proofs about `Merge` | section 5 |
| `Channel` | `futures::mpsc` and the async mutex | the crate's use of a library: external |
| `Subscriber` | `ChannelSink` and a reader | extends `Channel` |
| `SubscriberProofs` | proofs about `Subscriber` | section 5 |
| `Link` | `LinkSink`, `LinkSource`, `LinkAck` | extends `Channel` |
| `Chain` | upstream buses with redelivering sources, over a link | extends `Link` |
| `ChainProofs` | proofs about `Link` and `Chain` | section 5 |
| `CacheKey` | `CacheKey::of` | pure operators |
| `Cache` | `Cached` over `MemoryLru` | extends `CacheKey`; several callers |
| `CacheProofs` | proofs about `Cache` | section 5 |
| `MC*` | instances for TLC | constants only |

Operators whose comment says *Mutant* are plausible bugs of the definition next
to them. The specification never uses them; `PROJECT.json` names, for every
property, the mutant that breaks it.

### Bus

An event is its position in the input. `phase[e]` is what the judge future of
`e` awaits:

    waiting -> fresh -> (composing) -> (cooling) -> judging -> calling
      calling -> answered -> judged            the call gave answers
      calling -> retrying -> backoff -> ...    transient, budget left
      calling -> failed                        permanent, or budget spent
      any ledger write -> aborted              RunError, held until its turn

`main` is where the main loop stands: `pull`, then for a judged event `send`,
`routed` (one row per route), `settle`; for a failed one `failed`, `publish`,
`deadLettered`; then `ack`, `acknowledged`, and `pull` again; `done` is `Ok(())`
and `stopped` an `Err`. `Polling` is the rule of `Buffered` that lets judge
futures move only while the main loop waits and the head is not complete.
`decide` appears as any vector of dispositions (`Verdicts`) or a refusal, which
`Topology` shows to be what the code computes. The judge, the ledger, the sinks
and the acks are traits; each may answer anything its type allows. A crash is a
run that takes no further step: every safety property holds in every prefix.

`Lifecycle` is the machine the types of `lifecycle.rs` enforce, for one event and
without a bus: `begin`, `conclude`, `resume`, `decide`, `settle`, with `record`
between them. The refinement (`Stage` and `Machine` in `BusProperties`) reads
the phase of an event's `Tracked` value off the judge future while the event is
being judged, off `main` while it is at hand, and off its rows afterwards, where
the value has been consumed. The machine's log is the event's ledger. A bus also
writes rows of its own, which no phase has (`Composed`, `Routed`,
`Acknowledged`): `Annotate` and `IntoBeside` let the log grow by such a row and by
nothing else. The types say that a phase is left once; that each
recorded phase is recorded exactly once *before* it is left, and never twice, is
the bus's doing, and `ImplementsLifecycle` is where that is checked.

### Topology, Wire and Routing

A subscription is its id, its thresholds and whether it has a review sink. Calls
build a bus (`Subscribe`, `TakeDeadLetters`), or a stored blueprint does, which
may repeat an id: `FromBlueprint` begins the call, `AddSpec` is one turn of its
loop, which a duplicate leaves with nothing built, and `Rebuilt` returns the bus,
with the policy of the blueprint, and the handles. Between the steps `rebuild`
holds the bus so far; the caller owns it alone, and no other call comes between.
`deadLetters` stands for that sink and its handle, which are made together. `Run`
plans and `Request`
is what `encode` makes of it. One exchange (`Judged`) is a request that was not
sent, a status, a body that is lost or is no response, or a response: any subset
of the questions with any kind of answer, numbers out of range, an empty name, an
answer nobody asked for. `Judge` turns it into answers or a `JudgeError`, and
`Decide` those into verdicts. Probabilities are points of a scale whose first two
are `-0.0` and `0.0`, which the code compares in two ways; every other number is
one that `Probability::new` refuses. Level indices and level names are numbers in
the order of the strings they stand for, which is all `most_likely_level` and the
re-keying by name depend on.

### Merge

`admit`, `flush` and the timers of `merge.rs` one action each; the timer carries
the generation it was started for. The combiner accepts or refuses a group.

### Channel, Subscriber, Link, Chain

`Sender::send` is three steps: wait for room, put, wait to be unparked. A sender
has one slot beyond the capacity. `ChannelSink` holds its mutex over all three;
`LinkSink` releases it before it waits for the reply. A run may be dropped in
the middle of a publish, a reader may leave with items unread, a downstream may
stop with handoffs in its hands.

`Chain` puts an upstream bus around each publisher of the link. Of its run it
keeps the main loop (`Pull`, `Offer`, `RecordOutcome`, `AckSource`), one event at
a time: the judge phase holds events but hands nothing on (`HeadOfLine`). Its
source delivers again an envelope that was dropped with its run (`Restart`, at
any point between two awaits) and one whose ack failed (`AckLost`), while the
earlier handoff of the same event may still be queued or held downstream. The
downstream is a bus seen through `BusContract`: it acks in order what it took, or
stops.

### Cache

A call is `Begin` (the store reads its clock), `Hit` / `Miss` / `GetFaults`
(under the lock), the inner judge, and `Store` / `PutFaults`. Time passes
between any two. An answer is known by what the judge was asked and the instant
it answered. A key is the sequence of texts fed to the digest: each is fed behind
its length, so that the bytes determine the sequence, and the digest is taken to
have no collisions of its own.

### Backoff

The delay after each failed attempt, at factors of three bits and durations of
four. The run takes every policy in those widths, the unvalidated ones included,
past the overflow of the power and of the product, to the cap, and on until the
attempt counter saturates. `DelayLaw` is the law of `delay_after` for every
multiplier but zero, and says what the delays are with that one.

## 3. Runs

Runs that pass:

| Run | What it shows | Bounds |
|---|---|---|
| `bus_order` | effects in input order, early errors held back, the in-flight bound, and the refinement of `BusContract` | 3 events, 2 in flight, 1 route, 1 attempt |
| `bus_retry` | types; sinks, acks and ledger agree; the refinement of `Lifecycle` (retries within the budget included); breaker bounds; every pulled event is acknowledged or the run ends | 2 events (one composite), 2 routes (one with a review sink), a dead-letter sink, 2 attempts, threshold 2, cap 3 |
| `topology` | encode, decode, plan and decide fit each other for every bus and exchange; thresholds and ties; blueprints | 2 routes, 4 points (both zeros) and a number outside, 4 statuses, 6 score answers, either policy |
| `merge` | no event is lost, doubled or reordered within its key; stale timers do nothing; silence does not hold a group | 5 events, 2 keys, groups of 2 |
| `subscriber` | the unread bound, what a leaving reader loses, no hanging publish | capacity 1, 4 publishes |
| `chain` | both ends agree on every handoff; the in-flight bound; nothing is silent; while the downstream lives, an event is acked upstream only after it was acked downstream; every event settles | 2 upstream buses, 2 events each, one restart or lost ack, capacity 0, window 1 |
| `backoff` | no delay exceeds the cap, and none is shorter than the one before unless the multiplier is zero, overflows and the saturated counter included | factors to 7, durations to 15, multipliers to 3 |
| `cache` | a hit is fresh and answers the question asked; a get removes only what has expired | 2 callers, 4 planned question sets, 3 calls, 4 instants, capacity 1 |

Runs that show where the code and its documentation differ:

| Run | The documentation | The code |
|---|---|---|
| `bus_unaudited` | `ledger.rs:105` an unaudited delivery is worse than none | sinks are offered the event before the first `Routed` row |
| `bus_cooldown` | `src/README.md:179` every later event waits out the cooldown | only the first caller does: it turns the breaker half-open before it sleeps |
| `chain_end` | `link.rs:16` at-least-once holds end to end | a downstream that stops with the event makes the upstream record `SinkFailed`, settle and ack its source; nobody redelivers |
| `cache_key` | `cache.rs:42` no two distinct inputs share a byte string | a `Score` whose last levels read like the next question does; the question sets a bus plans never do (`cache`) |

Seven smaller observations have no run of their own:

* `lifecycle.rs:118` says that `delay(a) <= delay(a.next())`. The multiplier is a
  public, unvalidated field; with zero the factor is 0^0 = 1 after the first
  attempt and 0 after every later one, so the delays are `base_delay`, 0, 0, ...
  `DelayLaw` states the law with that exception.
* `breaker.rs:73` says of half-open that a probe is in flight. A probe that ends
  in a permanent error is not reported (`bus.rs:474`), so the breaker stays
  half-open with no probe; `PulledIsHandled` shows that nothing waits for it.
* `probability.rs:53` says that `total_cmp` agrees with the partial order.
  `Probability::new` accepts `-0.0`, which `at_least` takes for `0.0` and `Ord`
  puts below it; `DisposeLaw` is proved with both zeros.
* `link.rs:77` says that a link holds at most `capacity` unacknowledged events.
  Each sender has a slot of its own beyond the capacity; `InFlightBound` states
  the bound that holds.
* `cache.rs:195` says that a miss is an answer obtained from the judge. It is
  counted before the judge is asked, failed and dropped calls included.
* `judge.rs:65` counts transport failures among the transient errors, and
  `jev/mod.rs:38` maps them to `Unavailable`. A connection that breaks while a
  successful body is read is a `MalformedReply` (`jev/http.rs:124`), which is
  permanent; `Wire` has it as `BadBody`.
* `src/README.md:115` says that a group flushes when its window elapses. `wake`
  polls the input before the timers (`merge.rs:225`), so an input that is always
  ready keeps a due group open until it is full; `EveryEventLeaves` is about
  inputs that fall silent.

**Why the bounds are enough.** Order properties relate two events and one that
overtakes them: three events with two in flight give a head, a follower and one
not yet pulled. Retries and the breaker interact through the attempt, the
threshold and the cap, and each is crossed at least twice. Rows and sinks are
per route, so two routes show every mixture of outcomes. A stale timer needs a
group that was flushed and a second of its key; five events give three groups of
one key. A channel or link shows its boundary at one item more than it holds;
the link of `chain` holds one handoff beyond its capacity of zero. `NumItems` of
`chain` is what two sources of two events and one redelivery can hand on, so it
never stops a source. The cache needs two callers of one key and a third call to
evict; the four question sets are as near to each other as `plan` can make them:
equal instructions, a payload that reads like an id, a route named like the
exclusive question, and that question with two routes, one of that name.
`bus_retry` crosses the budget of attempts but not the saturation of the counter,
four billion attempts away: that is in `backoff`, and in the theorems,
which hold for every budget and every width of the counter. Four statuses stand for the lists in `is_transient_status` and their
complement. Six score answers give each branch of the decoding of a score: a tie,
a lead, two indices of one name, an index without a name, no level, a confidence
out of range. Each state
space is exhausted, and every action and disjunct fires in some passing run.

**Deadlock** is checked in every run. Where a system has legitimately finished,
the module has a stuttering action guarded by that fact (`Quiet`, `Finished`).

## 4. Fairness and liveness

`PulledIsHandled` assumes weak fairness of each judge future's steps, of the
main loop and of each send: the executor polls what is woken, a sleep ends, and
a judge call ends because `with_timeout` bounds it. It does not assume that the
source yields, that the judge ever answers well, or that the ledger never fails.
The budget of attempts is bounded: with `Attempts::Unbounded` the code promises
no progress. `EveryEventLeaves` assumes that timers end and that someone polls
the stream. `PublishReturns` assumes that a reader that has not left keeps
reading. `EveryEventSettles` assumes that the upstream runs are polled and that a
downstream that has something to take or to acknowledge does so, or stops; its
faults are bounded (`MaxFaults`), for a run that is always restarted in time
settles nothing.

## 5. Proofs

A run checks a small instance; a theorem holds for every value of the constants.
Every safety property and every action property of a passing run is also a
theorem, `DelayLaw` excepted. Each proof has the same frame: an invariant
that is inductive, one lemma for the initial state, one for each action, one step
that collects them, and a last step by PTL. The invariants were checked by TLC on
the instances of section 3 before they were proved.

**One run of the bus**, for every number of events and routes, every budget of
attempts, concurrency and breaker policy.

| Module | Theorem | Property |
|---|---|---|
| `BusProofs` | `TypeCorrect` | `TypeOK` |
| | `AckOrder`, `BoundedInFlight` | `AcksInInputOrder`, `UnackedBound` |
| | `LedgerBeforeAck`, `HeadOfLineHolds` | `AckAfterFinalRow`, `HeadOfLine` |
| `BusTrailProofs` | `AuditTrailHolds`, `AckTrailHolds` | `AuditTrail`, `AckTrail` |
| | `OkMeansHandledHolds` | `OkMeansHandled` |
| | `BreakerHolds` | `BreakerInvariant` |
| | `RunImplementsContract` | `ImplementsContract` |
| `BusLifecycleProofs` | `LifecycleWordHolds` | `LifecycleWord` |
| | `RunImplementsLifecycle` | `ImplementsLifecycle` |

The argument has layers, each using those before it. `TypeInv` adds to `TypeOK`
what the main loop's place says of the event at hand (`Control`): away from `pull`
and `done` there is one, at most the last one pulled, and `audited` counts its
rows. `AckInv` says that the acks are exactly `1..n`, where `n` is `yielded`, less
one while the event at hand is not yet acknowledged. Neither `AcksInInputOrder` nor
`UnackedBound` is inductive: an ack appends the event at hand, and only the link
between `yielded`, `main` and `Len(acks)` says that it is the next one. `RowInv`
adds that at `ack` the event at hand has its final row; rows are only appended, so
it stays (`RowStays`). `TakenInv` bounds what the sinks took by `yielded`.

`TrailInv` compares ledger and sinks event by event. `AuditTrail` alone says
nothing of *how far* the event at hand is: a step that writes its next `Delivered`
row could not be justified. So an event to come is told by neither, an event past
is told alike by both, and of the one at hand `outcome` says what each sink took
and `audited` up to which route the rows say so. `AckTrailInv` does the same for
acknowledgements and their rows, with the place of `main` deciding. `BreakerSound`
needs no more than that each judge future leaves the shared slot in a sound state:
the order in which they report plays no part.

`WordInv` ties the place of an event, in its judge future (`InFuture`) or in the
main loop (`Dispatching`), to the last row of its ledger. `LifecycleWord` speaks of
pairs of adjacent rows; what may be appended depends on the last one, and only the
place says which that is. The two refinements are then a case per action: a step of
the run maps to one step of the abstract machine or leaves its variables alone.

**Buses over a link** (`ChainProofs`), for every number of upstream buses, events,
faults, every capacity and window: `OkMeansAckedHolds`, `AckHeardHolds`,
`RefusedIsGoneHolds`, `InFlightBoundHolds`, `NothingSilentHolds`,
`AtLeastOnceHolds`. `LinkInv` places every handoff in exactly one of its
publisher's hands, the queue, the downstream's hands and the past (`OnePlace`,
`Publishing`), lets one sender at a time into the channel (`OneSender`, from which
the bound on the queue follows), and says that the one-shot, what the downstream
was told and what the upstream was told agree with that place (`OneShots`). In it
the hard case is the dropped publish: its handoff goes on without anyone waiting.
`InHand` adds what an upstream run holds; the two properties of `Chain` are
inductive only with it.

**Merge** (`MergeProofs`), for every input, every assignment of keys, every
`MaxParts`: `NothingLostHolds`, `PartsInOrderHolds`, `ArrivalOrderHolds`,
`OpenGroupHasTimerHolds`, `OnlyOwnTimerHolds`. `MergeInv` reads the stage as a
pipeline: open group, the one burst at hand (`OneBurst`), output. Each part is
sorted (`Pipeline`), and along the pipeline the events of a key only get later
(`InOrder`); so no event is in two places, and `Somewhere` says that each is in
one. `OnlyOwnTimerHolds` assumes `NumEvents < Generations`: the generation is a
wrapping `u64`, and a counter that came round could meet an old timer.

**Channel sinks** (`SubscriberProofs`), for every capacity and any publishers:
`UnreadBoundHolds`, `LostBoundHolds`. Both count items. `SubscriberInv` says where
the items lie: in the first `Capacity` places of the queue if they are reported
delivered, one place further at most if the publish still waits to be unparked,
dropped publishes included. A set within `n` places has at most `n` members
(`PlacesBound`).

**Cache** (`CacheProofs`), for any number of callers, every capacity and Ttl:
`StoreHolds`, `HitIsFreshHolds`, `MissRemovesExpiredHolds`, and
`HitAnswersTheQuestionHolds`, which assumes that `KeyOf` tells the inputs in use
apart. That is the law `CacheKey::of` claims; `cache_key` shows question sets for
which it fails, and `cache` checks a set for which it holds, the questions buses
plan. `CacheInv` says of each entry that it is an answer obtained for its key, which
expires one Ttl after the instant its put read; of each call, that its instant is
not later than now and that a hit was live at it.

**Building, asking, deciding** (`TopologyProofs`), for every set of ids and
thresholds, every number of routes, every exchange with the service. First the
laws of the operators: `DisposeLaw` (a higher probability never gets a lower
disposition, both zeros included), `VerdictsAlign`, `ExclusiveLaw`; then what
`Judge` makes of an exchange (`JudgeAnswers`) and which answer sets each policy
decides (`FanOutDecides`, `ExclusiveDecides`). Then `BlueprintRoundTripHolds`,
`OneQuestionPerRouteHolds`, `OneVerdictPerRouteHolds`, `DecidedIffAnsweredHolds`,
`ExclusiveWinnerHolds`, `ThresholdsReachedHolds`, `LikeliestLevelHolds` and
`TypeOKHolds`. `ThresholdsReached` needs that a winner exists (`WinsMost`), and
`LikeliestLevel` that a name has a last index: `Largest` finds both, a finite set
of numbers having a largest one because the finite subsets of a set are well
founded under strict inclusion. `TopologyInv` says
that ids stay apart through every call and rebuild, that a rebuild has come through
the first specs of its blueprint with a handle for each sink, that a running bus
asks its own plan, and that a decision is what the last exchange comes to. The
first of these is what the others stand on: questions are a map keyed by id.

**Assumptions.** Those of the modules, evaluated by TLC in every run: counts are
natural numbers; what the code's constructors enforce, a non-zero concurrency,
budget, breaker threshold, window, group size, cache capacity and Ttl, thresholds
with `review <= deliver`; of the encoding of `Topology`, that a score's indices, strings in the code, are
finitely many numbers in the order of those strings. Beyond them, only the two hypotheses named
above.

**Model-checked only.**

* Liveness: `PulledIsHandled`, `EveryEventLeaves`, `PublishReturns`,
  `EveryEventSettles`. The prover has no rules for fairness and `ENABLED`.
* That `KeyOf` is injective on the inputs in use. A key is a fold over sequences,
  and an induction over data is out of the prover's reach.
* `DelayLaw`: about powers the provers know nothing.
* The other properties that fail (section 3): there is nothing to prove.

## 6. Not modelled

* The text of requests and replies (`serde`), the HTTPS client's set-up, the key
  it sends and the model it names; `Wire` starts at the parsed body.
* Real time. A sleep ends at any time, a call may time out at any time. So the
  model does not show that a call times out *because* the loop was busy
  dispatching, or how long a group really waits.
* Panics and lock poisoning. A panic ends the task: a prefix of a run.
* Identifiers, payloads, serialisation, and SHA-256 itself.
* A cycle of buses over links. The run that must take the event is the one that
  waits for its ack; nothing in the code breaks the cycle and no doc promises it.
* The content of a cached answer set. One that lacks a question is stored like
  any other, and every retry within its Ttl is refused again by `decide`.
* `examples/` and the crate root.

## 7. Plan

* The abstract half of the chain: that `Link` and `Chain` implement a specification
  of a hand-over with acknowledgements, as `Bus` implements `BusContract`.
* That the merge stage implements a sequential one: a consumer of the input that
  emits, per key, its events in arrival order.
* `Backoff`: prove `DelayLaw`, which needs powers as a recursive function
  and their growth as a lemma, an induction out of the provers' reach today.
* The steps of the proofs that only unfold an action are repeated from module to
  module; the lemmas on appended rows of `BusProofs`, `BusTrailProofs` and
  `BusLifecycleProofs` could be one.
