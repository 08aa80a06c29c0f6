------------------------- MODULE BusLifecycleProofs -------------------------
(***************************************************************************)
(* The ledger of every event is a word of the lifecycle, and the run walks *)
(* every event through the machine of Lifecycle: theorems for every value  *)
(* of the constants.                                                       *)
(***************************************************************************)
EXTENDS BusProofs

-----------------------------------------------------------------------------
(* The inductive invariant ties where an event is, in its judge future or  *)
(* in the main loop, to the last row its ledger has.                       *)

LastRow(e)   == rows[e][Len(rows[e])]
Ends(e, row) == rows[e] # <<>> /\ LastRow(e) = row
EndsAs(e, entry) == Ends(e, Row(entry, attempt[e], "none"))

\* The rows of an event whose next row is the Judging row of its attempt.
AtGate(e) ==
    \/ e \notin Composite /\ rows[e] = <<>> /\ attempt[e] = 1
    \/ e \in Composite /\ rows[e] = <<Row("Composed", 0, "none")>> /\ attempt[e] = 1
    \/ /\ rows[e] # <<>> /\ LastRow(e).entry = "Retrying"
       /\ attempt[e] = NextAttempt(LastRow(e).n)

\* An event in its judge future.
InFuture(e) ==
    /\ phase[e] \in {"waiting", "fresh", "composing"} => rows[e] = <<>> /\ attempt[e] = 1
    /\ phase[e] = "fresh" => e \notin Composite
    /\ phase[e] = "composing" => e \in Composite
    /\ phase[e] \in {"cooling", "judging"} => AtGate(e)
    /\ phase[e] \in {"calling", "answered", "retrying", "failed"} => EndsAs(e, "Judging")
    /\ phase[e] = "backoff" => EndsAs(e, "Retrying")
    /\ phase[e] = "judged" => EndsAs(e, "Judged")

\* The event at hand.
Dispatching(e) ==
    /\ main = "send" => EndsAs(e, "Judged")
    /\ main = "routed" => IF audited = 0 THEN EndsAs(e, "Judged")
                          ELSE /\ rows[e] # <<>> /\ LastRow(e).entry = "Routed"
                               /\ LastRow(e).n = audited
    /\ main = "settle" => /\ rows[e] # <<>> /\ LastRow(e).entry = "Routed"
                          /\ LastRow(e).n = NumRoutes
    /\ main = "failed" => EndsAs(e, "Judging") \/ EndsAs(e, "Judged")
    /\ main \in {"publish", "deadLettered"} => EndsAs(e, "Failed")
    /\ main \in {"ack", "acknowledged"} =>
          rows[e] # <<>> /\ LastRow(e).entry \in {"Settled", "DeadLettered"}
    /\ main \in {"send", "routed", "settle", "failed", "publish", "deadLettered"} =>
          ~HasRow(e, "Settled")

Word(e) ==
    /\ rows[e] # <<>> =>
          rows[e][1] = IF e \in Composite THEN Row("Composed", 0, "none")
                                          ELSE Row("Judging", 1, "none")
    /\ \A i \in 2..Len(rows[e]) : Follows(rows[e][i - 1], rows[e][i])

Placed(e) ==
    /\ e > pulled => phase[e] = "waiting"
    /\ e <= yielded => phase[e] \in Complete
    /\ e > yielded => InFuture(e)
    /\ e = yielded => Dispatching(e)

WordInv == \A e \in Events : Word(e) /\ Placed(e)


-----------------------------------------------------------------------------
(* Rows appended.                                                          *)

LEMMA Appended ==
    ASSUME TypeInv, NEW e \in Events, NEW row \in Rows, Write(e, row)
    PROVE  /\ rows'[e] = Append(rows[e], row) /\ rows[e] \in Seq(Rows)
           /\ Len(rows'[e]) = Len(rows[e]) + 1 /\ rows'[e] # <<>>
           /\ rows'[e][Len(rows'[e])] = row
           /\ \A i \in 1..Len(rows[e]) : rows'[e][i] = rows[e][i]
           /\ \A f \in Events : f # e => rows'[f] = rows[f]
  <1>1. /\ rows'[e] = Append(rows[e], row) /\ rows[e] \in Seq(Rows)
        /\ \A f \in Events : f # e => rows'[f] = rows[f]
    BY DEF TypeInv, TypeOK, Write
  <1>2. ASSUME NEW q \in Seq(Rows)
        PROVE  /\ Len(Append(q, row)) = Len(q) + 1 /\ Len(q) \in Nat
               /\ Append(q, row)[Len(q) + 1] = row
               /\ \A i \in 1..Len(q) : Append(q, row)[i] = q[i]
    OBVIOUS
  <1>3. Append(rows[e], row) # <<>>
    BY <1>1, <1>2
  <1> QED
    BY <1>1, <1>2, <1>3

\* The rows that may follow a row, one law for each action that writes.
LEMMA FollowLaw ==
    ASSUME NEW p, NEW a
    PROVE  /\ p.entry = "Composed" => Follows(p, Row("Judging", 1, "none"))
           /\ p.entry = "Retrying" => Follows(p, Row("Judging", NextAttempt(p.n), "none"))
           /\ p = Row("Judging", a, "none") =>
                 /\ Follows(p, Row("Judged", a, "none"))
                 /\ Follows(p, Row("Retrying", a, "none"))
                 /\ Follows(p, Row("Failed", a, "none"))
           /\ p = Row("Judged", a, "none") =>
                 /\ Follows(p, Row("Failed", a, "none"))
                 /\ \A result : Follows(p, Row("Routed", 1, result))
           /\ p.entry = "Routed" =>
                 /\ \A result : Follows(p, Row("Routed", p.n + 1, result))
                 /\ p.n = NumRoutes => Follows(p, Row("Settled", 0, "none"))
           /\ p.entry = "Failed" =>
                 \A result : Follows(p, Row("DeadLettered", 0, result))
           /\ p.entry \in {"Settled", "DeadLettered"} =>
                 \A result : Follows(p, Row("Acknowledged", 0, result))
  BY DEF Follows, Row

LEMMA WordAppend ==
    ASSUME TypeInv, NEW e \in Events, NEW row \in Rows, Write(e, row), Word(e),
           IF rows[e] = <<>>
           THEN row = IF e \in Composite THEN Row("Composed", 0, "none")
                                         ELSE Row("Judging", 1, "none")
           ELSE Follows(LastRow(e), row)
    PROVE  Word(e)'
  <1>1. CASE rows[e] = <<>>
    <2>1. Len(rows'[e]) = 1 /\ rows'[e][1] = row
      <3>1. Len(rows'[e]) = Len(rows[e]) + 1 /\ rows'[e][Len(rows'[e])] = row
        BY Appended
      <3>2. Len(rows[e]) = 0
        BY <1>1
      <3> QED
        BY <3>1, <3>2
    <2> QED
      BY <1>1, <2>1 DEF Word
  <1>2. CASE rows[e] # <<>>
    <2>1. Len(rows[e]) \in Nat \ {0}
      BY <1>2, Appended
    <2>2. rows'[e][1] = rows[e][1]
      BY <2>1, Appended
    <2>3. ASSUME NEW i \in 2..Len(rows'[e])
          PROVE  Follows(rows'[e][i - 1], rows'[e][i])
      <3>1. CASE i = Len(rows'[e])
        <4>1. rows'[e][i - 1] = LastRow(e) /\ rows'[e][i] = row
          BY <2>1, <3>1, Appended DEF LastRow
        <4> QED
          BY <1>2, <4>1
      <3>2. CASE i # Len(rows'[e])
        <4>1. /\ i \in 2..Len(rows[e])
              /\ rows'[e][i - 1] = rows[e][i - 1] /\ rows'[e][i] = rows[e][i]
          BY <2>1, <3>2, Appended
        <4> QED
          BY <4>1 DEF Word
      <3> QED
        BY <3>1, <3>2
    <2> QED
      BY <1>2, <2>2, <2>3 DEF Word
  <1> QED
    BY <1>1, <1>2

\* An event nothing of which changes.
LEMMA Rest ==
    ASSUME NEW e \in Events, rows'[e] = rows[e]
    PROVE  /\ Word(e)' <=> Word(e)
           /\ UNCHANGED <<main, audited>> /\ attempt'[e] = attempt[e] =>
                 (Dispatching(e)' <=> Dispatching(e))
           /\ phase'[e] = phase[e] /\ attempt'[e] = attempt[e] =>
                 (InFuture(e)' <=> InFuture(e))
           /\ \A entry : HasRow(e, entry)' <=> HasRow(e, entry)
  BY DEF Word, Dispatching, InFuture, AtGate, EndsAs, Ends, LastRow, HasRow

LEMMA WordInit == Init => WordInv
  BY BusAssumption DEF Init, WordInv, Word, Placed, InFuture, Dispatching, Events, Complete

-----------------------------------------------------------------------------
(* One step of a judge future.                                             *)

LEMMA WordTask ==
    ASSUME TypeInv, WordInv, NEW e \in Events, TaskStep(e)
    PROVE  WordInv'
  <1> USE DEF TypeInv, TypeOK
  <1>1. /\ UNCHANGED <<pulled, yielded, main, audited>>
        /\ phase[e] \notin Complete \cup {"waiting"}
        /\ phase' = [phase EXCEPT ![e] = phase'[e]] /\ phase'[e] # "waiting"
        /\ attempt' = [attempt EXCEPT ![e] = attempt'[e]]
    BY DEF TaskStep, Begin, RecordComposed, CooledDown, RecordJudging, Answer,
           TransientFailure, PermanentFailure, RecordJudged, RecordRetrying, Resume,
           LedgerFailsJudging, Gate, Polling, inputVars, handVars, Complete, Recording
  <1>2. e > yielded /\ e <= pulled
    BY <1>1, BusAssumption DEF WordInv, Placed, Events
  <1>3. \A f \in Events : f # e => rows'[f] = rows[f]
    <2>1. CASE UNCHANGED rows
      BY <2>1
    <2>2. CASE \E row \in Rows : Write(e, row)
      BY <2>2, Appended
    <2> QED
      BY <2>1, <2>2, TaskRows
  <1>4. ASSUME NEW f \in Events, f # e PROVE Word(f)' /\ Placed(f)'
    <2>1. /\ rows'[f] = rows[f] /\ phase'[f] = phase[f] /\ attempt'[f] = attempt[f]
      BY <1>1, <1>3, <1>4
    <2> QED
      BY <1>1, <2>1, Rest DEF WordInv, Placed
  <1>5. Word(e)' /\ InFuture(e)'
    <2> DEFINE row(entry) == Row(entry, attempt[e], "none")
    <2>r. \A entry \in Entries : row(entry) \in Rows
      BY DEF Row, Rows
    <2>w. Word(e) /\ InFuture(e)
      BY <1>2 DEF WordInv, Placed
    <2>1. CASE Begin(e)
      BY <2>1, <2>w, Rest DEF Begin, Gate, InFuture, AtGate
    <2>2. CASE RecordComposed(e)
      <3>1. Row("Composed", 0, "none") \in Rows
        BY DEF Row, Rows, Entries
      <3>2. /\ rows[e] = <<>> /\ e \in Composite /\ attempt[e] = 1
            /\ phase'[e] \in {"judging", "cooling"} /\ attempt' = attempt
            /\ Write(e, Row("Composed", 0, "none"))
        BY <2>2, <2>w DEF RecordComposed, Gate, InFuture
      <3>3. rows'[e] = <<Row("Composed", 0, "none")>>
        BY <3>1, <3>2, Appended
      <3>4. Word(e)'
        BY <3>1, <3>2, <2>w, WordAppend
      <3> QED
        BY <3>2, <3>3, <3>4 DEF InFuture, AtGate
    <2>3. CASE CooledDown(e)
      BY <2>3, <2>w, Rest DEF CooledDown, InFuture, AtGate, LastRow
    <2>4. CASE RecordJudging(e)
      <3>1. /\ AtGate(e) /\ phase'[e] = "calling" /\ attempt' = attempt
            /\ Write(e, row("Judging"))
        BY <2>4, <2>w DEF RecordJudging, InFuture
      <3>2. row("Judging") \in Rows
        BY <2>r DEF Entries, Lifecycle
      <3>3. Word(e)'
        <4>1. CASE rows[e] = <<>>
          BY <3>1, <3>2, <4>1, <2>w, WordAppend DEF AtGate
        <4>2. CASE rows[e] = <<Row("Composed", 0, "none")>> /\ attempt[e] = 1
          <5>1. LastRow(e).entry = "Composed" /\ rows[e] # <<>>
            BY <4>2 DEF LastRow, Row
          <5> QED
            BY <3>1, <3>2, <4>2, <5>1, <2>w, FollowLaw, WordAppend
        <4>3. CASE /\ rows[e] # <<>> /\ LastRow(e).entry = "Retrying"
                   /\ attempt[e] = NextAttempt(LastRow(e).n)
          BY <3>1, <3>2, <4>3, <2>w, FollowLaw, WordAppend
        <4> QED
          BY <3>1, <4>1, <4>2, <4>3 DEF AtGate
      <3>4. EndsAs(e, "Judging")'
        BY <3>1, <3>2, Appended DEF EndsAs, Ends, LastRow
      <3> QED
        BY <3>1, <3>3, <3>4 DEF InFuture
    <2>5. CASE Answer(e)
      BY <2>5, <2>w, Rest DEF Answer, InFuture, EndsAs, Ends, LastRow
    <2>6. CASE TransientFailure(e)
      BY <2>6, <2>w, Rest DEF TransientFailure, InFuture, EndsAs, Ends, LastRow
    <2>7. CASE PermanentFailure(e)
      BY <2>7, <2>w, Rest DEF PermanentFailure, InFuture, EndsAs, Ends, LastRow
    <2>8. CASE RecordJudged(e)
      <3>1. /\ EndsAs(e, "Judging") /\ phase'[e] = "judged" /\ attempt' = attempt
            /\ Write(e, row("Judged"))
        BY <2>8, <2>w DEF RecordJudged, InFuture
      <3>2. row("Judged") \in Rows
        BY <2>r DEF Entries, Lifecycle
      <3>3. Word(e)'
        BY <3>1, <3>2, <2>w, FollowLaw, WordAppend DEF EndsAs, Ends
      <3>4. EndsAs(e, "Judged")'
        BY <3>1, <3>2, Appended DEF EndsAs, Ends, LastRow
      <3> QED
        BY <3>1, <3>3, <3>4 DEF InFuture
    <2>9. CASE RecordRetrying(e)
      <3>1. /\ EndsAs(e, "Judging") /\ phase'[e] = "backoff" /\ attempt' = attempt
            /\ Write(e, row("Retrying"))
        BY <2>9, <2>w DEF RecordRetrying, InFuture
      <3>2. row("Retrying") \in Rows
        BY <2>r DEF Entries, Lifecycle
      <3>3. Word(e)'
        BY <3>1, <3>2, <2>w, FollowLaw, WordAppend DEF EndsAs, Ends
      <3>4. EndsAs(e, "Retrying")'
        BY <3>1, <3>2, Appended DEF EndsAs, Ends, LastRow
      <3> QED
        BY <3>1, <3>3, <3>4 DEF InFuture
    <2>10. CASE Resume(e)
      <3>1. /\ EndsAs(e, "Retrying") /\ phase'[e] \in {"judging", "cooling"}
            /\ attempt'[e] = NextAttempt(attempt[e]) /\ rows' = rows
        BY <2>10, <2>w DEF Resume, Gate, InFuture
      <3>2. /\ rows[e] # <<>> /\ LastRow(e).entry = "Retrying"
            /\ attempt'[e] = NextAttempt(LastRow(e).n)
        BY <3>1 DEF EndsAs, Ends, Row
      <3>3. AtGate(e)'
        BY <3>1, <3>2 DEF AtGate, LastRow
      <3> QED
        BY <2>w, <3>1, <3>3, Rest DEF InFuture
    <2>11. CASE LedgerFailsJudging(e)
      BY <2>11, <2>w, Rest DEF LedgerFailsJudging, InFuture
    <2> QED
      BY <2>1, <2>2, <2>3, <2>4, <2>5, <2>6, <2>7, <2>8, <2>9, <2>10, <2>11 DEF TaskStep
  <1>6. Placed(e)'
    BY <1>1, <1>2, <1>5, BusAssumption DEF Placed, Events
  <1> QED
    BY <1>4, <1>5, <1>6 DEF WordInv


-----------------------------------------------------------------------------
(* One step of the input, of a route or of the main loop.                  *)

\* The futures rest and every row but the event at hand's stays.
LEMMA WordAtHand ==
    ASSUME TypeInv, WordInv, yielded \in Events,
           UNCHANGED <<pulled, phase, attempt, yielded>>,
           \A f \in Events : f # yielded => rows'[f] = rows[f],
           Word(yielded)', Dispatching(yielded)'
    PROVE  WordInv'
  <1> USE DEF TypeInv, TypeOK
  <1>1. ASSUME NEW f \in Events, f # yielded PROVE Word(f)' /\ Placed(f)'
    <2>1. rows'[f] = rows[f]
      BY <1>1
    <2> QED
      BY <1>1, <2>1, Rest DEF WordInv, Placed
  <1>2. ASSUME NEW f \in Events, f = yielded PROVE Word(f)' /\ Placed(f)'
    <2>1. Word(f)' /\ Dispatching(f)'
      BY <1>2 DEF Word, Dispatching, EndsAs, Ends, LastRow, HasRow
    <2>2. ~(f > yielded)
      BY <1>2, BusAssumption
    <2> QED
      BY <1>2, <2>1, <2>2 DEF WordInv, Placed
  <1> QED
    BY <1>1, <1>2 DEF WordInv

LEMMA WordInput ==
    ASSUME TypeInv, WordInv, Pull \/ EndOfInput \/ SourceFails
    PROVE  WordInv'
  <1> USE BusAssumption DEF TypeInv, TypeOK, Control
  <1>1. UNCHANGED <<yielded, main, audited, attempt, rows>>
    BY DEF Pull, EndOfInput, SourceFails, handVars, taskVars
  <1>2. CASE EndOfInput
    <2>1. UNCHANGED <<phase, pulled>>
      BY <1>2 DEF EndOfInput, taskVars
    <2> QED
      BY <1>1, <2>1, Rest DEF WordInv, Placed
  <1>3. CASE Pull \/ SourceFails
    <2>1. /\ pulled' = pulled + 1 /\ pulled' \in Events
          /\ \A f \in Events : f # pulled' => phase'[f] = phase[f]
          /\ phase'[pulled'] \in {"aborted", "composing", "fresh"}
          /\ phase'[pulled'] = "composing" => pulled' \in Composite
          /\ phase'[pulled'] = "fresh" => pulled' \notin Composite
      <3>1. pulled' = pulled + 1 /\ pulled + 1 \in Events
        BY <1>3 DEF Pull, SourceFails, Events
      <3>2. CASE Pull
        BY <3>1, <3>2 DEF Pull
      <3>3. CASE SourceFails
        BY <3>1, <3>3 DEF SourceFails
      <3> QED
        BY <1>3, <3>1, <3>2, <3>3
    <2>2. ASSUME NEW f \in Events, f # pulled' PROVE Word(f)' /\ Placed(f)'
      <3>1. phase'[f] = phase[f]
        BY <2>1, <2>2
      <3>2. f > pulled' => f > pulled
        BY <2>1 DEF Events
      <3> QED
        BY <1>1, <3>1, <3>2, Rest DEF WordInv, Placed
    <2>3. ASSUME NEW f \in Events, f = pulled' PROVE Word(f)' /\ Placed(f)'
      <3>1. /\ f > pulled /\ f > yielded /\ ~(f > pulled') /\ f # yielded
            /\ ~(f <= yielded)
        BY <2>1, <2>3 DEF Events
      <3>2. Word(f) /\ phase[f] = "waiting" /\ InFuture(f)
        BY <3>1 DEF WordInv, Placed
      <3>3. rows[f] = <<>> /\ attempt[f] = 1
        BY <3>2 DEF InFuture
      <3>4. InFuture(f)'
        BY <1>1, <2>1, <2>3, <3>3 DEF InFuture
      <3> QED
        BY <1>1, <3>1, <3>2, <3>4, Rest DEF Placed
    <2> QED
      BY <2>2, <2>3 DEF WordInv
  <1> QED
    BY <1>2, <1>3

LEMMA WordQuiet ==
    ASSUME TypeInv, WordInv,
           (\E r \in Routes : Send(r)) \/ Returned \/ UNCHANGED vars
    PROVE  WordInv'
  <1>1. UNCHANGED <<pulled, yielded, main, audited, attempt, rows, phase>>
    BY DEF Send, SendNothing, SinkAccepts, SinkRefuses, Returned, vars, inputVars,
           handVars, taskVars
  <1> QED
    BY <1>1, Rest DEF WordInv, Placed

\* The head of the line becomes the event at hand.
LEMMA WordYield ==
    ASSUME TypeInv, WordInv, RowInv, YieldAborted \/ YieldRouted \/ YieldFailed
    PROVE  WordInv'
  <1> USE BusAssumption DEF TypeInv, TypeOK, Control
  <1>1. /\ main = "pull" /\ yielded' = yielded + 1 /\ yielded + 1 \in Events
        /\ UNCHANGED <<pulled, phase, attempt, rows>>
        /\ phase[yielded + 1] \in Complete
        /\ \/ main' = "stopped"
           \/ main' = "send" /\ phase[yielded + 1] = "judged"
           \/ main' = "failed" /\ phase[yielded + 1] \in {"judged", "failed"}
    BY DEF YieldAborted, YieldRouted, YieldFailed, TakeHead, HeadReady, inputVars,
           taskVars, Events, Complete
  <1>2. ASSUME NEW f \in Events, f # yielded + 1 PROVE Word(f)' /\ Placed(f)'
    <2>1. /\ f > yielded' => f > yielded
          /\ f # yielded'
          /\ f <= yielded' => f <= yielded
      BY <1>1, <1>2 DEF Events
    <2>2. Word(f) /\ Placed(f) /\ (InFuture(f)' <=> InFuture(f)) /\ (Word(f)' <=> Word(f))
      BY <1>1, Rest DEF WordInv
    <2> QED
      BY <1>1, <2>1, <2>2 DEF Placed
  <1>3. ASSUME NEW f \in Events, f = yielded + 1 PROVE Word(f)' /\ Placed(f)'
    <2>1. f > yielded /\ ~(f > yielded')
      BY <1>1, <1>3
    <2>2. Word(f) /\ InFuture(f) /\ (f > pulled => phase[f] = "waiting")
      BY <2>1 DEF WordInv, Placed
    <2>3. ~HasRow(f, "Settled")
      BY <2>1 DEF RowInv, DispatchEntries, Events
    <2>4. Dispatching(f)'
      BY <1>1, <1>3, <2>2, <2>3 DEF Dispatching, InFuture, EndsAs, Ends, LastRow, HasRow
    <2> QED
      BY <1>1, <1>3, <2>1, <2>2, <2>4, Rest DEF Placed
  <1> QED
    BY <1>2, <1>3 DEF WordInv

\* The steps of a dispatch that write no row.
LEMMA WordDispatchQuiet ==
    ASSUME TypeInv, WordInv,
           \/ Joined \/ DeadSinkAccepts \/ DeadSinkRefuses \/ CallAck
           \/ LedgerFailsDispatching
    PROVE  WordInv'
  <1> USE BusAssumption DEF TypeInv, TypeOK, Control
  <1>1. /\ UNCHANGED <<pulled, phase, attempt, yielded, rows, audited>>
        /\ yielded \in Events
    BY DEF Joined, DeadSinkAccepts, DeadSinkRefuses, CallAck, LedgerFailsDispatching,
           inputVars, taskVars, handVars, Holding, Events
  <1>2. Word(yielded) /\ Dispatching(yielded)
    BY <1>1 DEF WordInv, Placed
  <1>3. Word(yielded)'
    BY <1>1, <1>2 DEF Word
  <1>4. \/ main = "send" /\ main' = "routed" /\ audited = 0
        \/ main = "publish" /\ main' = "deadLettered"
        \/ main = "ack" /\ main' = "acknowledged"
        \/ main' = "stopped"
    BY DEF Joined, DeadSinkAccepts, DeadSinkRefuses, CallAck, LedgerFailsDispatching
  <1>5. Dispatching(yielded)'
    BY <1>1, <1>2, <1>4 DEF Dispatching, EndsAs, Ends, LastRow, HasRow
  <1> QED
    BY <1>1, <1>3, <1>5, WordAtHand

\* The steps of a dispatch that write one.
LEMMA WordRecord ==
    ASSUME TypeInv, WordInv,
           \/ RecordRouted \/ RecordSettled \/ RecordFailed \/ RecordDeadLettered
           \/ RecordAcknowledged
    PROVE  WordInv'
  <1> USE BusAssumption DEF TypeInv, TypeOK, Control
  <1>1. /\ UNCHANGED <<pulled, phase, attempt, yielded>>
        /\ yielded \in Events
    BY DEF RecordRouted, RecordSettled, RecordFailed, RecordDeadLettered,
           RecordAcknowledged, inputVars, taskVars, Holding, Events
  <1>2. Word(yielded) /\ Dispatching(yielded)
    BY <1>1 DEF WordInv, Placed
  <1>3. SUFFICES ASSUME NEW row \in Rows, Write(yielded, row),
                        \/ /\ RecordRouted
                           /\ row = Row("Routed", audited + 1, outcome[audited + 1])
                        \/ RecordSettled /\ row = Row("Settled", 0, "none")
                        \/ RecordFailed /\ row = Row("Failed", attempt[yielded], "none")
                        \/ RecordDeadLettered /\ row = Row("DeadLettered", 0, answer)
                        \/ RecordAcknowledged /\ row = Row("Acknowledged", 0, answer)
                 PROVE  WordInv'
    <2>1. CASE RecordRouted
      <3>1. audited + 1 \in Routes
        BY <2>1 DEF RecordRouted, Routes
      <3>2. Row("Routed", audited + 1, outcome[audited + 1]) \in Rows
        BY <2>1, <3>1 DEF RecordRouted, Row, Rows, Entries, Outcomes, Routes
      <3> QED
        BY <1>3, <2>1, <3>2 DEF RecordRouted
    <2>2. /\ Row("Settled", 0, "none") \in Rows
          /\ Row("Failed", attempt[yielded], "none") \in Rows
          /\ Row("DeadLettered", 0, answer) \in Rows
          /\ Row("Acknowledged", 0, answer) \in Rows
      BY <1>1 DEF Row, Rows, Entries, Lifecycle
    <2> QED
      BY <1>3, <2>1, <2>2
         DEF RecordSettled, RecordFailed, RecordDeadLettered, RecordAcknowledged
  <1>4. \A f \in Events : f # yielded => rows'[f] = rows[f]
    BY <1>1, <1>3, Appended
  <1>5. rows'[yielded] # <<>> /\ rows'[yielded][Len(rows'[yielded])] = row
    BY <1>1, <1>3, Appended
  <1>6. rows[yielded] # <<>> /\ Follows(LastRow(yielded), row)
    <2>1. CASE RecordRouted /\ row = Row("Routed", audited + 1, outcome[audited + 1])
      <3>1. CASE audited = 0
        <4>1. /\ rows[yielded] # <<>>
              /\ LastRow(yielded) = Row("Judged", attempt[yielded], "none")
          BY <1>2, <2>1, <3>1 DEF RecordRouted, Dispatching, EndsAs, Ends
        <4>2. Follows(LastRow(yielded), Row("Routed", 1, outcome[audited + 1]))
          BY <4>1, FollowLaw
        <4> QED
          BY <2>1, <3>1, <4>1, <4>2
      <3>2. CASE audited # 0
        <4>1. /\ rows[yielded] # <<>> /\ LastRow(yielded).entry = "Routed"
              /\ LastRow(yielded).n = audited
          BY <1>2, <2>1, <3>2 DEF RecordRouted, Dispatching
        <4> QED
          BY <2>1, <4>1, FollowLaw
      <3> QED
        BY <3>1, <3>2
    <2>2. CASE RecordSettled /\ row = Row("Settled", 0, "none")
      BY <1>2, <2>2, FollowLaw DEF RecordSettled, Dispatching
    <2>3. CASE RecordFailed /\ row = Row("Failed", attempt[yielded], "none")
      BY <1>2, <2>3, FollowLaw DEF RecordFailed, Dispatching, EndsAs, Ends
    <2>4. CASE RecordDeadLettered /\ row = Row("DeadLettered", 0, answer)
      <3>1. LastRow(yielded).entry = "Failed" /\ rows[yielded] # <<>>
        BY <1>2, <2>4 DEF RecordDeadLettered, Dispatching, EndsAs, Ends, Row
      <3> QED
        BY <2>4, <3>1, FollowLaw
    <2>5. CASE RecordAcknowledged /\ row = Row("Acknowledged", 0, answer)
      BY <1>2, <2>5, FollowLaw DEF RecordAcknowledged, Dispatching
    <2> QED
      BY <1>3, <2>1, <2>2, <2>3, <2>4, <2>5
  <1>7. Word(yielded)'
    <2>1. ASSUME NEW f \in Events, f = yielded PROVE Word(f)'
      BY <1>2, <1>3, <1>6, <2>1, WordAppend
    <2> QED
      BY <1>1, <2>1 DEF Word
  <1>8. Dispatching(yielded)'
    <2>1. row.entry # "Settled" => (HasRow(yielded, "Settled")' <=> HasRow(yielded, "Settled"))
      <3>1. ASSUME NEW f \in Events
            PROVE  row.entry # "Settled" => (HasRow(f, "Settled")' <=> HasRow(f, "Settled"))
        BY <1>1, <1>3, WriteHasRow
      <3>2. ASSUME NEW f \in Events, f = yielded, row.entry # "Settled"
            PROVE  HasRow(yielded, "Settled")' <=> HasRow(yielded, "Settled")
        BY <1>1, <3>1, <3>2 DEF HasRow
      <3> QED
        BY <1>1, <3>2
    <2>2. CASE RecordRouted /\ row = Row("Routed", audited + 1, outcome[audited + 1])
      <3>1. row.entry = "Routed" /\ row.n = audited + 1
        BY <2>2 DEF Row
      <3>2. /\ main = "routed" /\ audited' = audited + 1 /\ audited' # 0
            /\ main' = IF audited' = NumRoutes THEN "settle" ELSE "routed"
        BY <2>2 DEF RecordRouted
      <3>3. ~HasRow(yielded, "Settled")'
        BY <1>2, <2>1, <3>1, <3>2 DEF Dispatching, HasRow
      <3> QED
        BY <1>1, <1>5, <3>1, <3>2, <3>3 DEF Dispatching, LastRow
    <2>3. CASE RecordSettled /\ row = Row("Settled", 0, "none")
      <3>1. main' = "ack" /\ row.entry = "Settled"
        BY <2>3 DEF RecordSettled, Row
      <3> QED
        BY <1>1, <1>5, <3>1 DEF Dispatching, LastRow
    <2>4. CASE RecordFailed /\ row = Row("Failed", attempt[yielded], "none")
      <3>1. /\ main = "failed" /\ main' \in {"publish", "deadLettered"}
            /\ row.entry = "Failed"
        BY <2>4 DEF RecordFailed, Row
      <3>2. ~HasRow(yielded, "Settled")'
        BY <1>2, <2>1, <3>1 DEF Dispatching, HasRow
      <3> QED
        BY <1>1, <1>5, <2>4, <3>1, <3>2 DEF Dispatching, LastRow, EndsAs, Ends
    <2>5. CASE RecordDeadLettered /\ row = Row("DeadLettered", 0, answer)
      <3>1. main' = "ack" /\ row.entry = "DeadLettered"
        BY <2>5 DEF RecordDeadLettered, Row
      <3> QED
        BY <1>1, <1>5, <3>1 DEF Dispatching, LastRow
    <2>6. CASE RecordAcknowledged /\ row = Row("Acknowledged", 0, answer)
      BY <2>6 DEF RecordAcknowledged, Dispatching
    <2> QED
      BY <1>3, <2>2, <2>3, <2>4, <2>5, <2>6
  <1> QED
    BY <1>1, <1>4, <1>7, <1>8, WordAtHand

LEMMA WordFinish ==
    ASSUME TypeInv, WordInv, Finish
    PROVE  WordInv'
  <1>1. /\ main' = "done" /\ UNCHANGED <<pulled, yielded, audited, attempt, rows, phase>>
    BY DEF Finish, inputVars, handVars, taskVars
  <1> QED
    BY <1>1, Rest DEF WordInv, Placed, Dispatching

LEMMA WordStep == TypeInv /\ RowInv /\ WordInv /\ [Next]_vars => WordInv'
  BY WordTask, WordInput, WordQuiet, WordYield, WordDispatchQuiet, WordRecord, WordFinish
     DEF Next, MainStep

\* The ledger rows of an event are a run of the lifecycle machine: none is
\* missing, repeated or out of order, whatever fails and however the judge
\* futures and the main loop interleave.
THEOREM LifecycleWordHolds == Spec => []LifecycleWord
  <1>1. WordInv => LifecycleWord
    BY DEF WordInv, Word, LifecycleWord
  <1> QED
    BY TypeInit, TypeStep, RowInit, RowStep, WordInit, WordStep, <1>1, PTL DEF Spec


-----------------------------------------------------------------------------
(* The refinement: what the steps of the bus are to the machine of one     *)
(* event.                                                                  *)

LEMMA MachineStutter ==
    ASSUME NEW e \in Events, Stage(e)' = Stage(e),
           attempt'[e] = attempt[e], rows'[e] = rows[e]
    PROVE  UNCHANGED Machine(e)!vars
  BY DEF Machine!vars

\* The phase is recorded: its row is the last one.
LEMMA MachineRecorded ==
    ASSUME TypeInv, NEW e \in Events, EndsAs(e, Stage(e)), Stage(e) # "Settled"
    PROVE  Machine(e)!IsRecorded
  <1>1. Machine(e)!Record(Stage(e), attempt[e]) = Row(Stage(e), attempt[e], "none")
    BY DEF Machine!Record, Row
  <1>2. /\ Len(rows[e]) \in DOMAIN rows[e] /\ Len(rows[e]) \in Nat
        /\ rows[e][Len(rows[e])] = Row(Stage(e), attempt[e], "none")
    BY DEF EndsAs, Ends, LastRow, TypeInv, TypeOK
  <1> QED
    BY <1>1, <1>2 DEF Machine!IsRecorded

\* It is not: the last row is another phase's, or no row is of its name, or
\* the event is only composed.
LEMMA MachineUnrecorded ==
    ASSUME TypeInv, NEW e \in Events,
           \/ rows[e] = <<>>
           \/ rows[e] = <<Row("Composed", 0, "none")>> /\ Stage(e) = "Judging"
           \/ /\ rows[e] # <<>> /\ LastRow(e).entry # Stage(e)
              /\ LastRow(e).entry \in {"Judging", "Retrying", "Judged"}
           \/ ~HasRow(e, Stage(e))
    PROVE  ~Machine(e)!IsRecorded
  <1> SUFFICES ASSUME NEW i \in DOMAIN rows[e],
                      rows[e][i].entry = Stage(e),
                      \A j \in (i + 1)..Len(rows[e]) :
                          rows[e][j].entry \notin Machine(e)!Recorded
               PROVE  FALSE
    BY DEF Machine!IsRecorded, Machine!Record
  <1>1. rows[e] \in Seq(Rows) /\ i \in 1..Len(rows[e]) /\ Len(rows[e]) \in Nat
    BY DEF TypeInv, TypeOK
  <1>2. CASE rows[e] = <<>>
    BY <1>1, <1>2
  <1>3. CASE rows[e] = <<Row("Composed", 0, "none")>> /\ Stage(e) = "Judging"
    BY <1>1, <1>3 DEF Row
  <1>4. CASE /\ rows[e] # <<>> /\ LastRow(e).entry # Stage(e)
             /\ LastRow(e).entry \in {"Judging", "Retrying", "Judged"}
    BY <1>1, <1>4 DEF LastRow, Machine!Recorded
  <1>5. CASE ~HasRow(e, Stage(e))
    BY <1>1, <1>5 DEF HasRow
  <1> QED
    BY <1>2, <1>3, <1>4, <1>5

\* A row of the bus's own.
LEMMA MachineAnnotated ==
    ASSUME TypeInv, NEW e \in Events, NEW row \in Rows, Write(e, row),
           row.entry \in {"Composed", "Routed", "DeadLettered", "Acknowledged"}
    PROVE  Machine(e)!Annotated
  BY Appended DEF Machine!Annotated, Machine!Recorded

\* The phase is written down.
LEMMA MachineWriteDown ==
    ASSUME TypeInv, NEW e \in Events, ~Machine(e)!IsRecorded,
           Stage(e) \in {"Judging", "Retrying", "Judged", "Failed", "Settled"},
           NEW n, n = IF Stage(e) = "Settled" THEN 0 ELSE attempt[e],
           Row(Stage(e), n, "none") \in Rows, Write(e, Row(Stage(e), n, "none")),
           Stage(e)' = Stage(e), attempt'[e] = attempt[e]
    PROVE  Machine(e)!Next
  <1>1. rows'[e] = Append(rows[e], Machine(e)!Record(Stage(e), attempt[e]))
    BY Appended DEF Machine!Record, Row
  <1> QED
    BY <1>1 DEF Machine!Next, Machine!WriteDown, Machine!Recorded

\* The machine of an event in its judge future.
LEMMA MachineTask ==
    ASSUME TypeInv, WordInv, NEW e \in Events, TaskStep(e)
    PROVE  [Machine(e)!Next]_(Machine(e)!vars)
  <1> USE DEF TypeInv, TypeOK
  <1>1. UNCHANGED yielded /\ phase[e] \notin Complete \cup {"waiting"}
    BY DEF TaskStep, Begin, RecordComposed, CooledDown, RecordJudging, Answer,
           TransientFailure, PermanentFailure, RecordJudged, RecordRetrying, Resume,
           LedgerFailsJudging, Complete, Recording
  <1>2. e > yielded
    BY <1>1, BusAssumption DEF WordInv, Placed, Events
  <1>3. Stage(e) = JudgeStage(phase[e]) /\ Stage(e)' = JudgeStage(phase'[e])
    BY <1>1, <1>2 DEF Stage, JudgeStage
  <1>w. InFuture(e)
    BY <1>2 DEF WordInv, Placed
  <1>r. \A entry \in Entries : Row(entry, attempt[e], "none") \in Rows
    BY DEF Row, Rows
  <1>4. CASE Begin(e)
    BY <1>3, <1>4 DEF Begin, Gate, JudgeStage, Machine!Next, Machine!Begin,
                      Machine!IntoBeside
  <1>5. CASE RecordComposed(e)
    <2>1. /\ Row("Composed", 0, "none") \in Rows
          /\ Row("Composed", 0, "none").entry = "Composed"
      BY DEF Row, Rows, Entries
    <2>2. Machine(e)!Annotated
      BY <1>5, <2>1, MachineAnnotated DEF RecordComposed
    <2> QED
      BY <1>3, <1>5, <2>2 DEF RecordComposed, Gate, JudgeStage, Machine!Next,
                              Machine!Begin, Machine!IntoBeside
  <1>6. CASE CooledDown(e)
    BY <1>3, <1>6, MachineStutter DEF CooledDown, JudgeStage
  <1>7. CASE RecordJudging(e)
    <2>1. /\ AtGate(e) /\ Stage(e) = "Judging" /\ Stage(e)' = "Judging"
          /\ attempt' = attempt /\ Write(e, Row("Judging", attempt[e], "none"))
      BY <1>3, <1>7, <1>w DEF RecordJudging, JudgeStage, InFuture
    <2>2. ~Machine(e)!IsRecorded
      BY <2>1, MachineUnrecorded DEF AtGate
    <2>3. Row("Judging", attempt[e], "none") \in Rows
      BY <1>r DEF Entries, Lifecycle
    <2> QED
      BY <2>1, <2>2, <2>3, MachineWriteDown
  <1>8. CASE Answer(e) \/ TransientFailure(e) \/ PermanentFailure(e)
    <2>1. /\ Stage(e) = "Judging" /\ attempt' = attempt /\ rows' = rows
          /\ EndsAs(e, "Judging")
      BY <1>3, <1>8, <1>w DEF Answer, TransientFailure, PermanentFailure, JudgeStage,
                              InFuture
    <2>2. Machine(e)!IsRecorded
      BY <2>1, MachineRecorded
    <2>3. \/ Answer(e) /\ Stage(e)' = "Judged"
          \/ TransientFailure(e) /\ Stage(e)' = IF AllowsAnother(attempt[e])
                                                THEN "Retrying" ELSE "Failed"
          \/ PermanentFailure(e) /\ Stage(e)' = "Failed"
      BY <1>3, <1>8 DEF Answer, TransientFailure, PermanentFailure, JudgeStage
    <2>4. \E result \in Machine(e)!Results : Machine(e)!Conclude(result)
      <3>1. AllowsAnother(attempt[e]) <=> Machine(e)!Allows(attempt[e])
        BY DEF AllowsAnother, Machine!Allows
      <3>2. CASE Answer(e) /\ Stage(e)' = "Judged"
        <4>1. Machine(e)!Conclude("answers")
          BY <2>1, <2>2, <3>2 DEF Machine!Conclude, Machine!Into
        <4> QED
          BY <4>1 DEF Machine!Results
      <3>3. CASE TransientFailure(e) /\ Stage(e)' = IF AllowsAnother(attempt[e])
                                                    THEN "Retrying" ELSE "Failed"
        <4>1. Machine(e)!Conclude("transient")
          BY <2>1, <2>2, <3>1, <3>3 DEF Machine!Conclude, Machine!Into
        <4> QED
          BY <4>1 DEF Machine!Results
      <3>4. CASE PermanentFailure(e) /\ Stage(e)' = "Failed"
        <4>1. Machine(e)!Conclude("permanent")
          BY <2>1, <2>2, <3>4 DEF Machine!Conclude, Machine!Into
        <4> QED
          BY <4>1 DEF Machine!Results
      <3> QED
        BY <2>3, <3>2, <3>3, <3>4
    <2> QED
      BY <2>4 DEF Machine!Next
  <1>9. CASE RecordJudged(e)
    <2>1. /\ EndsAs(e, "Judging") /\ Stage(e) = "Judged" /\ Stage(e)' = "Judged"
          /\ attempt' = attempt /\ Write(e, Row("Judged", attempt[e], "none"))
      BY <1>3, <1>9, <1>w DEF RecordJudged, JudgeStage, InFuture
    <2>2. ~Machine(e)!IsRecorded
      BY <2>1, MachineUnrecorded DEF EndsAs, Ends, Row
    <2>3. Row("Judged", attempt[e], "none") \in Rows
      BY <1>r DEF Entries, Lifecycle
    <2> QED
      BY <2>1, <2>2, <2>3, MachineWriteDown
  <1>10. CASE RecordRetrying(e)
    <2>1. /\ EndsAs(e, "Judging") /\ Stage(e) = "Retrying" /\ Stage(e)' = "Retrying"
          /\ attempt' = attempt /\ Write(e, Row("Retrying", attempt[e], "none"))
      BY <1>3, <1>10, <1>w DEF RecordRetrying, JudgeStage, InFuture
    <2>2. ~Machine(e)!IsRecorded
      BY <2>1, MachineUnrecorded DEF EndsAs, Ends, Row
    <2>3. Row("Retrying", attempt[e], "none") \in Rows
      BY <1>r DEF Entries, Lifecycle
    <2> QED
      BY <2>1, <2>2, <2>3, MachineWriteDown
  <1>11. CASE Resume(e)
    <2>1. /\ EndsAs(e, "Retrying") /\ Stage(e) = "Retrying" /\ Stage(e)' = "Judging"
          /\ attempt'[e] = NextAttempt(attempt[e]) /\ rows' = rows
      BY <1>3, <1>11, <1>w DEF Resume, Gate, JudgeStage, InFuture
    <2>2. Machine(e)!IsRecorded
      BY <2>1, MachineRecorded
    <2>3. attempt'[e] = Machine(e)!AfterAttempt(attempt[e])
      BY <2>1 DEF NextAttempt, Machine!AfterAttempt
    <2> QED
      BY <2>1, <2>2, <2>3 DEF Machine!Next, Machine!Resume, Machine!Into
  <1>12. CASE LedgerFailsJudging(e)
    <2>1. Stage(e) # "Gone" /\ Stage(e)' = "Gone" /\ attempt' = attempt /\ rows' = rows
      BY <1>3, <1>12 DEF LedgerFailsJudging, JudgeStage, Recording
    <2> QED
      BY <2>1 DEF Machine!Next, Machine!Drop, Machine!Gone, Machine!Into
  <1> QED
    BY <1>4, <1>5, <1>6, <1>7, <1>8, <1>9, <1>10, <1>11, <1>12 DEF TaskStep


\* An event that is neither in a stepping future nor at hand.
LEMMA MachineRest ==
    ASSUME NEW e \in Events, rows'[e] = rows[e], attempt'[e] = attempt[e],
           phase'[e] = phase[e],
           yielded \in Nat, yielded' \in Nat,
           \/ e > yielded /\ e > yielded'
           \/ /\ e < yielded \/ (e = yielded /\ main = "pull")
              /\ e < yielded' \/ (e = yielded' /\ main' \in {"pull", "done"})
    PROVE  [Machine(e)!Next]_(Machine(e)!vars)
  <1>1. HasRow(e, "Settled")' = HasRow(e, "Settled") /\ HasRow(e, "Failed")' = HasRow(e, "Failed")
    BY DEF HasRow
  <1>2. Stage(e)' = Stage(e)
    <2>1. e \in Nat
      BY BusAssumption DEF Events
    <2>2. CASE e > yielded /\ e > yielded'
      BY <2>2 DEF Stage
    <2>3. CASE ~(e > yielded /\ e > yielded')
      <3>1. ~(e > yielded) /\ ~(e > yielded') /\ Handled(e) /\ Handled(e)'
        BY <2>1, <2>3 DEF Handled
      <3> QED
        BY <1>1, <3>1 DEF Stage
    <2> QED
      BY <2>2, <2>3
  <1> QED
    BY <1>2, MachineStutter

\* The machine of the event that becomes the one at hand: decide.
LEMMA MachineYield ==
    ASSUME TypeInv, WordInv, YieldAborted \/ YieldRouted \/ YieldFailed, NEW e \in Events
    PROVE  [Machine(e)!Next]_(Machine(e)!vars)
  <1> USE BusAssumption DEF TypeInv, TypeOK
  <1>1. /\ main = "pull" /\ yielded' = yielded + 1 /\ yielded + 1 \in Events
        /\ UNCHANGED <<phase, attempt, rows>>
        /\ \/ main' = "stopped" /\ phase[yielded + 1] = "aborted"
           \/ main' = "send" /\ phase[yielded + 1] = "judged"
           \/ main' = "failed" /\ phase[yielded + 1] \in {"judged", "failed"}
    BY DEF YieldAborted, YieldRouted, YieldFailed, TakeHead, HeadReady, taskVars, Events
  <1>2. CASE e # yielded + 1
    <2>1. /\ yielded \in Nat /\ yielded' \in Nat
          /\ (e > yielded /\ e > yielded') \/ ((e < yielded \/ e = yielded) /\ e < yielded')
      BY <1>1, <1>2 DEF Events
    <2> QED
      BY <1>1, <2>1, MachineRest
  <1>3. CASE e = yielded + 1
    <2>1. /\ e > yielded /\ ~(e > yielded)' /\ ~Handled(e)'
      BY <1>1, <1>3 DEF Handled
    <2>2. Stage(e) = JudgeStage(phase[e]) /\ Stage(e)' = LoopStage(main')
      BY <2>1 DEF Stage, LoopStage
    <2>3. phase[e] = "judged" => EndsAs(e, "Judged")
      BY <2>1 DEF WordInv, Placed, InFuture
    <2>4. CASE phase[e] = "judged" /\ main' \in {"send", "failed"}
      <3>1. Stage(e) = "Judged" /\ Stage(e)' \in {"Routed", "Failed"}
        BY <2>2, <2>4 DEF JudgeStage, LoopStage
      <3>2. Machine(e)!IsRecorded
        BY <2>3, <2>4, <3>1, MachineRecorded
      <3> QED
        BY <1>1, <3>1, <3>2 DEF Machine!Next, Machine!Decide, Machine!Into
    <2>5. CASE \/ phase[e] = "aborted" /\ main' = "stopped"
               \/ phase[e] = "failed" /\ main' = "failed"
      <3>1. Stage(e)' = Stage(e)
        BY <2>2, <2>5 DEF JudgeStage, LoopStage
      <3> QED
        BY <1>1, <3>1, MachineStutter
    <2> QED
      BY <1>1, <1>3, <2>4, <2>5
  <1> QED
    BY <1>2, <1>3

\* The machine of the event at hand: settle, the rows of its phases and the
\* rows of the bus's own.
LEMMA MachineDispatch ==
    ASSUME TypeInv, WordInv, MainStep, ~(YieldAborted \/ YieldRouted \/ YieldFailed),
           main \in Holding, NEW e \in Events, e = yielded
    PROVE  [Machine(e)!Next]_(Machine(e)!vars)
  <1> USE BusAssumption DEF TypeInv, TypeOK
  <1>1. UNCHANGED <<yielded, attempt, phase>>
    BY DEF MainStep, Joined, RecordRouted, RecordSettled, RecordFailed, DeadSinkAccepts,
           DeadSinkRefuses, RecordDeadLettered, CallAck, RecordAcknowledged,
           LedgerFailsDispatching, Finish, taskVars
  <1>2. ~(e > yielded) /\ ~(e > yielded)' /\ ~(e < yielded)
    BY <1>1
  <1>3. /\ main \notin {"ack", "acknowledged"} => Stage(e) = LoopStage(main)
        /\ main' \notin {"pull", "ack", "acknowledged", "done"} => Stage(e)' = LoopStage(main')
        /\ main \in {"ack", "acknowledged"} =>
              Stage(e) = IF HasRow(e, "Settled") THEN "Settled"
                         ELSE IF HasRow(e, "Failed") THEN "Failed" ELSE "Gone"
        /\ main' \in {"pull", "ack", "acknowledged"} =>
              Stage(e)' = IF HasRow(e, "Settled")' THEN "Settled"
                          ELSE IF HasRow(e, "Failed")' THEN "Failed" ELSE "Gone"
    BY <1>1, <1>2 DEF Stage, LoopStage, Handled, Holding
  <1>w. Dispatching(e)
    BY DEF WordInv, Placed
  <1>u. UNCHANGED rows => /\ HasRow(e, "Settled")' <=> HasRow(e, "Settled")
                          /\ HasRow(e, "Failed")' <=> HasRow(e, "Failed")
    BY DEF HasRow
  <1>4. CASE Joined \/ DeadSinkAccepts \/ DeadSinkRefuses \/ CallAck
    <2>1. UNCHANGED rows
      BY <1>4 DEF Joined, DeadSinkAccepts, DeadSinkRefuses, CallAck
    <2>2. Stage(e)' = Stage(e)
      BY <1>3, <1>4, <1>u, <2>1 DEF Joined, DeadSinkAccepts, DeadSinkRefuses, CallAck,
                                    LoopStage
    <2> QED
      BY <1>1, <2>1, <2>2, MachineStutter
  <1>5. CASE RecordRouted
    <2> DEFINE row == Row("Routed", audited + 1, outcome[audited + 1])
    <2>1. audited + 1 \in Routes
      BY <1>5 DEF RecordRouted, Control, Routes
    <2>2. row \in Rows /\ row.entry = "Routed"
      BY <1>5, <2>1 DEF RecordRouted, Control, Row, Rows, Entries, Outcomes, Routes
    <2>3. Machine(e)!Annotated
      BY <1>5, <2>2, MachineAnnotated DEF RecordRouted
    <2>4. Stage(e) = "Routed" /\ Stage(e)' \in {"Routed", "Settled"}
      BY <1>3, <1>5 DEF RecordRouted, LoopStage
    <2>5. CASE Stage(e)' = "Routed"
      BY <1>1, <2>3, <2>4, <2>5 DEF Machine!Next, Machine!Annotate
    <2>6. CASE Stage(e)' = "Settled"
      BY <1>1, <2>3, <2>4, <2>6 DEF Machine!Next, Machine!Settle, Machine!IntoBeside
    <2> QED
      BY <2>4, <2>5, <2>6
  <1>6. CASE RecordSettled
    <2> DEFINE row == Row("Settled", 0, "none")
    <2>1. row \in Rows /\ row.entry = "Settled"
      BY DEF Row, Rows, Entries, Lifecycle
    <2>2. Write(e, row) /\ main = "settle" /\ main' = "ack"
      BY <1>6 DEF RecordSettled
    <2>3. HasRow(e, "Settled")' /\ ~HasRow(e, "Settled")
      BY <1>w, <2>1, <2>2, WriteHasRow DEF Dispatching
    <2>4. Stage(e) = "Settled" /\ Stage(e)' = "Settled"
      BY <1>3, <2>2, <2>3 DEF LoopStage
    <2>5. ~Machine(e)!IsRecorded
      BY <2>3, <2>4, MachineUnrecorded
    <2> QED
      BY <1>1, <2>1, <2>2, <2>4, <2>5, MachineWriteDown
  <1>7. CASE RecordFailed
    <2> DEFINE row == Row("Failed", attempt[e], "none")
    <2>1. row \in Rows
      BY DEF Row, Rows, Entries, Lifecycle
    <2>2. Write(e, row) /\ main = "failed" /\ main' \in {"publish", "deadLettered"}
      BY <1>7 DEF RecordFailed
    <2>3. Stage(e) = "Failed" /\ Stage(e)' = "Failed"
      BY <1>3, <2>2 DEF LoopStage
    <2>4. rows[e] # <<>> /\ LastRow(e).entry \in {"Judging", "Judged"}
      BY <1>w, <2>2 DEF Dispatching, EndsAs, Ends, Row
    <2>5. ~Machine(e)!IsRecorded
      BY <2>3, <2>4, MachineUnrecorded
    <2> QED
      BY <1>1, <2>1, <2>2, <2>3, <2>5, MachineWriteDown
  <1>8. CASE RecordDeadLettered
    <2> DEFINE row == Row("DeadLettered", 0, answer)
    <2>1. row \in Rows /\ row.entry = "DeadLettered"
      BY DEF Row, Rows, Entries
    <2>2. Write(e, row) /\ main = "deadLettered" /\ main' = "ack"
      BY <1>8 DEF RecordDeadLettered
    <2>3. HasRow(e, "Failed") /\ ~HasRow(e, "Settled")
      BY <1>w, <2>2 DEF Dispatching, EndsAs, Ends, LastRow, HasRow, Row
    <2>4. HasRow(e, "Failed")' /\ ~HasRow(e, "Settled")'
      BY <2>1, <2>2, <2>3, WriteHasRow
    <2>5. Stage(e) = "Failed" /\ Stage(e)' = "Failed"
      BY <1>3, <2>2, <2>4 DEF LoopStage
    <2>6. Machine(e)!Annotated
      BY <2>1, <2>2, MachineAnnotated
    <2> QED
      BY <1>1, <2>5, <2>6 DEF Machine!Next, Machine!Annotate
  <1>9. CASE RecordAcknowledged
    <2> DEFINE row == Row("Acknowledged", 0, answer)
    <2>1. row \in Rows /\ row.entry = "Acknowledged"
      BY DEF Row, Rows, Entries
    <2>2. Write(e, row) /\ main = "acknowledged" /\ main' = "pull"
      BY <1>9 DEF RecordAcknowledged
    <2>3. /\ HasRow(e, "Settled")' <=> HasRow(e, "Settled")
          /\ HasRow(e, "Failed")' <=> HasRow(e, "Failed")
      BY <2>1, <2>2, WriteHasRow
    <2>4. Stage(e)' = Stage(e)
      BY <1>3, <2>2, <2>3
    <2>5. Machine(e)!Annotated
      BY <2>1, <2>2, MachineAnnotated
    <2> QED
      BY <1>1, <2>4, <2>5 DEF Machine!Next, Machine!Annotate
  <1>10. CASE LedgerFailsDispatching
    <2>1. main' = "stopped" /\ UNCHANGED rows
      BY <1>10 DEF LedgerFailsDispatching
    <2>2. Stage(e)' = "Gone"
      BY <1>3, <2>1 DEF LoopStage
    <2>3. CASE Stage(e) = "Gone"
      BY <1>1, <2>1, <2>2, <2>3, MachineStutter
    <2>4. CASE Stage(e) # "Gone"
      BY <1>1, <2>1, <2>2, <2>4 DEF Machine!Next, Machine!Drop, Machine!Gone, Machine!Into
    <2> QED
      BY <2>3, <2>4
  <1> QED
    BY <1>4, <1>5, <1>6, <1>7, <1>8, <1>9, <1>10 DEF MainStep, Finish, Holding

LEMMA MachineStep ==
    ASSUME TypeInv, WordInv, [Next]_vars, NEW e \in Events
    PROVE  [Machine(e)!Next]_(Machine(e)!vars)
  <1> USE BusAssumption DEF TypeInv, TypeOK
  <1>1. CASE \E f \in Events : TaskStep(f)
    <2>1. PICK f \in Events : TaskStep(f)
      BY <1>1
    <2>2. CASE e = f
      BY <2>1, <2>2, MachineTask
    <2>3. CASE e # f
      <3>1. /\ UNCHANGED <<main, yielded>>
            /\ phase'[e] = phase[e] /\ attempt'[e] = attempt[e]
        BY <2>1, <2>3 DEF TaskStep, Begin, RecordComposed, CooledDown, RecordJudging, Answer,
               TransientFailure, PermanentFailure, RecordJudged, RecordRetrying, Resume,
               LedgerFailsJudging, Gate
      <3>2. rows'[e] = rows[e]
        <4>1. CASE \E row \in Rows : Write(f, row)
          BY <2>3, <4>1, Appended
        <4> QED
          BY <2>1, <4>1, TaskRows
      <3>3. main = "pull"
        BY <2>1, TaskFrame
      <3> QED
        BY <3>1, <3>2, <3>3, MachineRest DEF Events
    <2> QED
      BY <2>2, <2>3
  <1>2. CASE Pull \/ SourceFails
    <2>1. /\ UNCHANGED <<main, yielded, attempt, rows>> /\ main = "pull"
          /\ \A f \in Events : f # pulled + 1 => phase'[f] = phase[f]
          /\ e = pulled + 1 => phase'[e] \in {"aborted", "composing", "fresh"}
      BY <1>2 DEF Pull, SourceFails, CanPull, taskVars
    <2>2. CASE e # pulled + 1
      BY <2>1, <2>2, MachineRest DEF Events
    <2>3. CASE e = pulled + 1
      <3>1. e > yielded /\ (e > yielded)' /\ phase[e] = "waiting"
        BY <2>1, <2>3 DEF WordInv, Placed, Control, Events
      <3>2. Stage(e) = "none" /\ Stage(e)' \in {"none", "Gone"}
        BY <2>1, <2>3, <3>1 DEF Stage, JudgeStage
      <3>3. CASE Stage(e)' = "none"
        BY <2>1, <3>2, <3>3, MachineStutter
      <3>4. CASE Stage(e)' = "Gone"
        BY <2>1, <3>2, <3>4 DEF Machine!Next, Machine!Drop, Machine!Gone, Machine!Into
      <3> QED
        BY <3>2, <3>3, <3>4
    <2> QED
      BY <2>2, <2>3
  <1>3. CASE EndOfInput \/ (\E r \in Routes : Send(r)) \/ Returned \/ UNCHANGED vars
    <2>1. UNCHANGED <<main, yielded, attempt, phase, rows>>
      BY <1>3 DEF EndOfInput, Send, SendNothing, SinkAccepts, SinkRefuses, Returned, vars,
                  taskVars
    <2>2. Stage(e)' = Stage(e)
      BY <2>1 DEF Stage, Handled, HasRow
    <2> QED
      BY <2>1, <2>2, MachineStutter
  <1>4. CASE YieldAborted \/ YieldRouted \/ YieldFailed
    BY <1>4, MachineYield
  <1>5. CASE Finish
    <2>1. main = "pull" /\ main' = "done" /\ UNCHANGED <<yielded, attempt, phase, rows>>
      BY <1>5 DEF Finish, taskVars
    <2> QED
      BY <2>1, MachineRest DEF Events
  <1>6. CASE MainStep /\ ~(YieldAborted \/ YieldRouted \/ YieldFailed \/ Finish)
    <2>1. main \in Holding /\ UNCHANGED <<yielded, attempt, phase>>
      BY <1>6 DEF MainStep, Joined, RecordRouted, RecordSettled, RecordFailed,
           DeadSinkAccepts, DeadSinkRefuses, RecordDeadLettered, CallAck,
           RecordAcknowledged, LedgerFailsDispatching, taskVars, Holding
    <2>2. CASE e = yielded
      BY <1>6, <2>1, <2>2, MachineDispatch
    <2>3. CASE e # yielded
      <3>1. rows'[e] = rows[e]
        <4>1. yielded \in Events
          BY <2>1 DEF Control, Events
        <4>2. CASE \E row \in Rows : Write(yielded, row)
          BY <2>3, <4>1, <4>2, Appended
        <4> QED
          BY <1>6, <4>2, MainRows
      <3> QED
        <4>1. /\ yielded \in Nat /\ yielded' \in Nat
              /\ (e > yielded /\ e > yielded') \/ (e < yielded /\ e < yielded')
          BY <2>1, <2>3 DEF Events
        <4> QED
          BY <2>1, <3>1, <4>1, MachineRest
    <2> QED
      BY <2>2, <2>3
  <1> QED
    BY <1>1, <1>2, <1>3, <1>4, <1>5, <1>6 DEF Next, MainStep

\* The run walks every event through the machine of lifecycle.rs: each phase
\* is recorded once before it is left, and an event is retried only within
\* the budget.
THEOREM RunImplementsLifecycle == Spec => ImplementsLifecycle
  <1>1. ASSUME Init, NEW e \in Events PROVE Machine(e)!Init
    BY <1>1, BusAssumption
       DEF Init, Machine!Init, Machine!First, Stage, JudgeStage, Events
  <1>2. Init => \A e \in Events : Machine(e)!Init
    BY <1>1
  <1>3. TypeInv /\ WordInv /\ [Next]_vars =>
           [\A e \in Events : [Machine(e)!Next]_(Machine(e)!vars)]_vars
    BY MachineStep
  <1>4. Spec => /\ \A e \in Events : Machine(e)!Init
                /\ [][\A e \in Events : [Machine(e)!Next]_(Machine(e)!vars)]_vars
    BY TypeInit, TypeStep, RowInit, RowStep, WordInit, WordStep, <1>2, <1>3, PTL DEF Spec
  <1> QED
    BY <1>4 DEF ImplementsLifecycle
=============================================================================
