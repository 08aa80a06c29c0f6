--------------------------- MODULE BusTrailProofs ---------------------------
(***************************************************************************)
(* What sinks, ledger and acknowledgements say of one event is the same    *)
(* story, and the run as a whole is the sequential consumer of             *)
(* BusContract: theorems for every value of the constants.                 *)
(***************************************************************************)
EXTENDS BusProofs

-----------------------------------------------------------------------------
(* Rows and sinks.                                                         *)

LEMMA WriteIn ==
    ASSUME rows \in [Events -> Seq(Rows)],
           NEW e \in Events, NEW row \in Rows, Write(e, row),
           NEW f \in Events, NEW x
    PROVE  In(x, rows'[f]) <=> In(x, rows[f]) \/ (f = e /\ x = row)
  <1>1. CASE f # e
    BY <1>1 DEF Write
  <1>2. CASE f = e
    <2>1. rows'[f] = Append(rows[f], row) /\ rows[f] \in Seq(Rows)
      BY <1>2 DEF Write
    <2>2. In(x, Append(rows[f], row)) <=> In(x, rows[f]) \/ x = row
      BY <2>1, AppendIn
    <2> QED
      BY <1>2, <2>1, <2>2
  <1> QED
    BY <1>1, <1>2

\* A sink is a route's deliver or review sink, or the dead-letter sink.
Said(d) == IF d = "Deliver" THEN "Delivered" ELSE "Reviewed"
Doors   == {"Deliver", "Review"}

LEMMA SinkKinds ==
    /\ \A s \in Sinks : s = DeadSink \/ \E d \in Doors, r \in Routes : s = <<d, r>>
    /\ \A d \in Doors, r \in Routes : <<d, r>> \in Sinks /\ <<d, r>> # DeadSink
    /\ DeadSink \in Sinks
  BY DEF Sinks, DeadSink, Doors

LEMMA AcceptedRows ==
    /\ \A d \in Doors : \A r : AcceptedRow(<<d, r>>) = Row("Routed", r, Said(d))
    /\ AcceptedRow(DeadSink) = Row("DeadLettered", 0, "Delivered")
  BY DEF AcceptedRow, DeadSink, Doors, Said

LEMMA AcceptedEntries ==
    \A s \in Sinks : AcceptedRow(s).entry \in {"Routed", "DeadLettered"}
  <1>1. \A n, result : /\ Row("Routed", n, result).entry = "Routed"
                       /\ Row("DeadLettered", n, result).entry = "DeadLettered"
    BY DEF Row
  <1> TAKE s \in Sinks
  <1>2. CASE s = DeadSink
    BY <1>1, <1>2, AcceptedRows
  <1>3. CASE \E d \in Doors, r \in Routes : s = <<d, r>>
    <2>1. PICK d \in Doors, r \in Routes : s = <<d, r>>
      BY <1>3
    <2>2. AcceptedRow(s) = Row("Routed", r, Said(d))
      BY <2>1, AcceptedRows
    <2> QED
      BY <1>1, <2>2
  <1> QED
    BY <1>2, <1>3, SinkKinds

\* No other row speaks of a sink.
LEMMA OtherRows ==
    ASSUME NEW entry, entry \notin {"Routed", "DeadLettered"}, NEW n, NEW result
    PROVE  \A s \in Sinks : AcceptedRow(s) # Row(entry, n, result)
  <1>1. Row(entry, n, result).entry = entry
    BY DEF Row
  <1> QED
    BY <1>1, AcceptedEntries

LEMMA RowFields ==
    ASSUME NEW a, NEW b, NEW c, NEW x, NEW y, NEW z, Row(a, b, c) = Row(x, y, z)
    PROVE  a = x /\ b = y /\ c = z
  BY DEF Row

-----------------------------------------------------------------------------
(* The inductive invariant: what sinks and ledger say of each event, by    *)
(* the place of the main loop.  An event past is told alike by both, an    *)
(* event to come by neither; of the event at hand, `outcome` and `audited` *)
(* say how far its sinks and its rows are.                                 *)

Alike(e)     == \A s \in Sinks : RowOf(s, e) <=> In(e, taken[s])
Untouched(e) == \A s \in Sinks : ~RowOf(s, e) /\ ~In(e, taken[s])
Past(e)      == \/ e < yielded
                \/ e = yielded /\ main \in {"pull", "settle", "ack", "acknowledged", "done"}

Offered ==
    /\ \A d \in Doors, r \in Routes :
          /\ In(yielded, taken[<<d, r>>]) <=> outcome[r] = Said(d)
          /\ RowOf(<<d, r>>, yielded) <=> r <= audited /\ outcome[r] = Said(d)
    /\ ~RowOf(DeadSink, yielded) /\ ~In(yielded, taken[DeadSink])

DeadLettering ==
    \A s \in Sinks : /\ ~RowOf(s, yielded)
                     /\ In(yielded, taken[s]) <=> s = DeadSink /\ answer = "Delivered"

TrailInv ==
    /\ \A e \in Events : e > yielded => Untouched(e)
    /\ \A e \in Events : Past(e) => Alike(e)
    /\ main \in {"send", "routed"} => Offered
    /\ main \in {"failed", "publish"} => Untouched(yielded)
    /\ main = "deadLettered" => DeadLettering
    /\ main = "stopped" =>
          \A e \in Events, s \in Sinks : e = yielded /\ RowOf(s, e) => In(e, taken[s])

LEMMA TrailInit == Init => TrailInv
  <1> SUFFICES ASSUME Init PROVE TrailInv
    OBVIOUS
  <1>1. \A e \in Events : Untouched(e)
    BY DEF Init, Untouched, RowOf, In
  <1>2. yielded = 0 /\ main \in {"pull", "done"} /\ 0 \notin Events
    BY BusAssumption DEF Init, Events
  <1> QED
    BY <1>1, <1>2 DEF TrailInv, Untouched, Alike, Past

\* A step that leaves sinks, the event at hand and the rows about sinks alone.
LEMMA SameStory ==
    ASSUME TrailInv, UNCHANGED <<taken, main, yielded, outcome, audited, answer>>,
           \A s \in Sinks, e \in Events : RowOf(s, e)' <=> RowOf(s, e),
           main \in Holding => yielded \in Events
    PROVE  TrailInv'
  <1>1. \A e \in Events : /\ Untouched(e)' <=> Untouched(e)
                          /\ Alike(e)' <=> Alike(e)
                          /\ Past(e)' <=> Past(e)
    BY DEF Untouched, Alike, Past
  <1>2. main \in {"send", "routed"} => Offered'
    BY SinkKinds DEF TrailInv, Offered, Holding
  <1>3. main = "deadLettered" => DeadLettering'
    BY DEF TrailInv, DeadLettering, Holding
  <1>4. main \in {"failed", "publish"} => Untouched(yielded)'
    BY <1>1 DEF TrailInv, Holding, Untouched
  <1> QED
    BY <1>1, <1>2, <1>3, <1>4 DEF TrailInv

\* A row of the judge phase is about no sink.
LEMMA TaskStory ==
    ASSUME TypeInv, NEW f \in Events, TaskStep(f)
    PROVE  \A s \in Sinks, e \in Events : RowOf(s, e)' <=> RowOf(s, e)
  <1> USE DEF TypeInv, TypeOK
  <1>1. CASE UNCHANGED rows
    BY <1>1 DEF RowOf
  <1>2. CASE \E row \in Rows : row.entry \in JudgeEntries /\ Write(f, row)
    <2>1. PICK row \in Rows : row.entry \in JudgeEntries /\ Write(f, row)
      BY <1>2
    <2>2. \A s \in Sinks : AcceptedRow(s).entry \notin JudgeEntries
      BY AcceptedEntries DEF JudgeEntries
    <2>3. \A s \in Sinks : AcceptedRow(s) # row
      BY <2>1, <2>2
    <2> QED
      BY <2>1, <2>3, WriteIn DEF RowOf
  <1> QED
    BY <1>1, <1>2, TaskRows

\* A sink that accepts the event at hand tells of it, and of nothing else.
LEMMA TakenAppend ==
    ASSUME taken \in [Sinks -> Seq(Events)], yielded \in Events, NEW t \in Sinks,
           taken' = [taken EXCEPT ![t] = Append(@, yielded)],
           NEW s \in Sinks, NEW e \in Events
    PROVE  In(e, taken'[s]) <=> In(e, taken[s]) \/ (s = t /\ e = yielded)
  <1>1. CASE s # t
    BY <1>1
  <1>2. CASE s = t
    <2>1. taken'[s] = Append(taken[s], yielded) /\ taken[s] \in Seq(Events)
      BY <1>2
    <2>2. In(e, Append(taken[s], yielded)) <=> In(e, taken[s]) \/ e = yielded
      BY <2>1, AppendIn
    <2> QED
      BY <1>2, <2>1, <2>2
  <1> QED
    BY <1>1, <1>2

LEMMA TrailSend ==
    ASSUME TypeInv, TrailInv, NEW r \in Routes, Send(r)
    PROVE  TrailInv'
  <1> USE DEF TypeInv, TypeOK
  <1>1. /\ main = "send" /\ UNCHANGED <<main, yielded, audited, answer, rows>>
        /\ yielded \in Events /\ audited = 0
    BY BusAssumption DEF Send, SendNothing, SinkAccepts, SinkRefuses, worldVars, Control,
                         Holding, Events
  <1>2. \A s \in Sinks, e \in Events : RowOf(s, e)' <=> RowOf(s, e)
    BY <1>1 DEF RowOf
  <1>3. /\ \A s \in Sinks, e \in Events : e # yielded =>
              (In(e, taken[s])' <=> In(e, taken[s]))
        /\ \A d \in Doors, q \in Routes :
              In(yielded, taken[<<d, q>>])' <=> (outcome[q] = Said(d))'
        /\ In(yielded, taken[DeadSink])' <=> In(yielded, taken[DeadSink])
    <2>1. CASE SendNothing(r) \/ SinkRefuses(r)
      <3>1. UNCHANGED taken
        BY <2>1 DEF SendNothing, SinkRefuses, worldVars
      <3>2. \A d \in Doors : outcome[r] # Said(d) /\ outcome'[r] # Said(d)
        BY <2>1 DEF SendNothing, SinkRefuses, Doors, Said
      <3>3. \A q \in Routes : q # r => outcome'[q] = outcome[q]
        BY <2>1 DEF SendNothing, SinkRefuses
      <3> QED
        BY <1>1, <3>1, <3>2, <3>3 DEF TrailInv, Offered
    <2>2. CASE SinkAccepts(r)
      <3>1. verdict[r] \in Doors /\ outcome[r] = "pending"
        BY <2>2 DEF SinkAccepts, NeedsNoSink, Dispositions, Doors
      <3>2. <<verdict[r], r>> \in Sinks /\ <<verdict[r], r>> # DeadSink
        BY <3>1, SinkKinds
      <3>3. \A s \in Sinks, e \in Events :
               In(e, taken'[s]) <=> In(e, taken[s]) \/ (s = <<verdict[r], r>> /\ e = yielded)
        BY <2>2, <1>1, <3>2, TakenAppend DEF SinkAccepts
      <3>4. \A q \in Routes : q # r => outcome'[q] = outcome[q]
        BY <2>2 DEF SinkAccepts
      <3>5. outcome'[r] = Said(verdict[r])
        BY <2>2, <3>1 DEF SinkAccepts, Said, Doors
      <3>6. \A d \in Doors : outcome[r] # Said(d) /\ (d # verdict[r] => Said(d) # Said(verdict[r]))
        BY <3>1 DEF Said, Doors
      <3>7. \A d \in Doors, q \in Routes : In(yielded, taken[<<d, q>>]) <=> outcome[q] = Said(d)
        BY <1>1 DEF TrailInv, Offered
      <3>8. \A d \in Doors, q \in Routes :
               In(yielded, taken'[<<d, q>>]) <=> outcome'[q] = Said(d)
        <4> TAKE d \in Doors, q \in Routes
        <4>1. <<d, q>> \in Sinks
          BY SinkKinds
        <4>2. In(yielded, taken'[<<d, q>>]) <=> In(yielded, taken[<<d, q>>])
                                                 \/ (d = verdict[r] /\ q = r)
          BY <1>1, <3>3, <4>1
        <4> QED
          BY <3>1, <3>4, <3>5, <3>6, <3>7, <4>2
      <3>9. In(yielded, taken'[DeadSink]) <=> In(yielded, taken[DeadSink])
        BY <1>1, <3>2, <3>3, SinkKinds
      <3> QED
        BY <1>1, <3>3, <3>8, <3>9
    <2> QED
      BY <2>1, <2>2 DEF Send
  <1>4. \A e \in Events : e # yielded =>
              /\ Untouched(e)' <=> Untouched(e)
              /\ Alike(e)' <=> Alike(e)
              /\ Past(e)' <=> Past(e)
    BY <1>1, <1>2, <1>3 DEF Untouched, Alike, Past
  <1>5. Offered'
    <2>1. \A d \in Doors, q \in Routes : ~(q <= audited) /\ ~RowOf(<<d, q>>, yielded)'
      <3> TAKE d \in Doors, q \in Routes
      <3>1. ~(q <= audited)
        BY <1>1 DEF Routes
      <3>2. ~RowOf(<<d, q>>, yielded)
        BY <1>1, <3>1 DEF TrailInv, Offered
      <3> QED
        BY <1>1, <1>2, <3>1, <3>2, SinkKinds
    <2>2. ~RowOf(DeadSink, yielded)'
      BY <1>1, <1>2, SinkKinds DEF TrailInv, Offered
    <2> QED
      BY <1>1, <1>3, <2>1, <2>2 DEF TrailInv, Offered
  <1>6. ~Past(yielded)'
    BY <1>1 DEF Past, Events
  <1> QED
    BY <1>1, <1>4, <1>5, <1>6 DEF TrailInv, Events

\* A row of the main loop tells of the event at hand, and of nothing else.
LEMMA WriteStory ==
    ASSUME TypeInv, yielded \in Events, NEW row \in Rows, Write(yielded, row),
           NEW s \in Sinks, NEW e \in Events
    PROVE  RowOf(s, e)' <=> RowOf(s, e) \/ (e = yielded /\ AcceptedRow(s) = row)
  BY WriteIn DEF RowOf, TypeInv, TypeOK

\* What is left to show when the event at hand stays the same.
LEMMA AtHandOnly ==
    ASSUME TypeInv, TrailInv, UNCHANGED yielded, yielded \in Events,
           main \notin {"pull", "done", "stopped"},
           \A s \in Sinks, e \in Events : e # yielded =>
              /\ RowOf(s, e)' <=> RowOf(s, e)
              /\ In(e, taken'[s]) <=> In(e, taken[s]),
           main' \in {"pull", "settle", "ack", "acknowledged", "done"} => Alike(yielded)',
           main' \in {"send", "routed"} => Offered',
           main' \in {"failed", "publish"} => Untouched(yielded)',
           main' = "deadLettered" => DeadLettering',
           main' = "stopped" =>
              \A s \in Sinks : RowOf(s, yielded)' => In(yielded, taken'[s])
    PROVE  TrailInv'
  <1> USE DEF TypeInv, TypeOK
  <1>1. \A e \in Events : e # yielded =>
              /\ Untouched(e)' <=> Untouched(e)
              /\ Alike(e)' <=> Alike(e)
              /\ Past(e)' <=> e < yielded
    BY DEF Untouched, Alike, Past
  <1>2. \A e \in Events : e < yielded => Past(e) /\ e # yielded
    BY DEF Past, Events
  <1>3. Past(yielded)' => Alike(yielded)'
    BY DEF Past, Events
  <1>4. \A e \in Events : (e > yielded)' => Untouched(e)'
    BY <1>1 DEF TrailInv, Events
  <1>5. \A e \in Events : Past(e)' => Alike(e)'
    BY <1>1, <1>2, <1>3 DEF TrailInv
  <1> QED
    BY <1>4, <1>5 DEF TrailInv

LEMMA TrailYield ==
    ASSUME TypeInv, TrailInv, YieldAborted \/ YieldRouted \/ YieldFailed
    PROVE  TrailInv'
  <1> USE DEF TypeInv, TypeOK
  <1>1. /\ main = "pull" /\ yielded' = yielded + 1 /\ UNCHANGED <<taken, rows>>
        /\ main' \in {"stopped", "send", "failed"}
        /\ yielded' \in Events
    BY BusAssumption DEF YieldAborted, YieldRouted, YieldFailed, TakeHead, HeadReady,
                         worldVars, Events
  <1>2. \A s \in Sinks, e \in Events : RowOf(s, e)' <=> RowOf(s, e)
    BY <1>1 DEF RowOf
  <1>3. \A e \in Events : /\ Untouched(e)' <=> Untouched(e)
                          /\ Alike(e)' <=> Alike(e)
    BY <1>1, <1>2 DEF Untouched, Alike
  <1>4. Untouched(yielded')
    BY <1>1 DEF TrailInv
  <1>5. Untouched(yielded)'
    BY <1>1, <1>3, <1>4
  <1>6. \A e \in Events : Past(e)' => Past(e)
    BY <1>1, BusAssumption DEF Past, Events
  <1>7. main' = "send" => Offered'
    <2> SUFFICES ASSUME main' = "send" PROVE Offered'
      OBVIOUS
    <2>1. \A q \in Routes : outcome'[q] = "pending"
      BY <1>1 DEF YieldAborted, YieldRouted, YieldFailed
    <2> QED
      BY <1>5, <2>1, SinkKinds DEF Untouched, Offered, Said
  <1>8. \A e \in Events : (e > yielded)' => Untouched(e)'
    BY <1>1, <1>3, BusAssumption DEF TrailInv, Events
  <1>9. \A e \in Events : Past(e)' => Alike(e)'
    BY <1>3, <1>6 DEF TrailInv
  <1> QED
    BY <1>1, <1>5, <1>7, <1>8, <1>9 DEF TrailInv, Untouched

\* The steps of a dispatch that write no row.
LEMMA TrailQuiet ==
    ASSUME TypeInv, TrailInv,
           \/ Joined \/ DeadSinkAccepts \/ DeadSinkRefuses \/ CallAck
           \/ LedgerFailsDispatching
    PROVE  TrailInv'
  <1> USE DEF TypeInv, TypeOK
  <1>1. /\ UNCHANGED <<yielded, rows, outcome, audited>> /\ main \in Holding
        /\ yielded \in Events
    BY BusAssumption DEF Joined, DeadSinkAccepts, DeadSinkRefuses, CallAck,
                         LedgerFailsDispatching, handVars, Control, Holding, Events
  <1>2. \A s \in Sinks, e \in Events : RowOf(s, e)' <=> RowOf(s, e)
    BY <1>1 DEF RowOf
  <1>3. main \notin {"pull", "done", "stopped"}
    BY <1>1 DEF Holding
  <1>4. CASE DeadSinkAccepts
    <2>1. \A s \in Sinks, e \in Events :
             In(e, taken'[s]) <=> In(e, taken[s]) \/ (s = DeadSink /\ e = yielded)
      BY <1>1, <1>4, SinkKinds, TakenAppend DEF DeadSinkAccepts
    <2>2. main' = "deadLettered" /\ answer' = "Delivered" /\ Untouched(yielded)
      BY <1>4 DEF DeadSinkAccepts, TrailInv
    <2>3. DeadLettering'
      BY <1>1, <1>2, <2>1, <2>2 DEF Untouched, DeadLettering
    <2> QED
      BY <1>1, <1>2, <1>3, <2>1, <2>2, <2>3, AtHandOnly
  <1>5. CASE ~DeadSinkAccepts
    <2>1. UNCHANGED taken
      BY <1>5 DEF Joined, DeadSinkRefuses, CallAck, LedgerFailsDispatching, worldVars
    <2>2. \A e \in Events : /\ Untouched(e)' <=> Untouched(e)
                            /\ Alike(e)' <=> Alike(e)
      BY <1>2, <2>1 DEF Untouched, Alike
    <2>3. CASE Joined
      <3>1. Offered /\ main' = "routed"
        BY <2>3 DEF Joined, TrailInv
      <3>2. Offered'
        BY <1>1, <1>2, <2>1, <3>1, SinkKinds DEF Offered
      <3> QED
        BY <1>1, <1>2, <1>3, <2>1, <3>1, <3>2, AtHandOnly
    <2>4. CASE DeadSinkRefuses
      <3>1. Untouched(yielded) /\ main' = "deadLettered" /\ answer' # "Delivered"
        BY <2>4 DEF DeadSinkRefuses, TrailInv
      <3>2. DeadLettering'
        BY <1>1, <1>2, <2>1, <3>1 DEF Untouched, DeadLettering
      <3> QED
        BY <1>1, <1>2, <1>3, <2>1, <3>1, <3>2, AtHandOnly
    <2>5. CASE CallAck
      <3>1. Alike(yielded) /\ main' = "acknowledged"
        BY <1>1, <2>5 DEF CallAck, TrailInv, Past
      <3> QED
        BY <1>1, <1>2, <1>3, <2>1, <2>2, <3>1, AtHandOnly
    <2>6. CASE LedgerFailsDispatching
      <3>1. main' = "stopped"
        BY <2>6 DEF LedgerFailsDispatching
      <3>2. \A s \in Sinks : RowOf(s, yielded) => In(yielded, taken[s])
        <4>1. CASE main = "routed"
          <5>1. Offered
            BY <4>1 DEF TrailInv
          <5>2. \A d \in Doors, r \in Routes :
                   RowOf(<<d, r>>, yielded) => In(yielded, taken[<<d, r>>])
            BY <5>1 DEF Offered
          <5>3. ~RowOf(DeadSink, yielded)
            BY <5>1 DEF Offered
          <5> TAKE s \in Sinks
          <5>4. s = DeadSink \/ \E d \in Doors, r \in Routes : s = <<d, r>>
            BY SinkKinds
          <5> QED
            BY <5>2, <5>3, <5>4, Zenon
        <4>2. CASE main \in {"settle", "acknowledged"}
          BY <1>1, <4>2 DEF TrailInv, Past, Alike
        <4>3. CASE main = "failed"
          BY <4>3 DEF TrailInv, Untouched
        <4>4. CASE main = "deadLettered"
          BY <4>4 DEF TrailInv, DeadLettering
        <4> QED
          BY <2>6, <4>1, <4>2, <4>3, <4>4 DEF LedgerFailsDispatching
      <3> QED
        BY <1>1, <1>2, <1>3, <2>1, <3>1, <3>2, AtHandOnly
    <2> QED
      BY <1>5, <2>3, <2>4, <2>5, <2>6
  <1> QED
    BY <1>4, <1>5

\* The steps of a dispatch that write one.
LEMMA TrailRecord ==
    ASSUME TypeInv, TrailInv,
           \/ RecordRouted \/ RecordSettled \/ RecordFailed \/ RecordDeadLettered
           \/ RecordAcknowledged
    PROVE  TrailInv'
  <1> USE DEF TypeInv, TypeOK
  <1>1. /\ UNCHANGED <<yielded, taken, outcome>> /\ main \in Holding
        /\ yielded \in Events
    BY BusAssumption DEF RecordRouted, RecordSettled, RecordFailed, RecordDeadLettered,
                         RecordAcknowledged, handVars, worldVars, Control, Holding, Events
  <1>2. main \notin {"pull", "done", "stopped"}
    BY <1>1 DEF Holding
  <1>3. ASSUME NEW row \in Rows, Write(yielded, row)
        PROVE  /\ \A s \in Sinks, e \in Events : e # yielded => (RowOf(s, e)' <=> RowOf(s, e))
               /\ \A s \in Sinks :
                     RowOf(s, yielded)' <=> RowOf(s, yielded) \/ AcceptedRow(s) = row
    BY <1>1, <1>3, WriteStory
  <1>4. CASE RecordRouted
    <2> DEFINE row == Row("Routed", audited + 1, outcome[audited + 1])
    <2>1. audited + 1 \in Routes /\ row \in Rows
      BY <1>4, BusAssumption DEF RecordRouted, Control, Row, Rows, Entries, Outcomes, Routes
    <2>2. \A s \in Sinks : RowOf(s, yielded)' <=> RowOf(s, yielded) \/ AcceptedRow(s) = row
      BY <1>3, <1>4, <2>1 DEF RecordRouted
    <2>3. \A s \in Sinks, e \in Events : e # yielded => (RowOf(s, e)' <=> RowOf(s, e))
      BY <1>3, <1>4, <2>1 DEF RecordRouted
    <2>4. Offered /\ audited' = audited + 1
      BY <1>4 DEF RecordRouted, TrailInv
    <2>5. \A d \in Doors, r \in Routes :
             AcceptedRow(<<d, r>>) = row <=> r = audited + 1 /\ outcome[r] = Said(d)
      <3> TAKE d \in Doors, r \in Routes
      <3>1. AcceptedRow(<<d, r>>) = Row("Routed", r, Said(d))
        BY AcceptedRows
      <3>2. CASE r = audited + 1 /\ outcome[r] = Said(d)
        BY <3>1, <3>2
      <3>3. CASE AcceptedRow(<<d, r>>) = row
        BY <3>1, <3>3, RowFields
      <3> QED
        BY <3>2, <3>3
    <2>6. AcceptedRow(DeadSink) # row
      BY AcceptedRows, RowFields
    <2>7. Offered'
      <3>1. \A d \in Doors, r \in Routes :
               RowOf(<<d, r>>, yielded)' <=> r <= audited' /\ outcome[r] = Said(d)
        <4> TAKE d \in Doors, r \in Routes
        <4>1. RowOf(<<d, r>>, yielded)' <=> RowOf(<<d, r>>, yielded)
                                             \/ AcceptedRow(<<d, r>>) = row
          BY <2>2, SinkKinds
        <4>2. RowOf(<<d, r>>, yielded) <=> r <= audited /\ outcome[r] = Said(d)
          BY <2>4 DEF Offered
        <4>3. AcceptedRow(<<d, r>>) = row <=> r = audited + 1 /\ outcome[r] = Said(d)
          BY <2>5
        <4>4. r <= audited' <=> r <= audited \/ r = audited + 1
          BY <2>1, <2>4, BusAssumption DEF Routes
        <4> QED
          BY <4>1, <4>2, <4>3, <4>4
      <3> QED
        BY <1>1, <2>2, <2>4, <2>6, <3>1, SinkKinds DEF Offered
    <2>8. main' \in {"routed", "settle"} /\ (main' = "settle" => audited' = NumRoutes)
      BY <1>4 DEF RecordRouted
    <2>9. main' = "settle" => Alike(yielded)'
      BY <1>1, <2>7, <2>8, SinkKinds, BusAssumption DEF Offered, Alike, Routes
    <2> QED
      BY <1>1, <1>2, <2>3, <2>7, <2>8, <2>9, AtHandOnly
  <1>5. CASE RecordSettled
    <2>1. Row("Settled", 0, "none") \in Rows
      BY DEF Row, Rows, Entries, Lifecycle
    <2>2. \A s \in Sinks : AcceptedRow(s) # Row("Settled", 0, "none")
      BY OtherRows
    <2>3. Alike(yielded) /\ main' = "ack" /\ Write(yielded, Row("Settled", 0, "none"))
      BY <1>1, <1>5 DEF RecordSettled, TrailInv, Past
    <2>4. Alike(yielded)'
      BY <1>1, <1>3, <2>1, <2>2, <2>3 DEF Alike
    <2> QED
      BY <1>1, <1>2, <1>3, <2>1, <2>3, <2>4, AtHandOnly
  <1>6. CASE RecordFailed
    <2> DEFINE row == Row("Failed", attempt[yielded], "none")
    <2>1. row \in Rows
      BY <1>1 DEF Row, Rows, Entries, Lifecycle
    <2>2. \A s \in Sinks : AcceptedRow(s) # row
      BY OtherRows
    <2>3. /\ Untouched(yielded) /\ main' \in {"publish", "deadLettered"}
          /\ answer' # "Delivered" /\ Write(yielded, row)
      BY <1>6 DEF RecordFailed, TrailInv
    <2>4. Untouched(yielded)'
      BY <1>1, <1>3, <2>1, <2>2, <2>3 DEF Untouched
    <2>5. DeadLettering'
      BY <2>3, <2>4 DEF Untouched, DeadLettering
    <2> QED
      BY <1>1, <1>2, <1>3, <2>1, <2>3, <2>4, <2>5, AtHandOnly
  <1>7. CASE RecordDeadLettered
    <2> DEFINE row == Row("DeadLettered", 0, answer)
    <2>1. row \in Rows
      BY DEF Row, Rows, Entries
    <2>2. \A s \in Sinks : AcceptedRow(s) = row <=> s = DeadSink /\ answer = "Delivered"
      BY SinkKinds, AcceptedRows, RowFields
    <2>3. DeadLettering /\ main' = "ack" /\ Write(yielded, row)
      BY <1>7 DEF RecordDeadLettered, TrailInv
    <2>4. Alike(yielded)'
      BY <1>1, <1>3, <2>1, <2>2, <2>3 DEF DeadLettering, Alike
    <2> QED
      BY <1>1, <1>2, <1>3, <2>1, <2>3, <2>4, AtHandOnly
  <1>8. CASE RecordAcknowledged
    <2> DEFINE row == Row("Acknowledged", 0, answer)
    <2>1. row \in Rows
      BY DEF Row, Rows, Entries
    <2>2. \A s \in Sinks : AcceptedRow(s) # row
      BY OtherRows
    <2>3. Alike(yielded) /\ main' = "pull" /\ Write(yielded, row)
      BY <1>1, <1>8 DEF RecordAcknowledged, TrailInv, Past
    <2>4. Alike(yielded)'
      BY <1>1, <1>3, <2>1, <2>2, <2>3 DEF Alike
    <2> QED
      BY <1>1, <1>2, <1>3, <2>1, <2>3, <2>4, AtHandOnly
  <1> QED
    BY <1>4, <1>5, <1>6, <1>7, <1>8


LEMMA TrailStep == TypeInv /\ TrailInv /\ [Next]_vars => TrailInv'
  <1> SUFFICES ASSUME TypeInv, TrailInv, [Next]_vars PROVE TrailInv'
    OBVIOUS
  <1>h. main \in Holding => yielded \in Events
    BY BusAssumption DEF TypeInv, TypeOK, Control, Events
  <1>1. CASE Pull \/ EndOfInput \/ SourceFails \/ Returned \/ UNCHANGED vars
    <2>1. UNCHANGED <<taken, main, yielded, outcome, audited, answer, rows>>
      BY <1>1 DEF Pull, EndOfInput, SourceFails, Returned, vars, handVars, worldVars
    <2>2. \A s \in Sinks, e \in Events : RowOf(s, e)' <=> RowOf(s, e)
      BY <2>1 DEF RowOf
    <2> QED
      BY <1>h, <2>1, <2>2, SameStory
  <1>2. CASE \E f \in Events : TaskStep(f)
    <2>1. PICK f \in Events : TaskStep(f)
      BY <1>2
    <2>2. UNCHANGED <<taken, main, yielded, outcome, audited, answer>>
      BY <2>1 DEF TaskStep, Begin, RecordComposed, CooledDown, RecordJudging, Answer,
                  TransientFailure, PermanentFailure, RecordJudged, RecordRetrying,
                  Resume, LedgerFailsJudging, handVars, worldVars
    <2> QED
      BY <1>h, <2>1, <2>2, TaskStory, SameStory
  <1>3. CASE Finish
    <2>1. /\ main = "pull" /\ main' = "done"
          /\ UNCHANGED <<taken, yielded, rows>>
      BY <1>3 DEF Finish, worldVars
    <2>2. \A e \in Events : /\ Untouched(e)' <=> Untouched(e)
                            /\ Alike(e)' <=> Alike(e)
                            /\ Past(e)' <=> Past(e)
      BY <2>1 DEF Untouched, Alike, Past, RowOf
    <2> QED
      BY <2>1, <2>2 DEF TrailInv
  <1> QED
    BY <1>1, <1>2, <1>3, TrailSend, TrailYield, TrailQuiet, TrailRecord DEF Next, MainStep

\* A sink accepted an event exactly when the ledger says so, but for the
\* event being dispatched.
THEOREM AuditTrailHolds == Spec => []AuditTrail
  <1>1. TypeInv /\ TrailInv => AuditTrail
    <2> SUFFICES ASSUME TypeInv, TrailInv, NEW s \in Sinks, NEW e \in Events
                 PROVE  /\ RowOf(s, e) => In(e, taken[s])
                        /\ In(e, taken[s]) => RowOf(s, e) \/ AtHand(e)
      BY DEF AuditTrail
    <2>1. CASE e > yielded
      BY <2>1 DEF TrailInv, Untouched
    <2>2. CASE Past(e)
      BY <2>2 DEF TrailInv, Alike
    <2>3. CASE e = yielded /\ ~Past(e)
      <3>1. main \in {"send", "routed", "failed", "publish", "deadLettered", "stopped"}
        BY <2>3 DEF Past, TypeInv, TypeOK, Mains, Terminal
      <3>2. RowOf(s, e) => In(e, taken[s])
        <4>1. CASE main \in {"send", "routed"}
          <5>1. Offered
            BY <4>1 DEF TrailInv
          <5>2. CASE s = DeadSink
            BY <2>3, <5>1, <5>2 DEF Offered
          <5>3. CASE \E d \in Doors, r \in Routes : s = <<d, r>>
            <6>1. PICK d \in Doors, r \in Routes : s = <<d, r>>
              BY <5>3
            <6> QED
              BY <2>3, <5>1, <6>1 DEF Offered
          <5> QED
            BY <5>2, <5>3, SinkKinds
        <4>2. CASE main \in {"failed", "publish"}
          BY <2>3, <4>2 DEF TrailInv, Untouched
        <4>3. CASE main = "deadLettered"
          BY <2>3, <4>3 DEF TrailInv, DeadLettering
        <4>4. CASE main = "stopped"
          BY <2>3, <4>4 DEF TrailInv
        <4> QED
          BY <3>1, <4>1, <4>2, <4>3, <4>4
      <3> QED
        BY <2>3, <3>1, <3>2 DEF AtHand
    <2> QED
      BY <2>1, <2>2, <2>3, BusAssumption DEF Past, Events, TypeInv, TypeOK
  <1> QED
    BY TypeInit, TypeStep, TrailInit, TrailStep, <1>1, PTL DEF Spec


-----------------------------------------------------------------------------
(* The acknowledgements and their rows.                                    *)

\* Of the events before the one at hand, all have their Acknowledged row; of
\* the one at hand, the place of the main loop says whether it has.
AckTrailInv ==
    /\ \A e \in Events : e < yielded => HasRow(e, "Acknowledged")
    /\ \A e \in Events : e > yielded => ~HasRow(e, "Acknowledged")
    /\ yielded \in Events =>
          /\ main \in {"pull", "done"} => HasRow(yielded, "Acknowledged")
          /\ main \notin {"pull", "done"} => ~HasRow(yielded, "Acknowledged")
    /\ main = "done" /\ NumRoutes > 0 => yielded = pulled

LEMMA AckTrailInit == Init => AckTrailInv
  BY BusAssumption DEF Init, AckTrailInv, HasRow, Events

\* Only RecordAcknowledged writes an Acknowledged row.
LEMMA AckRows ==
    ASSUME TypeInv, [Next]_vars, NEW e \in Events
    PROVE  HasRow(e, "Acknowledged")' <=>
              HasRow(e, "Acknowledged") \/ (RecordAcknowledged /\ e = yielded)
  <1> USE DEF TypeInv, TypeOK
  <1>h. main \in Holding => yielded \in Events /\ attempt[yielded] \in Nat
    BY BusAssumption DEF Control, Events
  <1>r. ASSUME NEW f \in Events, NEW row \in Rows, Write(f, row),
               row.entry # "Acknowledged", ~RecordAcknowledged
        PROVE  HasRow(e, "Acknowledged")' <=>
                  HasRow(e, "Acknowledged") \/ (RecordAcknowledged /\ e = yielded)
    BY <1>r, WriteHasRow
  <1>u. ASSUME UNCHANGED rows, ~RecordAcknowledged
        PROVE  HasRow(e, "Acknowledged")' <=>
                  HasRow(e, "Acknowledged") \/ (RecordAcknowledged /\ e = yielded)
    BY <1>u DEF HasRow
  <1>1. CASE \E f \in Events : TaskStep(f)
    <2>1. PICK f \in Events : TaskStep(f)
      BY <1>1
    <2>2. ~RecordAcknowledged
      BY <2>1, TaskFrame DEF RecordAcknowledged
    <2> QED
      BY <2>1, <2>2, <1>r, <1>u, TaskRows DEF JudgeEntries
  <1>2. CASE Pull \/ EndOfInput \/ SourceFails \/ (\E r \in Routes : Send(r))
             \/ Returned \/ UNCHANGED vars
    <2>1. UNCHANGED <<rows, main>>
      BY <1>2 DEF Pull, EndOfInput, SourceFails, Send, SendNothing, SinkAccepts,
                  SinkRefuses, Returned, vars
    <2>2. ~RecordAcknowledged
      BY <2>1 DEF RecordAcknowledged
    <2> QED
      BY <2>1, <2>2, <1>u
  <1>3. CASE YieldAborted \/ YieldRouted \/ YieldFailed \/ Joined \/ DeadSinkAccepts
             \/ DeadSinkRefuses \/ CallAck \/ LedgerFailsDispatching \/ Finish
    <2>1. UNCHANGED rows
      BY <1>3 DEF YieldAborted, YieldRouted, YieldFailed, Joined, DeadSinkAccepts,
                  DeadSinkRefuses, CallAck, LedgerFailsDispatching, Finish
    <2>2. ~RecordAcknowledged
      BY <1>3 DEF YieldAborted, YieldRouted, YieldFailed, TakeHead, Joined, DeadSinkAccepts,
                  DeadSinkRefuses, CallAck, LedgerFailsDispatching, Finish,
                  RecordAcknowledged
    <2> QED
      BY <2>1, <2>2, <1>u
  <1>4. CASE RecordRouted
    <2>1. audited + 1 \in Routes
      BY <1>4, BusAssumption DEF RecordRouted, Control, Routes
    <2>2. LET row == Row("Routed", audited + 1, outcome[audited + 1])
          IN  row \in Rows /\ row.entry # "Acknowledged" /\ Write(yielded, row)
      BY <1>4, <2>1 DEF RecordRouted, Row, Rows, Entries, Outcomes, Routes, Control
    <2>3. ~RecordAcknowledged /\ yielded \in Events
      BY <1>4, <1>h DEF RecordRouted, RecordAcknowledged, Holding
    <2> QED
      BY <2>2, <2>3, <1>r
  <1>5. CASE RecordSettled
    <2>1. LET row == Row("Settled", 0, "none")
          IN  row \in Rows /\ row.entry # "Acknowledged" /\ Write(yielded, row)
      BY <1>5 DEF RecordSettled, Row, Rows, Entries, Lifecycle
    <2>2. ~RecordAcknowledged /\ yielded \in Events
      BY <1>5, <1>h DEF RecordSettled, RecordAcknowledged, Holding
    <2> QED
      BY <2>1, <2>2, <1>r
  <1>6. CASE RecordFailed
    <2>1. LET row == Row("Failed", attempt[yielded], "none")
          IN  row \in Rows /\ row.entry # "Acknowledged" /\ Write(yielded, row)
      BY <1>6, <1>h DEF RecordFailed, Row, Rows, Entries, Lifecycle, Holding
    <2>2. ~RecordAcknowledged /\ yielded \in Events
      BY <1>6, <1>h DEF RecordFailed, RecordAcknowledged, Holding
    <2> QED
      BY <2>1, <2>2, <1>r
  <1>7. CASE RecordDeadLettered
    <2>1. LET row == Row("DeadLettered", 0, answer)
          IN  row \in Rows /\ row.entry # "Acknowledged" /\ Write(yielded, row)
      BY <1>7 DEF RecordDeadLettered, Row, Rows, Entries
    <2>2. ~RecordAcknowledged /\ yielded \in Events
      BY <1>7, <1>h DEF RecordDeadLettered, RecordAcknowledged, Holding
    <2> QED
      BY <2>1, <2>2, <1>r
  <1>8. CASE RecordAcknowledged
    <2>1. LET row == Row("Acknowledged", 0, answer)
          IN  row \in Rows /\ row.entry = "Acknowledged" /\ Write(yielded, row)
      BY <1>8 DEF RecordAcknowledged, Row, Rows, Entries
    <2>2. yielded \in Events
      BY <1>8, <1>h DEF RecordAcknowledged, Holding
    <2> QED
      BY <1>8, <2>1, <2>2, WriteHasRow
  <1> QED
    BY <1>1, <1>2, <1>3, <1>4, <1>5, <1>6, <1>7, <1>8 DEF Next, MainStep

LEMMA AckTrailStep == TypeInv /\ AckTrailInv /\ [Next]_vars => AckTrailInv'
  <1> SUFFICES ASSUME TypeInv, AckTrailInv, [Next]_vars PROVE AckTrailInv'
    OBVIOUS
  <1> USE BusAssumption DEF TypeInv, TypeOK
  <1>1. CASE YieldAborted \/ YieldRouted \/ YieldFailed
    <2>1. /\ main = "pull" /\ main' \notin {"pull", "done"} /\ yielded' = yielded + 1
      BY <1>1 DEF YieldAborted, YieldRouted, YieldFailed, TakeHead
    <2>2. \A e \in Events : HasRow(e, "Acknowledged")' <=> HasRow(e, "Acknowledged")
      BY <2>1, AckRows DEF RecordAcknowledged
    <2>3. \A e \in Events : e = yielded' => ~HasRow(e, "Acknowledged")'
      BY <2>1, <2>2 DEF AckTrailInv, Events
    <2>4. yielded' \in Events => ~HasRow(yielded, "Acknowledged")'
      BY <2>3 DEF HasRow
    <2>5. \A e \in Events : e < yielded' => HasRow(e, "Acknowledged")'
      BY <2>1, <2>2 DEF AckTrailInv, Events
    <2>6. \A e \in Events : e > yielded' => ~HasRow(e, "Acknowledged")'
      BY <2>1, <2>2 DEF AckTrailInv, Events
    <2> QED
      BY <2>1, <2>4, <2>5, <2>6 DEF AckTrailInv, HasRow
  <1>2. CASE RecordAcknowledged
    <2>1. /\ main' = "pull" /\ yielded' = yielded /\ main = "acknowledged"
      BY <1>2 DEF RecordAcknowledged
    <2> QED
      BY <1>2, <2>1, AckRows DEF AckTrailInv, HasRow
  <1>3. CASE Finish
    <2>1. /\ main = "pull" /\ main' = "done" /\ UNCHANGED <<pulled, yielded, rows>>
          /\ yielded = pulled
      BY <1>3 DEF Finish, inputVars
    <2> QED
      BY <2>1 DEF AckTrailInv, HasRow
  <1>4. CASE ~(YieldAborted \/ YieldRouted \/ YieldFailed \/ RecordAcknowledged \/ Finish)
    <2>1. /\ yielded' = yielded
          /\ main \in {"pull", "done"} <=> main' \in {"pull", "done"}
          /\ main' = "done" => main = "done" /\ pulled' = pulled
      <3>1. CASE \E f \in Events : TaskStep(f)
        BY <3>1, TaskFrame
      <3>2. CASE Pull \/ EndOfInput \/ SourceFails \/ (\E r \in Routes : Send(r))
                 \/ Returned \/ UNCHANGED vars
        BY <3>2 DEF Pull, EndOfInput, SourceFails, CanPull, Send, SendNothing, SinkAccepts,
                    SinkRefuses, Returned, vars, inputVars
      <3>3. CASE Joined \/ RecordRouted \/ RecordSettled \/ RecordFailed \/ DeadSinkAccepts
                 \/ DeadSinkRefuses \/ RecordDeadLettered \/ CallAck
                 \/ LedgerFailsDispatching
        BY <3>3 DEF Joined, RecordRouted, RecordSettled, RecordFailed, DeadSinkAccepts,
                    DeadSinkRefuses, RecordDeadLettered, CallAck, LedgerFailsDispatching
      <3> QED
        BY <1>4, <3>1, <3>2, <3>3 DEF Next, MainStep
    <2>2. \A e \in Events : HasRow(e, "Acknowledged")' <=> HasRow(e, "Acknowledged")
      BY <1>4, AckRows
    <2> QED
      BY <2>1, <2>2 DEF AckTrailInv, HasRow
  <1> QED
    BY <1>1, <1>2, <1>3, <1>4

\* The ledger says Acknowledged exactly of the events whose ack was called,
\* but for the event at hand.
THEOREM AckTrailHolds == Spec => []AckTrail
  <1>1. TypeInv /\ AckInv /\ AckTrailInv => AckTrail
    <2> SUFFICES ASSUME TypeInv, AckInv, AckTrailInv, NEW e \in Events
                 PROVE  /\ HasRow(e, "Acknowledged") => Acked(e)
                        /\ Acked(e) => HasRow(e, "Acknowledged") \/ AtHand(e)
      BY DEF AckTrail
    <2>1. /\ acks \in Seq(Events) /\ Len(acks) \in {yielded - 1, yielded}
          /\ main \in {"pull", "done"} => Len(acks) = yielded
          /\ yielded \in Nat
      BY BusAssumption DEF TypeInv, TypeOK, AckInv, AckCount, Mains, Terminal, Holding
    <2>2. Acked(e) <=> e <= Len(acks)
      BY <2>1 DEF AckInv, AcksInInputOrder, Acked, In, Events
    <2>3. HasRow(e, "Acknowledged") => e < yielded \/ (e = yielded /\ main \in {"pull", "done"})
      BY <2>1 DEF AckTrailInv, Events
    <2>4. e < yielded => HasRow(e, "Acknowledged")
      BY DEF AckTrailInv
    <2>5. e = yielded => HasRow(e, "Acknowledged") \/ AtHand(e)
      BY DEF AckTrailInv, AtHand
    <2> QED
      BY <2>1, <2>2, <2>3, <2>4, <2>5, BusAssumption DEF Events
  <1> QED
    BY TypeInit, TypeStep, AckInit, AckStep, AckTrailInit, AckTrailStep, <1>1, PTL DEF Spec

\* A run that returns Ok has given every event its input yielded a final row,
\* an acknowledgement and the row that says so.
THEOREM OkMeansHandledHolds == Spec => []OkMeansHandled
  <1>1. TypeInv /\ AckInv /\ RowInv /\ AckTrailInv => OkMeansHandled
    <2> SUFFICES ASSUME TypeInv, AckInv, RowInv, AckTrailInv, main = "done", NumRoutes > 0,
                        NEW e \in 1..pulled
                 PROVE  FinalRow(e) /\ HasRow(e, "Acknowledged")
      BY DEF OkMeansHandled
    <2>1. yielded = pulled /\ Len(acks) = yielded /\ e \in Events /\ acks \in Seq(Events)
      BY BusAssumption DEF AckTrailInv, AckInv, AckCount, TypeInv, TypeOK, Events
    <2>2. Acked(e)
      BY <2>1 DEF AckInv, AcksInInputOrder, Acked, In, Events
    <2>3. HasRow(e, "Acknowledged")
      BY <2>1, BusAssumption DEF AckTrailInv, Events, TypeInv, TypeOK
    <2> QED
      BY <2>1, <2>2, <2>3 DEF RowInv, AckAfterFinalRow
  <1> QED
    BY TypeInit, TypeStep, AckInit, AckStep, RowInit, RowStep, AckTrailInit, AckTrailStep,
       <1>1, PTL DEF Spec

-----------------------------------------------------------------------------
(* The breaker's own invariant is inductive.                               *)

Sound(b) ==
    /\ b.state = "Closed" => b.failures < Threshold
    /\ b.state # "Closed" => /\ b.cooldown <= MaxCooldown
                             /\ b.cooldown >= Capped(BaseCooldown)

LEMMA BreakerSound ==
    ASSUME NEW b \in BreakerStates, Sound(b)
    PROVE  /\ Sound(NewBreaker)
           /\ Sound(Admit(b))
           /\ Sound(ObserveSuccess(b))
           /\ Sound(ObserveFailure(b))
  BY BreakerAssumption
     DEF BreakerStates, NewBreaker, Closed, Open, HalfOpen, Admit, Capped, Sound,
         ObserveSuccess, ObserveFailure, FailClosed, FailHalfOpen

\* A closed breaker is below its threshold, an open or half-open one has a
\* cooldown between the first and the cap, whichever futures consult it.
THEOREM BreakerHolds == Spec => []BreakerInvariant
  <1>1. Init => BreakerInvariant
    BY BreakerAssumption DEF Init, BreakerInvariant, NewBreaker, Closed
  <1>2. TypeInv /\ BreakerInvariant /\ [Next]_vars => BreakerInvariant'
    <2> SUFFICES ASSUME TypeInv, BreakerInvariant, [Next]_vars PROVE BreakerInvariant'
      OBVIOUS
    <2>1. \/ breaker' = breaker \/ breaker' = Admit(breaker)
          \/ breaker' = ObserveSuccess(breaker) \/ breaker' = ObserveFailure(breaker)
      BY DEF Next, Pull, EndOfInput, SourceFails, TaskStep, Begin, RecordComposed,
             CooledDown, RecordJudging, Answer, TransientFailure, PermanentFailure,
             RecordJudged, RecordRetrying, Resume, LedgerFailsJudging, Gate, Send,
             SendNothing, SinkAccepts, SinkRefuses, MainStep, YieldAborted, YieldRouted,
             YieldFailed, Joined, RecordRouted, RecordSettled, RecordFailed,
             DeadSinkAccepts, DeadSinkRefuses, RecordDeadLettered, CallAck,
             RecordAcknowledged, LedgerFailsDispatching, Finish, Returned, taskVars, vars
    <2>2. breaker \in BreakerStates /\ Sound(breaker)
      BY DEF TypeInv, TypeOK, BreakerInvariant, Sound
    <2>3. Sound(breaker)'
      BY <2>1, <2>2, BreakerSound DEF Sound
    <2> QED
      BY <2>3 DEF Sound, BreakerInvariant
  <1> QED
    BY TypeInit, TypeStep, <1>1, <1>2, PTL DEF Spec


-----------------------------------------------------------------------------
(* The run implements the sequential consumer: sinks are offered to by     *)
(* SinkAccepts and DeadSinkAccepts, a final row concludes, CallAck         *)
(* acknowledges, and everything else stutters or stops.                    *)

\* The rows, the futures and the answers are nothing to the consumer.
LEMMA ContractStutter ==
    ASSUME UNCHANGED <<acks, taken>>, main = "ack" <=> main' = "ack",
           main \in Terminal <=> main' \in Terminal
    PROVE  UNCHANGED Contract!vars
  BY DEF Contract!vars

\* A sink takes the event at hand for the first time.
LEMMA ContractOffer ==
    ASSUME TypeInv, AckInv, NEW s \in Sinks, main \in {"send", "publish"},
           main' \notin {"ack"} \cup Terminal, UNCHANGED acks,
           taken' = [taken EXCEPT ![s] = Append(@, yielded)],
           ~In(yielded, taken[s])
    PROVE  Contract!Offer(s)
  <1>1. /\ yielded = Len(acks) + 1 /\ Len(acks) \in Nat /\ Len(acks) < NumEvents
        /\ Len(acks)' = Len(acks)
    BY BusAssumption DEF TypeInv, TypeOK, AckInv, AckCount, Holding
  <1>2. ~Contract!AcceptedBy(s, Len(acks) + 1)
    BY <1>1 DEF Contract!AcceptedBy, In
  <1> QED
    BY <1>1, <1>2 DEF Contract!Offer, Terminal

LEMMA ContractStep ==
    TypeInv /\ AckInv /\ TrailInv /\ [Next]_vars => [Contract!Next]_(Contract!vars)
  <1> SUFFICES ASSUME TypeInv, AckInv, TrailInv, [Next]_vars
               PROVE  [Contract!Next]_(Contract!vars)
    OBVIOUS
  <1> USE DEF TypeInv, TypeOK
  <1>1. CASE Pull \/ EndOfInput \/ SourceFails \/ Returned \/ UNCHANGED vars
    <2>1. UNCHANGED <<acks, taken, main>>
      BY <1>1 DEF Pull, EndOfInput, SourceFails, Returned, vars, worldVars
    <2> QED
      BY <2>1, ContractStutter
  <1>2. CASE \E f \in Events : TaskStep(f)
    BY <1>2, TaskFrame, ContractStutter
  <1>3. CASE \E r \in Routes : SendNothing(r) \/ SinkRefuses(r)
    <2>1. UNCHANGED <<acks, taken, main>>
      BY <1>3 DEF SendNothing, SinkRefuses, worldVars
    <2> QED
      BY <2>1, ContractStutter
  <1>4. CASE \E r \in Routes : SinkAccepts(r)
    <2>1. PICK r \in Routes : SinkAccepts(r)
      BY <1>4
    <2>2. verdict[r] \in Doors /\ outcome[r] = "pending" /\ main = "send" /\ main' = main
      BY <2>1 DEF SinkAccepts, NeedsNoSink, Dispositions, Doors
    <2>3. <<verdict[r], r>> \in Sinks
      BY <2>2, SinkKinds
    <2>4. ~In(yielded, taken[<<verdict[r], r>>])
      BY <2>2 DEF TrailInv, Offered, Said
    <2>5. Contract!Offer(<<verdict[r], r>>)
      BY <2>1, <2>2, <2>3, <2>4, ContractOffer DEF SinkAccepts, Terminal
    <2> QED
      BY <2>3, <2>5 DEF Contract!Next
  <1>5. CASE DeadSinkAccepts
    <2>1. main = "publish" /\ main' = "deadLettered" /\ ~In(yielded, taken[DeadSink])
      BY <1>5, SinkKinds DEF DeadSinkAccepts, TrailInv, Untouched
    <2>2. Contract!Offer(DeadSink)
      BY <1>5, <2>1, SinkKinds, ContractOffer DEF DeadSinkAccepts, Terminal
    <2> QED
      BY <2>2, SinkKinds DEF Contract!Next
  <1>6. CASE RecordSettled \/ RecordDeadLettered
    <2>1. /\ main \in {"settle", "deadLettered"} /\ main' = "ack"
          /\ UNCHANGED <<acks, taken>>
      BY <1>6 DEF RecordSettled, RecordDeadLettered, worldVars
    <2>2. Len(acks) \in Nat /\ Len(acks) < NumEvents
      BY <2>1, BusAssumption DEF AckInv, AckCount, Holding
    <2>3. Contract!Conclude
      BY <2>1, <2>2 DEF Contract!Conclude, Terminal
    <2> QED
      BY <2>3 DEF Contract!Next
  <1>7. CASE CallAck
    <2>1. /\ main = "ack" /\ main' = "acknowledged" /\ UNCHANGED taken
          /\ acks' = Append(acks, yielded) /\ yielded \in Events
      BY <1>7, BusAssumption DEF CallAck, Control, Holding, Events
    <2>2. Len(acks) \in Nat /\ Len(acks)' = Len(acks) + 1
      BY <2>1
    <2>3. Contract!Acknowledge
      BY <2>1, <2>2 DEF Contract!Acknowledge, Terminal
    <2> QED
      BY <2>3 DEF Contract!Next
  <1>8. CASE YieldAborted \/ LedgerFailsDispatching \/ Finish
    <2>1. /\ main # "ack" /\ main' \in Terminal /\ UNCHANGED <<acks, taken>>
      BY <1>8 DEF YieldAborted, TakeHead, LedgerFailsDispatching, Finish, worldVars, Terminal
    <2>2. Contract!Stop
      BY <2>1 DEF Contract!Stop, Terminal
    <2> QED
      BY <2>2 DEF Contract!Next
  <1>9. CASE YieldRouted \/ YieldFailed \/ Joined \/ RecordRouted \/ RecordFailed
             \/ DeadSinkRefuses \/ RecordAcknowledged
    <2>1. /\ main \notin {"ack"} \cup Terminal /\ main' \notin {"ack"} \cup Terminal
          /\ UNCHANGED <<acks, taken>>
      BY <1>9 DEF YieldRouted, YieldFailed, TakeHead, Joined, RecordRouted, RecordFailed,
                  DeadSinkRefuses, RecordAcknowledged, worldVars, Terminal
    <2> QED
      BY <2>1, ContractStutter
  <1> QED
    BY <1>1, <1>2, <1>3, <1>4, <1>5, <1>6, <1>7, <1>8, <1>9 DEF Next, MainStep, Send

\* One run is, to its source and its sinks, a sequential consumer with
\* at-least-once delivery, however its judge futures interleave.
THEOREM RunImplementsContract == Spec => ImplementsContract
  <1>1. Init => Contract!Init
    BY BusAssumption DEF Init, Contract!Init, Terminal
  <1>2. Spec => Contract!Init /\ [][Contract!Next]_(Contract!vars)
    BY TypeInit, TypeStep, AckInit, AckStep, TrailInit, TrailStep, ContractStep, <1>1,
       PTL DEF Spec
  <1> QED
    BY <1>2 DEF ImplementsContract, Contract!Spec
=============================================================================
