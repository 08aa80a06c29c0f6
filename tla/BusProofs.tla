----------------------------- MODULE BusProofs -----------------------------
(***************************************************************************)
(* Theorems about one run of the bus, for every number of events, routes   *)
(* and attempts, every concurrency and every breaker policy.               *)
(***************************************************************************)
EXTENDS BusProperties, TLAPS

\* What the type invariant needs to be inductive: the positions of the main
\* loop that hold an event, and the rows still owed to it.
Holding == {"send", "routed", "settle", "failed", "publish", "deadLettered",
            "ack", "acknowledged"}

Control ==
    /\ yielded <= pulled
    /\ main \in Holding => yielded >= 1
    /\ main \notin Terminal => NumRoutes >= 1
    /\ main = "send" => audited = 0
    /\ main = "routed" => /\ audited < NumRoutes
                          /\ \A r \in Routes : outcome[r] # "pending"

TypeInv == TypeOK /\ Control

-----------------------------------------------------------------------------
(* The breaker's operations keep its type.                                 *)

LEMMA BreakerTyping ==
    ASSUME NEW b \in BreakerStates
    PROVE  /\ NewBreaker \in BreakerStates
           /\ Admit(b) \in BreakerStates
           /\ ObserveSuccess(b) \in BreakerStates
           /\ ObserveFailure(b) \in BreakerStates
  BY BreakerAssumption
     DEF BreakerStates, NewBreaker, Closed, Open, HalfOpen, Admit, Capped,
         ObserveSuccess, ObserveFailure, FailClosed, FailHalfOpen

\* A row appended to one event's ledger keeps the ledger's type.
LEMMA WriteTyping ==
    ASSUME rows \in [Events -> Seq(Rows)],
           NEW e \in Events, NEW row \in Rows, Write(e, row)
    PROVE  rows' \in [Events -> Seq(Rows)]
  BY DEF Write

LEMMA TypeInit == Init => TypeInv
  <1> SUFFICES ASSUME Init PROVE TypeInv
    OBVIOUS
  <1>1. Closed(0) \in BreakerStates
    BY DEF Closed, BreakerStates
  <1>2. TypeOK
    <2>1. pulled \in 0..NumEvents /\ yielded \in 0..NumEvents /\ audited \in 0..NumRoutes
      BY BusAssumption DEF Init
    <2>2. phase \in [Events -> Phases] /\ attempt \in [Events -> Nat \ {0}]
      BY DEF Init, Phases
    <2>3. main \in Mains /\ breaker \in BreakerStates /\ ended \in BOOLEAN
      BY <1>1 DEF Init, Mains, Terminal, NewBreaker
    <2>4. /\ verdict \in [Routes -> Dispositions]
          /\ outcome \in [Routes -> Outcomes \cup {"pending"}]
          /\ answer \in Outcomes \cup {"none", "Acked", "AckFailed"}
      BY DEF Init, Dispositions
    <2>5. taken \in [Sinks -> Seq(Events)]
      BY DEF Init
    <2>6. acks \in Seq(Events)
      BY DEF Init
    <2>7. rows \in [Events -> Seq(Rows)]
      BY DEF Init
    <2> QED
      BY <2>1, <2>2, <2>3, <2>4, <2>5, <2>6, <2>7 DEF TypeOK
  <1>3. Control
    BY BusAssumption DEF Init, Control, Holding, Terminal
  <1> QED
    BY <1>2, <1>3 DEF TypeInv

-----------------------------------------------------------------------------
(* Type correctness is preserved: the input, one future, the main loop.    *)

LEMMA TypeInput ==
    TypeInv /\ (Pull \/ EndOfInput \/ SourceFails) => TypeInv'
  <1> SUFFICES ASSUME TypeInv, Pull \/ EndOfInput \/ SourceFails PROVE TypeInv'
    OBVIOUS
  <1> USE BusAssumption DEF TypeInv, TypeOK, Control, CanPull, inputVars, taskVars, handVars,
          worldVars, Phases, Recording, Complete, Events
  <1>1. CASE Pull
    BY <1>1 DEF Pull
  <1>2. CASE EndOfInput
    BY <1>2 DEF EndOfInput
  <1>3. CASE SourceFails
    BY <1>3 DEF SourceFails
  <1> QED
    BY <1>1, <1>2, <1>3

LEMMA TypeTask ==
    ASSUME TypeInv, NEW e \in Events, TaskStep(e)
    PROVE  TypeInv'
  <1> USE DEF TypeInv, TypeOK, Control, inputVars, taskVars, handVars, worldVars,
          Phases, Recording, Complete
  <1>g. Gate(e) => breaker' \in BreakerStates /\ phase' \in [Events -> Phases]
    BY BreakerTyping DEF Gate
  <1>r. \A entry \in Entries : Row(entry, attempt[e], "none") \in Rows
    BY DEF Row, Rows
  <1>1. CASE Begin(e)
    BY <1>1, <1>g DEF Begin
  <1>2. CASE RecordComposed(e)
    <2>1. Row("Composed", 0, "none") \in Rows
      BY DEF Row, Rows, Entries
    <2> QED
      BY <1>2, <2>1, <1>g, WriteTyping DEF RecordComposed
  <1>3. CASE CooledDown(e)
    BY <1>3 DEF CooledDown
  <1>4. CASE RecordJudging(e)
    BY <1>4, <1>r, WriteTyping DEF RecordJudging, Entries, Lifecycle
  <1>5. CASE Answer(e)
    BY <1>5, BreakerTyping DEF Answer
  <1>6. CASE TransientFailure(e)
    BY <1>6, BreakerTyping DEF TransientFailure
  <1>7. CASE PermanentFailure(e)
    BY <1>7 DEF PermanentFailure
  <1>8. CASE RecordJudged(e)
    BY <1>8, <1>r, WriteTyping DEF RecordJudged, Entries, Lifecycle
  <1>9. CASE RecordRetrying(e)
    BY <1>9, <1>r, WriteTyping DEF RecordRetrying, Entries, Lifecycle
  <1>10. CASE Resume(e)
    <2>1. NextAttempt(attempt[e]) \in Nat \ {0}
      BY BusAssumption DEF NextAttempt
    <2> QED
      BY <1>10, <2>1, <1>g DEF Resume
  <1>11. CASE LedgerFailsJudging(e)
    BY <1>11 DEF LedgerFailsJudging
  <1> QED
    BY <1>1, <1>2, <1>3, <1>4, <1>5, <1>6, <1>7, <1>8, <1>9, <1>10, <1>11 DEF TaskStep

LEMMA TypeSend ==
    ASSUME TypeInv, NEW r \in Routes, Send(r)
    PROVE  TypeInv'
  <1> USE DEF TypeInv, TypeOK, Control, inputVars, taskVars, handVars, worldVars, Outcomes,
          Dispositions, Holding
  <1>1. CASE SendNothing(r)
    BY <1>1 DEF SendNothing
  <1>2. CASE SinkAccepts(r)
    <2>1. <<verdict[r], r>> \in Sinks
      BY <1>2 DEF SinkAccepts, NeedsNoSink, Sinks
    <2>2. yielded \in Events
      BY <1>2 DEF SinkAccepts, Events
    <2>3. taken' \in [Sinks -> Seq(Events)]
      BY <1>2, <2>1, <2>2 DEF SinkAccepts
    <2> QED
      BY <1>2, <2>3 DEF SinkAccepts
  <1>3. CASE SinkRefuses(r)
    BY <1>3 DEF SinkRefuses
  <1> QED
    BY <1>1, <1>2, <1>3 DEF Send

LEMMA TypeMain ==
    TypeInv /\ MainStep => TypeInv'
  <1> SUFFICES ASSUME TypeInv, MainStep PROVE TypeInv'
    OBVIOUS
  <1> USE DEF TypeInv, TypeOK, Control, inputVars, taskVars, handVars, worldVars, Mains,
          Terminal, Holding
  <1>h. main \in Holding => yielded \in Events
    BY BusAssumption DEF Events
  <1>t. ASSUME TakeHead PROVE yielded + 1 \in 1..NumEvents /\ yielded + 1 <= pulled
    BY <1>t, BusAssumption DEF TakeHead, HeadReady
  <1>1. CASE YieldAborted
    BY <1>1, <1>t DEF YieldAborted, TakeHead
  <1>2. CASE YieldRouted
    BY <1>2, <1>t, BusAssumption DEF YieldRouted, TakeHead, Verdicts, Outcomes, Dispositions
  <1>3. CASE YieldFailed
    BY <1>3, <1>t DEF YieldFailed, TakeHead
  <1>4. CASE Joined
    BY <1>4, BusAssumption DEF Joined
  <1>5. CASE RecordRouted
    <2>1. audited + 1 \in Routes
      BY <1>5, BusAssumption DEF RecordRouted, Routes
    <2>2. Row("Routed", audited + 1, outcome[audited + 1]) \in Rows
      BY <1>5, <2>1 DEF RecordRouted, Row, Rows, Entries, Outcomes, Routes
    <2>3. rows' \in [Events -> Seq(Rows)]
      BY <1>5, <2>2, <1>h, WriteTyping DEF RecordRouted
    <2> QED
      BY <1>5, <2>1, <2>3, BusAssumption DEF RecordRouted, Routes
  <1>6. CASE RecordSettled
    <2>1. Row("Settled", 0, "none") \in Rows
      BY <1>6, <1>h DEF RecordSettled, Row, Rows, Entries, Lifecycle
    <2> QED
      BY <1>6, <2>1, <1>h, WriteTyping DEF RecordSettled
  <1>7. CASE RecordFailed
    <2>1. Row("Failed", attempt[yielded], "none") \in Rows
      BY <1>7, <1>h DEF RecordFailed, Row, Rows, Entries, Lifecycle
    <2> QED
      BY <1>7, <2>1, <1>h, WriteTyping DEF RecordFailed, Outcomes
  <1>8. CASE DeadSinkAccepts
    <2>1. taken' \in [Sinks -> Seq(Events)]
      BY <1>8, <1>h DEF DeadSinkAccepts, Sinks
    <2> QED
      BY <1>8, <2>1 DEF DeadSinkAccepts, Outcomes
  <1>9. CASE DeadSinkRefuses
    BY <1>9 DEF DeadSinkRefuses, Outcomes
  <1>10. CASE RecordDeadLettered
    <2>1. Row("DeadLettered", 0, answer) \in Rows
      BY <1>10 DEF RecordDeadLettered, Row, Rows, Entries
    <2> QED
      BY <1>10, <2>1, <1>h, WriteTyping DEF RecordDeadLettered
  <1>11. CASE CallAck
    BY <1>11, <1>h DEF CallAck
  <1>12. CASE RecordAcknowledged
    <2>1. Row("Acknowledged", 0, answer) \in Rows
      BY <1>12 DEF RecordAcknowledged, Row, Rows, Entries
    <2> QED
      BY <1>12, <2>1, <1>h, WriteTyping DEF RecordAcknowledged
  <1>13. CASE LedgerFailsDispatching
    BY <1>13 DEF LedgerFailsDispatching
  <1>14. CASE Finish
    BY <1>14 DEF Finish
  <1> QED
    BY <1>1, <1>2, <1>3, <1>4, <1>5, <1>6, <1>7, <1>8, <1>9, <1>10, <1>11, <1>12,
       <1>13, <1>14 DEF MainStep

LEMMA TypeStep == TypeInv /\ [Next]_vars => TypeInv'
  <1> SUFFICES ASSUME TypeInv, [Next]_vars PROVE TypeInv'
    OBVIOUS
  <1>1. CASE UNCHANGED vars
    BY <1>1 DEF vars, inputVars, taskVars, handVars, worldVars, TypeInv, TypeOK, Control
  <1>2. CASE Returned
    BY <1>2, <1>1 DEF Returned
  <1> QED
    BY <1>1, <1>2, TypeInput, TypeTask, TypeSend, TypeMain DEF Next

\* Type correctness of every reachable state, for every value of the
\* constants.
THEOREM TypeCorrect == Spec => []TypeOK
  <1>1. TypeInv => TypeOK
    BY DEF TypeInv
  <1> QED
    BY TypeInit, TypeStep, <1>1, PTL DEF Spec

-----------------------------------------------------------------------------
(* What the steps of the judge phase leave alone.                          *)

JudgeEntries    == {"Composed", "Judging", "Judged", "Retrying"}
DispatchEntries == {"Routed", "Settled", "Failed", "DeadLettered"}

LEMMA TaskFrame ==
    ASSUME NEW e \in Events, TaskStep(e)
    PROVE  /\ UNCHANGED <<pulled, ended, main, yielded, outcome, taken, acks>>
           /\ main = "pull"
  BY DEF TaskStep, Begin, RecordComposed, CooledDown, RecordJudging, Answer,
         TransientFailure, PermanentFailure, RecordJudged, RecordRetrying, Resume,
         LedgerFailsJudging, Polling, inputVars, taskVars, handVars, worldVars

\* A future writes at most one row, of the judge phase and of its own event.
LEMMA TaskRows ==
    ASSUME TypeInv, NEW e \in Events, TaskStep(e)
    PROVE  \/ UNCHANGED rows
           \/ \E row \in Rows : row.entry \in JudgeEntries /\ Write(e, row)
  <1>r. \A n \in Nat, entry \in JudgeEntries :
          Row(entry, n, "none") \in Rows /\ Row(entry, n, "none").entry = entry
    BY DEF Row, Rows, JudgeEntries, Entries, Lifecycle
  <1>a. attempt[e] \in Nat
    BY DEF TypeInv, TypeOK
  <1>1. CASE Begin(e) \/ CooledDown(e) \/ Answer(e) \/ TransientFailure(e)
             \/ PermanentFailure(e) \/ Resume(e) \/ LedgerFailsJudging(e)
    BY <1>1 DEF Begin, CooledDown, Answer, TransientFailure, PermanentFailure, Resume,
                LedgerFailsJudging
  <1>2. CASE RecordComposed(e)
    BY <1>2, <1>r DEF RecordComposed, JudgeEntries
  <1>3. CASE RecordJudging(e)
    BY <1>3, <1>r, <1>a DEF RecordJudging, JudgeEntries
  <1>4. CASE RecordJudged(e)
    BY <1>4, <1>r, <1>a DEF RecordJudged, JudgeEntries
  <1>5. CASE RecordRetrying(e)
    BY <1>5, <1>r, <1>a DEF RecordRetrying, JudgeEntries
  <1> QED
    BY <1>1, <1>2, <1>3, <1>4, <1>5 DEF TaskStep

LEMMA AppendIn ==
    ASSUME NEW S, NEW q \in Seq(S), NEW x \in S, NEW y
    PROVE  In(y, Append(q, x)) <=> In(y, q) \/ y = x
  <1>1. /\ DOMAIN Append(q, x) = DOMAIN q \cup {Len(q) + 1}
        /\ \A i \in DOMAIN q : Append(q, x)[i] = q[i]
        /\ Append(q, x)[Len(q) + 1] = x
    OBVIOUS
  <1> QED
    BY <1>1 DEF In

\* A written row adds its entry to its event and nothing else anywhere.
LEMMA WriteHasRow ==
    ASSUME rows \in [Events -> Seq(Rows)],
           NEW e \in Events, NEW row \in Rows, Write(e, row),
           NEW f \in Events, NEW entry
    PROVE  HasRow(f, entry)' <=> HasRow(f, entry) \/ (f = e /\ row.entry = entry)
  <1>1. CASE f # e
    BY <1>1 DEF Write, HasRow
  <1>2. CASE f = e
    <2>1. rows'[f] = Append(rows[f], row) /\ rows[f] \in Seq(Rows)
      BY <1>2 DEF Write
    <2>2. /\ DOMAIN rows'[f] = DOMAIN rows[f] \cup {Len(rows[f]) + 1}
          /\ \A i \in DOMAIN rows[f] : rows'[f][i] = rows[f][i]
          /\ rows'[f][Len(rows[f]) + 1] = row
      BY <2>1
    <2> QED
      BY <1>2, <2>2 DEF HasRow
  <1> QED
    BY <1>1, <1>2

-----------------------------------------------------------------------------
(* Acknowledgements: in input order, and never more than Concurrency       *)
(* events pulled ahead of them.                                            *)

AckCount ==
    /\ main \in {"pull", "acknowledged", "done"} => Len(acks) = yielded
    /\ main \in Holding \ {"acknowledged"} => Len(acks) = yielded - 1
    /\ main = "stopped" => Len(acks) \in {yielded - 1, yielded}

AckInv == AckCount /\ AcksInInputOrder /\ UnackedBound

LEMMA AckInit == Init => AckInv
  BY BusAssumption
     DEF Init, AckInv, AckCount, AcksInInputOrder, UnackedBound, Holding

LEMMA AckStep == TypeInv /\ AckInv /\ [Next]_vars => AckInv'
  <1> SUFFICES ASSUME TypeInv, AckInv, [Next]_vars PROVE AckInv'
    OBVIOUS
  <1> USE BusAssumption DEF AckInv, AckCount, AcksInInputOrder, UnackedBound, Holding,
          TypeInv, TypeOK
  <1>1. CASE Pull \/ EndOfInput \/ SourceFails
    BY <1>1 DEF Pull, EndOfInput, SourceFails, CanPull, inputVars, taskVars, handVars,
                worldVars
  <1>2. CASE \E e \in Events : TaskStep(e)
    BY <1>2, TaskFrame
  <1>3. CASE \E r \in Routes : Send(r)
    BY <1>3 DEF Send, SendNothing, SinkAccepts, SinkRefuses, inputVars, worldVars
  <1>4. CASE CallAck
    BY <1>4 DEF CallAck, inputVars
  <1>5. CASE MainStep /\ ~CallAck
    BY <1>5 DEF MainStep, YieldAborted, YieldRouted, YieldFailed, TakeHead, HeadReady,
                Joined, RecordRouted, RecordSettled, RecordFailed, DeadSinkAccepts,
                DeadSinkRefuses, RecordDeadLettered, RecordAcknowledged,
                LedgerFailsDispatching, Finish, inputVars, worldVars
  <1>6. CASE Returned \/ UNCHANGED vars
    BY <1>6 DEF Returned, vars, inputVars, worldVars
  <1> QED
    BY <1>1, <1>2, <1>3, <1>4, <1>5, <1>6 DEF Next

\* Acks are called in input order, each once and none skipped.
THEOREM AckOrder == Spec => []AcksInInputOrder
  <1>1. AckInv => AcksInInputOrder
    BY DEF AckInv
  <1> QED
    BY TypeInit, TypeStep, AckInit, AckStep, <1>1, PTL DEF Spec

\* At most Concurrency events are pulled and not acknowledged.
THEOREM BoundedInFlight == Spec => []UnackedBound
  <1>1. AckInv => UnackedBound
    BY DEF AckInv
  <1> QED
    BY TypeInit, TypeStep, AckInit, AckStep, <1>1, PTL DEF Spec

-----------------------------------------------------------------------------
(* Ledger before ack: the rows of a dispatch belong to the event at hand   *)
(* or to an acknowledged one, and an ack is preceded by a final row.       *)

RowInv ==
    /\ \A e \in Events : \A entry \in DispatchEntries : HasRow(e, entry) => e <= yielded
    /\ main = "ack" => FinalRow(yielded)
    /\ AckAfterFinalRow

LEMMA RowInit == Init => RowInv
  BY DEF Init, RowInv, HasRow, AckAfterFinalRow, Acked, In

\* The main loop writes at most one row, of the event at hand.
LEMMA MainRows ==
    ASSUME TypeInv, MainStep
    PROVE  UNCHANGED rows \/ \E row \in Rows : Write(yielded, row)
  <1> USE DEF TypeInv, TypeOK, Control
  <1>h. main \in Holding => attempt[yielded] \in Nat
    BY BusAssumption DEF Events
  <1>1. CASE YieldAborted \/ YieldRouted \/ YieldFailed \/ Joined \/ DeadSinkAccepts
             \/ DeadSinkRefuses \/ CallAck \/ LedgerFailsDispatching \/ Finish
    BY <1>1 DEF YieldAborted, YieldRouted, YieldFailed, Joined, DeadSinkAccepts,
                DeadSinkRefuses, CallAck, LedgerFailsDispatching, Finish
  <1>2. CASE RecordRouted
    <2>1. audited + 1 \in Routes
      BY <1>2, BusAssumption DEF RecordRouted, Routes
    <2>2. Row("Routed", audited + 1, outcome[audited + 1]) \in Rows
      BY <1>2, <2>1 DEF RecordRouted, Row, Rows, Entries, Outcomes, Routes
    <2> QED
      BY <1>2, <2>2 DEF RecordRouted
  <1>3. CASE RecordSettled
    BY <1>3, <1>h DEF RecordSettled, Holding, Row, Rows, Entries, Lifecycle
  <1>4. CASE RecordFailed
    BY <1>4, <1>h DEF RecordFailed, Holding, Row, Rows, Entries, Lifecycle
  <1>5. CASE RecordDeadLettered
    BY <1>5 DEF RecordDeadLettered, Row, Rows, Entries
  <1>6. CASE RecordAcknowledged
    BY <1>6 DEF RecordAcknowledged, Row, Rows, Entries
  <1> QED
    BY <1>1, <1>2, <1>3, <1>4, <1>5, <1>6 DEF MainStep

\* A row is never taken back; a row of a dispatch is of the event at hand.
LEMMA RowStays ==
    ASSUME TypeInv, [Next]_vars, NEW e \in Events, NEW entry
    PROVE  /\ HasRow(e, entry) => HasRow(e, entry)'
           /\ HasRow(e, entry)' /\ entry \in DispatchEntries
                 => HasRow(e, entry) \/ e = yielded
  <1> USE DEF TypeInv, TypeOK
  <1>1. CASE UNCHANGED rows
    BY <1>1 DEF HasRow
  <1>2. CASE \E f \in Events : TaskStep(f)
    <2>1. PICK f \in Events : TaskStep(f)
      BY <1>2
    <2>2. CASE \E row \in Rows : row.entry \in JudgeEntries /\ Write(f, row)
      BY <2>2, WriteHasRow DEF JudgeEntries, DispatchEntries
    <2> QED
      BY <2>1, <2>2, <1>1, TaskRows
  <1>3. CASE MainStep
    <2>1. CASE \E row \in Rows : Write(yielded, row)
      <3>1. PICK row \in Rows : Write(yielded, row)
        BY <2>1
      <3>2. CASE yielded \in Events
        BY <3>1, <3>2, WriteHasRow
      <3>3. CASE yielded \notin Events
        BY <3>1, <3>3, <1>1 DEF Write
      <3> QED
        BY <3>2, <3>3
    <2> QED
      BY <1>3, <1>1, <2>1, MainRows
  <1>4. CASE Pull \/ EndOfInput \/ SourceFails \/ (\E r \in Routes : Send(r))
             \/ Returned \/ UNCHANGED vars
    <2>1. UNCHANGED rows
      BY <1>4 DEF Pull, EndOfInput, SourceFails, Send, SendNothing, SinkAccepts,
                  SinkRefuses, Returned, vars
    <2> QED
      BY <2>1, <1>1
  <1> QED
    BY <1>2, <1>3, <1>4 DEF Next

LEMMA YieldedStep ==
    ASSUME [Next]_vars PROVE yielded' = yielded \/ yielded' = yielded + 1
  <1>1. CASE \E e \in Events : TaskStep(e)
    BY <1>1, TaskFrame
  <1>2. CASE Pull \/ EndOfInput \/ SourceFails
    BY <1>2 DEF Pull, EndOfInput, SourceFails
  <1>3. CASE \E r \in Routes : Send(r)
    BY <1>3 DEF Send, SendNothing, SinkAccepts, SinkRefuses
  <1>4. CASE MainStep
    BY <1>4 DEF MainStep, YieldAborted, YieldRouted, YieldFailed, TakeHead, Joined,
                RecordRouted, RecordSettled, RecordFailed, DeadSinkAccepts,
                DeadSinkRefuses, RecordDeadLettered, CallAck, RecordAcknowledged,
                LedgerFailsDispatching, Finish
  <1>5. CASE Returned \/ UNCHANGED vars
    BY <1>5 DEF Returned, vars
  <1> QED
    BY <1>1, <1>2, <1>3, <1>4, <1>5 DEF Next

LEMMA RowStep == TypeInv /\ RowInv /\ [Next]_vars => RowInv'
  <1> SUFFICES ASSUME TypeInv, RowInv, [Next]_vars PROVE RowInv'
    OBVIOUS
  <1> USE DEF TypeInv, TypeOK
  <1>y. yielded <= yielded' /\ yielded \in Nat /\ yielded' \in Nat
    BY YieldedStep, BusAssumption
  <1>1. \A e \in Events : \A entry \in DispatchEntries :
           HasRow(e, entry)' => e <= yielded'
    BY <1>y, RowStays DEF RowInv, Events
  <1>2. \A e \in Events : FinalRow(e) => FinalRow(e)'
    BY RowStays DEF FinalRow
  <1>3. main' = "ack" => FinalRow(yielded)'
    <2> SUFFICES ASSUME main' = "ack" PROVE FinalRow(yielded)'
      OBVIOUS
    <2>1. CASE RecordSettled \/ RecordDeadLettered
      <3>1. yielded \in Events /\ yielded' = yielded
        BY <2>1, BusAssumption
           DEF RecordSettled, RecordDeadLettered, Control, Holding, Events
      <3>2. PICK row \in Rows : Write(yielded, row)
                                /\ row.entry \in {"Settled", "DeadLettered"}
        <4>1. CASE RecordSettled
          <5>1. /\ Row("Settled", 0, "none") \in Rows
                /\ Row("Settled", 0, "none").entry = "Settled"
            BY <3>1 DEF Row, Rows, Entries, Lifecycle
          <5> QED
            BY <4>1, <5>1 DEF RecordSettled
        <4>2. CASE RecordDeadLettered
          <5>1. /\ Row("DeadLettered", 0, answer) \in Rows
                /\ Row("DeadLettered", 0, answer).entry = "DeadLettered"
            BY DEF Row, Rows, Entries
          <5> QED
            BY <4>2, <5>1 DEF RecordDeadLettered
        <4> QED
          BY <2>1, <4>1, <4>2
      <3>3. FinalRow(yielded)' <=>
               HasRow(yielded, "Settled")' \/ HasRow(yielded, "DeadLettered")'
        BY DEF FinalRow
      <3> QED
        BY <3>1, <3>2, <3>3, WriteHasRow
    <2>2. CASE main = "ack" /\ yielded' = yielded
      <3>1. yielded \in Events
        BY <2>2, BusAssumption DEF Control, Holding, Events
      <3> QED
        BY <2>2, <3>1, <1>2 DEF RowInv
    <2>3. RecordSettled \/ RecordDeadLettered \/ (main = "ack" /\ yielded' = yielded)
      <3>1. CASE \E e \in Events : TaskStep(e)
        BY <3>1, TaskFrame
      <3>2. CASE Pull \/ EndOfInput \/ SourceFails \/ (\E r \in Routes : Send(r))
                 \/ Returned \/ UNCHANGED vars
        BY <3>2 DEF Pull, EndOfInput, SourceFails, Send, SendNothing, SinkAccepts,
                    SinkRefuses, Returned, vars
      <3>3. CASE MainStep
        BY <3>3 DEF MainStep, YieldAborted, YieldRouted, YieldFailed, Joined,
                    RecordRouted, RecordFailed, DeadSinkAccepts,
                    DeadSinkRefuses, CallAck, RecordAcknowledged,
                    LedgerFailsDispatching, Finish
      <3> QED
        BY <3>1, <3>2, <3>3 DEF Next
    <2> QED
      BY <2>1, <2>2, <2>3
  <1>4. AckAfterFinalRow'
    <2>1. CASE UNCHANGED acks
      BY <2>1, <1>2 DEF RowInv, AckAfterFinalRow, Acked, In
    <2>2. CASE CallAck
      <3>1. FinalRow(yielded)' /\ yielded \in Events
        BY <2>2, <1>2, BusAssumption DEF CallAck, RowInv, Control, Holding, Events
      <3>2. \A e \in Events : Acked(e)' => Acked(e) \/ e = yielded
        <4>1. acks \in Seq(Events) /\ acks' = Append(acks, yielded)
          BY <2>2 DEF CallAck
        <4>2. \A e : In(e, Append(acks, yielded)) <=> In(e, acks) \/ e = yielded
          BY <4>1, <3>1, AppendIn
        <4> QED
          BY <4>1, <4>2 DEF Acked, In
      <3>3. yielded' = yielded
        BY <2>2 DEF CallAck
      <3>4. \A e \in Events : e = yielded => FinalRow(e)'
        BY <3>1, <3>3 DEF FinalRow, HasRow
      <3> QED
        BY <3>2, <3>4, <1>2 DEF RowInv, AckAfterFinalRow
    <2>3. CallAck \/ UNCHANGED acks
      BY TaskFrame
         DEF Next, Pull, EndOfInput, SourceFails, Send, SendNothing, SinkAccepts,
             SinkRefuses, Returned, vars, worldVars, MainStep, YieldAborted,
             YieldRouted, YieldFailed, Joined, RecordRouted, RecordSettled,
             RecordFailed, DeadSinkAccepts, DeadSinkRefuses, RecordDeadLettered,
             RecordAcknowledged, LedgerFailsDispatching, Finish
    <2> QED
      BY <2>1, <2>2, <2>3
  <1> QED
    BY <1>1, <1>3, <1>4 DEF RowInv

\* Nothing is acknowledged before its final row is in the ledger.
THEOREM LedgerBeforeAck == Spec => []AckAfterFinalRow
  <1>1. RowInv => AckAfterFinalRow
    BY DEF RowInv
  <1> QED
    BY TypeInit, TypeStep, RowInit, RowStep, <1>1, PTL DEF Spec
-----------------------------------------------------------------------------
(* Head of line: what a sink took, or a row of a dispatch names, is the    *)
(* event at hand or an acknowledged one.                                   *)

TakenInv == \A s \in Sinks, e \in Events : In(e, taken[s]) => e <= yielded

LEMMA TakenInit == Init => TakenInv
  BY DEF Init, TakenInv, In

\* A sink that takes an event takes the one at hand, and no other sink does.
LEMMA TakenStays ==
    ASSUME TypeInv, [Next]_vars, NEW s \in Sinks, NEW e \in Events,
           In(e, taken'[s])
    PROVE  In(e, taken[s]) \/ e = yielded
  <1> USE DEF TypeInv, TypeOK
  <1>1. \/ UNCHANGED taken
        \/ \E t \in Sinks : /\ main \in Holding
                            /\ taken' = [taken EXCEPT ![t] = Append(@, yielded)]
    <2>1. CASE \E f \in Events : TaskStep(f)
      BY <2>1, TaskFrame
    <2>2. CASE \E r \in Routes : Send(r)
      <3>1. PICK r \in Routes : Send(r)
        BY <2>2
      <3>2. CASE SinkAccepts(r)
        <4>1. <<verdict[r], r>> \in Sinks
          BY <3>2 DEF SinkAccepts, NeedsNoSink, Sinks, Dispositions
        <4> QED
          BY <3>2, <4>1 DEF SinkAccepts, Holding
      <3> QED
        BY <3>1, <3>2 DEF Send, SendNothing, SinkRefuses, inputVars, worldVars
    <2>3. CASE DeadSinkAccepts
      BY <2>3 DEF DeadSinkAccepts, Holding, Sinks
    <2>4. CASE Pull \/ EndOfInput \/ SourceFails \/ Returned \/ UNCHANGED vars
      BY <2>4 DEF Pull, EndOfInput, SourceFails, Returned, vars, worldVars
    <2>5. CASE MainStep /\ ~DeadSinkAccepts
      BY <2>5 DEF MainStep, YieldAborted, YieldRouted, YieldFailed, TakeHead, Joined,
                  RecordRouted, RecordSettled, RecordFailed, DeadSinkRefuses,
                  RecordDeadLettered, CallAck, RecordAcknowledged,
                  LedgerFailsDispatching, Finish, worldVars
    <2> QED
      BY <2>1, <2>2, <2>3, <2>4, <2>5 DEF Next
  <1>2. CASE UNCHANGED taken
    BY <1>2
  <1>3. CASE \E t \in Sinks : /\ main \in Holding
                              /\ taken' = [taken EXCEPT ![t] = Append(@, yielded)]
    <2>1. PICK t \in Sinks : taken' = [taken EXCEPT ![t] = Append(@, yielded)]
      BY <1>3
    <2>2. yielded \in Events /\ taken[t] \in Seq(Events)
      BY <1>3, BusAssumption DEF Control, Events
    <2>3. \A x : In(x, Append(taken[t], yielded)) <=> In(x, taken[t]) \/ x = yielded
      BY <2>2, AppendIn
    <2> QED
      BY <2>1, <2>3
  <1> QED
    BY <1>1, <1>2, <1>3

LEMMA TakenStep == TypeInv /\ TakenInv /\ [Next]_vars => TakenInv'
  <1> SUFFICES ASSUME TypeInv, TakenInv, [Next]_vars PROVE TakenInv'
    OBVIOUS
  <1>1. yielded <= yielded' /\ yielded \in Nat /\ yielded' \in Nat
    BY YieldedStep, BusAssumption DEF TypeInv, TypeOK
  <1>2. SUFFICES ASSUME NEW s \in Sinks, NEW e \in Events, In(e, taken'[s])
                 PROVE  e <= yielded'
    BY DEF TakenInv, In
  <1> QED
    BY <1>1, <1>2, TakenStays DEF TakenInv, Events

\* No event reaches a sink or gets a row of its dispatch before every earlier
\* event is acknowledged, in whatever order the judge calls complete.
THEOREM HeadOfLineHolds == Spec => []HeadOfLine
  <1>1. TypeInv /\ AckInv /\ RowInv /\ TakenInv => HeadOfLine
    <2> SUFFICES ASSUME TypeInv, AckInv, RowInv, TakenInv,
                        NEW e \in Events, Dispatched(e), NEW f \in 1..(e - 1)
                 PROVE  Acked(f)
      BY DEF HeadOfLine
    <2>1. e <= yielded
      BY DEF Dispatched, RowInv, TakenInv, DispatchEntries
    <2>2. acks \in Seq(Events) /\ Len(acks) >= yielded - 1
      BY BusAssumption DEF TypeInv, TypeOK, AckInv, AckCount, Mains, Terminal, Holding
    <2>3. f \in DOMAIN acks
      BY <2>1, <2>2, BusAssumption DEF Events, TypeInv, TypeOK
    <2> QED
      BY <2>3 DEF AckInv, AcksInInputOrder, Acked, In
  <1> QED
    BY TypeInit, TypeStep, AckInit, AckStep, RowInit, RowStep, TakenInit, TakenStep,
       <1>1, PTL DEF Spec
=============================================================================
