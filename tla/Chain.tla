-------------------------------- MODULE Chain --------------------------------
(***************************************************************************)
(* Two or more buses chained by a link, from the upstream's source to the  *)
(* downstream's acknowledgement, through restarts of the upstream.         *)
(*                                                                         *)
(* Each publisher of the link is an upstream bus whose one route delivers  *)
(* to the LinkSink and whose Source redelivers: an Envelope dropped before *)
(* its ack, or whose ack failed, comes again (src/src/source.rs).  Of its  *)
(* run (module Bus) this module keeps the main loop: pull the next event,  *)
(* offer it, record the outcome, ack it.  The judge, dead letters and the  *)
(* events still being judged are left to Bus.                              *)
(***************************************************************************)
EXTENDS Link

CONSTANTS NumEvents,  \* bound: events of each upstream's source
          MaxFaults   \* bound: runs dropped and acks refused

ASSUME ChainAssumption == NumEvents \in Nat /\ MaxFaults \in Nat

Events == 1..NumEvents

VARIABLES backlog,  \* what each source has yet to deliver or to redeliver
          loop,     \* where each upstream run stands
          origin,   \* the upstream and event each item carries
          rows,     \* the outcomes each upstream's ledger has for its events
          settled,  \* the events each source heard an ack for
          faults

upVars    == <<backlog, loop, origin, rows, settled, faults>>
allVars   == <<vars, upVars>>

\* The Outcome that outcome_of makes of the publish's result.
OutcomeOf(r) == CASE r = "ok"          -> "Delivered"
                  [] r = "closed"      -> "Unsubscribed"
                  [] r = "unavailable" -> "SinkFailed"

Idle(p) == at[p] = "idle"
Hand(p) == origin[item[p]].event        \* the event the run has pulled
\* The source delivers the event again; when it does matters to no property.
GiveBack(p) == backlog' = [backlog EXCEPT ![p] = <<Hand(p)>> \o @]
To(p, place) == loop' = [loop EXCEPT ![p] = place]

ChainStart ==
    /\ Init
    /\ backlog = [p \in Publishers |-> [e \in Events |-> e]]
    /\ loop = [p \in Publishers |-> "pull"]
    /\ origin = [i \in Items |-> [bus |-> CHOOSE p \in Publishers : TRUE, event |-> 0]]
    /\ rows = [p \in Publishers |-> [e \in Events |-> {}]]
    /\ settled = [p \in Publishers |-> {}]
    /\ faults = 0

-----------------------------------------------------------------------------
\* The source's next envelope; its event goes to the link.
Pull(p) ==
    /\ loop[p] = "pull"
    /\ backlog[p] # <<>>
    /\ Call(p)
    /\ origin' = [origin EXCEPT ![calls + 1] = [bus |-> p, event |-> Head(backlog[p])]]
    /\ backlog' = [backlog EXCEPT ![p] = Tail(@)]
    /\ To(p, "publish")
    /\ UNCHANGED <<rows, settled, faults>>

Offer(p) ==
    /\ loop[p] = "publish"
    /\ PublishStep(p)
    /\ To(p, IF at'[p] = "idle" THEN "record" ELSE "publish")
    /\ UNCHANGED <<backlog, origin, rows, settled, faults>>

\* Mutant: the loop acks on, whatever became of the row.
SkipRecord(p) ==
    /\ loop[p] = "record"
    /\ To(p, "ack")
    /\ UNCHANGED <<vars, backlog, origin, rows, settled, faults>>

\* The Routed and Settled rows: whatever the outcome, the event settles.
RecordOutcome(p) ==
    /\ loop[p] = "record"
    /\ rows' = [rows EXCEPT ![p][Hand(p)] = @ \cup {OutcomeOf(result[item[p]])}]
    /\ To(p, "ack")
    /\ UNCHANGED <<vars, backlog, origin, settled, faults>>

AckSource(p) ==
    /\ loop[p] = "ack"
    /\ settled' = [settled EXCEPT ![p] = @ \cup {Hand(p)}]
    /\ To(p, "pull")
    /\ UNCHANGED <<vars, backlog, origin, rows, faults>>

\* Ack::ack fails: the run only records it; the source delivers again.
AckLost(p) ==
    /\ loop[p] = "ack"
    /\ faults < MaxFaults
    /\ faults' = faults + 1
    /\ GiveBack(p)
    /\ To(p, "pull")
    /\ UNCHANGED <<vars, origin, rows, settled>>

\* Mutant: the restarted source counts the dropped envelope as handled.
ForgetHand(p) ==
    /\ loop[p] # "pull"
    /\ faults < MaxFaults
    /\ faults' = faults + 1
    /\ IF Idle(p) THEN UNCHANGED vars ELSE Cancel(p)
    /\ To(p, "pull")
    /\ UNCHANGED <<backlog, origin, rows, settled>>

\* The run returns an error or is dropped, with the envelope it holds; a new
\* run is started on the same source and, by reference, the same LinkSink.  What
\* was handed to the link stays there.
Restart(p) ==
    /\ loop[p] # "pull"
    /\ faults < MaxFaults
    /\ faults' = faults + 1
    /\ IF Idle(p) THEN UNCHANGED vars ELSE Cancel(p)
    /\ GiveBack(p)
    /\ To(p, "pull")
    /\ UNCHANGED <<origin, rows, settled>>

Handled ==
    /\ \A p \in Publishers : loop[p] = "pull" /\ backlog[p] = <<>>
    /\ queue = <<>> /\ held = <<>>
    /\ UNCHANGED allVars

UpStep(p) == Pull(p) \/ Offer(p) \/ RecordOutcome(p) \/ AckSource(p)

ChainNext ==
    \/ \E p \in Publishers : UpStep(p) \/ AckLost(p) \/ Restart(p)
    \/ (Downstream \/ Stop) /\ UNCHANGED upVars
    \/ Handled

\* Upstream runs are polled; the downstream goes on handling, or stops.
ChainSpec ==
    /\ ChainStart /\ [][ChainNext]_allVars
    /\ WF_allVars(Downstream /\ UNCHANGED upVars)
    /\ \A p \in Publishers : WF_allVars(UpStep(p))

-----------------------------------------------------------------------------
Carries(i, p, e) == origin[i] = [bus |-> p, event |-> e]

\* The downstream has acknowledged this event.
Reached(p, e) == \E i \in Items : Carries(i, p, e) /\ acked[i] = "ok"

\* link.rs:22: "Nothing is silent."  An event acked upstream has been handled
\* downstream, or the upstream's ledger says why not; and a row that says
\* Delivered is true of the downstream.
NothingSilent ==
    \A p \in Publishers : \A e \in Events :
        /\ e \in settled[p] => rows[p][e] # {}
        /\ "Delivered" \in rows[p][e] => Reached(p, e)

\* While the downstream lives, an event is acked upstream only after the
\* downstream acked it, through every restart and lost ack in between.
AtLeastOnceWhileLinked ==
    open => \A p \in Publishers : \A e \in settled[p] : Reached(p, e)

\* link.rs:16 and README.md:63: "The upstream therefore settles and acks its
\* own source only once the whole chain has handled the event: at-least-once
\* holds end to end."
EndToEnd == \A p \in Publishers : \A e \in settled[p] : Reached(p, e)

\* Every event is acked at its source in the end, whatever the downstream
\* does, once the restarts are over.
EveryEventSettles ==
    \A p \in Publishers : \A e \in Events : <>(e \in settled[p])
=============================================================================
