-------------------------------- MODULE Link --------------------------------
(***************************************************************************)
(* The link between two buses (src/src/link.rs).  Upstream, publish sends  *)
(* a Handoff and awaits its one-shot reply; downstream, the bus that runs  *)
(* the LinkSource receives handoffs and resolves each reply with LinkAck.  *)
(*                                                                         *)
(* Upstream may be several futures: routes or buses that share the         *)
(* LinkSink by reference.  Downstream is a bus: it holds at most Window    *)
(* (its concurrency) handoffs unacknowledged and acks them in order; when  *)
(* its run returns or is dropped, what it holds and the source go with it. *)
(* Chain puts the upstream's main loop around it.                          *)
(***************************************************************************)
EXTENDS Channel

CONSTANT Window   \* BusConfig::concurrency of the downstream bus

ASSUME LinkAssumption == Window \in Nat \ {0}

VARIABLES held,    \* handoffs the downstream holds, in the order received
          reply,   \* the one-shot of each handoff
          acked,   \* what LinkAck::ack returned downstream
          result   \* what publish returned upstream

vars == <<chanVars, held, reply, acked, result>>

Replies == {"pending", "acked", "dropped"}
AckResults == {"none", "ok", "rejected"}
Results == {"none", "ok", "closed", "unavailable", "cancelled"}

Init ==
    /\ ChanInit
    /\ held = <<>>
    /\ reply = [i \in Items |-> "pending"]
    /\ acked = [i \in Items |-> "none"]
    /\ result = [i \in Items |-> "none"]

In(i, seq) == \E j \in DOMAIN seq : seq[j] = i

-----------------------------------------------------------------------------
(* Upstream: LinkSink::publish.                                            *)

Return(p, r) ==
    /\ Leave(p)
    /\ result' = [result EXCEPT ![item[p]] = r]
    /\ UNCHANGED <<held, reply, acked>>

Call(p) == Publish(p) /\ UNCHANGED <<held, reply, acked, result>>

\* The lock is released once the handoff is sent, before the reply comes.
Advance(p) ==
    /\ Acquire(p) \/ Enqueue(p) \/ Flushed(p)
    /\ UNCHANGED <<held, reply, acked, result>>

Refused(p) == at[p] = "ready" /\ ~open /\ Return(p, "closed")

\* Mutant: a cancelled reply counts as an acknowledgement.
ReleasedAnyhow(p) ==
    /\ at[p] = "sent"
    /\ reply[item[p]] # "pending"
    /\ Return(p, "ok")

\* Mutant: the upstream gives up before the reply.
ReleasedEarly(p) == at[p] = "sent" /\ Return(p, "unavailable")

\* released.await: acknowledged, or dropped without acknowledgement.
Released(p) ==
    /\ at[p] = "sent"
    /\ reply[item[p]] # "pending"
    /\ Return(p, IF reply[item[p]] = "acked" THEN "ok" ELSE "unavailable")

\* The upstream run is dropped: its end of the one-shot goes with it.
Cancel(p) == at[p] # "idle" /\ Return(p, "cancelled")

PublishStep(p) == Advance(p) \/ Refused(p) \/ Released(p)

-----------------------------------------------------------------------------
(* Downstream: LinkSource::next, LinkAck::ack, and the end of its run.     *)

Take ==
    /\ Len(held) < Window
    /\ Receive
    /\ held' = Append(held, Head(queue))
    /\ UNCHANGED <<reply, acked, result>>

Waiting(i) == \E p \in Publishers : item[p] = i /\ at[p] # "idle"

\* ack: the reply is sent if the upstream still waits for it.
Ack ==
    /\ held # <<>>
    /\ held' = Tail(held)
    /\ IF Waiting(Head(held))
       THEN /\ reply' = [reply EXCEPT ![Head(held)] = "acked"]
            /\ acked' = [acked EXCEPT ![Head(held)] = "ok"]
       ELSE /\ acked' = [acked EXCEPT ![Head(held)] = "rejected"]
            /\ UNCHANGED reply
    /\ UNCHANGED <<chanVars, result>>

\* Mutant: the replies already sent are taken back as well.
StopDroppingReplies ==
    /\ DropReceiver
    /\ held' = <<>>
    /\ reply' = [i \in Items |-> "dropped"]
    /\ UNCHANGED <<acked, result>>

\* The downstream run ends: every handoff held or queued is dropped.
Stop ==
    /\ DropReceiver
    /\ held' = <<>>
    /\ reply' = [i \in Items |-> IF In(i, held) \/ In(i, queue) THEN "dropped"
                                                              ELSE reply[i]]
    /\ UNCHANGED <<acked, result>>

Downstream == Take \/ Ack

-----------------------------------------------------------------------------
TypeOK ==
    /\ at \in [Publishers -> Places]
    /\ item \in [Publishers -> 0..NumItems]
    /\ calls \in 0..NumItems
    /\ queue \in Seq(Items)
    /\ parked \in BOOLEAN
    /\ open \in BOOLEAN
    /\ held \in Seq(Items)
    /\ reply \in [Items -> Replies]
    /\ acked \in [Items -> AckResults]
    /\ result \in [Items -> Results]

\* link.rs:13: a publish completes with Ok only when the downstream has
\* acknowledged that very event.
OkMeansAcked == \A i \in Items : result[i] = "ok" => acked[i] = "ok"

\* The two ends agree: an acknowledgement the downstream believes in was
\* heard, unless the upstream was dropped before it looked.
AckHeard ==
    \A i \in Items : acked[i] = "ok" => \/ result[i] \in {"ok", "cancelled"}
                                        \/ Waiting(i)

\* An event the upstream is told was refused is in nobody's hands: not
\* queued, not held, and never acknowledged.
RefusedIsGone ==
    \A i \in Items : result[i] \in {"closed", "unavailable"} =>
        ~In(i, queue) /\ ~In(i, held) /\ acked[i] = "none"

\* What the link and the downstream hold unacknowledged is bounded by the
\* capacity, the one slot of the sender and the downstream's window.
InFlightBound == Len(queue) + Len(held) <= Capacity + 1 + Window
=============================================================================
