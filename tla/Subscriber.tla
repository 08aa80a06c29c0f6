----------------------------- MODULE Subscriber -----------------------------
(***************************************************************************)
(* ChannelSink and its Receiver (src/src/sink.rs, src/src/delivery.rs): a  *)
(* bus publishes to one subscriber, who reads, is slow, or leaves.         *)
(***************************************************************************)
EXTENDS Channel

VARIABLES result   \* what the publish of each item returned

vars == <<chanVars, result>>

Results == {"none", "ok", "closed", "cancelled"}

Init == ChanInit /\ result = [i \in Items |-> "none"]

Return(p, r) == Leave(p) /\ result' = [result EXCEPT ![item[p]] = r]

Call(p) == Publish(p) /\ UNCHANGED result

Advance(p) == (Acquire(p) \/ Enqueue(p) \/ Flushed(p)) /\ UNCHANGED result

Accepted(p) == at[p] = "sent" /\ Return(p, "ok")

\* send fails before the item is queued: SinkError::Closed.
Refused(p) == at[p] = "ready" /\ ~open /\ Return(p, "closed")

\* The run that awaits the publish is dropped.
Cancel(p) == at[p] \in {"locking", "ready", "flushing"} /\ Return(p, "cancelled")

PublishStep(p) == Advance(p) \/ Accepted(p) \/ Refused(p)

Read  == Receive /\ UNCHANGED result
Close == DropReceiver /\ UNCHANGED result

AllReturned == calls = NumItems /\ \A p \in Publishers : at[p] = "idle"
Quiet == AllReturned /\ (queue = <<>>) /\ UNCHANGED vars

Next ==
    \/ \E p \in Publishers : Call(p) \/ PublishStep(p) \/ Cancel(p)
    \/ Read \/ Close
    \/ Quiet

Spec == Init /\ [][Next]_vars

\* The bus polls its publish; the consumer goes on reading until it leaves.
FairSpec == Spec /\ WF_vars(Read) /\ \A p \in Publishers : WF_vars(PublishStep(p))

-----------------------------------------------------------------------------
WasRead(i) == \E j \in DOMAIN read : read[j] = i

TypeOK ==
    /\ at \in [Publishers -> Places]
    /\ item \in [Publishers -> 0..NumItems]
    /\ calls \in 0..NumItems
    /\ queue \in Seq(Items)
    /\ parked \in BOOLEAN
    /\ open \in BOOLEAN
    /\ read \in Seq(Items)
    /\ result \in [Items -> Results]

\* delivery.rs:178: capacity is the number of items that may wait unread
\* before the bus blocks.  Items whose publish returned Ok and that are not
\* read yet never exceed the capacity, with the receiver alive.
UnreadBound ==
    open => Cardinality({i \in Items : result[i] = "ok" /\ ~WasRead(i)}) <= Capacity

\* What is reported delivered and never read, because the receiver left, is
\* at most the capacity and the one item being flushed.
LostBound ==
    Cardinality({i \in Items : result[i] = "ok" /\ ~WasRead(i)}) <= Capacity + 1

\* Every publish returns: a full channel delays the bus, a gone receiver
\* releases it.
PublishReturns ==
    \A p \in Publishers : (at[p] # "idle") ~> (at[p] = "idle")
=============================================================================
