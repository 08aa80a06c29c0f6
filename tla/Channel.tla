------------------------------ MODULE Channel ------------------------------
(***************************************************************************)
(* The bounded channel under every in-process subscriber and every link:   *)
(* futures::channel::mpsc behind an async mutex, as ChannelSink            *)
(* (src/src/sink.rs) and LinkSink (src/src/link.rs) use it.                *)
(*                                                                         *)
(* publish locks the one Sender and sends.  send waits until the sender is *)
(* not parked, enqueues the item, and then flushes: a sender whose item    *)
(* went over the capacity is parked until the receiver takes an item or    *)
(* goes away, and a receiver that goes away counts as flushed.  Dropping   *)
(* the receiver closes the channel and drops what is queued.  The mpsc     *)
(* channel is a library: its half of this module is external.              *)
(*                                                                         *)
(* A publish is a future: its caller may drop it at any await (Cancel).    *)
(***************************************************************************)
EXTENDS Integers, Sequences, FiniteSets

CONSTANTS Publishers,   \* the futures that may publish at the same time
          Capacity,     \* the capacity of mpsc::channel
          NumItems      \* bound: publishes in a behaviour

Items == 1..NumItems

ASSUME ChannelAssumption == Capacity \in Nat /\ NumItems \in Nat

VARIABLES at,      \* where each publisher stands
          item,    \* the item each publisher is at, by order of the calls
          calls,   \* publishes begun
          queue,   \* items enqueued and not received
          parked,  \* the Sender is parked
          open,    \* the receiver exists
          read     \* items received, in order

chanVars == <<at, item, calls, queue, parked, open, read>>

Places == {"idle", "locking", "ready", "flushing", "sent"}

ChanInit ==
    /\ at = [p \in Publishers |-> "idle"]
    /\ item = [p \in Publishers |-> 0]
    /\ calls = 0
    /\ queue = <<>>
    /\ parked = FALSE
    /\ open = TRUE
    /\ read = <<>>

Locked == \E p \in Publishers : at[p] \in {"ready", "flushing"}

Goto(p, place) == at' = [at EXCEPT ![p] = place]

\* publish is called with the next item.
Publish(p) ==
    /\ at[p] = "idle"
    /\ calls < NumItems
    /\ calls' = calls + 1
    /\ item' = [item EXCEPT ![p] = calls + 1]
    /\ Goto(p, "locking")
    /\ UNCHANGED <<queue, parked, open, read>>

Acquire(p) ==
    /\ at[p] = "locking"
    /\ ~Locked
    /\ Goto(p, "ready")
    /\ UNCHANGED <<item, calls, queue, parked, open, read>>

\* Mutant: no flush, the sender returns as soon as the item is queued.
EnqueueOnly(p) ==
    /\ at[p] = "ready"
    /\ open
    /\ ~parked
    /\ queue' = Append(queue, item[p])
    /\ parked' = (Len(queue') > Capacity)
    /\ Goto(p, "sent")
    /\ UNCHANGED <<item, calls, open, read>>

\* Mutant: the sender is never parked.
EnqueueUnbounded(p) ==
    /\ at[p] = "ready"
    /\ open
    /\ queue' = Append(queue, item[p])
    /\ Goto(p, "sent")
    /\ UNCHANGED <<item, calls, parked, open, read>>

\* poll_ready and start_send: over the capacity the item is queued all the
\* same, and its sender parked.
Enqueue(p) ==
    /\ at[p] = "ready"
    /\ open
    /\ ~parked
    /\ queue' = Append(queue, item[p])
    /\ parked' = (Len(queue') > Capacity)
    /\ Goto(p, IF parked' THEN "flushing" ELSE "sent")
    /\ UNCHANGED <<item, calls, open, read>>

\* Mutant: the flush waits for the receiver's word only.
FlushedByRead(p) ==
    /\ at[p] = "flushing"
    /\ ~parked
    /\ Goto(p, "sent")
    /\ UNCHANGED <<item, calls, queue, parked, open, read>>

\* poll_flush: unparked, or the receiver is gone.
Flushed(p) ==
    /\ at[p] = "flushing"
    /\ ~parked \/ ~open
    /\ Goto(p, "sent")
    /\ UNCHANGED <<item, calls, queue, parked, open, read>>

\* The receiver takes an item and unparks the sender.
Receive ==
    /\ open
    /\ queue # <<>>
    /\ read' = Append(read, Head(queue))
    /\ queue' = Tail(queue)
    /\ parked' = FALSE
    /\ UNCHANGED <<at, item, calls, open>>

\* The receiver is dropped, and with it what is queued.
DropReceiver ==
    /\ open
    /\ open' = FALSE
    /\ queue' = <<>>
    /\ UNCHANGED <<at, item, calls, parked, read>>

Leave(p) == Goto(p, "idle") /\ UNCHANGED <<item, calls, queue, parked, open, read>>
=============================================================================
