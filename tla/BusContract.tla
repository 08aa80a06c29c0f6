---------------------------- MODULE BusContract ----------------------------
(***************************************************************************)
(* What one run of the bus promises to the source it reads and to the      *)
(* sinks it feeds, without judge, ledger rows, concurrency or retries: a   *)
(* sequential consumer.  It offers the first unacknowledged event to any   *)
(* of its sinks, each at most once, writes its final ledger row,           *)
(* acknowledges it, and only then turns to the next.  It may stop at any   *)
(* moment but between a final row and its ack.                             *)
(***************************************************************************)
EXTENDS Integers, Sequences

CONSTANTS NumEvents,  \* events the input may carry
          Sinks       \* every sink of the bus

VARIABLES acked,      \* events acknowledged: 1..acked
          final,      \* events whose final row is written: 1..final
          taken,      \* what each sink has accepted, in order
          over        \* the run has returned

vars == <<acked, final, taken, over>>

Init ==
    /\ acked = 0
    /\ final = 0
    /\ taken = [s \in Sinks |-> <<>>]
    /\ over \in BOOLEAN

AcceptedBy(s, e) == \E i \in DOMAIN taken[s] : taken[s][i] = e

\* A sink accepts the event at the head of the line.
Offer(s) ==
    /\ ~over
    /\ final = acked
    /\ acked < NumEvents
    /\ ~AcceptedBy(s, acked + 1)
    /\ taken' = [taken EXCEPT ![s] = Append(@, acked + 1)]
    /\ UNCHANGED <<acked, final, over>>

\* Its final row, Settled or DeadLettered.
Conclude ==
    /\ ~over
    /\ final = acked
    /\ acked < NumEvents
    /\ final' = acked + 1
    /\ UNCHANGED <<acked, taken, over>>

Acknowledge ==
    /\ final = acked + 1
    /\ acked' = final
    /\ UNCHANGED <<final, taken, over>>

Stop ==
    /\ final = acked
    /\ over' = TRUE
    /\ UNCHANGED <<acked, final, taken>>

Next == \/ \E s \in Sinks : Offer(s)
        \/ Conclude \/ Acknowledge \/ Stop

Spec == Init /\ [][Next]_vars
=============================================================================
