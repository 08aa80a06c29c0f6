---------------------------- MODULE ChainProofs ----------------------------
(***************************************************************************)
(* Theorems about buses chained by a link, for every number of upstream    *)
(* buses, events, faults, every capacity and every window.                 *)
(***************************************************************************)
EXTENDS Chain, TLAPS

-----------------------------------------------------------------------------
(* Queues without repetitions.                                             *)

NoneTwice(q) == \A i, j \in DOMAIN q : q[i] = q[j] => i = j

LEMMA InAppend ==
    ASSUME NEW S, NEW q \in Seq(S), NEW x \in S
    PROVE  /\ Append(q, x) \in Seq(S) /\ Len(Append(q, x)) = Len(q) + 1
           /\ \A y : In(y, Append(q, x)) <=> In(y, q) \/ y = x
           /\ NoneTwice(q) /\ ~In(x, q) => NoneTwice(Append(q, x))
  <1>1. /\ DOMAIN Append(q, x) = DOMAIN q \cup {Len(q) + 1}
        /\ \A i \in DOMAIN q : Append(q, x)[i] = q[i]
        /\ Append(q, x)[Len(q) + 1] = x
    OBVIOUS
  <1> QED
    BY <1>1 DEF In, NoneTwice

LEMMA InTail ==
    ASSUME NEW S, NEW q \in Seq(S), q # <<>>, NoneTwice(q)
    PROVE  /\ Head(q) \in S /\ In(Head(q), q)
           /\ Tail(q) \in Seq(S) /\ Len(Tail(q)) = Len(q) - 1
           /\ \A y : In(y, Tail(q)) <=> In(y, q) /\ y # Head(q)
           /\ NoneTwice(Tail(q))
  <1>1. /\ Head(q) = q[1] /\ q[1] \in S /\ 1 \in DOMAIN q
        /\ Tail(q) \in Seq(S) /\ Len(Tail(q)) = Len(q) - 1
        /\ Len(q) \in Nat /\ DOMAIN q = 1..Len(q) /\ DOMAIN Tail(q) = 1..(Len(q) - 1)
        /\ \A i \in 1..(Len(q) - 1) : Tail(q)[i] = q[i + 1]
    OBVIOUS
  <1>2. ASSUME NEW y PROVE In(y, Tail(q)) <=> In(y, q) /\ y # Head(q)
    <2>1. ASSUME In(y, Tail(q)) PROVE In(y, q) /\ y # Head(q)
      <3>1. PICK i \in 1..(Len(q) - 1) : q[i + 1] = y
        BY <1>1, <2>1 DEF In
      <3>2. i + 1 \in DOMAIN q /\ i + 1 # 1
        BY <1>1
      <3> QED
        BY <1>1, <3>1, <3>2 DEF In, NoneTwice
    <2>2. ASSUME In(y, q), y # Head(q) PROVE In(y, Tail(q))
      <3>1. PICK i \in DOMAIN q : q[i] = y
        BY <2>2 DEF In
      <3>2. i - 1 \in 1..(Len(q) - 1) /\ Tail(q)[i - 1] = y
        BY <1>1, <2>2, <3>1
      <3> QED
        BY <1>1, <3>2 DEF In
    <2> QED
      BY <2>1, <2>2
  <1>3. NoneTwice(Tail(q))
    BY <1>1 DEF NoneTwice
  <1> QED
    BY <1>1, <1>2, <1>3 DEF In

-----------------------------------------------------------------------------
(* The link's invariant.  A handoff is in one place: with its publisher,   *)
(* in the queue, in the downstream's hands, or past; its one-shot, what    *)
(* the downstream was told and what the upstream was told agree with it.   *)

Active(p)  == at[p] # "idle"
InLink(i)  == In(i, queue) \/ In(i, held)
Fresh(i)   == result[i] = "none" /\ reply[i] = "pending" /\ acked[i] = "none" /\ ~InLink(i)

Publishing ==
    \A p \in Publishers : Active(p) =>
        /\ item[p] \in 1..calls /\ result[item[p]] = "none"
        /\ at[p] \in {"locking", "ready"} => Fresh(item[p])
        /\ \A q \in Publishers : Active(q) /\ item[q] = item[p] => q = p

OneSender ==
    \A p, q \in Publishers :
        at[p] \in {"ready", "flushing"} /\ at[q] \in {"ready", "flushing"} => p = q

OnePlace == /\ NoneTwice(queue) /\ NoneTwice(held)
            /\ \A i \in Items : ~(In(i, queue) /\ In(i, held))

Bounds == /\ Len(queue) <= IF parked THEN Capacity + 1 ELSE Capacity
          /\ Len(held) <= Window
          /\ ~open => queue = <<>> /\ held = <<>>

OneShots ==
    \A i \in Items :
        /\ i > calls => Fresh(i)
        /\ InLink(i) => reply[i] = "pending" /\ acked[i] = "none"
        /\ reply[i] = "acked" <=> acked[i] = "ok"
        /\ reply[i] = "dropped" => acked[i] = "none" /\ ~InLink(i) /\ ~open
        /\ result[i] = "ok" => acked[i] = "ok"
        /\ acked[i] = "ok" => result[i] \in {"ok", "cancelled"} \/ Waiting(i)
        /\ result[i] \in {"closed", "unavailable"} =>
              ~InLink(i) /\ acked[i] = "none" /\ ~open

LinkInv == TypeOK /\ Publishing /\ OneSender /\ OnePlace /\ Bounds /\ OneShots


LEMMA LinkStart == Init => LinkInv
  <1> SUFFICES ASSUME Init PROVE LinkInv
    OBVIOUS
  <1> USE ChannelAssumption, LinkAssumption DEF Init, ChanInit
  <1>1. TypeOK
    <2>1. queue \in Seq(Items) /\ held \in Seq(Items)
      OBVIOUS
    <2>2. at \in [Publishers -> Places] /\ parked \in BOOLEAN /\ open \in BOOLEAN
      BY DEF Places
    <2>4. item \in [Publishers -> 0..NumItems] /\ calls \in 0..NumItems
      <3>1. 0 \in 0..NumItems
        OBVIOUS
      <3> QED
        BY <3>1
    <2>3. /\ reply \in [Items -> Replies] /\ acked \in [Items -> AckResults]
          /\ result \in [Items -> Results]
      BY DEF Replies, AckResults, Results
    <2> QED
      BY <2>1, <2>2, <2>3, <2>4 DEF TypeOK
  <1>2. Publishing /\ OneSender
    BY DEF Publishing, OneSender, Active
  <1>3. OnePlace /\ Bounds
    BY DEF OnePlace, Bounds, NoneTwice, In
  <1>4. OneShots
    BY DEF OneShots, Fresh, InLink, In
  <1> QED
    BY <1>1, <1>2, <1>3, <1>4 DEF LinkInv

-----------------------------------------------------------------------------
(* Upstream: the steps of a publish.                                       *)

LEMMA LinkCall ==
    ASSUME LinkInv, NEW p \in Publishers, Call(p)
    PROVE  LinkInv'
  <1> USE ChannelAssumption DEF LinkInv, TypeOK
  <1>1. /\ ~Active(p) /\ calls' = calls + 1 /\ calls + 1 \in Items
        /\ item' = [item EXCEPT ![p] = calls + 1] /\ at' = [at EXCEPT ![p] = "locking"]
        /\ UNCHANGED <<queue, parked, open, held, reply, acked, result>>
    BY DEF Call, Publish, Goto, Active, Items
  <1>2. TypeOK'
    BY <1>1 DEF Places, Items
  <1>3. \A i \in Items : /\ InLink(i)' <=> InLink(i)
                         /\ Fresh(i)' <=> Fresh(i)
                         /\ Waiting(i) => Waiting(i)'
    BY <1>1 DEF InLink, Fresh, Waiting, Active, In
  <1>4. Publishing'
    <2>1. Fresh(calls + 1)
      BY <1>1 DEF OneShots, Items
    <2>2. ASSUME NEW q \in Publishers, Active(q), q # p PROVE item[q] # calls + 1
      BY <1>1, <2>2 DEF Publishing, Items
    <2> QED
      BY <1>1, <1>3, <2>1, <2>2 DEF Publishing, Active, Fresh, InLink, In, Items
  <1>5. OneSender'
    BY <1>1 DEF OneSender
  <1>6. OneShots'
    BY <1>1, <1>3 DEF OneShots, Items
  <1>7. OnePlace' /\ Bounds'
    BY <1>1 DEF OnePlace, Bounds, In, NoneTwice
  <1> QED
    BY <1>2, <1>4, <1>5, <1>6, <1>7

\* A publisher that moves on takes its handoff along.
LEMMA LinkMove ==
    ASSUME LinkInv, NEW p \in Publishers, Acquire(p) \/ Flushed(p),
           UNCHANGED <<held, reply, acked, result>>
    PROVE  LinkInv'
  <1> USE ChannelAssumption DEF LinkInv, TypeOK
  <1>1. /\ UNCHANGED <<item, calls, queue, parked, open>>
        /\ \/ /\ at[p] = "locking" /\ at' = [at EXCEPT ![p] = "ready"]
              /\ \A q \in Publishers : at[q] \notin {"ready", "flushing"}
           \/ at[p] = "flushing" /\ at' = [at EXCEPT ![p] = "sent"]
    BY DEF Acquire, Flushed, Goto, Locked
  <1>2. TypeOK'
    BY <1>1 DEF Places
  <1>3. \A i \in Items : /\ InLink(i)' <=> InLink(i)
                         /\ Fresh(i)' <=> Fresh(i)
                         /\ Waiting(i)' <=> Waiting(i)
    BY <1>1 DEF InLink, Fresh, Waiting, In
  <1>4. Publishing'
    BY <1>1, <1>3 DEF Publishing, Active, Fresh, InLink, In, Items
  <1>5. OneSender'
    BY <1>1 DEF OneSender
  <1>6. OneShots'
    BY <1>1, <1>3 DEF OneShots, Items
  <1>7. OnePlace' /\ Bounds'
    BY <1>1 DEF OnePlace, Bounds, In, NoneTwice
  <1> QED
    BY <1>2, <1>4, <1>5, <1>6, <1>7

LEMMA LinkEnqueue ==
    ASSUME LinkInv, NEW p \in Publishers, Enqueue(p),
           UNCHANGED <<held, reply, acked, result>>
    PROVE  LinkInv'
  <1> USE ChannelAssumption DEF LinkInv, TypeOK
  <1>1. /\ at[p] = "ready" /\ open /\ ~parked /\ queue' = Append(queue, item[p])
        /\ parked' = (Len(queue') > Capacity)
        /\ at' = [at EXCEPT ![p] = IF parked' THEN "flushing" ELSE "sent"]
        /\ UNCHANGED <<item, calls, open>>
    BY DEF Enqueue, Goto
  <1>2. item[p] \in Items /\ Fresh(item[p])
    BY <1>1 DEF Publishing, Active, Items
  <1>3. /\ queue' \in Seq(Items) /\ Len(queue') = Len(queue) + 1
        /\ \A i : In(i, queue') <=> In(i, queue) \/ i = item[p]
        /\ NoneTwice(queue')
    BY <1>1, <1>2, InAppend DEF OnePlace, Fresh, InLink
  <1>4. TypeOK'
    BY <1>1, <1>3 DEF Places
  <1>5. \A i \in Items : /\ InLink(i)' <=> InLink(i) \/ i = item[p]
                         /\ Waiting(i)' <=> Waiting(i)
    BY <1>1, <1>3 DEF InLink, Waiting, In
  <1>6. Publishing'
    <2>1. ASSUME NEW q \in Publishers, Active(q)'
          PROVE  /\ item'[q] \in 1..calls' /\ result'[item'[q]] = "none"
                 /\ at'[q] \in {"locking", "ready"} => Fresh(item[q])'
                 /\ \A r \in Publishers : Active(r)' /\ item'[r] = item'[q] => r = q
      <3>1. Active(q) /\ Active(p)
        BY <1>1, <2>1 DEF Active
      <3>2. at'[q] \in {"locking", "ready"} => q # p /\ at[q] \in {"locking", "ready"}
        BY <1>1
      <3>3. at'[q] \in {"locking", "ready"} => item[q] # item[p] /\ Fresh(item[q])
        BY <3>1, <3>2 DEF Publishing
      <3>4. at'[q] \in {"locking", "ready"} => Fresh(item[q])'
        BY <1>1, <1>3, <3>3 DEF Fresh, InLink, In
      <3>5. \A r \in Publishers : Active(r)' => Active(r)
        BY <1>1 DEF Active
      <3> QED
        BY <1>1, <3>1, <3>4, <3>5 DEF Publishing
    <2> QED
      BY <1>1, <2>1 DEF Publishing, Fresh, InLink, In
  <1>7. OneSender'
    BY <1>1 DEF OneSender
  <1>8. OnePlace'
    BY <1>1, <1>2, <1>3 DEF OnePlace, Fresh, InLink, In, NoneTwice
  <1>9. Bounds'
    <2>1. Len(queue) \in Nat /\ Len(queue) <= Capacity
      BY <1>1 DEF Bounds
    <2>p. parked' <=> Len(queue') > Capacity
      BY <1>1, Zenon
    <2>2. Len(queue') <= IF parked' THEN Capacity + 1 ELSE Capacity
      BY <1>3, <2>1, <2>p
    <2> QED
      BY <1>1, <2>2 DEF Bounds
  <1>10. OneShots'
    <2>1. item[p] <= calls
      BY <1>1 DEF Publishing, Active
    <2>2. ~(item[p] > calls)
      BY <1>2, <2>1 DEF Items
    <2> QED
      BY <1>1, <1>2, <1>5, <2>2 DEF OneShots, Fresh
  <1> QED
    BY <1>4, <1>6, <1>7, <1>8, <1>9, <1>10

\* A publish that returns: its handoff is told once.
LEMMA LinkReturn ==
    ASSUME LinkInv, NEW p \in Publishers, Refused(p) \/ Released(p) \/ Cancel(p)
    PROVE  LinkInv'
  <1> USE ChannelAssumption DEF LinkInv, TypeOK
  <1> DEFINE i0 == item[p]
  <1>1. /\ Active(p) /\ i0 \in Items /\ at' = [at EXCEPT ![p] = "idle"]
        /\ result' = [result EXCEPT ![i0] = result'[i0]]
        /\ UNCHANGED <<item, calls, queue, parked, open, held, reply, acked>>
        /\ \/ result'[i0] = "closed" /\ ~open /\ at[p] = "ready"
           \/ result'[i0] = "ok" /\ reply[i0] = "acked"
           \/ result'[i0] = "unavailable" /\ reply[i0] = "dropped"
           \/ result'[i0] = "cancelled"
    <2>1. /\ Active(p) /\ at' = [at EXCEPT ![p] = "idle"]
          /\ UNCHANGED <<item, calls, queue, parked, open, held, reply, acked>>
          /\ \E r \in Results : result' = [result EXCEPT ![i0] = r]
      BY DEF Refused, Released, Cancel, Return, Leave, Goto, Active, Results
    <2>2. i0 \in Items
      BY <2>1 DEF Publishing, Items
    <2>3. \/ result'[i0] = "closed" /\ ~open /\ at[p] = "ready"
          \/ result'[i0] = "ok" /\ reply[i0] = "acked"
          \/ result'[i0] = "unavailable" /\ reply[i0] = "dropped"
          \/ result'[i0] = "cancelled"
      BY <2>2 DEF Refused, Released, Cancel, Return, Replies
    <2> QED
      BY <2>1, <2>2, <2>3
  <1>2. TypeOK'
    <2>1. result'[i0] \in Results
      BY <1>1 DEF Results
    <2>2. result' \in [Items -> Results]
      BY <1>1, <2>1
    <2>3. at' \in [Publishers -> Places]
      BY <1>1 DEF Places
    <2> QED
      BY <1>1, <2>2, <2>3
  <1>3. \A q \in Publishers : Active(q)' <=> Active(q) /\ q # p
    BY <1>1 DEF Active
  <1>4. \A i \in Items : /\ InLink(i)' <=> InLink(i)
                         /\ i # i0 => (Fresh(i)' <=> Fresh(i)) /\ (Waiting(i)' <=> Waiting(i))
    BY <1>1 DEF InLink, Fresh, Waiting, In
  <1>5. Publishing'
    <2>1. ASSUME NEW q \in Publishers, Active(q)'
          PROVE  /\ item'[q] \in 1..calls' /\ result'[item'[q]] = "none"
                 /\ at'[q] \in {"locking", "ready"} => Fresh(item[q])'
                 /\ \A r \in Publishers : Active(r)' /\ item'[r] = item'[q] => r = q
      <3>1. Active(q) /\ q # p /\ item[q] # i0 /\ item[q] \in Items
        BY <1>1, <1>3, <2>1 DEF Publishing, Items
      <3>2. at'[q] \in {"locking", "ready"} => Fresh(item[q])'
        BY <1>1, <1>4, <3>1 DEF Publishing, Fresh, InLink, In
      <3> QED
        BY <1>1, <1>3, <3>1, <3>2 DEF Publishing
    <2> QED
      BY <1>1, <2>1 DEF Publishing, Fresh, InLink, In
  <1>6. OneSender'
    BY <1>1 DEF OneSender
  <1>7. OnePlace' /\ Bounds'
    BY <1>1 DEF OnePlace, Bounds, In, NoneTwice
  <1>8. OneShots'
    <2>1. ASSUME NEW i \in Items, i # i0
          PROVE  /\ i > calls' => Fresh(i)'
                 /\ InLink(i)' => reply'[i] = "pending" /\ acked'[i] = "none"
                 /\ reply'[i] = "acked" <=> acked'[i] = "ok"
                 /\ reply'[i] = "dropped" => acked'[i] = "none" /\ ~InLink(i)' /\ ~open'
                 /\ result'[i] = "ok" => acked'[i] = "ok"
                 /\ acked'[i] = "ok" => result'[i] \in {"ok", "cancelled"} \/ Waiting(i)'
                 /\ result'[i] \in {"closed", "unavailable"} =>
                       ~InLink(i)' /\ acked'[i] = "none" /\ ~open'
      BY <1>1, <1>4, <2>1 DEF OneShots
    <2>2. /\ ~(i0 > calls)
          /\ at[p] = "ready" => Fresh(i0)
      BY <1>1 DEF Publishing, Items
    <2>3. /\ i0 > calls' => Fresh(i0)'
          /\ InLink(i0)' => reply'[i0] = "pending" /\ acked'[i0] = "none"
          /\ reply'[i0] = "acked" <=> acked'[i0] = "ok"
          /\ reply'[i0] = "dropped" => acked'[i0] = "none" /\ ~InLink(i0)' /\ ~open'
          /\ result'[i0] = "ok" => acked'[i0] = "ok"
          /\ acked'[i0] = "ok" => result'[i0] \in {"ok", "cancelled"}
          /\ result'[i0] \in {"closed", "unavailable"} =>
                ~InLink(i0)' /\ acked'[i0] = "none" /\ ~open'
      BY <1>1, <1>4, <2>2 DEF OneShots, Fresh
    <2> QED
      BY <1>1, <2>1, <2>3 DEF OneShots, Fresh, InLink, In
  <1> QED
    BY <1>2, <1>5, <1>6, <1>7, <1>8


-----------------------------------------------------------------------------
(* Downstream.                                                             *)

LEMMA LinkTake ==
    ASSUME LinkInv, Take
    PROVE  LinkInv'
  <1> USE ChannelAssumption, LinkAssumption DEF LinkInv, TypeOK
  <1>1. /\ Len(held) < Window /\ open /\ queue # <<>> /\ parked' = FALSE
        /\ queue' = Tail(queue) /\ held' = Append(held, Head(queue))
        /\ UNCHANGED <<at, item, calls, open, reply, acked, result>>
    BY DEF Take, Receive
  <1>2. /\ Head(queue) \in Items /\ In(Head(queue), queue)
        /\ queue' \in Seq(Items) /\ Len(queue') = Len(queue) - 1
        /\ \A i : In(i, queue') <=> In(i, queue) /\ i # Head(queue)
        /\ NoneTwice(queue')
    BY <1>1, InTail DEF OnePlace
  <1>3. /\ held' \in Seq(Items) /\ Len(held') = Len(held) + 1
        /\ \A i : In(i, held') <=> In(i, held) \/ i = Head(queue)
        /\ NoneTwice(held')
    BY <1>1, <1>2, InAppend DEF OnePlace
  <1>4. TypeOK'
    BY <1>1, <1>2, <1>3
  <1>5. \A i \in Items : /\ InLink(i)' <=> InLink(i)
                         /\ Fresh(i)' <=> Fresh(i)
                         /\ Waiting(i)' <=> Waiting(i)
    BY <1>1, <1>2, <1>3 DEF InLink, Fresh, Waiting, In
  <1>6. Publishing'
    <2>1. ASSUME NEW q \in Publishers, Active(q), at[q] \in {"locking", "ready"}
          PROVE  Fresh(item[q])'
      <3>1. item[q] \in Items /\ Fresh(item[q])
        BY <2>1 DEF Publishing, Items
      <3> QED
        BY <1>1, <1>5, <3>1 DEF Fresh, InLink, In
    <2> QED
      BY <1>1, <2>1 DEF Publishing, Active, Fresh, InLink, In
  <1>7. OneSender'
    BY <1>1 DEF OneSender
  <1>8. OnePlace'
    BY <1>2, <1>3 DEF OnePlace, In, NoneTwice
  <1>9. Bounds'
    <2>1. Len(queue) \in Nat /\ Len(held) \in Nat
      OBVIOUS
    <2> QED
      BY <1>1, <1>2, <1>3, <2>1 DEF Bounds
  <1>10. OneShots'
    BY <1>1, <1>5 DEF OneShots, Items
  <1> QED
    BY <1>4, <1>6, <1>7, <1>8, <1>9, <1>10

LEMMA LinkAck ==
    ASSUME LinkInv, Ack
    PROVE  LinkInv'
  <1> USE ChannelAssumption, LinkAssumption DEF LinkInv, TypeOK
  <1> DEFINE i0 == Head(held)
  <1>1. /\ held # <<>> /\ held' = Tail(held)
        /\ UNCHANGED <<at, item, calls, queue, parked, open, result>>
    BY DEF Ack, chanVars
  <1>2. /\ i0 \in Items /\ In(i0, held)
        /\ held' \in Seq(Items) /\ Len(held') = Len(held) - 1
        /\ \A i : In(i, held') <=> In(i, held) /\ i # i0
        /\ NoneTwice(held')
    BY <1>1, InTail DEF OnePlace
  <1>3. /\ InLink(i0) /\ ~In(i0, queue)
        /\ reply[i0] = "pending" /\ acked[i0] = "none"
    BY <1>2 DEF InLink, OnePlace, OneShots
  <1>4. /\ \A i \in Items : i # i0 => reply'[i] = reply[i] /\ acked'[i] = acked[i]
        /\ \/ Waiting(i0) /\ reply'[i0] = "acked" /\ acked'[i0] = "ok"
           \/ reply'[i0] = "pending" /\ acked'[i0] = "rejected"
        /\ reply' \in [Items -> Replies] /\ acked' \in [Items -> AckResults]
    BY <1>2, <1>3 DEF Ack, Replies, AckResults
  <1>5. TypeOK'
    BY <1>1, <1>2, <1>4
  <1>6. \A i \in Items : /\ InLink(i)' <=> InLink(i) /\ i # i0
                         /\ i # i0 => (Fresh(i)' <=> Fresh(i))
                         /\ Waiting(i)' <=> Waiting(i)
    BY <1>1, <1>2, <1>3, <1>4 DEF InLink, Fresh, Waiting, In
  <1>7. Publishing'
    <2>1. ASSUME NEW q \in Publishers, Active(q), at[q] \in {"locking", "ready"}
          PROVE  item[q] \in Items /\ Fresh(item[q])'
      <3>1. item[q] \in Items /\ Fresh(item[q])
        BY <2>1 DEF Publishing, Items
      <3>2. item[q] # i0
        BY <1>3, <3>1 DEF Fresh
      <3> QED
        BY <1>1, <1>6, <3>1, <3>2 DEF Fresh, InLink, In
    <2> QED
      BY <1>1, <2>1 DEF Publishing, Active, Fresh, InLink, In
  <1>8. OneSender'
    BY <1>1 DEF OneSender
  <1>9. OnePlace'
    BY <1>1, <1>2 DEF OnePlace, In, NoneTwice
  <1>10. Bounds'
    <2>1. Len(held) \in Nat
      OBVIOUS
    <2> QED
      BY <1>1, <1>2, <2>1 DEF Bounds
  <1>11. OneShots'
    <2>1. /\ ~(i0 > calls) /\ result[i0] \notin {"ok", "closed", "unavailable"}
      BY <1>2, <1>3 DEF OneShots, Fresh
    <2>2. ASSUME NEW i \in Items, i = i0
          PROVE  /\ ~(i > calls') /\ ~InLink(i)'
                 /\ reply'[i] = "acked" <=> acked'[i] = "ok"
                 /\ reply'[i] # "dropped"
                 /\ result'[i] \notin {"ok", "closed", "unavailable"}
                 /\ acked'[i] = "ok" => Waiting(i)'
      <3>1. Waiting(i)' <=> Waiting(i0)
        BY <1>6, <2>2
      <3> QED
        BY <1>1, <1>2, <1>4, <1>6, <2>1, <2>2, <3>1
    <2> QED
      BY <1>1, <1>4, <1>6, <2>2 DEF OneShots
  <1> QED
    BY <1>5, <1>7, <1>8, <1>9, <1>10, <1>11

LEMMA LinkStop ==
    ASSUME LinkInv, Stop
    PROVE  LinkInv'
  <1> USE ChannelAssumption, LinkAssumption DEF LinkInv, TypeOK
  <1>1. /\ open /\ open' = FALSE /\ queue' = <<>> /\ held' = <<>>
        /\ UNCHANGED <<at, item, calls, parked, acked, result>>
        /\ reply' = [i \in Items |-> IF InLink(i) THEN "dropped" ELSE reply[i]]
    BY DEF Stop, DropReceiver, InLink
  <1>2. TypeOK'
    <2>1. queue' \in Seq(Items) /\ held' \in Seq(Items)
      <3> <<>> \in Seq(Items)
        OBVIOUS
      <3> QED
        BY <1>1
    <2>2. reply' \in [Items -> Replies]
      BY <1>1 DEF Replies
    <2> QED
      BY <1>1, <2>1, <2>2
  <1>3. \A i : ~In(i, queue') /\ ~In(i, held')
    BY <1>1 DEF In
  <1>4. \A i \in Items : /\ ~InLink(i)'
                         /\ Fresh(i) => Fresh(i)'
                         /\ Waiting(i)' <=> Waiting(i)
    BY <1>1, <1>3 DEF InLink, Fresh, Waiting, In
  <1>5. Publishing'
    BY <1>1, <1>4 DEF Publishing, Active, Fresh, InLink, In, Items
  <1>6. OneSender'
    BY <1>1 DEF OneSender
  <1>7. OnePlace' /\ Bounds'
    BY <1>1 DEF OnePlace, Bounds, In, NoneTwice
  <1>8. OneShots'
    BY <1>1, <1>4 DEF OneShots, Items
  <1> QED
    BY <1>2, <1>5, <1>6, <1>7, <1>8

\* A step of the link, whoever takes it.
LinkStep ==
    \/ \E p \in Publishers : Call(p) \/ PublishStep(p) \/ Cancel(p)
    \/ Take \/ Ack \/ Stop
    \/ UNCHANGED vars

LEMMA LinkKeeps == LinkInv /\ LinkStep => LinkInv'
  <1> SUFFICES ASSUME LinkInv, LinkStep PROVE LinkInv'
    OBVIOUS
  <1>1. CASE \E p \in Publishers : PublishStep(p)
    BY <1>1, LinkMove, LinkEnqueue, LinkReturn DEF PublishStep, Advance
  <1>2. CASE UNCHANGED vars
    BY <1>2 DEF vars, chanVars, LinkInv, TypeOK, Publishing, OneSender, OnePlace, Bounds,
                OneShots, Fresh, InLink, Active, In, NoneTwice, Waiting
  <1> QED
    BY <1>1, <1>2, LinkCall, LinkReturn, LinkTake, LinkAck, LinkStop DEF LinkStep


\* What the upstream or the downstream was told is not taken back, and a
\* receiver that is gone does not come back.
LEMMA LinkStable ==
    LinkInv /\ LinkStep =>
        /\ \A i \in Items : /\ acked[i] = "ok" => acked'[i] = "ok"
                            /\ result[i] # "none" => result'[i] = result[i]
        /\ open' => open
        /\ calls' \in Nat /\ calls <= calls'
  <1> SUFFICES ASSUME LinkInv, LinkStep
               PROVE  /\ \A i \in Items : /\ acked[i] = "ok" => acked'[i] = "ok"
                                          /\ result[i] # "none" => result'[i] = result[i]
                      /\ open' => open
                      /\ calls' \in Nat /\ calls <= calls'
    OBVIOUS
  <1> USE ChannelAssumption DEF LinkInv, TypeOK
  <1>1. CASE \E p \in Publishers : Call(p)
    BY <1>1 DEF Call, Publish
  <1>2. CASE \E p \in Publishers : Advance(p)
    BY <1>2 DEF Advance, Acquire, Enqueue, Flushed
  <1>3. ASSUME NEW p \in Publishers, Refused(p) \/ Released(p) \/ Cancel(p)
        PROVE  /\ \A i \in Items : result[i] # "none" => result'[i] = result[i]
               /\ UNCHANGED <<acked, open, calls>>
    <2>1. item[p] \in Items /\ result[item[p]] = "none"
      BY <1>3 DEF Refused, Released, Cancel, Publishing, Active, Items
    <2>2. \E r : result' = [result EXCEPT ![item[p]] = r]
      BY <1>3 DEF Refused, Released, Cancel, Return
    <2>3. UNCHANGED <<acked, open, calls>>
      BY <1>3 DEF Refused, Released, Cancel, Return, Leave
    <2> QED
      BY <2>1, <2>2, <2>3
  <1>4. CASE Take
    BY <1>4 DEF Take, Receive
  <1>5. CASE Ack
    <2>1. UNCHANGED <<result, open, calls>>
      BY <1>5 DEF Ack, chanVars
    <2>2. Head(held) \in Items /\ acked[Head(held)] = "none"
      <3>1. Head(held) \in Items /\ In(Head(held), held)
        BY <1>5, InTail DEF Ack, OnePlace
      <3> QED
        BY <3>1 DEF OneShots, InLink
    <2>3. \E r : acked' = [acked EXCEPT ![Head(held)] = r]
      BY <1>5 DEF Ack
    <2> QED
      BY <2>1, <2>2, <2>3
  <1>6. CASE Stop
    BY <1>6 DEF Stop, DropReceiver
  <1>7. CASE UNCHANGED vars
    BY <1>7 DEF vars, chanVars
  <1>8. calls \in Nat
    OBVIOUS
  <1> QED
    BY <1>1, <1>2, <1>3, <1>4, <1>5, <1>6, <1>7, <1>8 DEF LinkStep, PublishStep

\* What the link promises its two ends.
LEMMA LinkPromises ==
    LinkInv => OkMeansAcked /\ AckHeard /\ RefusedIsGone /\ InFlightBound
  <1> SUFFICES ASSUME LinkInv
               PROVE  OkMeansAcked /\ AckHeard /\ RefusedIsGone /\ InFlightBound
    OBVIOUS
  <1> USE DEF LinkInv
  <1>1. OkMeansAcked /\ AckHeard /\ RefusedIsGone
    BY DEF OneShots, InLink, OkMeansAcked, AckHeard, RefusedIsGone
  <1>2. InFlightBound
    <2>1. /\ Len(queue) \in Nat /\ Len(held) \in Nat
          /\ Len(queue) <= Capacity + 1 /\ Len(held) <= Window
      BY ChannelAssumption DEF TypeOK, Bounds
    <2> QED
      BY <2>1, ChannelAssumption, LinkAssumption DEF InFlightBound
  <1> QED
    BY <1>1, <1>2

-----------------------------------------------------------------------------
(* The chain's invariant.  What a run holds is the item it published, which *)
(* carries its event; past the publish the result is in, and by the ack the *)
(* row is written.                                                          *)

ChainTypes ==
    /\ backlog \in [Publishers -> Seq(Events)]
    /\ loop \in [Publishers -> {"pull", "publish", "record", "ack"}]
    /\ origin = [i \in Items |-> origin[i]]
    /\ rows \in [Publishers -> [Events -> SUBSET {"Delivered", "Unsubscribed", "SinkFailed"}]]
    /\ settled \in [Publishers -> SUBSET Events]

Holds(p) ==
    /\ item[p] \in 1..calls
    /\ Carries(item[p], p, Hand(p))
    /\ Hand(p) \in Events

RunInv(p) ==
    /\ loop[p] = "publish" <=> Active(p)
    /\ loop[p] # "pull" => Holds(p)
    /\ loop[p] \in {"record", "ack"} => result[item[p]] \in {"ok", "closed", "unavailable"}
    /\ loop[p] = "ack" => OutcomeOf(result[item[p]]) \in rows[p][Hand(p)]

InHand == \A p \in Publishers : RunInv(p)

ChainInv ==
    LinkInv /\ ChainTypes /\ InHand /\ NothingSilent /\ AtLeastOnceWhileLinked

LEMMA ChainBegins == ChainStart => ChainInv
  <1> SUFFICES ASSUME ChainStart PROVE ChainInv
    OBVIOUS
  <1>1. LinkInv
    BY LinkStart DEF ChainStart
  <1>2. ChainTypes
    <2>1. [e \in Events |-> e] \in Seq(Events)
      BY ChainAssumption DEF Events
    <2> QED
      BY <2>1 DEF ChainStart, ChainTypes
  <1>3. InHand
    BY DEF InHand, RunInv, ChainStart, Active, Init, ChanInit
  <1>4. NothingSilent /\ AtLeastOnceWhileLinked
    BY DEF ChainStart, NothingSilent, AtLeastOnceWhileLinked
  <1> QED
    BY <1>1, <1>2, <1>3, <1>4 DEF ChainInv

\* Each step of the chain is a step of the link, or leaves the link alone.
LEMMA ChainStepIsLinkStep == [ChainNext]_allVars => LinkStep
  BY DEF ChainNext, UpStep, Pull, Offer, RecordOutcome, AckSource, AckLost, Restart,
         Downstream, Handled, LinkStep, allVars

-----------------------------------------------------------------------------
(* The steps of an upstream run.                                           *)

LEMMA OutcomesTold ==
    /\ OutcomeOf("ok") = "Delivered"
    /\ OutcomeOf("closed") = "Unsubscribed"
    /\ OutcomeOf("unavailable") = "SinkFailed"
  BY Zenon DEF OutcomeOf


LEMMA ReachedStays ==
    ASSUME LinkInv, LinkStep, NEW p, NEW e, Reached(p, e),
           \A i \in Items : acked[i] = "ok" => origin'[i] = origin[i]
    PROVE  Reached(p, e)'
  BY LinkStable DEF Reached, Carries

\* A run that takes no part in a step.
LEMMA RunStays ==
    ASSUME ChainInv, LinkStep, NEW p \in Publishers, RunInv(p),
           at'[p] = at[p], item'[p] = item[p], loop'[p] = loop[p], rows'[p] = rows[p],
           loop[p] # "pull" => origin'[item[p]] = origin[item[p]]
    PROVE  RunInv(p)'
  <1>1. calls \in Nat /\ calls' \in Nat /\ calls <= calls' /\ \A i \in 1..calls : i \in 1..calls'
    BY LinkStable DEF ChainInv, LinkInv, TypeOK
  <1>2. loop[p] # "pull" => Holds(p)'
    BY <1>1 DEF RunInv, Holds, Carries, Hand
  <1>3. loop[p] # "pull" => item[p] \in Items
    BY ChannelAssumption DEF RunInv, Holds, ChainInv, LinkInv, TypeOK, Items
  <1>4. loop[p] \in {"record", "ack"} => result'[item[p]] = result[item[p]]
    BY <1>3, LinkStable DEF RunInv, ChainInv
  <1> QED
    BY <1>2, <1>4 DEF RunInv, Active, Hand

LEMMA PullKeeps ==
    ASSUME ChainInv, NEW p \in Publishers, Pull(p), LinkInv'
    PROVE  ChainInv'
  <1> USE ChannelAssumption DEF ChainInv
  <1> DEFINE i0 == calls + 1
  <1>1. /\ loop[p] = "pull" /\ loop' = [loop EXCEPT ![p] = "publish"]
        /\ backlog[p] # <<>> /\ backlog' = [backlog EXCEPT ![p] = Tail(@)]
        /\ origin' = [origin EXCEPT ![i0] = [bus |-> p, event |-> Head(backlog[p])]]
        /\ UNCHANGED <<rows, settled>>
    BY DEF Pull, To
  <1>2. /\ i0 \in Items /\ calls' = i0
        /\ at' = [at EXCEPT ![p] = "locking"] /\ item' = [item EXCEPT ![p] = i0]
        /\ UNCHANGED <<open, acked, result>>
    BY DEF Pull, Call, Publish, Goto, Items, LinkInv, TypeOK
  <1>3. Head(backlog[p]) \in Events /\ Tail(backlog[p]) \in Seq(Events)
    BY <1>1 DEF ChainTypes
  <1>4. ChainTypes'
    BY <1>1, <1>3 DEF ChainTypes
  <1>5. /\ LinkStep
        /\ \A i \in Items : i <= calls => i # i0 /\ origin'[i] = origin[i]
        /\ \A i \in Items : acked[i] = "ok" => i <= calls
        /\ calls \in Nat
    <2>1. LinkStep
      BY DEF Pull, LinkStep
    <2>2. calls \in Nat
      BY DEF LinkInv, TypeOK
    <2>3. \A i \in Items : i <= calls => i # i0 /\ origin'[i] = origin[i]
      BY <1>1, <2>2 DEF ChainTypes, Items
    <2>4. \A i \in Items : acked[i] = "ok" => i <= calls
      BY <2>2 DEF LinkInv, OneShots, Fresh, Items
    <2> QED
      BY <2>1, <2>2, <2>3, <2>4
  <1>6. InHand'
    <2>1. RunInv(p)'
      <3>1. /\ loop'[p] = "publish" /\ at'[p] = "locking" /\ item'[p] = i0
            /\ i0 \in 1..calls'
        BY <1>1, <1>2, <1>5 DEF ChainTypes, LinkInv, TypeOK
      <3>2. origin'[i0] = [bus |-> p, event |-> Head(backlog[p])]
        BY <1>1, <1>2 DEF ChainTypes
      <3> QED
        BY <1>3, <3>1, <3>2 DEF RunInv, Active, Holds, Hand, Carries
    <2>2. ASSUME NEW q \in Publishers, q # p PROVE RunInv(q)'
      <3>1. RunInv(q)
        BY DEF InHand
      <3>2. loop[q] # "pull" => origin'[item[q]] = origin[item[q]]
        BY <3>1, <1>5 DEF RunInv, Holds, Items, LinkInv, TypeOK
      <3>3. at'[q] = at[q] /\ item'[q] = item[q] /\ loop'[q] = loop[q] /\ rows'[q] = rows[q]
        BY <1>1, <1>2, <2>2 DEF ChainTypes, LinkInv, TypeOK
      <3> QED
        BY <1>5, <3>1, <3>2, <3>3, RunStays
    <2> QED
      BY <2>1, <2>2 DEF InHand
  <1>7. \A q \in Publishers, e \in Events : Reached(q, e) => Reached(q, e)'
    BY <1>5, ReachedStays
  <1>8. NothingSilent' /\ AtLeastOnceWhileLinked'
    BY <1>1, <1>2, <1>7 DEF NothingSilent, AtLeastOnceWhileLinked, ChainTypes
  <1> QED
    BY <1>4, <1>6, <1>8

\* What the run's step does to the link: its own place, its own result.
LEMMA PublishFrame ==
    ASSUME LinkInv, NEW p \in Publishers, PublishStep(p) \/ Cancel(p)
    PROVE  /\ Active(p) /\ UNCHANGED <<item, calls, open>>
           /\ \A q \in Publishers : q # p => at'[q] = at[q]
           /\ PublishStep(p) /\ at'[p] = "idle" =>
                 result'[item[p]] \in {"ok", "closed", "unavailable"}
           /\ Cancel(p) => at'[p] = "idle"
  <1> USE ChannelAssumption DEF LinkInv, TypeOK
  <1>1. CASE Advance(p)
    <2>1. /\ Active(p) /\ UNCHANGED <<item, calls, open>>
          /\ \E to \in Places \ {"idle"} : at' = [at EXCEPT ![p] = to]
      BY <1>1 DEF Advance, Acquire, Enqueue, Flushed, Goto, Active, Places
    <2> QED
      BY <1>1, <2>1 DEF Cancel, Return, Leave, Goto
  <1>2. CASE Refused(p) \/ Released(p) \/ Cancel(p)
    <2>1. /\ Active(p) /\ UNCHANGED <<item, calls, open>>
          /\ at' = [at EXCEPT ![p] = "idle"]
      BY <1>2 DEF Refused, Released, Cancel, Return, Leave, Goto, Active
    <2>2. item[p] \in Items
      BY <2>1 DEF Publishing, Items
    <2>3. Refused(p) \/ Released(p) => result'[item[p]] \in {"ok", "closed", "unavailable"}
      BY <2>2 DEF Refused, Released, Return
    <2> QED
      BY <1>2, <2>1, <2>3 DEF PublishStep, Advance, Acquire, Enqueue, Flushed, Goto
  <1> QED
    BY <1>1, <1>2 DEF PublishStep


LEMMA OfferKeeps ==
    ASSUME ChainInv, NEW p \in Publishers, Offer(p), LinkInv'
    PROVE  ChainInv'
  <1> USE ChannelAssumption DEF ChainInv
  <1>1. /\ loop[p] = "publish" /\ PublishStep(p) /\ LinkStep
        /\ loop' = [loop EXCEPT ![p] = IF at'[p] = "idle" THEN "record" ELSE "publish"]
        /\ UNCHANGED <<backlog, origin, rows, settled>>
    BY DEF Offer, To, LinkStep
  <1>2. /\ UNCHANGED <<item, calls, open>>
        /\ \A q \in Publishers : q # p => at'[q] = at[q]
        /\ at'[p] = "idle" => result'[item[p]] \in {"ok", "closed", "unavailable"}
    BY <1>1, PublishFrame
  <1>3. ChainTypes'
    BY <1>1 DEF ChainTypes
  <1>4. RunInv(p)'
    <2>1. RunInv(p)
      BY DEF InHand
    <2>2. Holds(p)'
      BY <1>1, <1>2, <2>1 DEF RunInv, Holds, Carries, Hand
    <2>3. loop'[p] = IF at'[p] = "idle" THEN "record" ELSE "publish"
      BY <1>1 DEF ChainTypes
    <2> QED
      BY <1>2, <2>2, <2>3 DEF RunInv, Active
  <1>5. ASSUME NEW q \in Publishers, q # p PROVE RunInv(q)'
    <2>1. /\ RunInv(q) /\ at'[q] = at[q] /\ item'[q] = item[q] /\ loop'[q] = loop[q]
          /\ rows'[q] = rows[q]
      BY <1>1, <1>2, <1>5 DEF InHand, ChainTypes
    <2> QED
      BY <1>1, <2>1, RunStays
  <1>6. \A q \in Publishers, e \in Events : Reached(q, e) => Reached(q, e)'
    BY <1>1, ReachedStays
  <1>7. NothingSilent' /\ AtLeastOnceWhileLinked'
    BY <1>1, <1>2, <1>6 DEF NothingSilent, AtLeastOnceWhileLinked, ChainTypes
  <1> QED
    BY <1>3, <1>4, <1>5, <1>7 DEF InHand

\* The steps that leave the link alone.
LEMMA LinkAlone ==
    ASSUME UNCHANGED <<vars, origin>>
    PROVE  /\ LinkStep /\ UNCHANGED <<at, item, calls, result, open, acked>>
           /\ LinkInv => LinkInv'
           /\ \A p, e : Reached(p, e)' <=> Reached(p, e)
  <1>1. LinkStep
    BY DEF LinkStep
  <1>2. UNCHANGED <<at, item, calls, result, open, acked>>
    BY DEF vars, chanVars
  <1>3. \A p, e : Reached(p, e)' <=> Reached(p, e)
    BY <1>2 DEF Reached, Carries
  <1> QED
    BY <1>1, <1>2, <1>3, LinkKeeps

LEMMA RecordKeeps ==
    ASSUME ChainInv, NEW p \in Publishers, RecordOutcome(p)
    PROVE  ChainInv'
  <1> USE DEF ChainInv
  <1> DEFINE r == result[item[p]]
             outcome == OutcomeOf(r)
  <1>1. /\ loop[p] = "record" /\ loop' = [loop EXCEPT ![p] = "ack"]
        /\ rows' = [rows EXCEPT ![p][Hand(p)] = @ \cup {outcome}]
        /\ UNCHANGED <<vars, backlog, origin, settled>>
    BY DEF RecordOutcome, To
  <1>2. /\ LinkStep /\ LinkInv' /\ UNCHANGED <<at, item, calls, result, open, acked>>
        /\ \A q, e : Reached(q, e)' <=> Reached(q, e)
    BY <1>1, LinkAlone
  <1>3. RunInv(p) /\ Holds(p) /\ Hand(p) \in Events /\ r \in {"ok", "closed", "unavailable"}
    BY <1>1 DEF InHand, RunInv, Holds
  <1>4. /\ outcome \in {"Delivered", "Unsubscribed", "SinkFailed"}
        /\ outcome = "Delivered" => r = "ok"
    BY <1>3, OutcomesTold
  <1>5. /\ ChainTypes'
        /\ \A q \in Publishers : /\ q # p => rows'[q] = rows[q] /\ loop'[q] = loop[q]
                                 /\ \A e \in Events : rows'[q][e] =
                                       IF q = p /\ e = Hand(p) THEN rows[q][e] \cup {outcome}
                                                               ELSE rows[q][e]
    <2> HIDE DEF outcome
    <2> QED
      BY <1>1, <1>3, <1>4 DEF ChainTypes
  <1>6. RunInv(p)'
    <2>1. Holds(p)' /\ Hand(p)' = Hand(p) /\ loop'[p] = "ack"
      BY <1>1, <1>2, <1>3 DEF Holds, Carries, Hand, ChainTypes
    <2>2. ~Active(p)'
      BY <1>1, <1>2, <1>3 DEF RunInv, Active
    <2>3. OutcomeOf(result[item[p]])' \in rows'[p][Hand(p)]
      BY <1>2, <1>3, <1>5
    <2> QED
      BY <1>2, <1>3, <2>1, <2>2, <2>3 DEF RunInv
  <1>7. ASSUME NEW q \in Publishers, q # p PROVE RunInv(q)'
    <2>1. RunInv(q) /\ loop'[q] = loop[q] /\ rows'[q] = rows[q]
      BY <1>5, <1>7 DEF InHand
    <2> QED
      BY <1>1, <1>2, <2>1, RunStays
  <1>8. NothingSilent'
    <2>1. r = "ok" => Reached(p, Hand(p))
      <3>1. item[p] \in Items
        BY <1>3, ChannelAssumption DEF Holds, Items, LinkInv, TypeOK
      <3>2. r = "ok" => acked[item[p]] = "ok"
        BY <3>1, LinkPromises DEF OkMeansAcked
      <3> QED
        BY <1>3, <3>1, <3>2 DEF Reached, Holds
    <2> HIDE DEF r, outcome
    <2> QED
      BY <1>1, <1>2, <1>4, <1>5, <2>1 DEF NothingSilent
  <1>9. AtLeastOnceWhileLinked'
    BY <1>1, <1>2 DEF AtLeastOnceWhileLinked, ChainTypes
  <1> QED
    BY <1>2, <1>5, <1>6, <1>7, <1>8, <1>9 DEF InHand

LEMMA AckSourceKeeps ==
    ASSUME ChainInv, NEW p \in Publishers, AckSource(p)
    PROVE  ChainInv'
  <1> USE DEF ChainInv
  <1>1. /\ loop[p] = "ack" /\ loop' = [loop EXCEPT ![p] = "pull"]
        /\ settled' = [settled EXCEPT ![p] = @ \cup {Hand(p)}]
        /\ UNCHANGED <<vars, backlog, origin, rows>>
    BY DEF AckSource, To
  <1>2. /\ LinkStep /\ LinkInv' /\ UNCHANGED <<at, item, calls, result, open, acked>>
        /\ \A q, e : Reached(q, e)' <=> Reached(q, e)
    BY <1>1, LinkAlone
  <1>3. /\ RunInv(p) /\ Holds(p) /\ Hand(p) \in Events /\ rows[p][Hand(p)] # {}
        /\ result[item[p]] \in {"ok", "closed", "unavailable"} /\ ~Active(p)
    BY <1>1 DEF InHand, RunInv, Holds
  <1>4. /\ ChainTypes'
        /\ \A q \in Publishers : /\ q # p => loop'[q] = loop[q]
                                 /\ \A e \in settled'[q] :
                                       e \in settled[q] \/ (q = p /\ e = Hand(p))
    BY <1>1, <1>3 DEF ChainTypes
  <1>5. ASSUME NEW q \in Publishers PROVE RunInv(q)'
    <2>1. CASE q = p
      BY <1>1, <1>2, <1>3, <2>1 DEF RunInv, Active, ChainTypes
    <2>2. CASE q # p
      <3>1. RunInv(q) /\ loop'[q] = loop[q] /\ rows'[q] = rows[q]
        BY <1>1, <1>4, <2>2 DEF InHand
      <3> QED
        BY <1>1, <1>2, <3>1, RunStays
    <2> QED
      BY <2>1, <2>2
  <1>6. NothingSilent'
    BY <1>1, <1>2, <1>3, <1>4 DEF NothingSilent
  <1>7. AtLeastOnceWhileLinked'
    <2>1. item[p] \in Items
      BY <1>3, ChannelAssumption DEF Holds, Items, LinkInv, TypeOK
    <2>2. open => result[item[p]] = "ok"
      BY <1>3, <2>1 DEF LinkInv, OneShots
    <2>3. open => Reached(p, Hand(p))
      BY <1>3, <2>1, <2>2, LinkPromises DEF OkMeansAcked, Reached, Holds
    <2> QED
      BY <1>2, <1>4, <2>3 DEF AtLeastOnceWhileLinked, ChainTypes
  <1> QED
    BY <1>2, <1>4, <1>5, <1>6, <1>7 DEF InHand


\* A run that ends with an event in hand, or whose ack is lost: the source
\* has the event again.
LEMMA GiveBackKeeps ==
    ASSUME ChainInv, NEW p \in Publishers, AckLost(p) \/ Restart(p), LinkInv'
    PROVE  ChainInv'
  <1> USE DEF ChainInv
  <1>1. /\ loop[p] # "pull" /\ loop' = [loop EXCEPT ![p] = "pull"]
        /\ backlog' = [backlog EXCEPT ![p] = <<Hand(p)>> \o @]
        /\ UNCHANGED <<origin, rows, settled>>
        /\ (UNCHANGED vars /\ Idle(p)) \/ Cancel(p)
    <2>1. loop[p] = "ack" => Idle(p)
      BY DEF InHand, RunInv, Active, Idle
    <2> QED
      BY <2>1 DEF AckLost, Restart, GiveBack, To
  <1>2. /\ LinkStep /\ UNCHANGED <<item, calls, open>> /\ at'[p] = "idle"
        /\ \A q \in Publishers : q # p => at'[q] = at[q]
    <2>1. CASE UNCHANGED vars /\ Idle(p)
      BY <2>1 DEF LinkStep, vars, chanVars, Idle
    <2>2. CASE Cancel(p)
      BY <2>2, PublishFrame DEF LinkStep
    <2> QED
      BY <1>1, <2>1, <2>2
  <1>3. RunInv(p) /\ Hand(p) \in Events
    BY <1>1 DEF InHand, RunInv, Holds
  <1>4. ChainTypes'
    <2>1. <<Hand(p)>> \o backlog[p] \in Seq(Events)
      BY <1>3 DEF ChainTypes
    <2> QED
      BY <1>1, <2>1 DEF ChainTypes
  <1>5. ASSUME NEW q \in Publishers PROVE RunInv(q)'
    <2>1. CASE q = p
      BY <1>1, <1>2, <2>1 DEF RunInv, Active, ChainTypes
    <2>2. CASE q # p
      <3>1. /\ RunInv(q) /\ at'[q] = at[q] /\ item'[q] = item[q] /\ loop'[q] = loop[q]
            /\ rows'[q] = rows[q]
        BY <1>1, <1>2, <2>2 DEF InHand, ChainTypes
      <3> QED
        BY <1>1, <1>2, <3>1, RunStays
    <2> QED
      BY <2>1, <2>2
  <1>6. \A q \in Publishers, e \in Events : Reached(q, e) => Reached(q, e)'
    BY <1>1, <1>2, ReachedStays
  <1>7. NothingSilent' /\ AtLeastOnceWhileLinked'
    BY <1>1, <1>2, <1>6 DEF NothingSilent, AtLeastOnceWhileLinked, ChainTypes
  <1> QED
    BY <1>4, <1>5, <1>7 DEF InHand

LEMMA DownstreamKeeps ==
    ASSUME ChainInv, Downstream \/ Stop, UNCHANGED upVars, LinkInv'
    PROVE  ChainInv'
  <1> USE DEF ChainInv
  <1>1. /\ LinkStep /\ UNCHANGED <<at, item, backlog, loop, origin, rows, settled>>
    BY DEF Downstream, Take, Receive, Ack, Stop, DropReceiver, LinkStep, upVars, chanVars
  <1>2. InHand'
    BY <1>1, RunStays DEF InHand
  <1>3. \A q \in Publishers, e \in Events : Reached(q, e) => Reached(q, e)'
    BY <1>1, ReachedStays
  <1>4. NothingSilent' /\ AtLeastOnceWhileLinked'
    BY <1>1, <1>3, LinkStable DEF NothingSilent, AtLeastOnceWhileLinked, ChainTypes
  <1> QED
    BY <1>1, <1>2, <1>4 DEF ChainTypes

LEMMA ChainIdles == ChainInv /\ UNCHANGED allVars => ChainInv'
  <1> SUFFICES ASSUME ChainInv, UNCHANGED allVars PROVE ChainInv'
    OBVIOUS
  <1>1. UNCHANGED vars /\ UNCHANGED upVars
    BY DEF allVars
  <1>2. /\ LinkStep /\ LinkInv' /\ UNCHANGED <<at, item, calls, result, open, acked>>
        /\ \A q, e : Reached(q, e)' <=> Reached(q, e)
    BY <1>1, LinkAlone DEF upVars, ChainInv
  <1>3. ChainTypes'
    BY <1>1 DEF ChainInv, ChainTypes, upVars
  <1>4. InHand'
    BY <1>1, <1>2, RunStays DEF ChainInv, InHand, upVars
  <1>5. NothingSilent' /\ AtLeastOnceWhileLinked'
    BY <1>1, <1>2 DEF ChainInv, NothingSilent, AtLeastOnceWhileLinked, upVars
  <1> QED
    BY <1>2, <1>3, <1>4, <1>5 DEF ChainInv

LEMMA ChainKeeps == ChainInv /\ [ChainNext]_allVars => ChainInv'
  <1> SUFFICES ASSUME ChainInv, [ChainNext]_allVars PROVE ChainInv'
    OBVIOUS
  <1>1. LinkInv'
    BY ChainStepIsLinkStep, LinkKeeps DEF ChainInv
  <1>2. CASE \E p \in Publishers : UpStep(p)
    BY <1>1, <1>2, PullKeeps, OfferKeeps, RecordKeeps, AckSourceKeeps DEF UpStep
  <1>3. CASE \E p \in Publishers : AckLost(p) \/ Restart(p)
    BY <1>1, <1>3, GiveBackKeeps
  <1>4. CASE (Downstream \/ Stop) /\ UNCHANGED upVars
    BY <1>1, <1>4, DownstreamKeeps
  <1>5. CASE UNCHANGED allVars
    BY <1>5, ChainIdles
  <1> QED
    BY <1>2, <1>3, <1>4, <1>5 DEF ChainNext, Handled

-----------------------------------------------------------------------------
(* The theorems, for every number of upstream buses, events, restarts and  *)
(* lost acks, every capacity and every window.                             *)

\* The two invariants hold in every behaviour of the chain.
THEOREM ChainInvariant == ChainSpec => []ChainInv
  <1>1. ChainStart => ChainInv
    BY ChainBegins
  <1>2. ChainInv /\ [ChainNext]_allVars => ChainInv'
    BY ChainKeeps
  <1> QED
    BY <1>1, <1>2, PTL DEF ChainSpec

\* A publish returns Ok only when the downstream has acknowledged that very
\* event (link.rs, LinkSink::publish).
THEOREM OkMeansAckedHolds == ChainSpec => []OkMeansAcked
  <1>1. ChainInv => OkMeansAcked
    BY LinkPromises DEF ChainInv
  <1> QED
    BY <1>1, ChainInvariant, PTL

\* An acknowledgement the downstream believes in is heard upstream, unless
\* the upstream run was dropped first (LinkAck::ack).
THEOREM AckHeardHolds == ChainSpec => []AckHeard
  <1>1. ChainInv => AckHeard
    BY LinkPromises DEF ChainInv
  <1> QED
    BY <1>1, ChainInvariant, PTL

\* An event whose publish was refused is in nobody's hands.
THEOREM RefusedIsGoneHolds == ChainSpec => []RefusedIsGone
  <1>1. ChainInv => RefusedIsGone
    BY LinkPromises DEF ChainInv
  <1> QED
    BY <1>1, ChainInvariant, PTL

\* What is in flight between two buses is bounded by the capacity, the
\* sender's slot and the downstream's window.
THEOREM InFlightBoundHolds == ChainSpec => []InFlightBound
  <1>1. ChainInv => InFlightBound
    BY LinkPromises DEF ChainInv
  <1> QED
    BY <1>1, ChainInvariant, PTL

\* An event acked upstream has a row, and a row that says Delivered is true
\* of the downstream, through every restart and lost ack.
THEOREM NothingSilentHolds == ChainSpec => []NothingSilent
  <1>1. ChainInv => NothingSilent
    BY DEF ChainInv
  <1> QED
    BY <1>1, ChainInvariant, PTL

\* While the downstream lives, an event acked upstream was acked downstream.
THEOREM AtLeastOnceHolds == ChainSpec => []AtLeastOnceWhileLinked
  <1>1. ChainInv => AtLeastOnceWhileLinked
    BY DEF ChainInv
  <1> QED
    BY <1>1, ChainInvariant, PTL
=============================================================================
