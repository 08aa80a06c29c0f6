-------------------------- MODULE SubscriberProofs --------------------------
(***************************************************************************)
(* What Ok from a ChannelSink promises, for every capacity, every number   *)
(* of publishers and every number of items: Subscriber's two bounds.       *)
(*                                                                         *)
(* Both count items, so each is a statement of where those items lie: in   *)
(* the queue's first Capacity places while the receiver is there, and      *)
(* among those the queue held when it left.                                *)
(***************************************************************************)
EXTENDS Subscriber, FiniteSetTheorems, TLAPS

\* i is one of the first n items of the queue.
Within(i, n) == \E j \in DOMAIN queue : j <= n /\ queue[j] = i

Settled(i)  == result[i] = "ok" \/ \E p \in Publishers : item[p] = i /\ at[p] = "sent"
Flushing(i) == \E p \in Publishers : item[p] = i /\ at[p] = "flushing"

\* Items the channel took and the receiver did not.
Taken == {i \in Items : (Settled(i) \/ Flushing(i)) /\ ~WasRead(i)}

Room == Len(queue) <= IF parked THEN Capacity + 1 ELSE Capacity

Placed ==
    open => /\ \A i \in Taken : Within(i, Capacity + 1)
            /\ \A i \in Taken : Settled(i) => Within(i, Capacity)

SubscriberInv ==
    /\ TypeOK
    /\ \A p \in Publishers : at[p] # "idle" => item[p] \in Items
    /\ Room
    /\ Placed
    /\ Cardinality(Taken) <= Capacity + 1

-----------------------------------------------------------------------------
\* A set whose members all lie among the first n places of a list has at
\* most n members.
LEMMA PlacesBound ==
    ASSUME NEW S, NEW T, NEW q \in Seq(T), NEW n \in Nat,
           \A s \in S : \E j \in DOMAIN q : j <= n /\ q[j] = s
    PROVE  Cardinality(S) <= n
  <1> DEFINE f == [s \in S |-> CHOOSE j \in DOMAIN q : j <= n /\ q[j] = s]
  <1>1. \A s \in S : f[s] \in 1..n /\ q[f[s]] = s
    BY DEF f
  <1>2. f \in Injection(S, 1..n)
    BY <1>1 DEF Injection, IsInjective
  <1>3. IsFiniteSet(1..n) /\ Cardinality(1..n) = n
    BY FS_Interval
  <1> QED
    BY <1>2, <1>3, FS_Injection

\* Whatever is not counted any more leaves the bound alone.
LEMMA FewerTaken ==
    ASSUME NEW S \in SUBSET Items, NEW T \in SUBSET S, NEW n \in Nat,
           Cardinality(S) <= n
    PROVE  Cardinality(T) <= n
  <1>1. IsFiniteSet(Items)
    BY ChannelAssumption, FS_Interval DEF Items
  <1>2. IsFiniteSet(S) /\ Cardinality(S) \in Nat
    BY <1>1, FS_Subset, FS_CardinalityType
  <1>3. IsFiniteSet(T) /\ Cardinality(T) \in Nat /\ Cardinality(T) <= Cardinality(S)
    BY <1>2, FS_Subset, FS_CardinalityType
  <1> QED
    BY <1>2, <1>3


-----------------------------------------------------------------------------
LEMMA SubscriberStart == Init => SubscriberInv
  <1> SUFFICES ASSUME Init PROVE SubscriberInv
    OBVIOUS
  <1> USE ChannelAssumption DEF Init, ChanInit
  <1>1. TypeOK
    <2>1. queue \in Seq(Items) /\ read \in Seq(Items)
      OBVIOUS
    <2>2. at \in [Publishers -> Places] /\ item \in [Publishers -> 0..NumItems]
      BY DEF Places
    <2>3. result \in [Items -> Results]
      BY DEF Results
    <2>4. calls \in 0..NumItems
      OBVIOUS
    <2> QED
      BY <2>1, <2>2, <2>3, <2>4 DEF TypeOK
  <1>2. Taken = {}
    BY DEF Taken, Settled, Flushing
  <1>3. Cardinality(Taken) = 0
    BY <1>2, FS_EmptySet
  <1>4. Room /\ Placed
    BY <1>2 DEF Room, Placed
  <1>5. \A p \in Publishers : at[p] # "idle" => item[p] \in Items
    OBVIOUS
  <1> QED
    BY <1>1, <1>3, <1>4, <1>5 DEF SubscriberInv

\* A step that takes nothing new and moves nothing forward in the queue
\* keeps the places and the count.
LEMMA TakesNothing ==
    ASSUME SubscriberInv, open' => open, UNCHANGED queue,
           Taken' \subseteq Taken,
           open => \A i \in Taken' : Settled(i)' => Settled(i)
    PROVE  Placed' /\ Cardinality(Taken') <= Capacity + 1
  <1>1. Placed'
    BY DEF SubscriberInv, Placed, Within
  <1>2. PICK S : S = Taken'
    OBVIOUS
  <1>3. Taken \in SUBSET Items /\ S \in SUBSET Taken /\ Capacity + 1 \in Nat
    BY <1>2, ChannelAssumption DEF Taken
  <1>4. Cardinality(S) <= Capacity + 1
    BY <1>3, FewerTaken DEF SubscriberInv
  <1> QED
    BY <1>1, <1>2, <1>4

LEMMA SubscriberCall ==
    ASSUME SubscriberInv, NEW p \in Publishers, Call(p)
    PROVE  SubscriberInv'
  <1> USE ChannelAssumption DEF SubscriberInv, TypeOK
  <1>1. /\ calls' = calls + 1 /\ calls + 1 \in Items
        /\ item' = [item EXCEPT ![p] = calls + 1] /\ at' = [at EXCEPT ![p] = "locking"]
        /\ at[p] = "idle" /\ UNCHANGED <<queue, parked, open, read, result>>
    BY DEF Call, Publish, Goto, Items
  <1>2. TypeOK' /\ Room'
    BY <1>1 DEF Places, Items, Room
  <1>3. \A q \in Publishers : (at[q] # "idle")' => item'[q] \in Items
    BY <1>1
  <1>4. \A i \in Items : (Settled(i)' => Settled(i)) /\ (Flushing(i)' => Flushing(i))
    BY <1>1 DEF Settled, Flushing
  <1>5. Taken' \subseteq Taken
    BY <1>1, <1>4 DEF Taken, WasRead
  <1>6. Placed' /\ Cardinality(Taken') <= Capacity + 1
    BY <1>1, <1>4, <1>5, TakesNothing DEF Taken
  <1> QED
    BY <1>2, <1>3, <1>6

LEMMA SubscriberAcquire ==
    ASSUME SubscriberInv, NEW p \in Publishers, Acquire(p), UNCHANGED result
    PROVE  SubscriberInv'
  <1> USE ChannelAssumption DEF SubscriberInv, TypeOK
  <1>1. /\ at[p] = "locking" /\ at' = [at EXCEPT ![p] = "ready"]
        /\ UNCHANGED <<item, calls, queue, parked, open, read, result>>
    BY DEF Acquire, Goto
  <1>2. TypeOK' /\ Room'
    BY <1>1 DEF Places, Room
  <1>3. \A q \in Publishers : (at[q] # "idle")' => item'[q] \in Items
    BY <1>1
  <1>4. \A i \in Items : (Settled(i)' => Settled(i)) /\ (Flushing(i)' => Flushing(i))
    BY <1>1 DEF Settled, Flushing
  <1>5. Taken' \subseteq Taken
    BY <1>1, <1>4 DEF Taken, WasRead
  <1>6. Placed' /\ Cardinality(Taken') <= Capacity + 1
    BY <1>1, <1>4, <1>5, TakesNothing DEF Taken
  <1> QED
    BY <1>2, <1>3, <1>6

\* The publish returns, or is dropped: an item that was not settled leaves
\* with a result other than "ok".
LEMMA SubscriberReturn ==
    ASSUME SubscriberInv, NEW p \in Publishers, Accepted(p) \/ Refused(p) \/ Cancel(p)
    PROVE  SubscriberInv'
  <1> USE ChannelAssumption DEF SubscriberInv, TypeOK
  <1>1. PICK r \in Results : Return(p, r) /\ (r = "ok" <=> at[p] = "sent") /\ at[p] # "idle"
    BY DEF Accepted, Refused, Cancel, Results
  <1>2. /\ at' = [at EXCEPT ![p] = "idle"] /\ result' = [result EXCEPT ![item[p]] = r]
        /\ item[p] \in Items
        /\ UNCHANGED <<item, calls, queue, parked, open, read>>
    BY <1>1 DEF Return, Leave, Goto
  <1>3. TypeOK' /\ Room'
    BY <1>1, <1>2 DEF Places, Room
  <1>4. \A q \in Publishers : (at[q] # "idle")' => item'[q] \in Items
    BY <1>2
  <1>5. \A i \in Items : (Settled(i)' => Settled(i)) /\ (Flushing(i)' => Flushing(i))
    BY <1>1, <1>2 DEF Settled, Flushing
  <1>6. Taken' \subseteq Taken
    BY <1>2, <1>5 DEF Taken, WasRead
  <1>7. Placed' /\ Cardinality(Taken') <= Capacity + 1
    BY <1>2, <1>5, <1>6, TakesNothing DEF Taken
  <1> QED
    BY <1>3, <1>4, <1>7

LEMMA SubscriberFlushed ==
    ASSUME SubscriberInv, NEW p \in Publishers, Flushed(p), UNCHANGED result
    PROVE  SubscriberInv'
  <1> USE ChannelAssumption DEF SubscriberInv, TypeOK
  <1>1. /\ at[p] = "flushing" /\ at' = [at EXCEPT ![p] = "sent"] /\ (~parked \/ ~open)
        /\ UNCHANGED <<item, calls, queue, parked, open, read, result>>
    BY DEF Flushed, Goto
  <1>2. TypeOK' /\ Room'
    BY <1>1 DEF Places, Room
  <1>3. \A q \in Publishers : (at[q] # "idle")' => item'[q] \in Items
    BY <1>1
  <1>4. \A i \in Items : /\ Settled(i)' => Settled(i) \/ Flushing(i)
                         /\ Flushing(i)' => Flushing(i)
    BY <1>1 DEF Settled, Flushing
  <1>5. Taken' \subseteq Taken
    BY <1>1, <1>4 DEF Taken, WasRead
  <1>6. Cardinality(Taken') <= Capacity + 1
    <2>1. PICK S : S = Taken'
      OBVIOUS
    <2>2. Taken \in SUBSET Items /\ S \in SUBSET Taken /\ Capacity + 1 \in Nat
      BY <1>5, <2>1 DEF Taken
    <2> QED
      BY <2>1, <2>2, FewerTaken
  <1>7. Placed'
    <2>1. CASE ~open
      BY <1>1, <2>1 DEF Placed
    <2>2. CASE open /\ ~parked
      <3>1. Len(queue) <= Capacity
        BY <2>2 DEF Room
      <3>2. \A i \in Taken : Within(i, Capacity)
        BY <2>2, <3>1 DEF Placed, Within
      <3> QED
        BY <1>1, <1>5, <3>2 DEF Placed, Within
    <2> QED
      BY <1>1, <2>1, <2>2
  <1> QED
    BY <1>2, <1>3, <1>6, <1>7


\* The item joins at the end: within the capacity it settles there, one
\* over it and its sender is parked.
LEMMA SubscriberEnqueue ==
    ASSUME SubscriberInv, NEW p \in Publishers, Enqueue(p), UNCHANGED result
    PROVE  SubscriberInv'
  <1> USE ChannelAssumption DEF SubscriberInv, TypeOK
  <1> PICK n, new : n = Len(queue) /\ new = item[p]
    OBVIOUS
  <1>1. /\ at[p] = "ready" /\ open /\ ~parked /\ queue' = Append(queue, new)
        /\ parked' = (Len(queue') > Capacity) /\ new \in Items
        /\ at' = [at EXCEPT ![p] = IF parked' THEN "flushing" ELSE "sent"]
        /\ UNCHANGED <<item, calls, open, read, result>>
    BY DEF Enqueue, Goto
  <1>2. /\ n \in Nat /\ n <= Capacity
        /\ queue' \in Seq(Items) /\ Len(queue') = n + 1
        /\ DOMAIN queue' = 1..(n + 1) /\ DOMAIN queue = 1..n
        /\ \A j \in 1..n : queue'[j] = queue[j]
        /\ queue'[n + 1] = new
    BY <1>1 DEF Room
  <1>full. parked' <=> n + 1 > Capacity
    <2>1. parked' <=> (Len(queue') > Capacity)
      BY <1>1, Zenon
    <2> QED
      BY <1>2, <2>1
  <1>3. TypeOK' /\ Room'
    <2>1. at' \in [Publishers -> Places]
      BY <1>1 DEF Places
    <2>2. parked' \in BOOLEAN
      BY <1>1
    <2>3. CASE n + 1 > Capacity
      <3>1. parked' /\ n + 1 <= Capacity + 1
        BY <1>2, <1>full, <2>3
      <3> QED
        BY <1>1, <1>2, <2>1, <2>2, <3>1 DEF Room
    <2>4. CASE n + 1 <= Capacity
      BY <1>1, <1>2, <2>1, <2>2, <2>4 DEF Room
    <2> QED
      BY <1>2, <2>3, <2>4
  <1>4. \A q \in Publishers : (at[q] # "idle")' => item'[q] \in Items
    BY <1>1
  <1>5. \A i \in Items :
           /\ Settled(i)' => Settled(i) \/ (i = new /\ n + 1 <= Capacity)
           /\ Flushing(i)' => Flushing(i) \/ i = new
    <2>1. at'[p] = "sent" => n + 1 <= Capacity
      BY <1>1, <1>2, <1>full
    <2>2. \A q \in Publishers : q # p => at'[q] = at[q]
      BY <1>1
    <2> QED
      BY <1>1, <2>1, <2>2 DEF Settled, Flushing
  <1>6. \A i, m : Within(i, m) => Within(i, m)'
    BY <1>2 DEF Within
  <1>7. Within(new, n + 1)'
    BY <1>2 DEF Within
  <1>8. \A i \in Taken' : i \in Taken \/ i = new
    BY <1>1, <1>5 DEF Taken, WasRead
  <1>9. Placed'
    <2>1. \A i \in Taken' : Within(i, Capacity + 1)'
      BY <1>1, <1>2, <1>6, <1>7, <1>8 DEF Placed, Within
    <2>2. ASSUME NEW i \in Taken', Settled(i)' PROVE Within(i, Capacity)'
      <3>1. CASE i = new /\ n + 1 <= Capacity
        BY <1>2, <1>7, <3>1 DEF Within
      <3>2. CASE Settled(i)
        <4>1. i \in Taken
          BY <1>1, <2>2, <3>2 DEF Taken, WasRead
        <4> QED
          BY <1>1, <1>6, <3>2, <4>1 DEF Placed
      <3> QED
        BY <1>5, <2>2, <3>1, <3>2 DEF Taken
    <2> QED
      BY <2>1, <2>2 DEF Placed
  <1>10. Cardinality(Taken') <= Capacity + 1
    <2>1. \A i \in Taken' : \E j \in DOMAIN queue' : j <= Capacity + 1 /\ queue'[j] = i
      BY <1>1, <1>9 DEF Placed, Within
    <2>2. PICK S, q : S = Taken' /\ q = queue'
      OBVIOUS
    <2>3. q \in Seq(Items) /\ Capacity + 1 \in Nat
      BY <1>2, <2>2
    <2> QED
      BY <2>1, <2>2, <2>3, PlacesBound
  <1> QED
    BY <1>3, <1>4, <1>9, <1>10

\* The head is read, and every other item moves one place up.
LEMMA SubscriberRead ==
    ASSUME SubscriberInv, Read
    PROVE  SubscriberInv'
  <1> USE ChannelAssumption DEF SubscriberInv, TypeOK
  <1> PICK n, head : n = Len(queue) /\ head = queue[1]
    OBVIOUS
  <1>1. /\ open /\ queue # <<>> /\ queue' = Tail(queue) /\ parked' = FALSE
        /\ read' = Append(read, Head(queue))
        /\ UNCHANGED <<at, item, calls, open, result>>
    BY DEF Read, Receive
  <1>2. /\ n \in Nat /\ n >= 1 /\ n <= Capacity + 1
        /\ queue' \in Seq(Items) /\ Len(queue') = n - 1
        /\ DOMAIN queue' = 1..(n - 1) /\ DOMAIN queue = 1..n
        /\ \A j \in 1..(n - 1) : queue'[j] = queue[j + 1]
        /\ Head(queue) = head /\ head \in Items
    BY <1>1 DEF Room
  <1>3. /\ read' \in Seq(Items) /\ Len(read') = Len(read) + 1
        /\ \A j \in DOMAIN read : j \in DOMAIN read' /\ read'[j] = read[j]
        /\ Len(read) + 1 \in DOMAIN read' /\ read'[Len(read) + 1] = head
    BY <1>1, <1>2
  <1>4. TypeOK' /\ Room'
    <2>1. Room'
      BY <1>1, <1>2 DEF Room
    <2>2. parked' \in BOOLEAN
      BY <1>1
    <2> QED
      BY <1>1, <1>2, <1>3, <2>1, <2>2
  <1>5. \A q \in Publishers : (at[q] # "idle")' => item'[q] \in Items
    BY <1>1
  <1>6. \A i : (WasRead(i) => WasRead(i)') /\ WasRead(head)'
    BY <1>3 DEF WasRead
  <1>7. \A i \in Items : (Settled(i)' <=> Settled(i)) /\ (Flushing(i)' <=> Flushing(i))
    BY <1>1 DEF Settled, Flushing
  <1>8. Taken' \subseteq Taken /\ head \notin Taken'
    BY <1>6, <1>7 DEF Taken
  <1>9. ASSUME NEW i \in Taken, i # head PROVE Within(i, Capacity)'
    <2>1. PICK j \in DOMAIN queue : queue[j] = i
      BY <1>1 DEF Placed, Within
    <2>2. j - 1 \in 1..(n - 1) /\ j - 1 <= Capacity /\ queue'[j - 1] = i
      BY <1>2, <1>9, <2>1
    <2> QED
      BY <1>2, <2>2 DEF Within
  <1>10. Placed'
    <2>1. \A i \in Taken' : Within(i, Capacity)'
      BY <1>8, <1>9
    <2>2. \A i : Within(i, Capacity)' => Within(i, Capacity + 1)'
      BY <1>2 DEF Within
    <2> QED
      BY <2>1, <2>2 DEF Placed
  <1>11. Cardinality(Taken') <= Capacity + 1
    <2>1. PICK S : S = Taken'
      OBVIOUS
    <2>2. Taken \in SUBSET Items /\ S \in SUBSET Taken /\ Capacity + 1 \in Nat
      BY <1>8, <2>1 DEF Taken
    <2> QED
      BY <2>1, <2>2, FewerTaken
  <1> QED
    BY <1>4, <1>5, <1>10, <1>11

LEMMA SubscriberClose ==
    ASSUME SubscriberInv, Close
    PROVE  SubscriberInv'
  <1> USE ChannelAssumption DEF SubscriberInv, TypeOK
  <1>1. /\ open' = FALSE /\ queue' = <<>>
        /\ UNCHANGED <<at, item, calls, parked, read, result>>
    BY DEF Close, DropReceiver
  <1>2. queue' \in Seq(Items) /\ Len(queue') = 0 /\ open' \in BOOLEAN
    <2>1. <<>> \in Seq(Items)
      OBVIOUS
    <2> QED
      BY <1>1, <2>1
  <1>3. TypeOK' /\ Room' /\ Placed'
    BY <1>1, <1>2 DEF Room, Placed
  <1>4. Taken' = Taken
    BY <1>1 DEF Taken, Settled, Flushing, WasRead
  <1> QED
    BY <1>1, <1>3, <1>4

-----------------------------------------------------------------------------
\* Every reachable state keeps each item the channel took, and the receiver
\* did not read, among the places the bounds allow it.
THEOREM SubscriberInvariant == Spec => []SubscriberInv
  <1>1. SubscriberInv /\ [Next]_vars => SubscriberInv'
    <2> SUFFICES ASSUME SubscriberInv, [Next]_vars PROVE SubscriberInv'
      OBVIOUS
    <2>1. ASSUME NEW p \in Publishers, Call(p) \/ PublishStep(p) \/ Cancel(p)
          PROVE  SubscriberInv'
      BY <2>1, SubscriberCall, SubscriberAcquire, SubscriberEnqueue, SubscriberFlushed,
         SubscriberReturn DEF PublishStep, Advance
    <2>2. CASE Read \/ Close
      BY <2>2, SubscriberRead, SubscriberClose
    <2>3. CASE UNCHANGED vars
      BY <2>3 DEF vars, chanVars, SubscriberInv, TypeOK, Room, Placed, Within, Taken,
                  Settled, Flushing, WasRead
    <2> QED
      BY <2>1, <2>2, <2>3 DEF Next, Quiet
  <1> QED
    BY <1>1, SubscriberStart, PTL DEF Spec

\* With its receiver alive, a subscriber never has more items waiting that
\* the bus was told were delivered than the capacity it was made with.
THEOREM UnreadBoundHolds == Spec => []UnreadBound
  <1>1. SubscriberInv => UnreadBound
    <2> SUFFICES ASSUME SubscriberInv, open
                 PROVE  Cardinality({i \in Items : result[i] = "ok" /\ ~WasRead(i)}) <= Capacity
      BY DEF UnreadBound
    <2> DEFINE S == {i \in Items : result[i] = "ok" /\ ~WasRead(i)}
    <2>1. \A i \in S : \E j \in DOMAIN queue : j <= Capacity /\ queue[j] = i
      BY DEF SubscriberInv, Placed, Taken, Settled, Within
    <2>2. queue \in Seq(Items) /\ Capacity \in Nat
      BY ChannelAssumption DEF SubscriberInv, TypeOK
    <2> QED
      BY <2>1, <2>2, PlacesBound
  <1> QED
    BY <1>1, SubscriberInvariant, PTL

\* A receiver that leaves takes with it, of what was reported delivered, at
\* most the capacity and the one item that was being flushed.
THEOREM LostBoundHolds == Spec => []LostBound
  <1>1. SubscriberInv => LostBound
    <2> SUFFICES ASSUME SubscriberInv PROVE LostBound
      OBVIOUS
    <2> DEFINE S == {i \in Items : result[i] = "ok" /\ ~WasRead(i)}
    <2>1. S \in SUBSET Taken /\ Taken \in SUBSET Items /\ Capacity + 1 \in Nat
      BY ChannelAssumption DEF Taken, Settled
    <2> QED
      BY <2>1, FewerTaken DEF SubscriberInv, LostBound
  <1> QED
    BY <1>1, SubscriberInvariant, PTL
=============================================================================
