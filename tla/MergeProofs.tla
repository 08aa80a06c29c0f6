---------------------------- MODULE MergeProofs ----------------------------
(***************************************************************************)
(* Theorems about the merge stage, for every input, every assignment of    *)
(* keys, every max_parts, and every order in which the timers end.         *)
(***************************************************************************)
EXTENDS Merge, FiniteSetTheorems, TLAPS

Entries == [kind : Kinds, parts : Seq(Events)]

-----------------------------------------------------------------------------
(* The stage as a pipeline: an event is in its key's open group, then in   *)
(* the one burst that is being combined or waits to be yielded, then out.  *)
(* Each part of the pipeline is sorted, and along it the events of a key   *)
(* only get later; so no event is in two places.                           *)

Current == IF ready # <<>> THEN ready[1].parts ELSE flushing

\* Parts of one key, in arrival order.
Sorted(p) ==
    /\ p \in Seq(Events)
    /\ \A a, b \in DOMAIN p : /\ a < b => p[a] < p[b]
                              /\ KeyOf[p[a]] = KeyOf[p[b]]

\* Where they share a key, what is in p came before what is in q.
Before(p, q) ==
    \A a \in DOMAIN p, b \in DOMAIN q : KeyOf[p[a]] = KeyOf[q[b]] => p[a] < q[b]

Has(p, e) == \E a \in DOMAIN p : p[a] = e
Past(p)   == \A a \in DOMAIN p : p[a] <= arrived

\* One burst at a time.
OneBurst == \/ ready = <<>>
            \/ flushing = <<>> /\ Len(ready) = 1 /\ ready[1].parts # <<>>

Pipeline ==
    /\ \A k \in Keys : /\ Sorted(groups[k]) /\ Past(groups[k])
                       /\ Len(groups[k]) < MaxParts
                       /\ \A a \in DOMAIN groups[k] : KeyOf[groups[k][a]] = k
    /\ Sorted(Current) /\ Past(Current) /\ Len(Current) <= MaxParts
    /\ \A i \in DOMAIN out : /\ Sorted(out[i].parts) /\ Past(out[i].parts)
                             /\ Len(out[i].parts) \in 1..MaxParts

InOrder ==
    /\ \A i, j \in DOMAIN out : i < j => Before(out[i].parts, out[j].parts)
    /\ \A i \in DOMAIN out : /\ Before(out[i].parts, Current)
                             /\ \A k \in Keys : Before(out[i].parts, groups[k])
    /\ \A k \in Keys : Before(Current, groups[k])

Somewhere ==
    \A e \in 1..arrived : \/ \E k \in Keys : Has(groups[k], e)
                          \/ Has(Current, e)
                          \/ \E i \in DOMAIN out : Has(out[i].parts, e)

MergeInv ==
    TypeOK /\ OneBurst /\ Pipeline /\ InOrder /\ Somewhere /\ OpenGroupHasTimer

\* Before the counter wraps, a timer's generation tells whose it is.
TimersTold ==
    /\ generation <= arrived
    /\ \A t \in timers : t.generation <= generation
    /\ \A t, u \in timers : t.generation = u.generation => t = u


LEMMA SortedEmpty == Sorted(<<>>) /\ \A p : Before(p, <<>>) /\ Before(<<>>, p)
  BY DEF Sorted, Before

LEMMA SortedAppend ==
    ASSUME NEW p, Sorted(p), NEW e \in Events,
           \A a \in DOMAIN p : p[a] < e /\ KeyOf[p[a]] = KeyOf[e]
    PROVE  /\ Sorted(Append(p, e)) /\ Len(Append(p, e)) = Len(p) + 1
           /\ DOMAIN Append(p, e) = DOMAIN p \cup {Len(p) + 1}
           /\ \A a \in DOMAIN p : Append(p, e)[a] = p[a] /\ a # Len(p) + 1
           /\ Append(p, e)[Len(p) + 1] = e
           /\ \A x : Has(Append(p, e), x) <=> Has(p, x) \/ x = e
  <1>1. p \in Seq(Events) /\ Len(p) \in Nat /\ DOMAIN p = 1..Len(p)
    BY DEF Sorted
  <1>2. /\ Append(p, e) \in Seq(Events) /\ Len(Append(p, e)) = Len(p) + 1
        /\ DOMAIN Append(p, e) = DOMAIN p \cup {Len(p) + 1}
        /\ \A a \in DOMAIN p : Append(p, e)[a] = p[a] /\ a # Len(p) + 1
        /\ Append(p, e)[Len(p) + 1] = e
    BY <1>1
  <1>3. \A x : Has(Append(p, e), x) <=> Has(p, x) \/ x = e
    BY <1>2 DEF Has
  <1>4. Sorted(Append(p, e))
    <2>1. ASSUME NEW a \in DOMAIN Append(p, e), NEW b \in DOMAIN Append(p, e)
          PROVE  /\ a < b => Append(p, e)[a] < Append(p, e)[b]
                 /\ KeyOf[Append(p, e)[a]] = KeyOf[Append(p, e)[b]]
      <3>1. CASE a \in DOMAIN p /\ b \in DOMAIN p
        BY <1>2, <3>1 DEF Sorted
      <3>2. CASE b = Len(p) + 1
        BY <1>2, <2>1, <3>2
      <3>3. CASE a = Len(p) + 1 /\ b \in DOMAIN p
        BY <1>1, <1>2, <3>3
      <3> QED
        BY <1>2, <3>1, <3>2, <3>3
    <2> QED
      BY <1>2, <2>1 DEF Sorted
  <1> QED
    BY <1>2, <1>3, <1>4

\* The event read now came after every event of the pipeline.
LEMMA Latest ==
    ASSUME NEW p, Past(p), NEW e, p \in Seq(Events), arrived \in Nat, e = arrived + 1
    PROVE  \A a \in DOMAIN p : p[a] < e
  <1>1. \A a \in DOMAIN p : p[a] \in Events
    OBVIOUS
  <1> QED
    BY <1>1, MergeAssumption DEF Past, Events

LEMMA MergeBegins == Init => MergeInv /\ TimersTold
  <1> SUFFICES ASSUME Init PROVE MergeInv /\ TimersTold
    OBVIOUS
  <1> USE MergeAssumption DEF Init
  <1>1. TypeOK
    <2>1. /\ <<>> \in Seq(Events) /\ <<>> \in Seq([kind : Kinds, parts : Seq(Events)])
          /\ 0 \in 0..NumEvents /\ 0 \in 0..(Generations - 1)
      OBVIOUS
    <2> QED
      BY <2>1 DEF TypeOK
  <1>2. OneBurst /\ Current = <<>>
    BY DEF OneBurst, Current
  <1>3. Pipeline
    BY <1>2, SortedEmpty DEF Pipeline, Past
  <1>4. InOrder
    BY <1>2, SortedEmpty DEF InOrder
  <1>5. Somewhere /\ OpenGroupHasTimer /\ TimersTold
    BY DEF Somewhere, OpenGroupHasTimer, TimersTold
  <1> QED
    BY <1>1, <1>2, <1>3, <1>4, <1>5 DEF MergeInv

-----------------------------------------------------------------------------
(* The pipeline's moves.                                                   *)

\* A group leaves as the new burst, with the event just read or without it.
LEMMA GroupLeaves ==
    ASSUME MergeInv, Current = <<>>, NEW k \in Keys, NEW p,
           Sorted(p), Past(p)', Len(p) <= MaxParts,
           \A a \in DOMAIN p : KeyOf[p[a]] = k,
           \A i \in DOMAIN out : Before(out[i].parts, p),
           \A e : Has(groups[k], e) => Has(p, e),
           \A e \in 1..arrived' : e \in 1..arrived \/ Has(p, e),
           arrived' \in Nat, arrived <= arrived',
           groups' = [groups EXCEPT ![k] = <<>>], Current' = p, out' = out
    PROVE  Pipeline' /\ InOrder' /\ Somewhere'
  <1> USE MergeAssumption DEF MergeInv
  <1>1. \A j \in Keys : groups'[j] = IF j = k THEN <<>> ELSE groups[j]
    BY DEF TypeOK
  <1>2. arrived \in Nat
    BY DEF TypeOK
  <1>3. Pipeline'
    <2>1. \A q : q \in Seq(Events) /\ Past(q) => Past(q)'
      BY <1>2 DEF Past, Events
    <2>2. ASSUME NEW j \in Keys
          PROVE  /\ Sorted(groups'[j]) /\ Past(groups[j])' /\ Len(groups'[j]) < MaxParts
                 /\ \A a \in DOMAIN groups'[j] : KeyOf[groups'[j][a]] = j
      <3>1. CASE j = k
        BY <1>1, <3>1, SortedEmpty DEF Past
      <3>2. CASE j # k
        BY <1>1, <2>1, <3>2 DEF Pipeline, Sorted
      <3> QED
        BY <3>1, <3>2
    <2>3. \A i \in DOMAIN out : Past(out[i].parts)'
      BY <2>1 DEF Pipeline, Sorted
    <2> QED
      BY <2>2, <2>3 DEF Pipeline, Past
  <1>4. InOrder'
    <2>1. \A j \in Keys : /\ Before(p, groups'[j])
                          /\ \A i \in DOMAIN out : Before(out[i].parts, groups'[j])
      BY <1>1, SortedEmpty DEF Pipeline, InOrder, Before
    <2> QED
      BY <2>1 DEF InOrder
  <1>5. Somewhere'
    <2>1. ASSUME NEW e \in 1..arrived'
          PROVE  \/ \E j \in Keys : Has(groups'[j], e)
                 \/ Has(p, e)
                 \/ \E i \in DOMAIN out : Has(out[i].parts, e)
      <3>1. ~Has(<<>>, e)
        BY DEF Has
      <3>2. ASSUME NEW j \in Keys, Has(groups[j], e), ~Has(p, e) PROVE Has(groups'[j], e)
        BY <1>1, <3>2
      <3>3. e \in 1..arrived => Has(p, e) \/ (\E j \in Keys : Has(groups[j], e))
                                        \/ (\E i \in DOMAIN out : Has(out[i].parts, e))
        BY <3>1 DEF Somewhere
      <3> QED
        BY <2>1, <3>2, <3>3
    <2> QED
      BY <2>1 DEF Somewhere
  <1> QED
    BY <1>3, <1>4, <1>5

\* An event joins a group that stays open.
LEMMA GroupGrows ==
    ASSUME MergeInv, Current = <<>>, Current' = <<>>, NEW k \in Keys, NEW p,
           Sorted(p), Past(p)', Len(p) < MaxParts,
           \A a \in DOMAIN p : KeyOf[p[a]] = k,
           \A i \in DOMAIN out : Before(out[i].parts, p),
           \A e : Has(groups[k], e) => Has(p, e),
           \A e \in 1..arrived' : e \in 1..arrived \/ Has(p, e),
           arrived' \in Nat, arrived <= arrived',
           groups' = [groups EXCEPT ![k] = p], out' = out
    PROVE  Pipeline' /\ InOrder' /\ Somewhere'
  <1> USE MergeAssumption DEF MergeInv
  <1>1. \A j \in Keys : groups'[j] = IF j = k THEN p ELSE groups[j]
    BY DEF TypeOK
  <1>2. arrived \in Nat
    BY DEF TypeOK
  <1>3. Pipeline'
    <2>1. \A q : q \in Seq(Events) /\ Past(q) => Past(q)'
      BY <1>2 DEF Past, Events
    <2>2. ASSUME NEW j \in Keys
          PROVE  /\ Sorted(groups'[j]) /\ Past(groups[j])' /\ Len(groups'[j]) < MaxParts
                 /\ \A a \in DOMAIN groups'[j] : KeyOf[groups'[j][a]] = j
      <3>1. CASE j = k
        BY <1>1, <3>1
      <3>2. CASE j # k
        BY <1>1, <2>1, <3>2 DEF Pipeline, Sorted
      <3> QED
        BY <3>1, <3>2
    <2>3. \A i \in DOMAIN out : Past(out[i].parts)'
      BY <2>1 DEF Pipeline, Sorted
    <2>4. Sorted(<<>>) /\ Past(<<>>)' /\ Len(<<>>) <= MaxParts
      BY SortedEmpty DEF Past
    <2> QED
      BY <2>2, <2>3, <2>4 DEF Pipeline, Past
  <1>4. InOrder'
    <2>1. \A j \in Keys, i \in DOMAIN out : Before(out[i].parts, groups'[j])
      BY <1>1 DEF InOrder
    <2> QED
      BY <2>1, SortedEmpty DEF InOrder
  <1>5. Somewhere'
    <2>1. ASSUME NEW e \in 1..arrived'
          PROVE  \/ \E j \in Keys : Has(groups'[j], e)
                 \/ \E i \in DOMAIN out : Has(out[i].parts, e)
      <3>1. ~Has(<<>>, e)
        BY DEF Has
      <3>2. ASSUME NEW j \in Keys, Has(groups[j], e)
            PROVE  \E l \in Keys : Has(groups'[l], e)
        BY <1>1, <3>2
      <3>3. Has(p, e) => Has(groups'[k], e)
        BY <1>1
      <3>4. \/ Has(p, e) \/ \E j \in Keys : Has(groups[j], e)
            \/ \E i \in DOMAIN out : Has(out[i].parts, e)
        BY <3>1 DEF Somewhere
      <3> QED
        BY <3>2, <3>3, <3>4
    <2> QED
      BY <2>1 DEF Somewhere
  <1> QED
    BY <1>3, <1>4, <1>5


-----------------------------------------------------------------------------
(* The actions.                                                            *)

\* What the actions leave alone of the timers' part.
LEMMA TimersStay ==
    ASSUME OpenGroupHasTimer, UNCHANGED <<groups, tag, timers>>, closed' = closed
    PROVE  OpenGroupHasTimer'
  BY DEF OpenGroupHasTimer, GroupIs

LEMMA Single ==
    ASSUME NEW S, NEW q \in Seq(S), Len(q) = 1
    PROVE  Head(q) = q[1] /\ Tail(q) = <<>> /\ q[1] \in S
  <1>1. q # <<>> /\ q[1] \in S /\ Head(q) = q[1]
    OBVIOUS
  <1>2. Tail(q) \in Seq(S) /\ Len(Tail(q)) = 0
    BY <1>1
  <1>3. \A t \in Seq(S) : Len(t) = 0 => t = <<>>
    OBVIOUS
  <1> QED
    BY <1>1, <1>2, <1>3

LEMMA YieldKeeps == ASSUME MergeInv, Yield PROVE MergeInv'
  <1> USE MergeAssumption DEF MergeInv
  <1> DEFINE item == ready[1]
  <1>1. /\ flushing = <<>> /\ Len(ready) = 1 /\ item.parts # <<>>
        /\ Head(ready) = item /\ Tail(ready) = <<>> /\ ready # <<>>
        /\ item \in Entries /\ item.parts \in Seq(Events) /\ Current = item.parts
    <2>1. flushing = <<>> /\ Len(ready) = 1 /\ ready # <<>> /\ item.parts # <<>>
      BY DEF Yield, OneBurst
    <2>2. ready \in Seq(Entries)
      BY DEF TypeOK, Entries
    <2>3. Head(ready) = item /\ Tail(ready) = <<>> /\ item \in Entries
      BY <2>1, <2>2, Single
    <2> QED
      BY <2>1, <2>3 DEF Current, Entries
  <1>2. /\ out' = Append(out, item) /\ ready' = <<>> /\ flushing' = <<>> /\ Current' = <<>>
        /\ UNCHANGED <<arrived, closed, groups, generation, tag, timers>>
    BY <1>1 DEF Yield, Current
  <1>3. /\ out \in Seq(Entries) /\ Len(out) \in Nat /\ out' \in Seq(Entries)
        /\ DOMAIN out' = DOMAIN out \cup {Len(out) + 1}
        /\ \A i \in DOMAIN out : out'[i] = out[i] /\ i < Len(out) + 1 /\ i \in Nat
        /\ out'[Len(out) + 1] = item
    <2>1. out \in Seq(Entries) /\ item \in Entries
      BY <1>1 DEF TypeOK, Entries
    <2> HIDE DEF item
    <2> QED
      BY <1>2, <2>1
  <1>4. TypeOK'
    <2>1. <<>> \in Seq(Events) /\ <<>> \in Seq(Entries)
      OBVIOUS
    <2> QED
      BY <1>2, <1>3, <2>1 DEF TypeOK, Entries
  <1>5. OneBurst'
    BY <1>2 DEF OneBurst
  <1>6. Pipeline'
    <2>1. Sorted(<<>>) /\ Past(<<>>)' /\ Len(<<>>) <= MaxParts
      BY SortedEmpty DEF Past
    <2>2. Len(item.parts) \in 1..MaxParts
      <3>1. Len(item.parts) \in Nat /\ Len(item.parts) # 0
        BY <1>1
      <3> QED
        BY <1>1, <3>1 DEF Pipeline
    <2> HIDE DEF item
    <2>3. ASSUME NEW i \in DOMAIN out'
          PROVE  Sorted(out'[i].parts) /\ Past(out[i].parts)' /\ Len(out'[i].parts) \in 1..MaxParts
      <3>1. CASE i \in DOMAIN out
        BY <1>2, <1>3, <3>1 DEF Pipeline, Past
      <3>2. CASE i = Len(out) + 1
        BY <1>1, <1>2, <1>3, <2>2, <3>2 DEF Pipeline, Past
      <3> QED
        BY <1>3, <3>1, <3>2
    <2> QED
      BY <1>2, <2>1, <2>3 DEF Pipeline, Past
  <1>7. InOrder'
    <2> HIDE DEF item
    <2>1. ASSUME NEW i \in DOMAIN out', NEW j \in DOMAIN out', i < j
          PROVE  Before(out'[i].parts, out'[j].parts)
      <3>1. CASE j \in DOMAIN out
        BY <1>3, <2>1, <3>1 DEF InOrder
      <3>2. CASE j = Len(out) + 1
        BY <1>1, <1>3, <2>1, <3>2 DEF InOrder
      <3> QED
        BY <1>3, <3>1, <3>2
    <2>2. ASSUME NEW i \in DOMAIN out', NEW k \in Keys
          PROVE  Before(out'[i].parts, groups[k])
      BY <1>1, <1>3 DEF InOrder
    <2> QED
      BY <1>2, <2>1, <2>2, SortedEmpty DEF InOrder
  <1>8. Somewhere'
    <2> HIDE DEF item
    <2> QED
      BY <1>1, <1>2, <1>3 DEF Somewhere
  <1> QED
    BY <1>2, <1>4, <1>5, <1>6, <1>7, <1>8, TimersStay

\* Whatever the combiner answers, the burst stays the burst.
LEMMA AnswerKeeps == ASSUME MergeInv, Combined \/ Refused PROVE MergeInv'
  <1> USE MergeAssumption DEF MergeInv
  <1>1. PICK kind \in Kinds : ready' = Append(ready, Item(kind, flushing))
    BY DEF Combined, Refused, Kinds
  <1>2. /\ flushing # <<>> /\ ready = <<>> /\ flushing' = <<>> /\ Current = flushing
        /\ UNCHANGED <<arrived, closed, groups, generation, tag, timers, out>>
    BY DEF Combined, Refused, OneBurst, Current
  <1>3. /\ ready' = <<Item(kind, flushing)>> /\ Item(kind, flushing) \in Entries
        /\ Item(kind, flushing).parts = flushing
    BY <1>1, <1>2 DEF Item, Entries, TypeOK
  <1>4. ready' \in Seq(Entries) /\ Len(ready') = 1 /\ ready'[1].parts = flushing /\ ready' # <<>>
    BY <1>3
  <1>5. TypeOK'
    <2>1. <<>> \in Seq(Events)
      OBVIOUS
    <2> QED
      BY <1>2, <1>4, <2>1 DEF TypeOK, Entries
  <1>6. OneBurst' /\ Current' = Current
    BY <1>2, <1>4 DEF OneBurst, Current
  <1>7. Pipeline' /\ InOrder' /\ Somewhere'
    BY <1>2, <1>6 DEF Pipeline, InOrder, Somewhere, Past
  <1> QED
    BY <1>2, <1>5, <1>6, <1>7, TimersStay


LEMMA PassKeeps == ASSUME MergeInv, PassThrough PROVE MergeInv'
  <1> USE MergeAssumption DEF MergeInv
  <1>e. PICK e0 : e0 = arrived + 1
    OBVIOUS
  <1>q. PICK q0 : q0 = <<e0>>
    OBVIOUS
  <1>1. /\ ready = <<>> /\ flushing = <<>> /\ Current = <<>> /\ arrived < NumEvents
        /\ KeyOf[e0] = NoKey /\ arrived' = e0
        /\ ready' = Append(ready, Item("passed", q0))
        /\ UNCHANGED <<closed, groups, generation, tag, timers, flushing, out>>
    BY <1>e, <1>q DEF PassThrough, CanRead, Idle, Current
  <1>2. /\ arrived \in Nat /\ e0 \in Events /\ q0 \in Seq(Events)
        /\ Item("passed", q0) \in Entries
    BY <1>1, <1>e, <1>q DEF TypeOK, Events, Item, Entries, Kinds
  <1>3. /\ ready' = <<Item("passed", q0)>> /\ ready' \in Seq(Entries) /\ Len(ready') = 1
        /\ ready' # <<>> /\ ready'[1].parts = q0
    <2>1. Item("passed", q0).parts = q0
      BY DEF Item
    <2> QED
      BY <1>1, <1>2, <2>1
  <1>4. TypeOK'
    BY <1>1, <1>2, <1>3 DEF TypeOK, Entries, Events
  <1>5. OneBurst' /\ Current' = q0
    <2>1. q0 # <<>>
      BY <1>q
    <2> QED
      BY <1>1, <1>3, <2>1 DEF OneBurst, Current
  <1>6. /\ Sorted(q0) /\ Past(q0)' /\ Len(q0) <= MaxParts /\ Has(q0, e0)
        /\ \A a \in DOMAIN q0 : q0[a] = e0
    <2>1. Len(q0) = 1 /\ DOMAIN q0 = {1} /\ q0[1] = e0
      BY <1>q
    <2> QED
      BY <1>1, <1>2, <2>1 DEF Sorted, Past, Has, Events
  <1>7. \A q : q \in Seq(Events) /\ Past(q) => Past(q)' /\ \A a \in DOMAIN q : q[a] < e0
    <2>1. \A q : q \in Seq(Events) /\ Past(q) => \A a \in DOMAIN q : q[a] < e0
      BY <1>2, <1>e, Latest
    <2>2. ASSUME NEW q, q \in Seq(Events), Past(q) PROVE Past(q)'
      <3>1. \A a \in DOMAIN q : q[a] \in Events /\ q[a] < e0
        BY <2>1, <2>2
      <3> QED
        BY <1>1, <1>2, <3>1 DEF Past, Events
    <2> QED
      BY <2>1, <2>2
  <1>8. Pipeline'
    <2>1. \A k \in Keys : /\ Sorted(groups[k]) /\ Past(groups[k])'
                          /\ Len(groups[k]) < MaxParts
                          /\ \A a \in DOMAIN groups[k] : KeyOf[groups[k][a]] = k
      BY <1>1, <1>7 DEF Pipeline, Sorted, Past
    <2>2. \A i \in DOMAIN out : /\ Sorted(out[i].parts) /\ Past(out[i].parts)'
                                /\ Len(out[i].parts) \in 1..MaxParts
      BY <1>1, <1>7 DEF Pipeline, Sorted, Past
    <2> QED
      BY <1>1, <1>5, <1>6, <2>1, <2>2 DEF Pipeline, Past
  <1>9. InOrder'
    <2>1. \A k \in Keys : Before(q0, groups[k])
      <3>1. ASSUME NEW k \in Keys, NEW b \in DOMAIN groups[k] PROVE KeyOf[groups[k][b]] # NoKey
        BY DEF Pipeline
      <3> QED
        BY <1>1, <1>6, <3>1 DEF Before
    <2>2. \A i \in DOMAIN out : Before(out[i].parts, q0)
      BY <1>6, <1>7 DEF Pipeline, Before, Sorted
    <2> QED
      BY <1>1, <1>5, <2>1, <2>2 DEF InOrder
  <1>10. Somewhere'
    <2>1. \A e \in 1..arrived' : e \in 1..arrived \/ e = e0
      BY <1>1, <1>2, <1>e
    <2>2. \A e : ~Has(<<>>, e)
      BY DEF Has
    <2> QED
      BY <1>1, <1>5, <1>6, <2>1, <2>2 DEF Somewhere
  <1> QED
    BY <1>1, <1>4, <1>5, <1>8, <1>9, <1>10, TimersStay

LEMMA GroupKeeps == ASSUME MergeInv, NEW k \in Keys, Group(k) PROVE MergeInv'
  <1> USE MergeAssumption DEF MergeInv
  <1>e. PICK e0 : e0 = arrived + 1
    OBVIOUS
  <1>p. PICK p0 : p0 = Append(groups[k], e0)
    OBVIOUS
  <1>1. /\ ready = <<>> /\ flushing = <<>> /\ Current = <<>> /\ arrived < NumEvents
        /\ KeyOf[e0] = k /\ arrived' = e0 /\ Gather(k) /\ ~closed
        /\ IF groups[k] = <<>> THEN Open(k) ELSE UNCHANGED <<generation, tag, timers>>
        /\ UNCHANGED <<closed, ready, out>>
    BY <1>e DEF Group, CanRead, Idle, Current
  <1>2. /\ arrived \in Nat /\ arrived' \in Nat /\ e0 \in Events /\ arrived <= arrived'
        /\ arrived' \in 0..NumEvents
    BY <1>1, <1>e DEF TypeOK, Events
  <1>3. /\ Sorted(groups[k]) /\ Past(groups[k]) /\ Len(groups[k]) < MaxParts
        /\ \A a \in DOMAIN groups[k] : groups[k][a] < e0 /\ KeyOf[groups[k][a]] = k
        /\ groups[k] \in Seq(Events)
    BY <1>2, <1>e, Latest DEF Pipeline, Sorted
  <1>4. /\ Sorted(p0) /\ Len(p0) = Len(groups[k]) + 1
        /\ DOMAIN p0 = DOMAIN groups[k] \cup {Len(groups[k]) + 1}
        /\ \A a \in DOMAIN groups[k] : p0[a] = groups[k][a]
        /\ p0[Len(groups[k]) + 1] = e0
        /\ \A x : Has(p0, x) <=> Has(groups[k], x) \/ x = e0
    BY <1>1, <1>2, <1>3, <1>p, SortedAppend
  <1>5. /\ Past(p0)' /\ Len(p0) <= MaxParts
        /\ \A a \in DOMAIN p0 : KeyOf[p0[a]] = k
        /\ p0 \in Seq(Events)
        /\ \A i \in DOMAIN out : Before(out[i].parts, p0)
    <2>1. p0 \in Seq(Events) /\ \A a \in DOMAIN p0 : KeyOf[p0[a]] = k
      BY <1>1, <1>3, <1>4 DEF Sorted
    <2>2. Past(p0)'
      <3>1. \A a \in DOMAIN groups[k] : groups[k][a] \in Events
        BY <1>3
      <3> QED
        BY <1>1, <1>2, <1>3, <1>4, <3>1 DEF Past, Events
    <2>3. Len(p0) <= MaxParts
      <3>1. Len(groups[k]) \in Nat
        BY <1>3
      <3> QED
        BY <1>3, <1>4, <3>1
    <2>4. ASSUME NEW i \in DOMAIN out PROVE Before(out[i].parts, p0)
      <3>1. \A a \in DOMAIN out[i].parts : out[i].parts[a] < e0
        BY <1>2, <1>e, Latest DEF Pipeline, Sorted
      <3>2. Before(out[i].parts, groups[k])
        BY DEF InOrder
      <3> QED
        BY <1>4, <3>1, <3>2 DEF Before
    <2> QED
      BY <2>1, <2>2, <2>3, <2>4
  <1>6. /\ \A e : Has(groups[k], e) => Has(p0, e)
        /\ \A e \in 1..arrived' : e \in 1..arrived \/ Has(p0, e)
    <2>1. \A e \in 1..arrived' : e \in 1..arrived \/ e = e0
      BY <1>1, <1>2, <1>e
    <2> QED
      BY <1>4, <2>1
  <1>7. /\ Len(p0) \in Nat
        /\ \/ /\ Len(p0) >= MaxParts
              /\ groups' = [groups EXCEPT ![k] = <<>>] /\ flushing' = p0 /\ Current' = p0
           \/ /\ Len(p0) < MaxParts
              /\ groups' = [groups EXCEPT ![k] = p0] /\ flushing' = <<>> /\ Current' = <<>>
    BY <1>1, <1>5, <1>e, <1>p DEF Gather, Current
  <1>8. Pipeline' /\ InOrder' /\ Somewhere'
    <2>1. CASE Len(p0) >= MaxParts
      <3>1. groups' = [groups EXCEPT ![k] = <<>>] /\ Current' = p0
        BY <1>7, <2>1
      <3> HIDE DEF MergeInv
      <3> QED
        BY <1>1, <1>2, <1>4, <1>5, <1>6, <3>1, GroupLeaves
    <2>2. CASE Len(p0) < MaxParts
      <3>1. groups' = [groups EXCEPT ![k] = p0] /\ Current' = <<>>
        BY <1>7, <2>2
      <3> HIDE DEF MergeInv
      <3> QED
        BY <1>1, <1>2, <1>4, <1>5, <1>6, <2>2, <3>1, GroupGrows
    <2> QED
      BY <1>7, <2>1, <2>2
  <1>9. OneBurst'
    BY <1>1 DEF OneBurst
  <1>10. generation' \in 0..(Generations - 1) /\ NextGeneration \in 0..(Generations - 1)
    BY <1>1 DEF Open, NextGeneration, TypeOK
  <1>11. TypeOK'
    <2>1. groups' \in [Keys -> Seq(Events)] /\ flushing' \in Seq(Events)
      <3>1. <<>> \in Seq(Events)
        OBVIOUS
      <3>2. flushing' \in Seq(Events)
        BY <1>5, <1>7, <3>1
      <3>3. \A q \in Seq(Events) : [groups EXCEPT ![k] = q] \in [Keys -> Seq(Events)]
        BY DEF TypeOK
      <3> QED
        BY <1>5, <1>7, <3>1, <3>2, <3>3
    <2>2. /\ tag' \in [Keys -> 0..(Generations - 1)]
          /\ \A t \in timers' : /\ t.key \in Keys
                                /\ t.generation \in 0..(Generations - 1)
                                /\ t.first \in Events
      <3>1. Timer(k, NextGeneration, e0).key = k
        BY DEF Timer
      <3>2. Timer(k, NextGeneration, e0).generation = NextGeneration
        BY DEF Timer
      <3>3. Timer(k, NextGeneration, e0).first = e0
        BY DEF Timer
      <3>4. CASE groups[k] = <<>>
        <4>1. /\ tag' = [tag EXCEPT ![k] = NextGeneration]
              /\ timers' = timers \cup {Timer(k, NextGeneration, e0)}
          BY <1>1, <1>e, <3>4 DEF Open
        <4>2. tag' \in [Keys -> 0..(Generations - 1)]
          BY <1>10, <4>1 DEF TypeOK
        <4> QED
          BY <1>2, <1>10, <3>1, <3>2, <3>3, <4>1, <4>2 DEF TypeOK
      <3>5. CASE groups[k] # <<>>
        BY <1>1, <3>5 DEF TypeOK
      <3> QED
        BY <3>4, <3>5
    <2> QED
      BY <1>1, <1>2, <1>10, <2>1, <2>2 DEF TypeOK
  <1>12. OpenGroupHasTimer'
    <2>1. ASSUME NEW j \in Keys, groups'[j] # <<>>
          PROVE  \E t \in timers' : t.key = j /\ GroupIs(t)' /\ t.first = groups'[j][1]
      <3>1. CASE j # k
        <4>1. groups'[j] = groups[j] /\ tag'[j] = tag[j] /\ timers \subseteq timers'
          BY <1>1, <1>7, <3>1 DEF Open, TypeOK
        <4> QED
          BY <1>1, <2>1, <4>1 DEF OpenGroupHasTimer, GroupIs
      <3>2. CASE j = k
        <4>1. groups'[k] = p0
          BY <1>7, <2>1, <3>2 DEF TypeOK
        <4>2. CASE groups[k] = <<>>
          <5>1. /\ Timer(k, NextGeneration, e0) \in timers'
                /\ tag'[k] = NextGeneration
            BY <1>1, <4>2, <1>e DEF Open, TypeOK
          <5>2. p0[1] = e0
            BY <1>4, <4>2
          <5> QED
            BY <2>1, <3>2, <4>1, <5>1, <5>2 DEF GroupIs, Timer
        <4>3. CASE groups[k] # <<>>
          <5>1. p0[1] = groups[k][1]
            <6>1. 1 \in DOMAIN groups[k]
              BY <1>3, <4>3
            <6> QED
              BY <1>4, <6>1
          <5> QED
            BY <1>1, <2>1, <3>2, <4>1, <4>3, <5>1 DEF OpenGroupHasTimer, GroupIs
        <4> QED
          BY <4>2, <4>3
      <3> QED
        BY <3>1, <3>2
    <2> QED
      BY <2>1 DEF OpenGroupHasTimer
  <1> QED
    BY <1>8, <1>9, <1>11, <1>12


\* A group that is flushed early, or at the end of the input.
LEMMA FlushKeeps ==
    ASSUME MergeInv, NEW k \in Keys, groups[k] # <<>>, Flush(k), Idle,
           UNCHANGED <<arrived, closed, generation, tag, ready, out>>
    PROVE  /\ groups' \in [Keys -> Seq(Events)] /\ flushing' \in Seq(Events)
           /\ \A j \in Keys : groups'[j] = IF j = k THEN <<>> ELSE groups[j]
           /\ OneBurst' /\ Pipeline' /\ InOrder' /\ Somewhere'
  <1> USE MergeAssumption DEF MergeInv
  <1>p. PICK p0 : p0 = groups[k]
    OBVIOUS
  <1>1. /\ ready = <<>> /\ flushing = <<>> /\ Current = <<>> /\ ready' = <<>>
        /\ flushing' = p0 /\ groups' = [groups EXCEPT ![k] = <<>>] /\ Current' = p0
    BY <1>p DEF Idle, Current, Flush
  <1>2. /\ Sorted(p0) /\ Past(p0) /\ Len(p0) < MaxParts /\ p0 \in Seq(Events)
        /\ \A a \in DOMAIN p0 : KeyOf[p0[a]] = k
        /\ \A i \in DOMAIN out : Before(out[i].parts, p0)
    BY <1>p DEF Pipeline, InOrder, Sorted
  <1>3. Past(p0)' /\ Len(p0) <= MaxParts
    <2>1. Len(p0) \in Nat
      BY <1>2
    <2> QED
      BY <1>2, <2>1 DEF Past
  <1>4. groups' \in [Keys -> Seq(Events)] /\ flushing' \in Seq(Events)
    <2>1. <<>> \in Seq(Events)
      OBVIOUS
    <2> QED
      BY <1>1, <1>2, <2>1 DEF TypeOK
  <1>5. OneBurst'
    BY <1>1 DEF OneBurst
  <1>6. Pipeline' /\ InOrder' /\ Somewhere'
    <2>1. arrived' \in Nat /\ arrived <= arrived'
      BY DEF TypeOK
    <2> HIDE DEF MergeInv
    <2> QED
      BY <1>p, <1>1, <1>2, <1>3, <2>1, GroupLeaves
  <1> QED
    BY <1>1, <1>4, <1>5, <1>6 DEF TypeOK

LEMMA DueKeeps == ASSUME MergeInv, NEW t \in timers, Due(t) PROVE MergeInv'
  <1> USE MergeAssumption DEF MergeInv
  <1>1. /\ Idle /\ timers' = timers \ {t} /\ t.key \in Keys
        /\ IF GroupIs(t) THEN Flush(t.key) ELSE UNCHANGED <<groups, flushing>>
        /\ UNCHANGED <<arrived, closed, generation, tag, ready, out>>
    BY DEF Due, TypeOK
  <1>2. CASE GroupIs(t)
    <2>1. /\ groups' \in [Keys -> Seq(Events)] /\ flushing' \in Seq(Events)
          /\ \A j \in Keys : groups'[j] = IF j = t.key THEN <<>> ELSE groups[j]
          /\ OneBurst' /\ Pipeline' /\ InOrder' /\ Somewhere'
      <3>1. groups[t.key] # <<>>
        BY <1>2 DEF GroupIs
      <3> HIDE DEF MergeInv
      <3> QED
        BY <1>1, <1>2, <3>1, FlushKeeps
    <2>2. TypeOK'
      BY <1>1, <2>1 DEF TypeOK
    <2>3. OpenGroupHasTimer'
      <3>1. ASSUME NEW j \in Keys, ~closed', groups'[j] # <<>>
            PROVE  \E u \in timers' : u.key = j /\ GroupIs(u)' /\ u.first = groups'[j][1]
        <4>1. j # t.key /\ groups'[j] = groups[j]
          BY <2>1, <3>1
        <4>2. PICK u \in timers : u.key = j /\ GroupIs(u) /\ u.first = groups[j][1]
          BY <1>1, <3>1, <4>1 DEF OpenGroupHasTimer
        <4>3. u \in timers' /\ tag' = tag
          BY <1>1, <4>1, <4>2
        <4> QED
          BY <4>1, <4>2, <4>3 DEF GroupIs
      <3> QED
        BY <3>1 DEF OpenGroupHasTimer
    <2> QED
      BY <2>1, <2>2, <2>3
  <1>3. CASE ~GroupIs(t)
    <2>1. /\ UNCHANGED <<groups, flushing>> /\ Current' = Current
      BY <1>1, <1>3 DEF Current
    <2>2. TypeOK'
      BY <1>1, <2>1 DEF TypeOK
    <2>3. OneBurst' /\ Pipeline' /\ InOrder' /\ Somewhere'
      BY <1>1, <2>1 DEF OneBurst, Pipeline, InOrder, Somewhere, Past
    <2>4. OpenGroupHasTimer'
      <3>1. ASSUME NEW j \in Keys, ~closed', groups'[j] # <<>>
            PROVE  \E u \in timers' : u.key = j /\ GroupIs(u)' /\ u.first = groups'[j][1]
        <4>1. PICK u \in timers : u.key = j /\ GroupIs(u) /\ u.first = groups[j][1]
          BY <1>1, <2>1, <3>1 DEF OpenGroupHasTimer
        <4>2. u \in timers'
          BY <1>1, <1>3, <4>1
        <4> QED
          BY <1>1, <2>1, <4>1, <4>2 DEF GroupIs
      <3> QED
        BY <3>1 DEF OpenGroupHasTimer
    <2> QED
      BY <2>2, <2>3, <2>4
  <1> QED
    BY <1>2, <1>3

LEMMA RemainingKeeps == ASSUME MergeInv, FlushRemaining PROVE MergeInv'
  <1>1. PICK k \in Keys : groups[k] # <<>> /\ Flush(k)
    BY DEF FlushRemaining
  <1>2. /\ Idle /\ closed
        /\ UNCHANGED <<arrived, closed, generation, tag, timers, ready, out>>
    BY DEF FlushRemaining
  <1>3. /\ groups' \in [Keys -> Seq(Events)] /\ flushing' \in Seq(Events)
        /\ OneBurst' /\ Pipeline' /\ InOrder' /\ Somewhere'
    BY <1>1, <1>2, FlushKeeps
  <1>5. TypeOK'
    BY <1>2, <1>3 DEF MergeInv, TypeOK
  <1>4. OpenGroupHasTimer'
    BY <1>2 DEF OpenGroupHasTimer
  <1> QED
    BY <1>3, <1>4, <1>5 DEF MergeInv

LEMMA MergeKeeps == MergeInv /\ [Next]_vars => MergeInv'
  <1> SUFFICES ASSUME MergeInv, [Next]_vars PROVE MergeInv'
    OBVIOUS
  <1>1. CASE InputEnds
    <2>1. /\ closed' = TRUE /\ Current' = Current
          /\ UNCHANGED <<arrived, groups, generation, tag, timers, flushing, ready, out>>
      BY <1>1 DEF InputEnds, Current
    <2>2. TypeOK' /\ OneBurst' /\ Pipeline' /\ InOrder' /\ Somewhere'
      BY <2>1 DEF MergeInv, TypeOK, OneBurst, Pipeline, InOrder, Somewhere, Past
    <2> QED
      BY <2>1, <2>2 DEF MergeInv, OpenGroupHasTimer
  <1>2. CASE UNCHANGED vars
    <2>1. /\ Current' = Current
          /\ UNCHANGED <<arrived, closed, groups, generation, tag, timers, flushing, ready, out>>
      BY <1>2 DEF vars, Current
    <2>2. TypeOK' /\ OneBurst' /\ Pipeline' /\ InOrder' /\ Somewhere'
      BY <2>1 DEF MergeInv, TypeOK, OneBurst, Pipeline, InOrder, Somewhere, Past
    <2> QED
      BY <2>1, <2>2, TimersStay DEF MergeInv
  <1> QED
    BY <1>1, <1>2, YieldKeeps, AnswerKeeps, PassKeeps, GroupKeeps, DueKeeps, RemainingKeeps
       DEF Next, Step, Ended


-----------------------------------------------------------------------------
(* What the invariant says of the output.                                  *)

LEMMA OutputSorted == MergeInv => PartsInOrder /\ ArrivalOrderPerKey
  <1> SUFFICES ASSUME MergeInv PROVE PartsInOrder /\ ArrivalOrderPerKey
    OBVIOUS
  <1>1. ASSUME NEW i \in DOMAIN out
        PROVE  /\ Sorted(out[i].parts) /\ Len(out[i].parts) \in 1..MaxParts
               /\ out[i].parts \in Seq(Events)
               /\ 1 \in DOMAIN out[i].parts /\ Len(out[i].parts) \in DOMAIN out[i].parts
               /\ \A j \in 2..Len(out[i].parts) :
                     j \in DOMAIN out[i].parts /\ j - 1 \in DOMAIN out[i].parts /\ j - 1 < j
    <2>p. PICK p : p = out[i].parts
      OBVIOUS
    <2>1. Sorted(p) /\ Len(p) \in 1..MaxParts
      BY <1>1, <2>p DEF MergeInv, Pipeline
    <2>2. p \in Seq(Events) /\ DOMAIN p = 1..Len(p) /\ Len(p) \in Nat
      BY <2>1 DEF Sorted
    <2> QED
      BY <2>p, <2>1, <2>2, MergeAssumption
  <1>2. PartsInOrder
    BY <1>1 DEF PartsInOrder, Sorted
  <1>3. ArrivalOrderPerKey
    <2>1. ASSUME NEW i \in DOMAIN out, NEW j \in DOMAIN out, i < j,
                 KeyOf[out[i].parts[1]] = KeyOf[out[j].parts[1]]
          PROVE  out[i].parts[Len(out[i].parts)] < out[j].parts[1]
      <3>1. KeyOf[out[i].parts[Len(out[i].parts)]] = KeyOf[out[i].parts[1]]
        BY <1>1 DEF Sorted
      <3>2. Before(out[i].parts, out[j].parts)
        BY <2>1 DEF MergeInv, InOrder
      <3> QED
        BY <1>1, <2>1, <3>1, <3>2 DEF Before
    <2> QED
      BY <2>1 DEF ArrivalOrderPerKey
  <1> QED
    BY <1>2, <1>3

\* Where an event is in a sorted sequence, it is once.
LEMMA SpotsOfSorted ==
    ASSUME NEW p, Sorted(p), NEW e
    PROVE  /\ Has(p, e) => \E a \in DOMAIN p : Spots(e, p) = {a}
           /\ ~Has(p, e) => Spots(e, p) = {}
  <1>1. ASSUME NEW a \in DOMAIN p, NEW b \in DOMAIN p, p[a] = p[b] PROVE a = b
    <2>1. p[a] \in Nat /\ p[b] \in Nat /\ a \in Nat /\ b \in Nat
      <3>1. p \in Seq(Events)
        BY DEF Sorted
      <3>2. p[a] \in Events /\ p[b] \in Events /\ a \in Nat /\ b \in Nat
        BY <3>1
      <3> QED
        BY <3>2, MergeAssumption DEF Events
    <2>2. ~(a < b) /\ ~(b < a)
      BY <1>1, <2>1 DEF Sorted
    <2> QED
      BY <2>1, <2>2
  <1> QED
    BY <1>1 DEF Has, Spots

\* The spots of an event in a family of sequences that share no event.
LEMMA SpotsInLists ==
    ASSUME NEW lists, NEW e,
           \A k \in DOMAIN lists : Sorted(lists[k]),
           \A k, l \in DOMAIN lists : Has(lists[k], e) /\ Has(lists[l], e) => k = l
    PROVE  /\ (\E k \in DOMAIN lists : Has(lists[k], e)) => CountIn(e, lists) = 1
           /\ (\A k \in DOMAIN lists : ~Has(lists[k], e)) => CountIn(e, lists) = 0
  <1>1. ASSUME NEW k \in DOMAIN lists, Has(lists[k], e) PROVE CountIn(e, lists) = 1
    <2>1. PICK a : Spots(e, lists[k]) = {a}
      BY <1>1, SpotsOfSorted
    <2>2. \A l \in DOMAIN lists : l # k => Spots(e, lists[l]) = {}
      BY <1>1, SpotsOfSorted
    <2>3. SpotsIn(e, lists) = {<<k, a>>}
      BY <2>1, <2>2 DEF SpotsIn
    <2> QED
      BY <2>3, FS_Singleton DEF CountIn
  <1>2. ASSUME \A k \in DOMAIN lists : ~Has(lists[k], e) PROVE CountIn(e, lists) = 0
    <2>1. \A l \in DOMAIN lists : Spots(e, lists[l]) = {}
      BY <1>2, SpotsOfSorted
    <2>2. SpotsIn(e, lists) = {}
      BY <2>1 DEF SpotsIn
    <2> QED
      BY <2>2, FS_EmptySet DEF CountIn
  <1> QED
    BY <1>1, <1>2


LEMMA Apart ==
    ASSUME NEW p, NEW q, Sorted(p), Before(p, q), NEW e
    PROVE  ~(Has(p, e) /\ Has(q, e))
  <1> SUFFICES ASSUME Has(p, e), Has(q, e) PROVE FALSE
    OBVIOUS
  <1>1. PICK a \in DOMAIN p : p[a] = e
    BY DEF Has
  <1>2. PICK b \in DOMAIN q : q[b] = e
    BY DEF Has
  <1>3. e < e
    BY <1>1, <1>2 DEF Before
  <1>4. e \in Nat
    <2>1. p[a] \in Events
      BY DEF Sorted
    <2> QED
      BY <1>1, <2>1, MergeAssumption DEF Events
  <1> QED
    BY <1>3, <1>4

LEMMA EventIsOnce == MergeInv => NothingLost
  <1> SUFFICES ASSUME MergeInv, NEW e \in 1..arrived
               PROVE  /\ CountIn(e, groups) + Count(e, flushing)
                            + CountIn(e, Parts(ready)) + CountIn(e, Parts(out)) = 1
                      /\ Over => CountIn(e, Parts(out)) = 1
    BY DEF NothingLost
  <1> USE DEF MergeInv
  <1> DEFINE G == \E k \in Keys : Has(groups[k], e)
             C == Has(Current, e)
             O == \E i \in DOMAIN out : Has(out[i].parts, e)
  <1>0. ~Has(<<>>, e)
    BY DEF Has
  <1>1. G \/ C \/ O
    BY DEF Somewhere
  <1>2. ~(G /\ C) /\ ~(G /\ O) /\ ~(C /\ O)
    <2>1. ~(G /\ C)
      BY Apart DEF InOrder, Pipeline
    <2>2. ~(G /\ O)
      BY Apart DEF InOrder, Pipeline
    <2>3. ~(C /\ O)
      BY Apart DEF InOrder, Pipeline
    <2> QED
      BY <2>1, <2>2, <2>3
  <1>3. (G => CountIn(e, groups) = 1) /\ (~G => CountIn(e, groups) = 0)
    <2>1. DOMAIN groups = Keys
      BY DEF TypeOK
    <2>2. \A k \in Keys : Sorted(groups[k])
      BY DEF Pipeline
    <2>3. \A k, l \in Keys : Has(groups[k], e) /\ Has(groups[l], e) => k = l
      BY DEF Pipeline, Has
    <2>g. PICK g : g = groups
      OBVIOUS
    <2>4. /\ \A k \in DOMAIN g : Sorted(g[k])
          /\ \A k, l \in DOMAIN g : Has(g[k], e) /\ Has(g[l], e) => k = l
      BY <2>g, <2>1, <2>2, <2>3
    <2>5. /\ (\E k \in DOMAIN g : Has(g[k], e)) => CountIn(e, g) = 1
          /\ (\A k \in DOMAIN g : ~Has(g[k], e)) => CountIn(e, g) = 0
      BY <2>4, SpotsInLists
    <2> QED
      BY <2>g, <2>1, <2>5
  <1>4. /\ C => \/ Count(e, flushing) = 1 /\ CountIn(e, Parts(ready)) = 0
                \/ Count(e, flushing) = 0 /\ CountIn(e, Parts(ready)) = 1
        /\ ~C => Count(e, flushing) = 0 /\ CountIn(e, Parts(ready)) = 0
    <2>1. CASE ready = <<>>
      <3>1. Current = flushing /\ Sorted(flushing)
        BY <2>1 DEF Current, Pipeline
      <3>2. (C => Count(e, flushing) = 1) /\ (~C => Count(e, flushing) = 0)
        <4>1. C => \E a : Spots(e, flushing) = {a}
          BY <3>1, SpotsOfSorted
        <4>2. ~C => Spots(e, flushing) = {}
          BY <3>1, SpotsOfSorted
        <4>3. \A a : Cardinality({a}) = 1
          BY FS_Singleton
        <4> HIDE DEF C
        <4> QED
          BY <4>1, <4>2, <4>3, FS_EmptySet DEF Count
      <3>3. SpotsIn(e, Parts(ready)) = {}
        BY <2>1 DEF SpotsIn, Parts
      <3>4. CountIn(e, Parts(ready)) = 0
        BY <3>3, FS_EmptySet DEF CountIn
      <3> QED
        BY <3>2, <3>4
    <2>2. CASE ready # <<>>
      <3>1. /\ flushing = <<>> /\ Current = ready[1].parts /\ Sorted(Current)
            /\ DOMAIN ready = {1}
        BY <2>2 DEF OneBurst, Current, Pipeline, TypeOK
      <3>2. Spots(e, flushing) = {}
        BY <3>1 DEF Spots
      <3>3. Count(e, flushing) = 0
        BY <3>2, FS_EmptySet DEF Count
      <3>g. PICK g : g = Parts(ready)
        OBVIOUS
      <3>4. DOMAIN g = {1} /\ g[1] = Current
        BY <3>g, <3>1 DEF Parts
      <3>5. /\ (\E k \in DOMAIN g : Has(g[k], e)) => CountIn(e, g) = 1
            /\ (\A k \in DOMAIN g : ~Has(g[k], e)) => CountIn(e, g) = 0
        BY <3>1, <3>4, SpotsInLists
      <3> QED
        BY <3>g, <3>3, <3>4, <3>5
    <2> QED
      BY <2>1, <2>2
  <1>5. (O => CountIn(e, Parts(out)) = 1) /\ (~O => CountIn(e, Parts(out)) = 0)
    <2>g. PICK g : g = Parts(out)
      OBVIOUS
    <2>1. DOMAIN g = DOMAIN out /\ \A i \in DOMAIN out : g[i] = out[i].parts
      BY <2>g DEF Parts
    <2>2. \A i \in DOMAIN g : Sorted(g[i]) /\ i \in Nat
      <3>1. \A i \in DOMAIN out : i \in Nat
        BY DEF TypeOK
      <3> QED
        BY <2>1, <3>1 DEF Pipeline
    <2>3. \A i, j \in DOMAIN g : Has(g[i], e) /\ Has(g[j], e) => i = j
      <3>1. \A i, j \in DOMAIN g : i < j => Before(g[i], g[j])
        BY <2>1 DEF InOrder
      <3>2. \A i, j \in DOMAIN g : i < j => ~(Has(g[i], e) /\ Has(g[j], e))
        BY <2>2, <3>1, Apart
      <3> QED
        BY <2>2, <3>2
    <2>4. /\ (\E k \in DOMAIN g : Has(g[k], e)) => CountIn(e, g) = 1
          /\ (\A k \in DOMAIN g : ~Has(g[k], e)) => CountIn(e, g) = 0
      BY <2>2, <2>3, SpotsInLists
    <2> QED
      BY <2>g, <2>1, <2>4
  <1>6. Over => ~G /\ ~C
    BY <1>0 DEF Over, Idle, Current
  <1>7. PICK a, b, c, d : /\ a = CountIn(e, groups) /\ b = Count(e, flushing)
                          /\ c = CountIn(e, Parts(ready)) /\ d = CountIn(e, Parts(out))
    OBVIOUS
  <1> HIDE DEF G, C, O
  <1>8. Over => d = 1
    BY <1>1, <1>5, <1>6, <1>7
  <1>9. a + b + c + d = 1
    BY <1>1, <1>2, <1>3, <1>4, <1>5, <1>7
  <1> QED
    BY <1>7, <1>8, <1>9

-----------------------------------------------------------------------------
(* Whose timer flushes, before the generation counter wraps.               *)

LEMMA GenerationsTold ==
    ASSUME NumEvents < Generations, MergeInv, TimersTold, [Next]_vars
    PROVE  TimersTold'
  <1> USE MergeAssumption DEF MergeInv
  <1>1. ASSUME NEW k \in Keys, Group(k), groups[k] = <<>> PROVE TimersTold'
    <2>t. PICK t0 : t0 = Timer(k, NextGeneration, arrived + 1)
      OBVIOUS
    <2>1. /\ arrived \in Nat /\ generation \in Nat /\ generation <= arrived
          /\ arrived < NumEvents
      BY <1>1 DEF TypeOK, TimersTold, Group, CanRead
    <2>2. NextGeneration = generation + 1
      BY <2>1 DEF NextGeneration
    <2>3. /\ generation' = generation + 1 /\ arrived' = arrived + 1
          /\ timers' = timers \cup {t0} /\ t0.generation = generation + 1
      BY <1>1, <2>t, <2>2 DEF Group, Open, Timer
    <2>4. \A t \in timers : t.generation \in Nat /\ t.generation <= generation
      BY DEF TypeOK, TimersTold
    <2> QED
      BY <2>1, <2>3, <2>4 DEF TimersTold
  <1>2. CASE generation' = generation /\ arrived' >= arrived /\ timers' \subseteq timers
    <2>1. generation \in Nat /\ arrived \in Nat
      BY DEF TypeOK
    <2>2. generation' <= arrived'
      BY <1>2, <2>1 DEF TimersTold, Next, Step, Yield, PassThrough, Group, CanRead, Due,
               Combined, Refused, FlushRemaining, InputEnds, Ended, vars
    <2> QED
      BY <1>2, <2>2 DEF TimersTold
  <1>3. arrived \in Nat
    BY DEF TypeOK
  <1>4. CASE \E k \in Keys : Group(k) /\ groups[k] # <<>>
    BY <1>2, <1>3, <1>4 DEF Group
  <1>5. CASE Yield \/ Combined \/ Refused \/ FlushRemaining \/ PassThrough \/ InputEnds
    BY <1>2, <1>3, <1>5 DEF Yield, Combined, Refused, FlushRemaining, PassThrough, InputEnds
  <1>6. CASE \E t \in timers : Due(t)
    BY <1>2, <1>3, <1>6 DEF Due
  <1>7. CASE UNCHANGED vars
    BY <1>2, <1>3, <1>7 DEF vars
  <1> QED
    BY <1>1, <1>4, <1>5, <1>6, <1>7 DEF Next, Step, Ended

OwnTimer ==
    \A t \in timers : timers' = timers \ {t} /\ groups' # groups
        => groups[t.key][1] = t.first

LEMMA OwnTimerFlushes ==
    ASSUME MergeInv, TimersTold, [Next]_vars
    PROVE  OwnTimer
  <1> SUFFICES ASSUME NEW t \in timers, timers' = timers \ {t}, groups' # groups
               PROVE  groups[t.key][1] = t.first
    BY DEF OwnTimer
  <1>1. PICK u \in timers : Due(u)
    BY DEF Next, Step, Yield, Combined, Refused, FlushRemaining, PassThrough, Group, Open,
           InputEnds, Ended, vars
  <1>2. u = t
    BY <1>1 DEF Due
  <1>3. GroupIs(t) /\ ~closed /\ t.key \in Keys
    BY <1>1, <1>2 DEF Due, MergeInv, TypeOK
  <1>4. PICK v \in timers : v.key = t.key /\ GroupIs(v) /\ v.first = groups[t.key][1]
    BY <1>3 DEF MergeInv, OpenGroupHasTimer, GroupIs
  <1>5. v = t
    BY <1>3, <1>4 DEF GroupIs, TimersTold
  <1> QED
    BY <1>4, <1>5

-----------------------------------------------------------------------------
(* The theorems.                                                           *)

\* The invariant holds in every behaviour of the stage.
THEOREM MergeInvariant == Spec => []MergeInv
  <1>1. Init => MergeInv
    BY MergeBegins
  <1>2. MergeInv /\ [Next]_vars => MergeInv'
    BY MergeKeeps
  <1> QED
    BY <1>1, <1>2, PTL DEF Spec

\* No event read by the stage is lost and none is duplicated, whichever way
\* the flushes, the combiner's refusals and the end of the input interleave.
THEOREM NothingLostHolds == Spec => []NothingLost
  <1>1. MergeInv => NothingLost
    BY EventIsOnce
  <1> QED
    BY <1>1, MergeInvariant, PTL

\* Each item of the output has between one and max_parts parts, of one key,
\* in arrival order: the combiner's precondition.
THEOREM PartsInOrderHolds == Spec => []PartsInOrder
  <1>1. MergeInv => PartsInOrder
    BY OutputSorted
  <1> QED
    BY <1>1, MergeInvariant, PTL

\* The events of a key leave the stage in the order they came.
THEOREM ArrivalOrderHolds == Spec => []ArrivalOrderPerKey
  <1>1. MergeInv => ArrivalOrderPerKey
    BY OutputSorted
  <1> QED
    BY <1>1, MergeInvariant, PTL

\* Until the input ends every open group has its own timer pending, even if
\* the generation counter wraps.
THEOREM OpenGroupHasTimerHolds == Spec => []OpenGroupHasTimer
  <1>1. MergeInv => OpenGroupHasTimer
    BY DEF MergeInv
  <1> QED
    BY <1>1, MergeInvariant, PTL

\* Before the u64 counter wraps, a timer flushes only the group it was
\* started for.
THEOREM OnlyOwnTimerHolds ==
    ASSUME NumEvents < Generations
    PROVE  Spec => OnlyOwnTimerFlushes
  <1>1. Init => MergeInv /\ TimersTold
    BY MergeBegins
  <1>2. MergeInv /\ TimersTold /\ [Next]_vars => (MergeInv /\ TimersTold)'
    BY MergeKeeps, GenerationsTold
  <1>3. MergeInv /\ TimersTold /\ [Next]_vars => [OwnTimer]_vars
    BY OwnTimerFlushes
  <1>4. Spec => [][OwnTimer]_vars
    BY <1>1, <1>2, <1>3, PTL DEF Spec
  <1> QED
    BY <1>4 DEF OnlyOwnTimerFlushes, OwnTimer
=============================================================================
