---------------------------- MODULE CacheProofs ----------------------------
(***************************************************************************)
(* Theorems about the answer cache, for any number of callers, every       *)
(* capacity, every Ttl, and a store that may fail.                         *)
(***************************************************************************)
EXTENDS Cache, SequenceTheorems, TLAPS

ObtainedAnswers == [input : Inputs, obtained : Nat]
Entries == [key : {KeyOf(x) : x \in Inputs}, answer : ObtainedAnswers, expires : Nat]
Calls   == [at : Places, input : Inputs, time : Nat, from : ObtainedAnswers, ended : Endings]

-----------------------------------------------------------------------------
(* The invariant.  The store is a map of at most Capacity keys, and each    *)
(* entry is an answer obtained for its key, which expires a Ttl after it   *)
(* was obtained, whoever stored it and when.                               *)

CacheTypes ==
    /\ clock \in Nat
    /\ lru \in Seq(Entries)
    /\ call \in [Callers -> Calls]
    /\ misses \in Nat
    /\ answers \subseteq ObtainedAnswers

Stored(e) ==
    /\ e.answer \in answers
    /\ e.expires = e.answer.obtained + Ttl
    /\ e.key = KeyOf(e.answer.input)

\* No two entries have a key in common.
KeysApart(s) == \A i, j \in DOMAIN s : s[i].key = s[j].key => i = j

StoreInv ==
    /\ KeysApart(lru)
    /\ Len(lru) <= Capacity
    /\ \A i \in DOMAIN lru : Stored(lru[i])

CallInv(c) ==
    /\ call[c].time <= clock
    /\ call[c].at = "putting" =>
          /\ call[c].from \in answers
          /\ call[c].from.obtained = call[c].time
          /\ call[c].from.input = call[c].input
    /\ IsHit(c) =>
          /\ call[c].from \in answers
          /\ call[c].time < call[c].from.obtained + Ttl
          /\ KeyOf(call[c].from.input) = Key(c)

CacheInv == CacheTypes /\ StoreInv /\ \A c \in Callers : CallInv(c)


-----------------------------------------------------------------------------
(* Sequences of entries.                                                   *)

LEMMA Removed ==
    ASSUME NEW S, NEW s \in Seq(S), NEW p \in DOMAIN s
    PROVE  /\ RemoveAt(s, p) \in Seq(S) /\ Len(RemoveAt(s, p)) = Len(s) - 1
           /\ DOMAIN RemoveAt(s, p) = 1..(Len(s) - 1)
           /\ \A i \in 1..(Len(s) - 1) : RemoveAt(s, p)[i] = s[IF i < p THEN i ELSE i + 1]
  <1>1. Len(s) \in Nat /\ p \in 1..Len(s) /\ \A i \in 1..Len(s) : s[i] \in S
    OBVIOUS
  <1> DEFINE a == SubSeq(s, 1, p - 1)
             b == SubSeq(s, p + 1, Len(s))
  <1>2. /\ a \in Seq(S) /\ Len(a) = p - 1
        /\ \A i \in 1..(p - 1) : a[i] = s[i]
    <2>1. /\ a \in Seq(S) /\ Len(a) = (IF 1 <= p - 1 THEN (p - 1) - 1 + 1 ELSE 0)
          /\ \A i \in 1..((p - 1) - 1 + 1) : a[i] = s[1 + i - 1]
      BY <1>1, SubSeqProperties
    <2> HIDE DEF a
    <2> QED
      BY <1>1, <2>1
  <1>3. /\ b \in Seq(S) /\ Len(b) = Len(s) - p
        /\ \A i \in 1..(Len(s) - p) : b[i] = s[p + i]
    <2>1. /\ b \in Seq(S) /\ Len(b) = (IF p + 1 <= Len(s) THEN Len(s) - (p + 1) + 1 ELSE 0)
          /\ \A i \in 1..(Len(s) - (p + 1) + 1) : b[i] = s[(p + 1) + i - 1]
      BY <1>1, SubSeqProperties
    <2> HIDE DEF b
    <2> QED
      BY <1>1, <2>1
  <1>4. RemoveAt(s, p) = a \o b
    BY DEF RemoveAt
  <1> HIDE DEF a, b
  <1>5. /\ a \o b \in Seq(S) /\ Len(a \o b) = Len(a) + Len(b)
        /\ \A i \in 1..(Len(a) + Len(b)) :
              (a \o b)[i] = IF i <= Len(a) THEN a[i] ELSE b[i - Len(a)]
    BY <1>2, <1>3, ConcatProperties
  <1>6. Len(a) + Len(b) = Len(s) - 1
    BY <1>1, <1>2, <1>3
  <1>7. ASSUME NEW i \in 1..(Len(s) - 1)
        PROVE  (a \o b)[i] = s[IF i < p THEN i ELSE i + 1]
    <2>1. CASE i < p
      BY <1>1, <1>2, <1>5, <1>6, <2>1
    <2>2. CASE ~(i < p)
      <3>1. i - (p - 1) \in 1..(Len(s) - p) /\ ~(i <= Len(a)) /\ p + (i - (p - 1)) = i + 1
        BY <1>1, <1>2, <2>2
      <3> QED
        BY <1>2, <1>3, <1>5, <1>6, <2>2, <3>1
    <2> QED
      BY <2>1, <2>2
  <1> QED
    BY <1>1, <1>4, <1>5, <1>6, <1>7

\* What is left when a key is taken out: the other entries, in their order.
LEMMA WithoutKey ==
    ASSUME CacheTypes, KeysApart(lru), NEW k
    PROVE  /\ Without(k) \in Seq(Entries)
           /\ Held(k) => Len(Without(k)) = Len(lru) - 1
           /\ Len(Without(k)) <= Len(lru)
           /\ \A i \in DOMAIN Without(k) :
                 \E j \in DOMAIN lru : Without(k)[i] = lru[j] /\ lru[j].key # k
           /\ \A j \in DOMAIN lru : lru[j].key # k => \E i \in DOMAIN Without(k) : Without(k)[i] = lru[j]
           /\ KeysApart(Without(k))
  <1>s. PICK s : s = lru
    OBVIOUS
  <1>0. s \in Seq(Entries) /\ Len(s) \in Nat /\ DOMAIN s = 1..Len(s) /\ KeysApart(s)
    BY <1>s DEF CacheTypes
  <1>1. CASE ~Held(k)
    <2>1. Without(k) = s /\ \A j \in DOMAIN s : s[j].key # k
      BY <1>s, <1>1 DEF Without, Held
    <2>2. ~Held(k) /\ lru = s
      BY <1>s, <1>1
    <2>3. /\ s \in Seq(Entries) /\ Len(s) <= Len(s) /\ KeysApart(s)
          /\ \A i \in DOMAIN s : \E j \in DOMAIN s : s[i] = s[j] /\ s[j].key # k
          /\ \A j \in DOMAIN s : \E i \in DOMAIN s : s[i] = s[j]
      BY <1>0, <2>1
    <2> QED
      BY <2>1, <2>2, <2>3
  <1>2. CASE Held(k)
    <2>1. PICK p \in DOMAIN s : p = PlaceOf(k) /\ s[p].key = k
      BY <1>s, <1>2 DEF Held, PlaceOf
    <2>2. Without(k) = RemoveAt(s, p)
      BY <1>s, <1>2, <2>1 DEF Without
    <2>r. PICK r : r = RemoveAt(s, p)
      OBVIOUS
    <2>3. /\ r \in Seq(Entries) /\ Len(r) = Len(s) - 1 /\ DOMAIN r = 1..(Len(s) - 1)
          /\ \A i \in 1..(Len(s) - 1) : r[i] = s[IF i < p THEN i ELSE i + 1]
      BY <1>0, <2>r, Removed
    <2>4. ASSUME NEW i \in DOMAIN r
          PROVE  \E j \in DOMAIN s : r[i] = s[j] /\ s[j].key # k
      <3>1. PICK j : j = IF i < p THEN i ELSE i + 1
        OBVIOUS
      <3>2. j \in DOMAIN s /\ j # p /\ r[i] = s[j]
        BY <1>0, <2>3, <2>4, <3>1
      <3> QED
        BY <1>0, <2>1, <3>2 DEF KeysApart
    <2>5. ASSUME NEW j \in DOMAIN s, s[j].key # k
          PROVE  \E i \in DOMAIN r : r[i] = s[j]
      <3>1. j # p
        BY <2>1, <2>5
      <3>2. PICK i : i = IF j < p THEN j ELSE j - 1
        OBVIOUS
      <3>3. i \in 1..(Len(s) - 1) /\ j = IF i < p THEN i ELSE i + 1
        BY <1>0, <3>1, <3>2
      <3> QED
        BY <2>3, <3>3
    <2>6. KeysApart(r)
      <3>1. ASSUME NEW i \in DOMAIN r, NEW j \in DOMAIN r, r[i].key = r[j].key
            PROVE  i = j
        <4>1. PICK a, b : a = (IF i < p THEN i ELSE i + 1) /\ b = (IF j < p THEN j ELSE j + 1)
          OBVIOUS
        <4>2. a \in DOMAIN s /\ b \in DOMAIN s /\ r[i] = s[a] /\ r[j] = s[b]
          BY <1>0, <2>3, <4>1
        <4>3. a = b
          BY <1>0, <3>1, <4>2 DEF KeysApart
        <4> QED
          BY <1>0, <2>3, <4>1, <4>3
      <3> QED
        BY <3>1 DEF KeysApart
    <2> QED
      BY <1>0, <1>2, <1>s, <2>2, <2>r, <2>3, <2>4, <2>5, <2>6
  <1> QED
    BY <1>1, <1>2

\* An entry put in front of what lacks its key.
LEMMA InFront ==
    ASSUME NEW S, NEW s \in Seq(S), NEW e \in S, KeysApart(s),
           \A i \in DOMAIN s : s[i].key # e.key
    PROVE  /\ <<e>> \o s \in Seq(S) /\ Len(<<e>> \o s) = Len(s) + 1
           /\ DOMAIN (<<e>> \o s) = 1..(Len(s) + 1)
           /\ \A i \in DOMAIN s : (<<e>> \o s)[i + 1] = s[i] /\ i + 1 \in DOMAIN (<<e>> \o s)
           /\ (<<e>> \o s)[1] = e
           /\ \A i \in DOMAIN (<<e>> \o s) :
                 (<<e>> \o s)[i] = e \/ \E j \in DOMAIN s : (<<e>> \o s)[i] = s[j]
           /\ KeysApart(<<e>> \o s)
  <1>r. PICK r : r = <<e>> \o s
    OBVIOUS
  <1>0. Len(s) \in Nat /\ DOMAIN s = 1..Len(s)
    OBVIOUS
  <1>1. /\ r \in Seq(S) /\ Len(r) = Len(s) + 1 /\ DOMAIN r = 1..(Len(s) + 1)
        /\ r[1] = e /\ \A i \in 2..(Len(s) + 1) : r[i] = s[i - 1]
    <2>1. <<e>> \in Seq(S) /\ Len(<<e>>) = 1 /\ <<e>>[1] = e
      OBVIOUS
    <2>2. /\ r \in Seq(S) /\ Len(r) = 1 + Len(s)
          /\ \A i \in 1..(1 + Len(s)) : r[i] = IF i <= 1 THEN <<e>>[i] ELSE s[i - 1]
      BY <1>r, <2>1, ConcatProperties
    <2> QED
      BY <1>0, <2>1, <2>2
  <1>2. \A i \in DOMAIN s : i + 1 \in 2..(Len(s) + 1) /\ (i + 1) - 1 = i
    BY <1>0
  <1>3. \A i \in DOMAIN r : i = 1 \/ (i \in 2..(Len(s) + 1) /\ i - 1 \in DOMAIN s)
    BY <1>0, <1>1
  <1>4. KeysApart(r)
    <2>1. ASSUME NEW i \in DOMAIN r, NEW j \in DOMAIN r, r[i].key = r[j].key PROVE i = j
      <3>1. CASE i = 1 \/ j = 1
        BY <1>1, <1>3, <2>1, <3>1
      <3>2. CASE i # 1 /\ j # 1
        <4>1. i - 1 = j - 1
          BY <1>1, <1>3, <2>1, <3>2 DEF KeysApart
        <4> QED
          BY <1>0, <1>1, <4>1
      <3> QED
        BY <3>1, <3>2
    <2> QED
      BY <2>1 DEF KeysApart
  <1> QED
    BY <1>r, <1>0, <1>1, <1>2, <1>3, <1>4


-----------------------------------------------------------------------------
(* The store's operations.                                                 *)

\* pop leaves the rest.
LEMMA PopKeeps ==
    ASSUME CacheTypes, StoreInv, NEW k, lru' = Without(k), answers' = answers
    PROVE  lru' \in Seq(Entries) /\ StoreInv'
  <1>1. KeysApart(lru)
    BY DEF StoreInv
  <1>w. PICK w : w = Without(k)
    OBVIOUS
  <1>2. /\ w \in Seq(Entries) /\ Len(w) <= Len(lru) /\ KeysApart(w)
        /\ \A i \in DOMAIN w : \E j \in DOMAIN lru : w[i] = lru[j]
    BY <1>1, <1>w, WithoutKey
  <1>3. \A i \in DOMAIN w : Stored(w[i])'
    BY <1>2 DEF StoreInv, Stored
  <1>4. Len(w) <= Capacity
    <2>1. Len(w) \in Nat /\ Len(lru) \in Nat
      BY <1>2 DEF CacheTypes
    <2> QED
      BY <1>2, <2>1, CacheAssumption DEF StoreInv
  <1> QED
    BY <1>w, <1>2, <1>3, <1>4 DEF StoreInv

\* An entry that goes in front, in the place of its key's or of a new one.
LEMMA FrontKeeps ==
    ASSUME CacheTypes, StoreInv, NEW e \in Entries, NEW w, w = Without(e.key),
           Stored(e)', answers \subseteq answers'
    PROVE  /\ <<e>> \o w \in Seq(Entries) /\ KeysApart(<<e>> \o w)
           /\ Len(<<e>> \o w) = Len(w) + 1 /\ Len(w) \in Nat
           /\ Len(w) <= Capacity
           /\ Held(e.key) => Len(w) < Capacity
           /\ \A i \in DOMAIN (<<e>> \o w) : Stored((<<e>> \o w)[i])'
  <1>1. KeysApart(lru)
    BY DEF StoreInv
  <1>2. /\ w \in Seq(Entries) /\ Len(w) <= Len(lru) /\ KeysApart(w)
        /\ Held(e.key) => Len(w) = Len(lru) - 1
        /\ \A i \in DOMAIN w : \E j \in DOMAIN lru : w[i] = lru[j] /\ lru[j].key # e.key
    BY <1>1, WithoutKey
  <1>r. PICK r : r = <<e>> \o w
    OBVIOUS
  <1>3. /\ r \in Seq(Entries) /\ Len(r) = Len(w) + 1 /\ KeysApart(r)
        /\ \A i \in DOMAIN r : r[i] = e \/ \E j \in DOMAIN w : r[i] = w[j]
    BY <1>2, <1>r, InFront
  <1>4. \A i \in DOMAIN w : Stored(w[i])'
    BY <1>2 DEF StoreInv, Stored
  <1>5. \A i \in DOMAIN r : Stored(r[i])'
    BY <1>3, <1>4
  <1>6. Len(w) \in Nat /\ Len(lru) \in Nat /\ Len(lru) <= Capacity
    BY <1>2 DEF CacheTypes, StoreInv
  <1> QED
    BY <1>r, <1>2, <1>3, <1>5, <1>6, CacheAssumption

LEMMA PutKeeps ==
    ASSUME CacheTypes, StoreInv, NEW e \in Entries, lru' = Put(e), Stored(e), answers' = answers
    PROVE  lru' \in Seq(Entries) /\ StoreInv'
  <1>w. PICK w : w = Without(e.key)
    OBVIOUS
  <1>r. PICK r : r = <<e>> \o w
    OBVIOUS
  <1>1. /\ r \in Seq(Entries) /\ KeysApart(r) /\ Len(r) = Len(w) + 1 /\ Len(w) \in Nat
        /\ Len(w) <= Capacity
        /\ \A i \in DOMAIN r : Stored(r[i])'
    <2>1. Stored(e)' /\ answers \subseteq answers'
      BY DEF Stored
    <2> QED
      BY <1>w, <1>r, <2>1, FrontKeeps
  <1>2. lru' = IF Len(r) > Capacity THEN Front(r) ELSE r
    BY <1>w, <1>r DEF Put
  <1>3. CASE Len(r) > Capacity
    <2>f. PICK f : f = Front(r)
      OBVIOUS
    <2>1. /\ f \in Seq(Entries) /\ Len(f) = Len(w)
          /\ \A i \in 1..Len(w) : f[i] = r[i]
      <3>1. \A i \in 1..(Len(r) - 1) : r[i] \in Entries
        BY <1>1
      <3>2. /\ f \in Seq(Entries) /\ Len(f) = IF 1 <= Len(w) THEN Len(w) - 1 + 1 ELSE 0
            /\ \A i \in 1..(Len(w) - 1 + 1) : f[i] = r[1 + i - 1]
        <4>1. f = SubSeq(r, 1, Len(w))
          BY <1>1, <2>f DEF Front
        <4>2. \A i \in 1..Len(w) : r[i] \in Entries
          BY <1>1, <3>1
        <4> QED
          BY <1>1, <4>1, <4>2, SubSeqProperties
      <3> QED
        BY <1>1, <3>2
    <2>2. DOMAIN f = 1..Len(w) /\ DOMAIN r = 1..(Len(w) + 1)
      BY <1>1, <2>1
    <2>3. \A i \in DOMAIN f : i \in DOMAIN r /\ f[i] = r[i]
      BY <1>1, <2>1, <2>2
    <2>4. KeysApart(f) /\ \A i \in DOMAIN f : Stored(f[i])'
      BY <1>1, <2>3 DEF KeysApart
    <2> QED
      BY <1>1, <1>2, <1>3, <2>f, <2>1, <2>4 DEF StoreInv
  <1>4. CASE ~(Len(r) > Capacity)
    <2>1. Len(r) <= Capacity
      BY <1>1, <1>4, CacheAssumption
    <2> QED
      BY <1>1, <1>2, <1>4, <2>1 DEF StoreInv
  <1> QED
    BY <1>3, <1>4

\* A hit's entry is there, and serving it only moves it.
LEMMA HitKeeps ==
    ASSUME CacheTypes, StoreInv, NEW k, Held(k), lru' = <<EntryOf(k)>> \o Without(k),
           answers' = answers
    PROVE  /\ EntryOf(k) \in Entries /\ EntryOf(k).key = k /\ Stored(EntryOf(k))
           /\ lru' \in Seq(Entries) /\ StoreInv'
  <1>1. PICK p \in DOMAIN lru : p = PlaceOf(k) /\ lru[p].key = k
    BY DEF Held, PlaceOf
  <1>e. PICK e : e = EntryOf(k)
    OBVIOUS
  <1>2. e = lru[p] /\ e \in Entries /\ e.key = k /\ Stored(e)
    BY <1>1, <1>e DEF EntryOf, StoreInv, CacheTypes
  <1>w. PICK w : w = Without(k)
    OBVIOUS
  <1>r. PICK r : r = <<e>> \o w
    OBVIOUS
  <1>3. /\ r \in Seq(Entries) /\ KeysApart(r) /\ Len(r) = Len(w) + 1 /\ Len(w) \in Nat
        /\ Len(w) < Capacity
        /\ \A i \in DOMAIN r : Stored(r[i])'
    <2>1. Stored(e)' /\ answers \subseteq answers'
      BY <1>2 DEF Stored
    <2> QED
      BY <1>2, <1>w, <1>r, <2>1, FrontKeeps
  <1>4. lru' = r /\ Len(r) <= Capacity
    BY <1>e, <1>w, <1>r, <1>3, CacheAssumption
  <1> QED
    BY <1>e, <1>2, <1>3, <1>4 DEF StoreInv


-----------------------------------------------------------------------------
(* The calls.                                                              *)

LEMMA CallStays ==
    ASSUME CacheTypes, NEW c \in Callers, CallInv(c), call'[c] = call[c],
           clock' \in Nat, clock <= clock', answers \subseteq answers'
    PROVE  CallInv(c)'
  <1>1. call[c].time \in Nat /\ clock \in Nat
    BY DEF CacheTypes, Calls
  <1>2. call'[c].time <= clock'
    BY <1>1 DEF CallInv
  <1> QED
    BY <1>2 DEF CallInv, IsHit, Key

\* A step that changes one call, and the store soundly.
LEMMA OneCall ==
    ASSUME CacheInv, NEW c \in Callers, NEW r \in Calls,
           call' = [call EXCEPT ![c] = r], CallInv(c)',
           clock' = clock, misses' \in Nat,
           answers \subseteq answers', answers' \subseteq ObtainedAnswers,
           lru' \in Seq(Entries), StoreInv'
    PROVE  CacheInv'
  <1>1. CacheTypes'
    BY DEF CacheInv, CacheTypes
  <1>2. ASSUME NEW d \in Callers PROVE CallInv(d)'
    <2>1. CASE d = c
      BY <2>1
    <2>2. CASE d # c
      <3>1. call'[d] = call[d] /\ clock' \in Nat /\ clock <= clock' /\ CallInv(d) /\ CacheTypes
        BY <2>2 DEF CacheInv, CacheTypes
      <3> QED
        BY <3>1, CallStays
    <2> QED
      BY <2>1, <2>2
  <1> QED
    BY <1>1, <1>2 DEF CacheInv

LEMMA StoreStays ==
    ASSUME CacheTypes, StoreInv, lru' = lru, answers \subseteq answers'
    PROVE  lru' \in Seq(Entries) /\ StoreInv'
  BY DEF CacheTypes, StoreInv, Stored

LEMMA CacheBegins == Init => CacheInv
  <1> SUFFICES ASSUME Init PROVE CacheInv
    OBVIOUS
  <1>1. PICK x : x = CHOOSE y \in Inputs : TRUE
    OBVIOUS
  <1>2. x \in Inputs
    BY <1>1, CacheAssumption
  <1>3. NoCall(x, 0) \in Calls
    BY <1>2 DEF NoCall, Calls, Answer, ObtainedAnswers, Places, Endings
  <1>4. NoCall(x, 0).time = 0 /\ NoCall(x, 0).at = "idle" /\ NoCall(x, 0).ended = "none"
    BY DEF NoCall
  <1>5. CacheTypes
    BY <1>1, <1>3 DEF Init, CacheTypes
  <1>6. StoreInv
    BY CacheAssumption DEF Init, StoreInv, KeysApart
  <1>7. \A c \in Callers : CallInv(c)
    BY <1>1, <1>4 DEF Init, CallInv, IsHit
  <1> QED
    BY <1>5, <1>6, <1>7 DEF CacheInv

LEMMA BeginKeeps ==
    ASSUME CacheInv, NEW c \in Callers, NEW x \in Inputs, Begin(c, x)
    PROVE  CacheInv'
  <1>t. PICK t : t = clock
    OBVIOUS
  <1>o. PICK o : o = call[c]
    OBVIOUS
  <1>r. PICK r : r = [o EXCEPT !.at = "getting", !.input = x, !.time = t, !.ended = "none"]
    OBVIOUS
  <1>1. /\ call' = [call EXCEPT ![c] = r]
        /\ UNCHANGED <<clock, lru, misses, answers>>
    BY <1>t, <1>o, <1>r DEF Begin
  <1>2. o \in Calls /\ t \in Nat
    BY <1>t, <1>o DEF CacheInv, CacheTypes
  <1>3. r \in Calls /\ r.time = t /\ r.at = "getting" /\ r.ended = "none"
    BY <1>2, <1>r DEF Calls, Places, Endings
  <1>4. call'[c] = r /\ misses' \in Nat /\ answers' \subseteq ObtainedAnswers /\ answers \subseteq answers'
    BY <1>1 DEF CacheInv, CacheTypes
  <1>5. CallInv(c)'
    BY <1>1, <1>2, <1>3, <1>4, <1>t DEF CallInv, IsHit
  <1>6. lru' \in Seq(Entries) /\ StoreInv'
    BY <1>1, <1>4, StoreStays DEF CacheInv
  <1> QED
    BY <1>1, <1>3, <1>4, <1>5, <1>6, OneCall

LEMMA HitStep ==
    ASSUME CacheInv, NEW c \in Callers, Hit(c)
    PROVE  CacheInv'
  <1>o. PICK o : o = call[c]
    OBVIOUS
  <1>k. PICK k : k = Key(c)
    OBVIOUS
  <1>e. PICK e : e = EntryOf(k)
    OBVIOUS
  <1>r. PICK r : r = [o EXCEPT !.at = "idle", !.ended = "hit", !.from = e.answer]
    OBVIOUS
  <1>1. /\ Held(k) /\ o.time < e.expires
        /\ lru' = <<EntryOf(k)>> \o Without(k)
        /\ call' = [call EXCEPT ![c] = r]
        /\ UNCHANGED <<clock, misses, answers>>
    BY <1>o, <1>k, <1>e, <1>r DEF Hit, IsLiveAt
  <1>2. /\ e \in Entries /\ e.key = k /\ Stored(e) /\ lru' \in Seq(Entries) /\ StoreInv'
    BY <1>1, <1>e, HitKeeps DEF CacheInv
  <1>3. o \in Calls
    BY <1>o DEF CacheInv, CacheTypes
  <1>4. /\ r \in Calls /\ r.at = "idle" /\ r.time = o.time /\ r.from = e.answer
        /\ r.input = o.input
    BY <1>2, <1>3, <1>r DEF Calls, Entries, Places, Endings
  <1>5. call'[c] = r /\ misses' \in Nat /\ answers' \subseteq ObtainedAnswers /\ answers \subseteq answers'
    BY <1>1 DEF CacheInv, CacheTypes
  <1>6. CallInv(c)'
    <2>1. o.time <= clock /\ KeyOf(o.input) = k
      BY <1>o, <1>k DEF CacheInv, CallInv, Key
    <2>2. e.answer \in answers' /\ o.time < e.answer.obtained + Ttl /\ KeyOf(e.answer.input) = k
      BY <1>1, <1>2 DEF Stored
    <2> QED
      BY <1>1, <1>4, <1>5, <2>1, <2>2 DEF CallInv, IsHit, Key
  <1> QED
    BY <1>1, <1>2, <1>4, <1>5, <1>6, OneCall

\* A call that asks the judge, whether the store missed or failed.
LEMMA AsksKeeps ==
    ASSUME CacheInv, NEW c \in Callers, Miss(c) \/ GetFaults(c)
    PROVE  CacheInv'
  <1>o. PICK o : o = call[c]
    OBVIOUS
  <1>r. PICK r : r = [o EXCEPT !.at = "judging"]
    OBVIOUS
  <1>1. /\ call' = [call EXCEPT ![c] = r] /\ UNCHANGED <<clock, answers>>
        /\ misses' \in Nat
    BY <1>o, <1>r DEF Miss, GetFaults, Move, CacheInv, CacheTypes
  <1>2. o \in Calls /\ o.time <= clock
    BY <1>o DEF CacheInv, CacheTypes, CallInv
  <1>3. r \in Calls /\ r.at = "judging" /\ r.time = o.time
    BY <1>2, <1>r DEF Calls, Places
  <1>4. call'[c] = r /\ answers' \subseteq ObtainedAnswers /\ answers \subseteq answers'
    BY <1>1 DEF CacheInv, CacheTypes
  <1>5. CallInv(c)'
    BY <1>1, <1>2, <1>3, <1>4 DEF CallInv, IsHit
  <1>6. lru' \in Seq(Entries) /\ StoreInv'
    <2>1. CASE Miss(c)
      <3>1. lru' = Without(Key(c))
        BY <2>1 DEF Miss
      <3> QED
        BY <1>1, <3>1, PopKeeps DEF CacheInv
    <2>2. CASE GetFaults(c)
      BY <1>4, <2>2, StoreStays DEF CacheInv, GetFaults
    <2> QED
      BY <2>1, <2>2
  <1> QED
    BY <1>1, <1>3, <1>4, <1>5, <1>6, OneCall

LEMMA JudgedKeeps ==
    ASSUME CacheInv, NEW c \in Callers, Judged(c)
    PROVE  CacheInv'
  <1>o. PICK o, t : o = call[c] /\ t = clock
    OBVIOUS
  <1>a. PICK a : a = Answer(o.input, t)
    OBVIOUS
  <1>r. PICK r : r = [o EXCEPT !.at = "putting", !.time = t, !.from = a]
    OBVIOUS
  <1>1. /\ answers' = answers \union {a} /\ call' = [call EXCEPT ![c] = r]
        /\ UNCHANGED <<clock, lru, misses>>
    BY <1>o, <1>a, <1>r DEF Judged
  <1>2. o \in Calls /\ t \in Nat
    BY <1>o DEF CacheInv, CacheTypes
  <1>3. a \in ObtainedAnswers /\ a.input = o.input /\ a.obtained = t
    BY <1>2, <1>a DEF Answer, ObtainedAnswers, Calls
  <1>4. r \in Calls /\ r.at = "putting" /\ r.time = t /\ r.from = a /\ r.input = o.input
    BY <1>2, <1>3, <1>r DEF Calls, Places
  <1>5. call'[c] = r /\ misses' \in Nat /\ answers' \subseteq ObtainedAnswers /\ answers \subseteq answers'
    BY <1>1, <1>3 DEF CacheInv, CacheTypes
  <1>6. CallInv(c)'
    BY <1>1, <1>2, <1>3, <1>4, <1>5, <1>o DEF CallInv, IsHit
  <1>7. lru' \in Seq(Entries) /\ StoreInv'
    BY <1>1, <1>5, StoreStays DEF CacheInv
  <1> QED
    BY <1>1, <1>4, <1>5, <1>6, <1>7, OneCall

\* A call that ends otherwise than with a hit; Store is one.
LEMMA EndsKeeps ==
    ASSUME CacheInv, NEW c \in Callers,
           JudgeFails(c) \/ Dropped(c) \/ Store(c) \/ PutFaults(c)
    PROVE  CacheInv'
  <1>o. PICK o : o = call[c]
    OBVIOUS
  <1>h. PICK how \in Endings \ {"hit"} : End(c, how)
    BY DEF JudgeFails, Dropped, Store, PutFaults, Endings
  <1>r. PICK r : r = [o EXCEPT !.at = "idle", !.ended = how]
    OBVIOUS
  <1>1. /\ call' = [call EXCEPT ![c] = r] /\ UNCHANGED <<clock, answers, misses>>
    BY <1>o, <1>h, <1>r DEF JudgeFails, Dropped, Store, PutFaults, End
  <1>2. o \in Calls /\ o.time <= clock
    BY <1>o DEF CacheInv, CacheTypes, CallInv
  <1>3. r \in Calls /\ r.at = "idle" /\ r.ended = how /\ r.time = o.time
    BY <1>2, <1>r DEF Calls, Places
  <1>4. /\ call'[c] = r /\ misses' \in Nat
        /\ answers' \subseteq ObtainedAnswers /\ answers \subseteq answers'
    BY <1>1 DEF CacheInv, CacheTypes
  <1>5. CallInv(c)'
    BY <1>1, <1>2, <1>3, <1>4 DEF CallInv, IsHit
  <1>6. lru' \in Seq(Entries) /\ StoreInv'
    <2>1. CASE Store(c)
      <3>e. PICK e : e = Entry(KeyOf(o.input), o.from, o.time + Ttl)
        OBVIOUS
      <3>1. lru' = Put(e) /\ o.at = "putting"
        BY <1>o, <2>1, <3>e DEF Store, Key
      <3>2. o.from \in answers /\ o.from.obtained = o.time /\ o.from.input = o.input
        BY <1>o, <3>1 DEF CacheInv, CallInv
      <3>3. e.key = KeyOf(o.input) /\ e.answer = o.from /\ e.expires = o.time + Ttl
        BY <3>e DEF Entry
      <3>4. e \in Entries
        <4>1. o.time + Ttl \in Nat /\ o.from \in ObtainedAnswers /\ o.input \in Inputs
          BY <1>2, CacheAssumption DEF Calls
        <4> QED
          BY <3>e, <4>1 DEF Entry, Entries
      <3>5. Stored(e)
        BY <3>2, <3>3 DEF Stored
      <3> QED
        BY <1>1, <3>1, <3>4, <3>5, PutKeeps DEF CacheInv
    <2>2. CASE ~Store(c)
      BY <1>4, <2>2, StoreStays DEF CacheInv, JudgeFails, Dropped, PutFaults
    <2> QED
      BY <2>1, <2>2
  <1> QED
    BY <1>1, <1>3, <1>4, <1>5, <1>6, OneCall

LEMMA CacheKeeps == CacheInv /\ [Next]_vars => CacheInv'
  <1> SUFFICES ASSUME CacheInv, [Next]_vars PROVE CacheInv'
    OBVIOUS
  <1>1. ASSUME clock' \in Nat, clock <= clock', UNCHANGED <<lru, call, misses, answers>>
        PROVE  CacheInv'
    <2>1. CacheTypes'
      BY <1>1 DEF CacheInv, CacheTypes
    <2>2. StoreInv'
      BY <1>1, StoreStays DEF CacheInv
    <2>3. \A c \in Callers : CallInv(c)'
      BY <1>1, CallStays DEF CacheInv
    <2> QED
      BY <2>1, <2>2, <2>3 DEF CacheInv
  <1>2. CASE Tick
    BY <1>1, <1>2 DEF Tick, CacheInv, CacheTypes
  <1>3. CASE UNCHANGED vars
    BY <1>1, <1>3 DEF vars, CacheInv, CacheTypes
  <1> QED
    BY <1>2, <1>3, BeginKeeps, HitStep, AsksKeeps, JudgedKeeps, EndsKeeps
       DEF Next, Step, Quiet


-----------------------------------------------------------------------------
(* What the invariant says of a hit and of a miss.                         *)

LEMMA HitsAreFresh == CacheInv => HitIsFresh
  <1> SUFFICES ASSUME CacheInv, NEW c \in Callers, IsHit(c)
               PROVE  /\ call[c].from \in answers
                      /\ call[c].time - call[c].from.obtained < Ttl
    BY DEF HitIsFresh
  <1>1. call[c].from \in answers /\ call[c].time < call[c].from.obtained + Ttl
    BY DEF CacheInv, CallInv
  <1>2. call[c].time \in Nat /\ call[c].from.obtained \in Nat
    BY DEF CacheInv, CacheTypes, Calls, ObtainedAnswers
  <1> QED
    BY <1>1, <1>2, CacheAssumption

RemovesExpired ==
    misses' = misses + 1 =>
        \A i \in DOMAIN lru :
            (\A j \in DOMAIN lru' : lru'[j] # lru[i]) => lru[i].expires <= clock

LEMMA MissIsRight == CacheInv /\ [Next]_vars => RemovesExpired
  <1> SUFFICES ASSUME CacheInv, [Next]_vars, misses' = misses + 1,
                      NEW i \in DOMAIN lru, \A j \in DOMAIN lru' : lru'[j] # lru[i]
               PROVE  lru[i].expires <= clock
    BY DEF RemovesExpired
  <1>1. misses' # misses
    BY DEF CacheInv, CacheTypes
  <1>2. PICK c \in Callers : Miss(c)
    BY <1>1 DEF Next, Step, Quiet, Tick, Begin, Hit, GetFaults, Judged, JudgeFails, Dropped,
                Store, PutFaults, vars
  <1>k. PICK k : k = Key(c)
    OBVIOUS
  <1>3. /\ lru' = Without(k)
        /\ Held(k) => ~(call[c].time < EntryOf(k).expires)
    BY <1>2, <1>k DEF Miss, IsLiveAt
  <1>4. lru[i].key = k
    <2>1. \A j \in DOMAIN lru : lru[j].key # k =>
             \E l \in DOMAIN Without(k) : Without(k)[l] = lru[j]
      BY WithoutKey DEF CacheInv, StoreInv
    <2> QED
      BY <1>3, <2>1
  <1>5. Held(k) /\ EntryOf(k) = lru[i]
    BY <1>4 DEF Held, EntryOf, PlaceOf, CacheInv, StoreInv, KeysApart
  <1>6. /\ ~(call[c].time < lru[i].expires) /\ call[c].time <= clock
        /\ call[c].time \in Nat /\ clock \in Nat /\ lru[i].expires \in Nat
    <2>1. lru[i] \in Entries
      BY DEF CacheInv, CacheTypes
    <2>2. lru[i].expires \in Nat
      BY <2>1 DEF Entries
    <2>3. call[c].time \in Nat /\ clock \in Nat /\ call[c].time <= clock
      BY DEF CacheInv, CallInv, CacheTypes, Calls
    <2> QED
      BY <1>3, <1>5, <2>2, <2>3
  <1> QED
    BY <1>6

-----------------------------------------------------------------------------
(* The theorems.                                                           *)

\* The invariant holds in every behaviour of the cache and its callers.
THEOREM CacheInvariant == Spec => []CacheInv
  <1>1. Init => CacheInv
    BY CacheBegins
  <1>2. CacheInv /\ [Next]_vars => CacheInv'
    BY CacheKeeps
  <1> QED
    BY <1>1, <1>2, PTL DEF Spec

\* The store never holds more than its capacity, nor two entries under one
\* key, and an entry expires a Ttl after its answer was obtained (MemoryLru).
THEOREM StoreHolds == Spec => []StoreInv
  <1>1. CacheInv => StoreInv
    BY DEF CacheInv
  <1> QED
    BY <1>1, CacheInvariant, PTL

\* A hit serves what the judge answered, less than a Ttl before the instant
\* the store decided by.
THEOREM HitIsFreshHolds == Spec => []HitIsFresh
  <1>1. CacheInv => HitIsFresh
    BY HitsAreFresh
  <1> QED
    BY <1>1, CacheInvariant, PTL

\* Where no two inputs share a key (CacheKey::of's law), a hit answers the
\* very input of the call; MCCache_key shows inputs for which it does not.
THEOREM HitAnswersTheQuestionHolds ==
    ASSUME \A x, y \in Inputs : KeyOf(x) = KeyOf(y) => x = y
    PROVE  Spec => []HitAnswersTheQuestion
  <1>1. CacheInv => HitAnswersTheQuestion
    BY DEF CacheInv, CallInv, CacheTypes, Calls, ObtainedAnswers, HitAnswersTheQuestion, Key
  <1> QED
    BY <1>1, CacheInvariant, PTL

\* A get removes an entry only after its expiry, although it decides on an
\* instant read before the lock.
THEOREM MissRemovesExpiredHolds == Spec => MissRemovesExpired
  <1>1. CacheInv /\ [Next]_vars => [RemovesExpired]_vars
    BY MissIsRight
  <1>2. Spec => [][RemovesExpired]_vars
    BY <1>1, CacheInvariant, PTL DEF Spec
  <1> QED
    BY <1>2 DEF MissRemovesExpired, RemovesExpired
=============================================================================
