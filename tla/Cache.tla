------------------------------- MODULE Cache -------------------------------
(***************************************************************************)
(* The answer cache of src/src/cache.rs: Cached::judge, a judge in front   *)
(* of another, over the MemoryLru store.                                   *)
(*                                                                         *)
(* Callers share one Cached (a reference to a judge is a judge) and may be *)
(* tasks on different threads: the store reads its clock before it locks,  *)
(* so time passes and other callers run between the two.  Under the lock   *)
(* an operation is one step.  The inner judge answers, fails, or is        *)
(* dropped by the caller's timeout.  A Faulty store is another             *)
(* implementation of Cache, whose operations may await and may fail.       *)
(***************************************************************************)
EXTENDS Integers, CacheKey

CONSTANTS Callers,
          Inputs,     \* bound: what the callers ask
          Capacity,   \* of the store, a NonZeroUsize
          Ttl,        \* non-zero by Ttl::new
          Faulty,     \* the store behind the trait may await and fail
          MaxTime,    \* bound: instants of the clock
          MaxCalls    \* bound: judge calls begun

ASSUME CacheAssumption ==
    /\ Inputs # {}
    /\ Capacity \in Nat \ {0}
    /\ Ttl \in Nat \ {0}
    /\ Faulty \in BOOLEAN
    /\ MaxTime \in Nat /\ MaxCalls \in Nat

VARIABLES clock,    \* the monotonic time
          lru,      \* the entries, most recently used first
          call,     \* each caller's judge call
          hits, misses, faults,   \* Counters
          answers,  \* answers obtained from the inner judge
          begun     \* calls begun

vars == <<clock, lru, call, hits, misses, faults, answers, begun>>

\* An answer is known by what the judge was asked and when it answered.
Answer(x, t)   == [input |-> x, obtained |-> t]
Entry(k, a, t) == [key |-> k, answer |-> a, expires |-> t]

Places  == {"idle", "getting", "judging", "putting"}
Endings == {"none", "hit", "judged", "failed", "dropped"}

\* time: the instant the store read before it locked; from: the answer at
\* hand; ended: how the caller's last call ended.
NoCall(x, t) == [at |-> "idle", input |-> x, time |-> t, from |-> Answer(x, t), ended |-> "none"]

Init ==
    /\ clock = 0
    /\ lru = <<>>
    /\ call = [c \in Callers |-> NoCall(CHOOSE x \in Inputs : TRUE, 0)]
    /\ hits = 0 /\ misses = 0 /\ faults = 0
    /\ answers = {}
    /\ begun = 0

Held(k)    == \E i \in DOMAIN lru : lru[i].key = k
PlaceOf(k) == CHOOSE i \in DOMAIN lru : lru[i].key = k
EntryOf(k) == lru[PlaceOf(k)]
Without(k) == IF Held(k) THEN RemoveAt(lru, PlaceOf(k)) ELSE lru

\* The key the call computed.
Key(c) == KeyOf(call[c].input)

Move(c, place)   == call' = [call EXCEPT ![c].at = place]
End(c, how)      == call' = [call EXCEPT ![c].at = "idle", ![c].ended = how]

\* Mutant: an entry counts as expired one instant early.
LiveUntilNear(e, now) == now + 1 < e.expires

\* Mutant: an entry is still served at its expiry instant.
LiveAtExpiry(e, now) == now <= e.expires

\* Entry::is_live_at.
IsLiveAt(e, now) == now < e.expires

\* LruCache::put: the key's entry moves to the front; a full store drops the
\* least recently used one.
Put(e) == LET all == <<e>> \o Without(e.key)
          IN  IF Len(all) > Capacity THEN Front(all) ELSE all

-----------------------------------------------------------------------------
Tick ==
    /\ clock < MaxTime
    /\ clock' = clock + 1
    /\ UNCHANGED <<lru, call, hits, misses, faults, answers, begun>>

\* judge: the key is computed and the store reads its clock.
Begin(c, x) ==
    /\ call[c].at = "idle"
    /\ begun < MaxCalls
    /\ begun' = begun + 1
    /\ call' = [call EXCEPT ![c] = [@ EXCEPT !.at = "getting", !.input = x, !.time = clock,
                                             !.ended = "none"]]
    /\ UNCHANGED <<clock, lru, hits, misses, faults, answers>>

\* A live entry is served and becomes the most recently used.
Hit(c) ==
    /\ call[c].at = "getting"
    /\ Held(Key(c))
    /\ LET e == EntryOf(Key(c)) IN
          /\ IsLiveAt(e, call[c].time)
          /\ lru' = <<e>> \o Without(Key(c))
          /\ call' = [call EXCEPT ![c].at = "idle", ![c].ended = "hit", ![c].from = e.answer]
    /\ hits' = hits + 1
    /\ UNCHANGED <<clock, misses, faults, answers, begun>>

\* No entry, or an expired one, which is removed.
Miss(c) ==
    /\ call[c].at = "getting"
    /\ Held(Key(c)) => ~IsLiveAt(EntryOf(Key(c)), call[c].time)
    /\ lru' = Without(Key(c))
    /\ misses' = misses + 1
    /\ Move(c, "judging")
    /\ UNCHANGED <<clock, hits, faults, answers, begun>>

GetFaults(c) ==
    /\ Faulty
    /\ call[c].at = "getting"
    /\ faults' = faults + 1
    /\ Move(c, "judging")
    /\ UNCHANGED <<clock, lru, hits, misses, answers, begun>>

\* The inner judge answers; put reads the clock and has yet to lock.
Judged(c) ==
    /\ call[c].at = "judging"
    /\ answers' = answers \union {Answer(call[c].input, clock)}
    /\ call' = [call EXCEPT ![c].at = "putting", ![c].time = clock,
                            ![c].from = Answer(call[c].input, clock)]
    /\ UNCHANGED <<clock, lru, hits, misses, faults, begun>>

JudgeFails(c) ==
    /\ call[c].at = "judging"
    /\ End(c, "failed")
    /\ UNCHANGED <<clock, lru, hits, misses, faults, answers, begun>>

\* with_timeout drops the call, or the run that awaits it is dropped; only a
\* store that awaits can be dropped in the middle of get or put.
Dropped(c) ==
    /\ call[c].at = "judging" \/ (Faulty /\ call[c].at # "idle")
    /\ End(c, "dropped")
    /\ UNCHANGED <<clock, lru, hits, misses, faults, answers, begun>>

Store(c) ==
    /\ call[c].at = "putting"
    /\ lru' = Put(Entry(Key(c), call[c].from, call[c].time + Ttl))
    /\ End(c, "judged")
    /\ UNCHANGED <<clock, hits, misses, faults, answers, begun>>

\* The answer is returned although it could not be stored.
PutFaults(c) ==
    /\ Faulty
    /\ call[c].at = "putting"
    /\ faults' = faults + 1
    /\ End(c, "judged")
    /\ UNCHANGED <<clock, lru, hits, misses, answers, begun>>

Step(c) ==
    \/ Hit(c) \/ Miss(c) \/ GetFaults(c)
    \/ Judged(c) \/ JudgeFails(c) \/ Dropped(c)
    \/ Store(c) \/ PutFaults(c)

Quiet == begun = MaxCalls /\ (\A c \in Callers : call[c].at = "idle") /\ UNCHANGED vars

Next ==
    \/ Tick
    \/ \E c \in Callers : Step(c) \/ \E x \in Inputs : Begin(c, x)
    \/ Quiet

Spec == Init /\ [][Next]_vars

-----------------------------------------------------------------------------
Answers == [input : Inputs, obtained : 0..MaxTime]

\* Types; an entry expires at most a Ttl after the clock.
TypeOK ==
    /\ clock \in 0..MaxTime /\ begun \in 0..MaxCalls
    /\ lru \in Seq([key : {KeyOf(x) : x \in Inputs}, answer : Answers,
                    expires : 0..MaxTime + Ttl])
    /\ call \in [Callers -> [at : Places, input : Inputs, time : 0..MaxTime,
                             from : Answers, ended : Endings]]
    /\ {hits, misses} \subseteq 0..MaxCalls /\ faults \in 0..2 * MaxCalls
    /\ answers \subseteq Answers

IsHit(c) == call[c].at = "idle" /\ call[c].ended = "hit"

\* A hit serves what the inner judge really answered, less than a Ttl before
\* the instant get read its clock: through failed and dropped calls, entries
\* stored late or over newer ones, and callers that lock late (Cached::judge,
\* MemoryLru::get and put).
HitIsFresh ==
    \A c \in Callers : IsHit(c) =>
        /\ call[c].from \in answers
        /\ call[c].time - call[c].from.obtained < Ttl

\* A hit serves the answer to the very payload and questions of the call: no
\* two inputs share a key (CacheKey::of's law).
HitAnswersTheQuestion == \A c \in Callers : IsHit(c) => call[c].from.input = call[c].input

\* A get removes an entry only after that entry's expiry, although it decides
\* on an instant read before the lock, when the entry may not have existed.
MissRemovesExpired ==
    [][misses' = misses + 1 =>
        \A i \in DOMAIN lru :
            (\A j \in DOMAIN lru' : lru'[j] # lru[i]) => lru[i].expires <= clock]_vars
=============================================================================
