------------------------------- MODULE Merge -------------------------------
(***************************************************************************)
(* The merge stage of src/src/merge.rs: windowed, and the Stage it unfolds *)
(* (next_item, wake, admit, flush).                                        *)
(*                                                                         *)
(* The stage is a stream: it does one thing at a time, and only while its  *)
(* consumer polls it.  A flush awaits the combiner; until it answers, the  *)
(* stage reads neither input nor timers.  future::select may return either *)
(* side when both are ready.  A timer may end at any time after it was     *)
(* started, in any order: the Sleeper is a trait.                          *)
(*                                                                         *)
(* Events are their positions in the input.                                *)
(***************************************************************************)
EXTENDS Integers, Sequences, FiniteSets

CONSTANTS NumEvents,    \* bound: events the input may carry
          Keys,         \* the combiner's keys, numbers for their Ord
          KeyOf,        \* Combiner::key of each event, NoKey for None
          NoKey,
          MaxParts,     \* WindowPolicy::max_parts, a NonZeroUsize
          Generations   \* bound: generation numbers before the u64 wraps

Events == 1..NumEvents

ASSUME MergeAssumption ==
    /\ NumEvents \in Nat
    /\ Keys \subseteq Nat
    /\ NoKey \notin Keys
    /\ KeyOf \in [Events -> Keys \cup {NoKey}]
    /\ MaxParts \in Nat \ {0}
    /\ Generations \in Nat \ {0}

VARIABLES arrived,     \* events read from the input
          closed,      \* the input has ended
          groups,      \* the parts of each open group; <<>> where none is open
          generation,  \* the stage's counter
          tag,         \* the generation of each key's open group
          timers,      \* the window timers not yet consumed
          flushing,    \* the parts the combiner is folding, <<>> if none
          ready,       \* finished items not yet yielded
          out          \* items yielded to the consumer

vars == <<arrived, closed, groups, generation, tag, timers, flushing, ready, out>>

\* An item of the output: an event that passed through, a merged event with
\* its parts, or a MergeFailure with its parts.
Item(kind, parts) == [kind |-> kind, parts |-> parts]
Kinds == {"passed", "merged", "failed"}

\* A timer owns the key and generation it was started for; `first` is the
\* first event of that group and belongs to the properties, not to the code.
Timer(k, g, e) == [key |-> k, generation |-> g, first |-> e]

Init ==
    /\ arrived = 0
    /\ closed = FALSE
    /\ groups = [k \in Keys |-> <<>>]
    /\ generation = 0
    /\ tag = [k \in Keys |-> 0]
    /\ timers = {}
    /\ flushing = <<>>
    /\ ready = <<>>
    /\ out = <<>>

NextGeneration == (generation + 1) % Generations

\* next_item yields what is ready and finishes a flush before anything else.
Idle == ready = <<>> /\ flushing = <<>>

\* Mutant: the item goes out but stays queued.
YieldCopy ==
    /\ ready # <<>>
    /\ Len(out) <= NumEvents
    /\ out' = Append(out, Head(ready))
    /\ UNCHANGED <<arrived, closed, groups, generation, tag, timers, flushing, ready>>

Yield ==
    /\ ready # <<>>
    /\ out' = Append(out, Head(ready))
    /\ ready' = Tail(ready)
    /\ UNCHANGED <<arrived, closed, groups, generation, tag, timers, flushing>>

-----------------------------------------------------------------------------
(* Wake::Arrived: admit.                                                   *)

CanRead == Idle /\ ~closed /\ arrived < NumEvents

PassThrough ==
    /\ CanRead
    /\ KeyOf[arrived + 1] = NoKey
    /\ arrived' = arrived + 1
    /\ ready' = Append(ready, Item("passed", <<arrived + 1>>))
    /\ UNCHANGED <<closed, groups, generation, tag, timers, flushing, out>>

\* Mutant: no timer for a key that still has one pending.
OpenWithOldTimer(k) ==
    /\ generation' = NextGeneration
    /\ tag' = [tag EXCEPT ![k] = NextGeneration]
    /\ timers' = IF \E t \in timers : t.key = k THEN timers
                 ELSE timers \cup {Timer(k, NextGeneration, arrived + 1)}

\* The first event of a group opens it: a new generation and a timer for it.
Open(k) ==
    /\ generation' = NextGeneration
    /\ tag' = [tag EXCEPT ![k] = NextGeneration]
    /\ timers' = timers \cup {Timer(k, NextGeneration, arrived + 1)}

\* Mutant: a full group keeps its parts while they are combined.
GatherKeeping(k) ==
    LET parts == Append(groups[k], arrived + 1)
    IN  /\ groups' = [groups EXCEPT ![k] = parts]
        /\ flushing' = IF Len(parts) >= MaxParts THEN parts ELSE <<>>

\* The event joins its group; a full group is removed and flushed at once.
Gather(k) ==
    LET parts == Append(groups[k], arrived + 1)
    IN  IF Len(parts) >= MaxParts
        THEN groups' = [groups EXCEPT ![k] = <<>>] /\ flushing' = parts
        ELSE groups' = [groups EXCEPT ![k] = parts] /\ UNCHANGED flushing

Group(k) ==
    /\ CanRead
    /\ KeyOf[arrived + 1] = k
    /\ arrived' = arrived + 1
    /\ IF groups[k] = <<>> THEN Open(k) ELSE UNCHANGED <<generation, tag, timers>>
    /\ Gather(k)
    /\ UNCHANGED <<closed, ready, out>>

-----------------------------------------------------------------------------
(* Wake::InputEnded and Wake::Due.                                         *)

InputEnds ==
    /\ Idle
    /\ ~closed
    /\ closed' = TRUE
    /\ UNCHANGED <<arrived, groups, generation, tag, timers, flushing, ready, out>>

\* Mutant: the timer is matched by its key alone.
GroupOfKey(t) == groups[t.key] # <<>>

\* group_is: the open group under the key is the one the timer was started for.
GroupIs(t) == groups[t.key] # <<>> /\ tag[t.key] = t.generation

Flush(k) ==
    /\ flushing' = groups[k]
    /\ groups' = [groups EXCEPT ![k] = <<>>]

\* A timer ends.  It is consumed; a timer of an earlier group does nothing.
Due(t) ==
    /\ Idle
    /\ ~closed
    /\ timers' = timers \ {t}
    /\ IF GroupIs(t) THEN Flush(t.key) ELSE UNCHANGED <<groups, flushing>>
    /\ UNCHANGED <<arrived, closed, generation, tag, ready, out>>

\* Mutant: only the first open group is flushed at the end of the input.
FlushOne ==
    /\ Idle
    /\ closed
    /\ out = <<>>
    /\ \E k \in Keys :
          /\ groups[k] # <<>>
          /\ Flush(k)
    /\ UNCHANGED <<arrived, closed, generation, tag, timers, ready, out>>

\* After the input ended the open groups are flushed in key order; timers are
\* not waited for.
FlushRemaining ==
    /\ Idle
    /\ closed
    /\ \E k \in Keys :
          /\ groups[k] # <<>>
          /\ \A j \in Keys : groups[j] # <<>> => k <= j
          /\ Flush(k)
    /\ UNCHANGED <<arrived, closed, generation, tag, timers, ready, out>>

-----------------------------------------------------------------------------
(* flush, after the combiner's answer.                                     *)

Combined ==
    /\ flushing # <<>>
    /\ ready' = Append(ready, Item("merged", flushing))
    /\ flushing' = <<>>
    /\ UNCHANGED <<arrived, closed, groups, generation, tag, timers, out>>

\* Mutant: a refused group is dropped.
RefusedAndLost ==
    /\ flushing # <<>>
    /\ flushing' = <<>>
    /\ UNCHANGED <<arrived, closed, groups, generation, tag, timers, ready, out>>

Refused ==
    /\ flushing # <<>>
    /\ ready' = Append(ready, Item("failed", flushing))
    /\ flushing' = <<>>
    /\ UNCHANGED <<arrived, closed, groups, generation, tag, timers, out>>

\* next_item returns None: the stream has ended.
Over == Idle /\ closed /\ \A k \in Keys : groups[k] = <<>>

Ended == Over /\ UNCHANGED vars

Step ==
    \/ Yield \/ Combined \/ Refused \/ FlushRemaining
    \/ \E t \in timers : Due(t)

Next ==
    \/ Step
    \/ PassThrough \/ (\E k \in Keys : Group(k)) \/ InputEnds
    \/ Ended

Spec == Init /\ [][Next]_vars

(***************************************************************************)
(* Fairness: the consumer polls, the combiner answers, a sleep ends.  The  *)
(* input may stay silent; NumEvents bounds it, so weak fairness of the     *)
(* timers says nothing about a timer that competes with endless input.     *)
(***************************************************************************)
OwnDue(k) == \E t \in timers : t.key = k /\ GroupIs(t) /\ Due(t)

FairSpec ==
    /\ Spec
    /\ WF_vars(Yield)
    /\ WF_vars(Combined \/ Refused)
    /\ WF_vars(FlushRemaining)
    /\ \A k \in Keys : WF_vars(OwnDue(k))

-----------------------------------------------------------------------------
(* Properties.                                                             *)

TypeOK ==
    /\ arrived \in 0..NumEvents
    /\ closed \in BOOLEAN
    /\ groups \in [Keys -> Seq(Events)]
    /\ generation \in 0..(Generations - 1)
    /\ tag \in [Keys -> 0..(Generations - 1)]
    /\ \A t \in timers : /\ t.key \in Keys
                         /\ t.generation \in 0..(Generations - 1)
                         /\ t.first \in Events
    /\ flushing \in Seq(Events)
    /\ ready \in Seq([kind : Kinds, parts : Seq(Events)])
    /\ out \in Seq([kind : Kinds, parts : Seq(Events)])

Spots(e, seq)     == {j \in DOMAIN seq : seq[j] = e}
SpotsIn(e, lists) == UNION {{k} \X Spots(e, lists[k]) : k \in DOMAIN lists}
Count(e, seq)     == Cardinality(Spots(e, seq))
CountIn(e, lists) == Cardinality(SpotsIn(e, lists))
Parts(items)      == [i \in DOMAIN items |-> items[i].parts]

\* merge.rs:10: no event is lost, and none is duplicated.  Every event read
\* is in exactly one place: an open group, the group being combined, the
\* ready queue or the output; after the end, in the output.
NothingLost ==
    \A e \in 1..arrived :
        /\ CountIn(e, groups) + Count(e, flushing)
              + CountIn(e, Parts(ready)) + CountIn(e, Parts(out)) = 1
        /\ Over => CountIn(e, Parts(out)) = 1

\* The parts of an item, merged or refused, are events of one key in arrival
\* order, at most MaxParts of them (the combiner's precondition).
PartsInOrder ==
    \A i \in DOMAIN out : LET p == out[i].parts IN
        /\ Len(p) \in 1..MaxParts
        /\ \A j \in 2..Len(p) : p[j - 1] < p[j] /\ KeyOf[p[j - 1]] = KeyOf[p[j]]

\* Two items with events of one key leave in arrival order: a group never
\* overtakes an earlier group of its key, nor a pass-through another.
ArrivalOrderPerKey ==
    \A i, j \in DOMAIN out :
        i < j /\ KeyOf[out[i].parts[1]] = KeyOf[out[j].parts[1]]
            => out[i].parts[Len(out[i].parts)] < out[j].parts[1]

\* Every open group has a pending timer that will flush it: a timer consumed
\* early for an older group of the key never leaves the newer one without.
OpenGroupHasTimer ==
    ~closed => \A k \in Keys : groups[k] # <<>> =>
        \E t \in timers : t.key = k /\ GroupIs(t) /\ t.first = groups[k][1]

\* A window timer flushes the group it was started for, never a newer group
\* under the same key.
OnlyOwnTimerFlushes ==
    [][\A t \in timers : timers' = timers \ {t} /\ groups' # groups
          => groups[t.key][1] = t.first]_vars

\* Every event read leaves the stage, even if the input stays silent.
EveryEventLeaves ==
    \A e \in Events : (e <= arrived) ~> (CountIn(e, Parts(out)) = 1)
=============================================================================
