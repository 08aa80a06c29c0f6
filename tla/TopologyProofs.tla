--------------------------- MODULE TopologyProofs ---------------------------
(***************************************************************************)
(* What building a bus, asking and deciding promise, for every set of ids  *)
(* and thresholds, every list of subscriptions and every reply: first the  *)
(* laws of Routing's operators, then Topology's properties.                *)
(***************************************************************************)
EXTENDS Topology, FiniteSetTheorems, TLAPS

-----------------------------------------------------------------------------
(* Routing.                                                                *)

\* The subscriptions of a bus: thresholds are points, review <= deliver.
Sound(sub) == /\ sub.deliver \in Nat /\ sub.review \in Nat
              /\ ValidThresholds(sub.deliver, sub.review)

\* dispose's law: a probability that is at least as high never gets a lower
\* disposition, -0.0 and 0.0 included.
THEOREM DisposeLaw ==
    ASSUME NEW sub, Sound(sub), NEW p \in Nat, NEW q \in Nat, AtLeast(q, p)
    PROVE  Engagement(Dispose(sub, p)) <= Engagement(Dispose(sub, q))
<1>1. CASE AtLeast(q, sub.deliver)
  BY <1>1 DEF Dispose, Engagement
<1>2. CASE ~AtLeast(q, sub.deliver) /\ AtLeast(q, sub.review)
  BY <1>2 DEF Dispose, Engagement, AtLeast, Value, Sound
<1>3. CASE ~AtLeast(q, sub.deliver) /\ ~AtLeast(q, sub.review)
  BY <1>3 DEF Dispose, Engagement, AtLeast, Value, Sound
<1>4. QED
  BY <1>1, <1>2, <1>3

\* A decided answer set carries verdict i for subscription i, under either
\* policy: what dispatch's zip of routes and verdicts relies on.
THEOREM VerdictsAlign ==
    ASSUME NEW S, NEW subs \in Seq(S), NEW answers, NEW rule \in Policies,
           Decide(rule, subs, answers).ok
    PROVE  LET v == Decide(rule, subs, answers).verdicts
           IN  /\ DOMAIN v = DOMAIN subs
               /\ \A i \in DOMAIN subs : v[i].subscription = subs[i].id
<1>1. CASE rule = "FanOut"
  <2>1. Decide(rule, subs, answers) = FanOutVerdicts(subs, answers)
    BY <1>1 DEF Decide
  <2>2. \A e, n : Refuse(e, n).ok = FALSE
    BY DEF Refuse
  <2>3. FanOutVerdicts(subs, answers) =
          Decided([i \in DOMAIN subs |->
            Verdict(subs[i], answers[subs[i].id].p, Dispose(subs[i], answers[subs[i].id].p))])
    BY <2>1, <2>2 DEF FanOutVerdicts
  <2>4. QED
    BY <2>1, <2>3 DEF Decided, Verdict
<1>2. CASE rule = "Exclusive"
  <2>1. Decide(rule, subs, answers) = ExclusiveVerdicts(subs, answers)
    BY <1>2 DEF Decide
  <2>2. \A e, n : Refuse(e, n).ok = FALSE
    BY DEF Refuse
  <2>3. CASE subs = <<>>
    <3>1. ExclusiveVerdicts(subs, answers) = Decided(<<>>)
      BY <2>3 DEF ExclusiveVerdicts
    <3>2. QED
      BY <2>1, <2>3, <3>1 DEF Decided
  <2>4. CASE subs # <<>>
    <3>1. PICK ps : ExclusiveVerdicts(subs, answers) = Score(subs, ps)
      BY <2>1, <2>2, <2>4 DEF ExclusiveVerdicts
    <3>2. QED
      BY <2>1, <3>1 DEF Score, Decided, Verdict
  <2>5. QED
    BY <2>3, <2>4
<1>3. QED
  BY <1>1, <1>2 DEF Policies

\* The winner of a list of probabilities is the only route not dropped.
LEMMA OneWinner ==
    ASSUME NEW S, NEW subs \in Seq(S), NEW ps \in [DOMAIN subs -> Nat],
           NEW i \in DOMAIN subs, NEW j \in DOMAIN subs, i # j,
           Score(subs, ps).verdicts[i].disposition # "Drop"
    PROVE  /\ Score(subs, ps).verdicts[j].disposition = "Drop"
           /\ AtLeast(ps[i], ps[j])
           /\ j < i => ~AtLeast(ps[j], ps[i])
<1>1. \A k \in DOMAIN subs : Score(subs, ps).verdicts[k].disposition =
          IF Wins(ps, k) THEN Dispose(subs[k], ps[k]) ELSE "Drop"
  BY DEF Score, Decided, Verdict
<1>2. Wins(ps, i)
  BY <1>1
<1>3. DOMAIN ps = DOMAIN subs /\ DOMAIN subs \subseteq Nat /\ \A k \in DOMAIN subs : ps[k] \in Nat
  OBVIOUS
<1>4. PICK m \in DOMAIN ps : Same(ps[i], ps[m]) /\ \A k \in DOMAIN ps : ps[m] >= ps[k]
  BY <1>2 DEF Wins
<1>5. \A k \in DOMAIN subs : AtLeast(ps[i], ps[k])
  BY <1>3, <1>4 DEF AtLeast, Same, Value
<1>e. ASSUME NEW k \in DOMAIN subs, NEW n \in DOMAIN subs, k < n
      PROVE  k \in 1..n - 1
  BY <1>e
<1>6. \A k \in DOMAIN subs : Same(ps[k], ps[i]) => ~(k < i)
  BY <1>2, <1>e, Zenon DEF Wins
<1>7. ~Wins(ps, j)
  <2>1. SUFFICES ASSUME Wins(ps, j) PROVE FALSE
    OBVIOUS
  <2>2. PICK n \in DOMAIN ps : Same(ps[j], ps[n]) /\ \A k \in DOMAIN ps : ps[n] >= ps[k]
    BY <2>1 DEF Wins
  <2>3. Same(ps[j], ps[i]) /\ Same(ps[i], ps[j])
    BY <1>3, <1>4, <2>2 DEF Same, Value
  <2>4. ~(j < i)
    BY <1>6, <2>3
  <2>5. ~(i < j)
    BY <1>e, <2>1, <2>3, Zenon DEF Wins
  <2>6. QED
    BY <1>3, <2>4, <2>5
<1>8. j < i => ~AtLeast(ps[j], ps[i])
  BY <1>3, <1>5, <1>6 DEF AtLeast, Same, Value
<1>9. QED
  BY <1>1, <1>5, <1>7, <1>8

\* Policy::Exclusive, for every answer: at most one route is engaged; it is as
\* probable as any other and comes before every route as probable as it.
THEOREM ExclusiveLaw ==
    ASSUME NEW S, NEW subs \in Seq(S), NEW answers,
           Decide("Exclusive", subs, answers).ok,
           \A k \in DOMAIN subs : answers["route"].probabilities[subs[k].id] \in Nat,
           NEW i \in DOMAIN subs, NEW j \in DOMAIN subs, i # j,
           Decide("Exclusive", subs, answers).verdicts[i].disposition # "Drop"
    PROVE  LET v == Decide("Exclusive", subs, answers).verdicts
           IN  /\ v[j].disposition = "Drop"
               /\ AtLeast(v[i].probability, v[j].probability)
               /\ j < i => ~AtLeast(v[j].probability, v[i].probability)
<1> DEFINE ps == [k \in DOMAIN subs |-> answers["route"].probabilities[subs[k].id]]
<1>1. subs # <<>>
  OBVIOUS
<1>2. \A e, n : Refuse(e, n).ok = FALSE
  BY DEF Refuse
<1>3. Decide("Exclusive", subs, answers) = Score(subs, ps)
  BY <1>1, <1>2 DEF Decide, ExclusiveVerdicts
<1>4. ps \in [DOMAIN subs -> Nat]
  OBVIOUS
<1>5. \A k \in DOMAIN subs : Score(subs, ps).verdicts[k].probability = ps[k]
  BY DEF Score, Decided, Verdict
<1> HIDE DEF ps
<1>6. QED
  BY <1>3, <1>4, <1>5, OneWinner


-----------------------------------------------------------------------------
(* A bus under construction.  Routes have ids of their own, whatever calls  *)
(* and rebuilds made the bus; a rebuild has come through the first specs of *)
(* its blueprint, with a handle for each sink.  Once the bus asks, it is    *)
(* built, and what it decides is what the last exchange comes to.           *)

Apart(rs)      == \A i, j \in DOMAIN rs : rs[i].id = rs[j].id => i = j
ReviewedOf(rs) == {rs[i].id : i \in {j \in DOMAIN rs : rs[j].reviewed}}

RebuildInv ==
    LET built == rebuild.routes IN
    /\ Apart(built)
    /\ rebuild.on =>
          /\ Len(built) <= Len(rebuild.specs)
          /\ \A i \in DOMAIN built : built[i] = rebuild.specs[i]
          /\ rebuild.subscribers = IdsOf(built)
          /\ rebuild.reviewers = ReviewedOf(built)

Asking ==
    IF told = "running"
    THEN asked = Plan(policy, routes) /\ routes # <<>> /\ ~rebuild.on
    ELSE asked = NoNames /\ decision = Undecided

\* What an exchange may be, of which only the indices of a score matter.
IsExchange(x) ==
    \/ x \in {NotSent, BadBody}
    \/ \E s : x = Refusal(s)
    \/ \E response : /\ x = Body(response)
                     /\ \A n \in DOMAIN response :
                            response[n].kind = "Score" => Indexed(response[n])

\* What an exchange that ends the event comes to.
Comes(x) ==
    IF Judge(x).ok THEN Decide(policy, routes, Judge(x).answers)
                   ELSE Refuse(Judge(x).error, "none")

Deciding == decision # Undecided =>
    told = "running" /\ IsExchange(heard) /\ decision = Comes(heard)

BuildTypes ==
    /\ policy \in Policies
    /\ routes \in Seq(RouteSpecs)
    /\ deadLetters \in BOOLEAN
    /\ rebuild \in [on : BOOLEAN, policy : Policies, specs : Seq(RouteSpecs),
                    deadLetters : BOOLEAN, routes : Seq(RouteSpecs),
                    subscribers : SUBSET Ids, reviewers : SUBSET Ids]
    /\ told \in {"none", "ok", "Duplicate", "DeadLettersTaken", "running", "finished"}

TopologyInv == BuildTypes /\ Apart(routes) /\ RebuildInv /\ Asking /\ Deciding

-----------------------------------------------------------------------------
\* A subscription that check_unique lets in keeps the ids apart.
LEMMA RegisterApart ==
    ASSUME NEW rs \in Seq(RouteSpecs), Apart(rs), NEW spec \in RouteSpecs, Unique(rs, spec.id)
    PROVE  /\ Register(rs, spec) \in Seq(RouteSpecs) /\ Apart(Register(rs, spec))
           /\ Len(Register(rs, spec)) = Len(rs) + 1
           /\ \A i \in DOMAIN rs : Register(rs, spec)[i] = rs[i]
           /\ Register(rs, spec)[Len(rs) + 1] = spec
           /\ DOMAIN Register(rs, spec) = DOMAIN rs \cup {Len(rs) + 1}
  <1>1. /\ Register(rs, spec) \in Seq(RouteSpecs)
        /\ Len(Register(rs, spec)) = Len(rs) + 1
        /\ \A i \in DOMAIN rs : Register(rs, spec)[i] = rs[i]
        /\ Register(rs, spec)[Len(rs) + 1] = spec
        /\ DOMAIN Register(rs, spec) = DOMAIN rs \cup {Len(rs) + 1}
    BY DEF Register
  <1>2. \A i \in DOMAIN rs : rs[i].id # spec.id
    BY DEF Unique, IdsOf
  <1>3. Apart(Register(rs, spec))
    BY <1>1, <1>2 DEF Apart
  <1> QED
    BY <1>1, <1>3

LEMMA BlueprintSeqs ==
    ASSUME NEW specs \in BoundedSeq(RouteSpecs, MaxRoutes)
    PROVE  specs \in Seq(RouteSpecs)
  <1>1. PICK m \in 0..MaxRoutes : specs \in [1..m -> RouteSpecs]
    BY DEF BoundedSeq, SeqOf
  <1> QED
    BY <1>1

LEMMA SpecIds == \A spec \in RouteSpecs : spec.id \in Ids /\ spec.reviewed \in BOOLEAN
  BY DEF RouteSpecs, RouteSpec

\* A bus with a route has something to ask, and one without has nothing.
LEMMA PlanAsks ==
    ASSUME NEW S, NEW rs \in Seq(S), NEW rule \in Policies
    PROVE  IF rs = <<>> THEN Plan(rule, rs) = NoNames ELSE DOMAIN Plan(rule, rs) # {}
  <1>1. CASE rs = <<>>
    <2>1. IdsOf(rs) = {}
      BY <1>1 DEF IdsOf
    <2> QED
      BY <1>1, <2>1 DEF Plan, NoNames
  <1>2. CASE rs # <<>>
    <2>1. 1 \in DOMAIN rs
      BY <1>2
    <2>2. rs[1].id \in IdsOf(rs)
      BY <2>1 DEF IdsOf
    <2>3. CASE rule = "FanOut"
      BY <1>2, <2>2, <2>3 DEF Plan
    <2>4. CASE rule = "Exclusive"
      BY <1>2, <2>4 DEF Plan
    <2> QED
      BY <1>2, <2>3, <2>4 DEF Policies
  <1> QED
    BY <1>1, <1>2

\* While the bus is being built, it does not ask.
LEMMA BuildingRests ==
    ASSUME TopologyInv, Building
    PROVE  told # "running" /\ asked = NoNames /\ decision = Undecided /\ ~rebuild.on
  <1>1. DOMAIN NoNames = {}
    BY DEF NoNames
  <1>2. routes \in Seq(RouteSpecs) /\ policy \in Policies
    BY DEF TopologyInv, BuildTypes
  <1>3. told = "running" => asked # NoNames
    BY <1>1, <1>2, PlanAsks DEF TopologyInv, Asking
  <1> QED
    BY <1>3 DEF TopologyInv, Asking, Building

LEMMA BuildStart == Init => TopologyInv
  <1> SUFFICES ASSUME Init PROVE TopologyInv
    OBVIOUS
  <1>1. <<>> \in Seq(RouteSpecs) /\ Apart(<<>>)
    BY DEF Apart
  <1>2. rebuild = [on |-> FALSE, policy |-> "FanOut", specs |-> <<>>, deadLetters |-> FALSE,
                   routes |-> <<>>, subscribers |-> {}, reviewers |-> {}]
    BY DEF Init, NoRebuild, Rebuilding
  <1>3. BuildTypes
    <2>1. rebuild \in [on : BOOLEAN, policy : Policies, specs : Seq(RouteSpecs),
                       deadLetters : BOOLEAN, routes : Seq(RouteSpecs),
                       subscribers : SUBSET Ids, reviewers : SUBSET Ids]
      BY <1>1, <1>2 DEF Policies
    <2>2. routes \in Seq(RouteSpecs) /\ deadLetters \in BOOLEAN /\ policy \in Policies
      BY <1>1 DEF Init
    <2> QED
      BY <2>1, <2>2 DEF Init, BuildTypes
  <1>4. RebuildInv
    BY <1>1, <1>2 DEF RebuildInv
  <1> QED
    BY <1>1, <1>3, <1>4 DEF Init, TopologyInv, Asking, Deciding


LEMMA BuildSubscribe ==
    ASSUME TopologyInv, NEW spec \in RouteSpecs, Subscribe(spec)
    PROVE  TopologyInv'
  <1> USE DEF TopologyInv, BuildTypes
  <1>1. /\ told # "running" /\ ~rebuild.on
        /\ UNCHANGED <<policy, deadLetters, rebuild, asked, heard, decision>>
        /\ \/ Unique(routes, spec.id) /\ routes' = Register(routes, spec) /\ told' = "ok"
           \/ routes' = routes /\ told' = "Duplicate"
    BY BuildingRests DEF Subscribe
  <1>2. routes' \in Seq(RouteSpecs) /\ Apart(routes')
    <2>1. PICK rs : rs = routes
      OBVIOUS
    <2>2. Unique(rs, spec.id) => Register(rs, spec) \in Seq(RouteSpecs) /\ Apart(Register(rs, spec))
      BY <2>1, RegisterApart
    <2> QED
      BY <1>1, <2>1, <2>2
  <1>3. BuildTypes'
    BY <1>1, <1>2
  <1>4. RebuildInv'
    BY <1>1 DEF RebuildInv
  <1>5. Asking' /\ Deciding'
    BY <1>1 DEF Asking, Deciding
  <1> QED
    BY <1>2, <1>3, <1>4, <1>5

LEMMA BuildDeadLetters ==
    ASSUME TopologyInv, TakeDeadLetters
    PROVE  TopologyInv'
  <1> USE DEF TopologyInv, BuildTypes
  <1>1. /\ told # "running" /\ told' \in {"ok", "DeadLettersTaken"} /\ deadLetters' = TRUE
        /\ UNCHANGED <<policy, routes, rebuild, asked, heard, decision>>
    BY BuildingRests DEF TakeDeadLetters
  <1>2. RebuildInv' /\ Asking' /\ Deciding'
    BY <1>1 DEF RebuildInv, Asking, Deciding
  <1> QED
    BY <1>1, <1>2


LEMMA BuildFromBlueprint ==
    ASSUME TopologyInv, NEW mode \in Policies, NEW specs \in BoundedSeq(RouteSpecs, MaxRoutes),
           NEW dead \in BOOLEAN, FromBlueprint(mode, specs, dead)
    PROVE  TopologyInv'
  <1> USE DEF TopologyInv, BuildTypes
  <1>1. /\ told # "running"
        /\ rebuild' = [on |-> TRUE, policy |-> mode, specs |-> specs, deadLetters |-> dead,
                       routes |-> <<>>, subscribers |-> {}, reviewers |-> {}]
        /\ UNCHANGED <<policy, routes, deadLetters, told, asked, heard, decision>>
    BY BuildingRests DEF FromBlueprint, Rebuilding
  <1>2. specs \in Seq(RouteSpecs) /\ <<>> \in Seq(RouteSpecs)
    BY BlueprintSeqs
  <1>3. rebuild' \in [on : BOOLEAN, policy : Policies, specs : Seq(RouteSpecs),
                      deadLetters : BOOLEAN, routes : Seq(RouteSpecs),
                      subscribers : SUBSET Ids, reviewers : SUBSET Ids]
    BY <1>1, <1>2
  <1>4. BuildTypes'
    BY <1>1, <1>3
  <1>5. RebuildInv'
    <2>1. Apart(<<>>) /\ IdsOf(<<>>) = {} /\ ReviewedOf(<<>>) = {}
      BY DEF Apart, IdsOf, ReviewedOf
    <2>2. Len(<<>>) = 0 /\ Len(specs) \in Nat /\ DOMAIN <<>> = {}
      BY <1>2
    <2> QED
      BY <1>1, <2>1, <2>2 DEF RebuildInv
  <1>6. Asking' /\ Deciding'
    BY <1>1 DEF Asking, Deciding
  <1> QED
    BY <1>1, <1>4, <1>5, <1>6

LEMMA NoRebuildTyped ==
    /\ ~NoRebuild.on /\ Apart(NoRebuild.routes)
    /\ NoRebuild \in [on : BOOLEAN, policy : Policies, specs : Seq(RouteSpecs),
                      deadLetters : BOOLEAN, routes : Seq(RouteSpecs),
                      subscribers : SUBSET Ids, reviewers : SUBSET Ids]
  <1>1. NoRebuild = [on |-> FALSE, policy |-> "FanOut", specs |-> <<>>, deadLetters |-> FALSE,
                     routes |-> <<>>, subscribers |-> {}, reviewers |-> {}]
    <2>1. PICK full : full = [on |-> TRUE, policy |-> "FanOut", specs |-> <<>>, deadLetters |-> FALSE,
                              routes |-> <<>>, subscribers |-> {}, reviewers |-> {}]
      OBVIOUS
    <2>2. NoRebuild = [full EXCEPT !.on = FALSE]
      BY <2>1, Zenon DEF NoRebuild, Rebuilding
    <2> QED
      BY <2>1, <2>2
  <1>2. <<>> \in Seq(RouteSpecs) /\ Apart(<<>>)
    BY DEF Apart
  <1> QED
    BY <1>1, <1>2 DEF Policies

LEMMA BuildAddSpec ==
    ASSUME TopologyInv, AddSpec
    PROVE  TopologyInv'
  <1> USE DEF TopologyInv, BuildTypes
  <1> PICK o, n : o = rebuild /\ n = Len(rebuild.routes) + 1
    OBVIOUS
  <1> PICK spec : spec = o.specs[n]
    OBVIOUS
  <1>1. /\ o.on /\ Len(o.routes) < Len(o.specs) /\ told # "running"
        /\ UNCHANGED <<policy, routes, deadLetters, asked, heard, decision>>
        /\ \/ /\ Unique(o.routes, spec.id) /\ rebuild' = WithSpec(o, spec)
              /\ told' = told
           \/ rebuild' = NoRebuild /\ told' = "Duplicate"
    BY DEF AddSpec, Asking
  <1>2. /\ o.routes \in Seq(RouteSpecs) /\ o.specs \in Seq(RouteSpecs)
        /\ n \in DOMAIN o.specs /\ spec \in RouteSpecs /\ n = Len(o.routes) + 1
        /\ spec.id \in Ids /\ n \in Nat
    BY <1>1, SpecIds
  <1>3. Asking' /\ Deciding'
    BY <1>1 DEF Asking, Deciding
  <1>4. CASE rebuild' = NoRebuild /\ told' = "Duplicate"
    BY <1>1, <1>3, <1>4, NoRebuildTyped DEF RebuildInv
  <1>5. CASE Unique(o.routes, spec.id) /\ rebuild' = WithSpec(o, spec) /\ told' = told
    <2> PICK old : old = o.routes
      OBVIOUS
    <2> PICK r, rs : r = WithSpec(o, spec) /\ rs = Register(old, spec)
      OBVIOUS
    <2>1. /\ r = [o EXCEPT !.routes = rs, !.subscribers = @ \cup {spec.id},
                           !.reviewers = IF spec.reviewed THEN @ \cup {spec.id} ELSE @]
          /\ rebuild' = r
      BY <1>5 DEF WithSpec
    <2>2. /\ r.on = o.on /\ r.policy = o.policy /\ r.specs = o.specs
          /\ r.routes = rs /\ r.deadLetters = o.deadLetters
          /\ r.subscribers = o.subscribers \cup {spec.id}
          /\ r.reviewers = IF spec.reviewed THEN o.reviewers \cup {spec.id} ELSE o.reviewers
      BY <2>1
    <2>3. Apart(old) /\ old \in Seq(RouteSpecs)
      BY <1>2 DEF RebuildInv
    <2>4. /\ rs \in Seq(RouteSpecs) /\ Apart(rs) /\ Len(rs) = n
          /\ \A i \in DOMAIN old : rs[i] = old[i]
          /\ rs[n] = spec /\ DOMAIN rs = DOMAIN old \cup {n}
      <3>1. /\ Unique(old, spec.id) /\ n = Len(old) + 1
            /\ Apart(old) /\ old \in Seq(RouteSpecs) /\ spec \in RouteSpecs
        BY <1>2, <1>5, <2>3
      <3> HIDE DEF TopologyInv, BuildTypes
      <3>2. /\ Register(old, spec) \in Seq(RouteSpecs) /\ Apart(Register(old, spec))
            /\ Len(Register(old, spec)) = Len(old) + 1
            /\ \A i \in DOMAIN old : Register(old, spec)[i] = old[i]
            /\ Register(old, spec)[Len(old) + 1] = spec
            /\ DOMAIN Register(old, spec) = DOMAIN old \cup {Len(old) + 1}
        BY <3>1, RegisterApart
      <3> QED
        BY <3>1, <3>2
    <2>5. r \in [on : BOOLEAN, policy : Policies, specs : Seq(RouteSpecs),
                 deadLetters : BOOLEAN, routes : Seq(RouteSpecs),
                 subscribers : SUBSET Ids, reviewers : SUBSET Ids]
      <3>1. r = [on |-> r.on, policy |-> r.policy, specs |-> r.specs,
                 deadLetters |-> r.deadLetters, routes |-> r.routes, subscribers |-> r.subscribers, reviewers |-> r.reviewers]
        BY <2>1
      <3>2. r.subscribers \in SUBSET Ids /\ r.reviewers \in SUBSET Ids
        BY <1>2, <2>2
      <3> QED
        BY <2>2, <2>4, <3>1, <3>2
    <2>6. /\ \A i \in DOMAIN old : old[i] = o.specs[i]
          /\ o.subscribers = IdsOf(old) /\ o.reviewers = ReviewedOf(old)
      BY <1>1 DEF RebuildInv
    <2>7. \A i \in DOMAIN rs : rs[i] = o.specs[i]
      BY <2>4, <2>6
    <2>8. IdsOf(rs) = IdsOf(old) \cup {spec.id}
      BY <2>4 DEF IdsOf
    <2>9. ReviewedOf(rs) = IF spec.reviewed THEN ReviewedOf(old) \cup {spec.id}
                                            ELSE ReviewedOf(old)
      <3>1. {j \in DOMAIN rs : rs[j].reviewed} =
                IF spec.reviewed THEN {j \in DOMAIN old : old[j].reviewed} \cup {n}
                                 ELSE {j \in DOMAIN old : old[j].reviewed}
        <4>1. n \notin DOMAIN old
          BY <1>2, <2>3
        <4> QED
          BY <2>4, <4>1
      <3> QED
        BY <2>4, <3>1 DEF ReviewedOf
    <2>10. Len(rs) <= Len(o.specs)
      BY <1>1, <1>2, <2>4
    <2>11. RebuildInv'
      <3>1. /\ rebuild'.routes = rs /\ rebuild'.specs = o.specs
            /\ rebuild'.subscribers = IdsOf(rs) /\ rebuild'.reviewers = ReviewedOf(rs)
        BY <2>1, <2>2, <2>6, <2>8, <2>9
      <3> HIDE DEF TopologyInv, BuildTypes
      <3> QED
        BY <2>4, <2>7, <2>10, <3>1 DEF RebuildInv
    <2> QED
      BY <1>1, <1>3, <1>5, <2>1, <2>5, <2>11
  <1> QED
    BY <1>1, <1>4, <1>5

LEMMA BuildRebuilt ==
    ASSUME TopologyInv, Rebuilt
    PROVE  TopologyInv'
  <1> USE DEF TopologyInv, BuildTypes
  <1>1. /\ rebuild.on /\ told # "running" /\ told' = "ok"
        /\ policy' = rebuild.policy
        /\ routes' = rebuild.routes /\ deadLetters' = rebuild.deadLetters
        /\ rebuild' = NoRebuild
        /\ UNCHANGED <<asked, heard, decision>>
    BY DEF Rebuilt, Asking
  <1>2. routes' \in Seq(RouteSpecs) /\ Apart(routes') /\ deadLetters' \in BOOLEAN
    BY <1>1 DEF RebuildInv
  <1>3. BuildTypes' /\ RebuildInv'
    BY <1>1, <1>2, NoRebuildTyped DEF RebuildInv
  <1>4. Asking' /\ Deciding'
    BY <1>1 DEF Asking, Deciding
  <1> QED
    BY <1>2, <1>3, <1>4


LEMMA BuildRun ==
    ASSUME TopologyInv, Run
    PROVE  TopologyInv'
  <1> USE DEF TopologyInv, BuildTypes
  <1> PICK questions : questions = Plan(policy, routes)
    OBVIOUS
  <1>1. /\ asked' = questions /\ decision = Undecided /\ ~rebuild.on
        /\ told' = IF DOMAIN questions = {} THEN "finished" ELSE "running"
        /\ UNCHANGED <<policy, routes, deadLetters, rebuild, heard, decision>>
    BY BuildingRests DEF Run
  <1>2. IF routes = <<>> THEN questions = NoNames ELSE DOMAIN questions # {}
    BY PlanAsks
  <1>3. DOMAIN NoNames = {}
    BY DEF NoNames
  <1>4. Asking'
    BY <1>1, <1>2, <1>3 DEF Asking
  <1>5. BuildTypes' /\ RebuildInv' /\ Deciding'
    BY <1>1 DEF RebuildInv, Deciding
  <1> QED
    BY <1>1, <1>4, <1>5

\* The one kind of answer with indices is a Score, and its are numbers.
LEMMA ExchangesAre ==
    ASSUME NEW x \in Exchanges
    PROVE  IsExchange(x)
  <1>1. ASSUME NEW response \in Responses, NEW n \in DOMAIN response
        PROVE  response[n].kind = "Score" => Indexed(response[n])
    <2> DEFINE Fits(a) == a.kind = "Score" => Indexed(a)
    <2>1. \A m : \A a \in AnswersTo(m) : a.kind \in {"Noul", "Choice"}
      BY DEF AnswersTo, WireNouls, WireChoices
    <2>2. \A f \in AsAsked : \A m \in DOMAIN f : Fits(f[m])
      BY <2>1 DEF AsAsked
    <2>3. \A f \in Extras : \A m \in DOMAIN f : Fits(f[m])
      <3>1. \A a \in ScoreReplies : Fits(a)
        BY TopologyAssumption
      <3>2. Fits([kind |-> "Noul", p |-> 1])
        OBVIOUS
      <3> HIDE DEF Fits
      <3>3. \A f \in [{EmptyName} -> {[kind |-> "Noul", p |-> 1]}] : \A m \in DOMAIN f : Fits(f[m])
        BY <3>2
      <3>4. \A k : \A f \in [{k} -> ScoreReplies] : \A m \in DOMAIN f : Fits(f[m])
        BY <3>1
      <3> QED
        BY <3>3, <3>4 DEF Extras
    <2>4. response \in AsAsked \/ \E f \in AsAsked, g \in Extras : response = WithExtra(f, g)
      BY DEF Responses
    <2> HIDE DEF Fits
    <2>5. Fits(response[n])
      <3>1. CASE response \in AsAsked
        BY <2>2, <3>1
      <3>2. ASSUME NEW f \in AsAsked, NEW g \in Extras, response = WithExtra(f, g)
            PROVE  Fits(response[n])
        <4>1. n \in DOMAIN f \cup DOMAIN g
          BY <3>2 DEF WithExtra
        <4>2. response[n] = IF n \in DOMAIN f THEN f[n] ELSE g[n]
          BY <3>2, <4>1 DEF WithExtra
        <4> QED
          BY <2>2, <2>3, <4>1, <4>2
      <3> QED
        BY <2>4, <3>1, <3>2
    <2> QED
      BY <2>5 DEF Fits
  <1>2. x \in {NotSent, BadBody} \/ (\E s : x = Refusal(s))
            \/ (\E response \in Responses : x = Body(response))
    BY DEF Exchanges
  <1> QED
    BY <1>1, <1>2, Zenon DEF IsExchange

LEMMA BuildJudged ==
    ASSUME TopologyInv, NEW exchange \in Exchanges, Judged(exchange)
    PROVE  TopologyInv'
  <1> USE DEF TopologyInv, BuildTypes
  <1>1. /\ told = "running" /\ heard' = exchange
        /\ UNCHANGED <<policy, routes, deadLetters, rebuild, told, asked>>
        /\ decision' = LET result == Judge(exchange) IN
               CASE result.ok -> Decide(policy, routes, result.answers)
                 [] ~result.ok /\ IsTransient(result) -> Undecided
                 [] OTHER -> Refuse(result.error, "none")
    BY DEF Judged
  <1>2. decision' # Undecided => decision' = Comes(exchange)
    BY <1>1 DEF Comes
  <1>3. Comes(heard)' = Comes(exchange)
    BY <1>1 DEF Comes
  <1>4. Deciding'
    BY <1>1, <1>2, <1>3, ExchangesAre DEF Deciding
  <1>5. BuildTypes' /\ RebuildInv' /\ Asking'
    BY <1>1 DEF RebuildInv, Asking
  <1> QED
    BY <1>1, <1>4, <1>5

-----------------------------------------------------------------------------
\* What every reachable state of Topology satisfies.
THEOREM TopologyInvariant == Spec => []TopologyInv
  <1>1. TopologyInv /\ [Next]_vars => TopologyInv'
    <2> SUFFICES ASSUME TopologyInv, [Next]_vars PROVE TopologyInv'
      OBVIOUS
    <2>1. ASSUME NEW spec \in RouteSpecs, Subscribe(spec) PROVE TopologyInv'
      BY <2>1, BuildSubscribe
    <2>2. ASSUME NEW mode \in Policies, NEW specs \in BoundedSeq(RouteSpecs, MaxRoutes),
                 NEW dead \in BOOLEAN, FromBlueprint(mode, specs, dead)
          PROVE  TopologyInv'
      BY <2>2, BuildFromBlueprint
    <2>3. CASE TakeDeadLetters \/ AddSpec \/ Rebuilt \/ Run
      BY <2>3, BuildDeadLetters, BuildAddSpec, BuildRebuilt, BuildRun
    <2>4. ASSUME NEW exchange \in Exchanges, Judged(exchange) PROVE TopologyInv'
      BY <2>4, BuildJudged
    <2>5. CASE UNCHANGED vars
      BY <2>5 DEF vars, TopologyInv, BuildTypes, RebuildInv, Asking, Deciding, Comes
    <2> QED
      BY <2>1, <2>2, <2>3, <2>4, <2>5 DEF Next, Finished
  <1> QED
    BY <1>1, BuildStart, PTL DEF Spec


-----------------------------------------------------------------------------
(* The wire.                                                               *)

\* Decoding leaves the kind of an answer, and all of it unless it is a Score.
LEMMA DecodeKeeps ==
    ASSUME NEW a
    PROVE  DecodeAnswer(a).kind = a.kind /\ (a.kind # "Score" => DecodeAnswer(a) = a)
  BY DEF DecodeAnswer

LEMMA WellFormedKinds ==
    ASSUME NEW a, WellFormed(a)
    PROVE  /\ a.kind = "Noul" => IsProbability(a.p)
           /\ a.kind = "Choice" => AllProbable(a.probabilities)
           /\ a.kind = "Score" => Scores(a)
  <1>1. CASE a.kind = "Noul"
    BY <1>1, Zenon DEF WellFormed
  <1>2. CASE a.kind = "Choice"
    BY <1>2, Zenon DEF WellFormed
  <1>3. CASE a.kind = "Score"
    BY <1>3, Zenon DEF WellFormed
  <1> QED
    BY <1>1, <1>2, <1>3

\* A judge call succeeds on a body all of whose answers are sound, and on
\* nothing else; it returns them decoded, none left out.
Sane(x) == /\ x.kind = "Body" /\ EmptyName \notin DOMAIN x.response
           /\ \A n \in DOMAIN x.response : WellFormed(x.response[n])

LEMMA JudgeAnswers ==
    ASSUME NEW x, IsExchange(x)
    PROVE  /\ Judge(x).ok \in BOOLEAN
           /\ Judge(x).ok <=> Sane(x)
           /\ Judge(x).ok => Judge(x).answers =
                  [n \in DOMAIN x.response |-> DecodeAnswer(x.response[n])]
  <1>1. \A e : Fail(e).ok = FALSE
    BY DEF Fail
  <1>2. \A s : Rejected(s).ok = FALSE
    BY DEF Rejected
  <1>3. \A a : Answered(a).ok = TRUE /\ Answered(a).answers = a
    BY DEF Answered
  <1>4. CASE x = NotSent
    <2>1. x.kind = "NotSent"
      BY <1>4 DEF NotSent
    <2>2. Ask(x) = Fail("Unavailable")
      BY <2>1, Zenon DEF Ask
    <2> QED
      BY <1>1, <2>1, <2>2 DEF Judge, Sane
  <1>5. CASE x = BadBody
    <2>1. x.kind = "BadBody"
      BY <1>5 DEF BadBody
    <2>2. Ask(x) = Fail("MalformedReply")
      BY <2>1, Zenon DEF Ask
    <2> QED
      BY <1>1, <2>1, <2>2 DEF Judge, Sane
  <1>6. ASSUME NEW s, x = Refusal(s)
        PROVE  ~Sane(x) /\ Judge(x).ok = FALSE
    <2>1. x.kind = "Status"
      BY <1>6 DEF Refusal
    <2>2. Ask(x) = Rejected(x.status)
      BY <2>1, Zenon DEF Ask
    <2> QED
      BY <1>2, <2>1, <2>2 DEF Judge, Sane
  <1>7. ASSUME NEW response, x = Body(response)
        PROVE  /\ Judge(x).ok \in BOOLEAN /\ (Judge(x).ok <=> Sane(x))
               /\ Judge(x).ok => Judge(x).answers =
                      [n \in DOMAIN x.response |-> DecodeAnswer(x.response[n])]
    <2>1. x.kind = "Body" /\ x.response = response
      BY <1>7 DEF Body
    <2>2. Ask(x) = Answered(response)
      BY <2>1, Zenon DEF Ask
    <2>3. Judge(x) = Decode(response)
      BY <1>3, <2>2 DEF Judge
    <2>4. CASE EmptyName \in DOMAIN response
      <3>1. Decode(response) = Fail("MalformedReply")
        BY <2>4 DEF Decode
      <3> QED
        BY <1>1, <2>1, <2>3, <2>4, <3>1 DEF Sane
    <2>5. CASE EmptyName \notin DOMAIN response /\ \E n \in DOMAIN response : ~WellFormed(response[n])
      <3>1. Decode(response) = Fail("MalformedAnswer")
        BY <2>5 DEF Decode
      <3> QED
        BY <1>1, <2>1, <2>3, <2>5, <3>1 DEF Sane
    <2>6. CASE EmptyName \notin DOMAIN response /\ \A n \in DOMAIN response : WellFormed(response[n])
      <3>1. Decode(response) = Answered([n \in DOMAIN response |-> DecodeAnswer(response[n])])
        BY <2>6 DEF Decode
      <3> QED
        BY <1>3, <2>1, <2>3, <2>6, <3>1 DEF Sane
    <2> QED
      BY <2>4, <2>5, <2>6
  <1> QED
    BY <1>4, <1>5, <1>6, <1>7 DEF IsExchange


-----------------------------------------------------------------------------
\* FanOut decides exactly the answer sets with a Noul answer for every route.
LEMMA FanOutDecides ==
    ASSUME NEW subs, NEW answers
    PROVE  \A v : v = Decide("FanOut", subs, answers) =>
           /\ v.ok \in BOOLEAN
           /\ v.ok <=> \A i \in DOMAIN subs : /\ subs[i].id \in DOMAIN answers
                                              /\ answers[subs[i].id].kind = "Noul"
           /\ v.ok => \A i \in DOMAIN subs :
                  v.verdicts[i].probability = answers[subs[i].id].p
  <1> TAKE v
  <1> HAVE v = Decide("FanOut", subs, answers)
  <1> DEFINE bad == {i \in DOMAIN subs : \/ subs[i].id \notin DOMAIN answers
                                         \/ answers[subs[i].id].kind # "Noul"}
  <1>1. v = FanOutVerdicts(subs, answers)
    BY DEF Decide
  <1>2. CASE bad = {}
    <2>1. v = Decided([i \in DOMAIN subs |->
                 Verdict(subs[i], answers[subs[i].id].p, Dispose(subs[i], answers[subs[i].id].p))])
      BY <1>1, <1>2 DEF FanOutVerdicts
    <2>2. /\ v.ok = TRUE
          /\ \A i \in DOMAIN subs : v.verdicts[i].probability = answers[subs[i].id].p
      BY <2>1 DEF Decided, Verdict
    <2> QED
      BY <1>2, <2>2
  <1>3. CASE bad # {}
    <2>1. PICK e, n : v = Refuse(e, n)
      BY <1>1, <1>3 DEF FanOutVerdicts
    <2>2. v.ok = FALSE
      BY <2>1 DEF Refuse
    <2> QED
      BY <1>3, <2>2
  <1> QED
    BY <1>2, <1>3

\* Exclusive decides exactly the answer sets whose one Choice has every route.
LEMMA ExclusiveDecides ==
    ASSUME NEW subs, subs # <<>>, NEW answers
    PROVE  \A v, a : v = Decide("Exclusive", subs, answers) /\ a = answers["route"] =>
           /\ v.ok \in BOOLEAN
           /\ v.ok <=> /\ "route" \in DOMAIN answers /\ a.kind = "Choice"
                       /\ IdsOf(subs) \subseteq DOMAIN a.probabilities
           /\ v.ok => \A i \in DOMAIN subs :
                  v.verdicts[i].probability = a.probabilities[subs[i].id]
  <1> TAKE v, a
  <1> HAVE v = Decide("Exclusive", subs, answers) /\ a = answers["route"]
  <1> DEFINE omitted == {i \in DOMAIN subs : subs[i].id \notin DOMAIN a.probabilities}
  <1>1. v = ExclusiveVerdicts(subs, answers)
    BY DEF Decide
  <1>2. omitted = {} <=> IdsOf(subs) \subseteq DOMAIN a.probabilities
    BY DEF IdsOf
  <1>3. CASE "route" \notin DOMAIN answers
    <2>1. v = Refuse("MissingAnswer", "route")
      BY <1>1, <1>3 DEF ExclusiveVerdicts
    <2>2. v.ok = FALSE
      BY <2>1 DEF Refuse
    <2> QED
      BY <1>3, <2>2
  <1>4. CASE "route" \in DOMAIN answers /\ a.kind # "Choice"
    <2>1. v = Refuse("WrongAnswerKind", "route")
      BY <1>1, <1>4 DEF ExclusiveVerdicts
    <2>2. v.ok = FALSE
      BY <2>1 DEF Refuse
    <2> QED
      BY <1>4, <2>2
  <1>5. CASE "route" \in DOMAIN answers /\ a.kind = "Choice" /\ omitted # {}
    <2>1. v = Refuse("MissingOption", FirstOf(subs, omitted).id)
      BY <1>1, <1>5 DEF ExclusiveVerdicts
    <2>2. v.ok = FALSE
      BY <2>1 DEF Refuse
    <2> QED
      BY <1>2, <1>5, <2>2
  <1>6. CASE "route" \in DOMAIN answers /\ a.kind = "Choice" /\ omitted = {}
    <2> PICK ps : ps = [i \in DOMAIN subs |-> a.probabilities[subs[i].id]]
      OBVIOUS
    <2>1. v = Score(subs, ps)
      BY <1>1, <1>6 DEF ExclusiveVerdicts
    <2>2. /\ v.ok = TRUE
          /\ \A i \in DOMAIN subs : v.verdicts[i].probability = a.probabilities[subs[i].id]
      <3>1. Score(subs, ps).ok = TRUE
        BY DEF Score, Decided
      <3>2. \A i \in DOMAIN subs : Score(subs, ps).verdicts[i].probability = ps[i]
        BY DEF Score, Decided, Verdict
      <3> QED
        BY <2>1, <3>1, <3>2
    <2> QED
      BY <1>2, <1>6, <2>2
  <1> QED
    BY <1>3, <1>4, <1>5, <1>6

-----------------------------------------------------------------------------
(* Topology's properties, each a consequence of TopologyInv.               *)

DecodedFrom(answers, response) ==
    /\ DOMAIN answers = DOMAIN response
    /\ \A n \in DOMAIN response : answers[n] = DecodeAnswer(response[n])

\* A decision is drawn from a body, all of it decoded, about a bus with routes.
LEMMA DecidedFrom ==
    ASSUME TopologyInv, decision # Undecided
    PROVE  /\ routes \in Seq(RouteSpecs) /\ routes # <<>>
           /\ policy \in Policies /\ asked = Plan(policy, routes)
           /\ IsExchange(heard)
           /\ Sane(heard) => \E answers : /\ DecodedFrom(answers, heard.response)
                                          /\ decision = Decide(policy, routes, answers)
           /\ ~Sane(heard) => decision.ok = FALSE
  <1>1. /\ routes \in Seq(RouteSpecs) /\ routes # <<>>
        /\ policy \in Policies /\ asked = Plan(policy, routes)
        /\ IsExchange(heard) /\ decision = Comes(heard)
    BY DEF TopologyInv, BuildTypes, Asking, Deciding
  <1>2. \A e, n : Refuse(e, n).ok = FALSE
    BY DEF Refuse
  <1>3. Judge(heard).ok => DecodedFrom(Judge(heard).answers, heard.response)
    BY <1>1, JudgeAnswers DEF DecodedFrom
  <1> QED
    BY <1>1, <1>2, <1>3, JudgeAnswers DEF Comes

\* decide's promise from the wire on: the decision is Ok exactly when the body
\* answers what was asked, for every bus, policy and exchange.
LEMMA DecidedWhenAnswered == TopologyInv => DecidedIffAnswered
  <1> SUFFICES ASSUME TopologyInv, decision # Undecided
               PROVE  decision.ok <=> AnsweredAsAsked
    BY DEF DecidedIffAnswered
  <1>1. CASE ~Sane(heard)
    BY <1>1, DecidedFrom DEF Sane, AnsweredAsAsked
  <1>2. CASE Sane(heard)
    <2> PICK r : r = heard.response
      OBVIOUS
    <2>1. PICK answers : DecodedFrom(answers, r) /\ decision = Decide(policy, routes, answers)
      BY <1>2, DecidedFrom
    <2>2. DOMAIN answers = DOMAIN r /\ \A n \in DOMAIN r : answers[n].kind = r[n].kind
      BY <2>1, DecodeKeeps DEF DecodedFrom
    <2>3. AnsweredAsAsked <=>
             \A n \in DOMAIN Request :
                 /\ n \in DOMAIN r /\ r[n].kind = Request[n].type
                 /\ Request[n].type = "Choice" =>
                        Request[n].criteria \subseteq DOMAIN r[n].probabilities
      BY <1>2 DEF AnsweredAsAsked, Sane
    <2>4. CASE policy = "FanOut"
      <3>1. asked = [n \in IdsOf(routes) |-> Noul]
        BY <2>4, DecidedFrom DEF Plan
      <3>2. /\ DOMAIN Request = IdsOf(routes)
            /\ \A n \in IdsOf(routes) : Request[n].type = "Noul"
        BY <3>1 DEF Request, Encode, EncodeQuestion, Noul
      <3>3. AnsweredAsAsked <=> \A n \in IdsOf(routes) : n \in DOMAIN r /\ r[n].kind = "Noul"
        BY <2>3, <3>2
      <3>4. decision.ok <=> \A i \in DOMAIN routes : /\ routes[i].id \in DOMAIN answers
                                                     /\ answers[routes[i].id].kind = "Noul"
        BY <2>1, <2>4, FanOutDecides
      <3> QED
        BY <2>2, <3>3, <3>4 DEF IdsOf
    <2>5. CASE policy = "Exclusive"
      <3>1. asked = [n \in {"route"} |-> Choice(IdsOf(routes))] /\ routes # <<>>
        BY <2>5, DecidedFrom DEF Plan
      <3>2. /\ DOMAIN Request = {"route"}
            /\ Request["route"].type = "Choice" /\ Request["route"].criteria = IdsOf(routes)
        BY <3>1 DEF Request, Encode, EncodeQuestion, Choice
      <3>3. AnsweredAsAsked <=> /\ "route" \in DOMAIN r /\ r["route"].kind = "Choice"
                                /\ IdsOf(routes) \subseteq DOMAIN r["route"].probabilities
        BY <2>3, <3>2
      <3>4. decision.ok <=>
               /\ "route" \in DOMAIN answers /\ answers["route"].kind = "Choice"
               /\ IdsOf(routes) \subseteq DOMAIN answers["route"].probabilities
        BY <2>1, <2>5, <3>1, ExclusiveDecides
      <3>5. "route" \in DOMAIN r /\ r["route"].kind = "Choice" => answers["route"] = r["route"]
        BY <2>1, DecodeKeeps DEF DecodedFrom
      <3> QED
        BY <2>2, <3>3, <3>4, <3>5
    <2> QED
      BY <2>4, <2>5, DecidedFrom DEF Policies
  <1> QED
    BY <1>1, <1>2


\* Verdict i is about route i, and has the number the service sent for it.
LEMMA VerdictsAreWire == TopologyInv => OneVerdictPerRoute
  <1> SUFFICES ASSUME TopologyInv, decision.ok
               PROVE  /\ Len(decision.verdicts) = Len(routes)
                      /\ \A i \in DOMAIN routes :
                             /\ decision.verdicts[i].subscription = routes[i].id
                             /\ decision.verdicts[i].probability = WireNumber(routes[i].id)
    BY DEF OneVerdictPerRoute
  <1>1. decision # Undecided
    BY DEF Undecided, Refuse
  <1>2. Sane(heard) /\ routes \in Seq(RouteSpecs) /\ routes # <<>> /\ policy \in Policies
    BY <1>1, DecidedFrom
  <1> PICK r, v : r = heard.response /\ v = decision.verdicts
    OBVIOUS
  <1>3. PICK answers : DecodedFrom(answers, r) /\ decision = Decide(policy, routes, answers)
    BY <1>1, <1>2, DecidedFrom
  <1>4. DOMAIN v = DOMAIN routes /\ \A i \in DOMAIN routes : v[i].subscription = routes[i].id
    BY <1>2, <1>3, VerdictsAlign
  <1>5. Len(v) = Len(routes)
    BY <1>2, <1>4
  <1>6. \A i \in DOMAIN routes : v[i].probability = WireNumber(routes[i].id)
    <2>1. CASE policy = "FanOut"
      <3>1. /\ \A i \in DOMAIN routes : /\ routes[i].id \in DOMAIN answers
                                        /\ answers[routes[i].id].kind = "Noul"
            /\ \A i \in DOMAIN routes : v[i].probability = answers[routes[i].id].p
        BY <1>3, <2>1, FanOutDecides
      <3>2. \A n \in DOMAIN answers : answers[n].kind = "Noul" => answers[n] = r[n]
        BY <1>3, DecodeKeeps DEF DecodedFrom
      <3> QED
        BY <2>1, <3>1, <3>2 DEF WireNumber
    <2>2. CASE policy = "Exclusive"
      <3>1. /\ "route" \in DOMAIN answers /\ answers["route"].kind = "Choice"
            /\ \A i \in DOMAIN routes :
                   v[i].probability = answers["route"].probabilities[routes[i].id]
        BY <1>2, <1>3, <2>2, ExclusiveDecides
      <3>2. answers["route"] = r["route"]
        BY <1>3, <3>1, DecodeKeeps DEF DecodedFrom
      <3> QED
        BY <2>2, <3>1, <3>2 DEF WireNumber
    <2> QED
      BY <1>2, <2>1, <2>2 DEF Policies
  <1> QED
    BY <1>4, <1>5, <1>6

LEMMA WinnerIsAlone == TopologyInv => ExclusiveWinner
  <1> SUFFICES ASSUME TopologyInv, policy = "Exclusive", decision.ok
               PROVE  LET v == decision.verdicts IN
                      \A i \in DOMAIN v : v[i].disposition # "Drop" =>
                          \A j \in DOMAIN v \ {i} :
                              /\ v[j].disposition = "Drop"
                              /\ AtLeast(v[i].probability, v[j].probability)
                              /\ j < i => ~AtLeast(v[j].probability, v[i].probability)
    BY DEF ExclusiveWinner
  <1>1. decision # Undecided
    BY DEF Undecided, Refuse
  <1>2. Sane(heard) /\ routes \in Seq(RouteSpecs) /\ routes # <<>> /\ policy \in Policies
    BY <1>1, DecidedFrom
  <1> PICK r : r = heard.response
    OBVIOUS
  <1>3. PICK answers : DecodedFrom(answers, r) /\ decision = Decide("Exclusive", routes, answers)
    BY <1>1, <1>2, DecidedFrom
  <1>4. DOMAIN decision.verdicts = DOMAIN routes
    BY <1>2, <1>3, VerdictsAlign
  <1>5. \A k \in DOMAIN routes : answers["route"].probabilities[routes[k].id] \in Nat
    <2>1. /\ "route" \in DOMAIN answers /\ answers["route"].kind = "Choice"
          /\ IdsOf(routes) \subseteq DOMAIN answers["route"].probabilities
      BY <1>2, <1>3, ExclusiveDecides
    <2>2. answers["route"] = r["route"] /\ "route" \in DOMAIN r
      BY <1>3, <2>1, DecodeKeeps DEF DecodedFrom
    <2>3. AllProbable(r["route"].probabilities)
      BY <1>2, <2>1, <2>2, WellFormedKinds DEF Sane
    <2>4. Points \subseteq Nat
      BY TopologyAssumption DEF Points
    <2> QED
      BY <2>1, <2>2, <2>3, <2>4 DEF AllProbable, IsProbability, IdsOf
  <1> QED
    BY <1>2, <1>3, <1>4, <1>5, ExclusiveLaw

\* A finite set of numbers has a largest one: of the sets of numbers above one
\* of them, one is the smallest.
LEMMA Largest ==
    ASSUME NEW S \in SUBSET Nat, IsFiniteSet(S), S # {}
    PROVE  \E m \in S : \A x \in S : x <= m
  <1> DEFINE Above(i) == {x \in S : x > i}
             T == {Above(i) : i \in S}
  <1>1. \A i \in S : Above(i) \in FiniteSubsetsOf(S)
    BY FS_Subset DEF FiniteSubsetsOf
  <1>2. PICK U \in T : \A V \in T : <<V, U>> \notin StrictSubsetOrdering(S)
    <2>1. T # {} /\ T \subseteq FiniteSubsetsOf(S)
      BY <1>1
    <2> HIDE DEF T
    <2> QED
      BY <2>1, FS_StrictSubsetOrderingWellFounded, WFMin
  <1>3. PICK m \in S : U = Above(m)
    OBVIOUS
  <1>4. ASSUME NEW x \in S, x > m PROVE FALSE
    <2>1. Above(x) \subseteq U /\ x \in U /\ x \notin Above(x)
      <3>1. x \in Nat /\ m \in Nat /\ x > m /\ ~(x > x)
        BY <1>4
      <3>2. \A y \in S : y > x => y > m
        BY <3>1
      <3> QED
        BY <1>3, <3>1, <3>2
    <2>2. Above(x) \in SUBSET S /\ U \in SUBSET S /\ Above(x) \in T
      BY <1>3
    <2> HIDE DEF Above, T
    <2> QED
      BY <1>2, <2>1, <2>2 DEF StrictSubsetOrdering
  <1> QED
    BY <1>4

\* Re-keying by name keeps, of the indices of a name, the number of the last, so
\* the likeliest names are those of the likeliest of the indices kept.
LEMMA LevelsKept ==
    ASSUME NEW a, a.kind = "Score", Scores(a), Indexed(a)
    PROVE  LET Kept == {i \in DOMAIN a.probabilities : \A j \in DOMAIN a.probabilities :
                            a.legend[j] = a.legend[i] => j <= i}
               Likeliest == {i \in Kept : \A j \in Kept :
                                 a.probabilities[i] >= a.probabilities[j]}
           IN  DecodeAnswer(a).level = Min({a.legend[i] : i \in Likeliest})
  <1> PICK p, legend : p = a.probabilities /\ legend = a.legend
    OBVIOUS
  <1> PICK d : d = Distribution(a)
    OBVIOUS
  <1> DEFINE Called(level) == {j \in DOMAIN p : legend[j] = level}
             Kept == {i \in DOMAIN p : \A j \in DOMAIN p : legend[j] = legend[i] => j <= i}
  <1>1. DOMAIN p \subseteq Nat /\ IsFiniteSet(DOMAIN p)
    BY DEF Indexed
  <1>2. \A i \in DOMAIN p : Max(Called(legend[i])) \in Kept
                            /\ legend[Max(Called(legend[i]))] = legend[i]
    <2> TAKE i \in DOMAIN p
    <2> PICK S : S = Called(legend[i])
      OBVIOUS
    <2>1. S \in SUBSET Nat /\ IsFiniteSet(S) /\ S # {}
      BY <1>1, FS_Subset
    <2>2. \E m \in S : \A x \in S : m >= x
      BY <2>1, Largest
    <2>3. Max(S) \in S /\ \A x \in S : Max(S) >= x
      BY <2>2 DEF Max
    <2> QED
      BY <1>1, <2>1, <2>3
  <1>3. \A i \in Kept : Max(Called(legend[i])) = i
    <2> TAKE i \in Kept
    <2> PICK m : m = Max(Called(legend[i]))
      OBVIOUS
    <2>1. m \in Kept /\ legend[m] = legend[i]
      BY <1>2
    <2>2. m \in Nat /\ i \in Nat /\ m <= i /\ i <= m
      BY <1>1, <2>1
    <2> QED
      BY <2>2
  <1>4. DOMAIN d = {legend[i] : i \in DOMAIN p}
    BY DEF Distribution
  <1>5. \A i \in DOMAIN p : d[legend[i]] = p[Max(Called(legend[i]))]
    BY DEF Distribution
  <1> HIDE DEF Called
  <1>6. DOMAIN d = {legend[i] : i \in Kept}
    BY <1>2, <1>4
  <1>7. \A i \in Kept : d[legend[i]] = p[i]
    BY <1>3, <1>5
  <1> HIDE DEF Kept
  <1>8. {level \in DOMAIN d : \A other \in DOMAIN d : d[level] >= d[other]} =
            {legend[i] : i \in {k \in Kept : \A j \in Kept : p[k] >= p[j]}}
    BY <1>6, <1>7
  <1>9. DecodeAnswer(a).level =
            Min({level \in DOMAIN d : \A other \in DOMAIN d : d[level] >= d[other]})
    BY DEF DecodeAnswer, MostLikely
  <1> QED
    BY <1>8, <1>9 DEF Kept

LEMMA LevelsAreLikeliest == TopologyInv => LikeliestLevel
  <1> SUFFICES ASSUME TopologyInv, decision.ok,
                      NEW n \in DOMAIN heard.response, heard.response[n].kind = "Score"
               PROVE  LET a == heard.response[n]
                          Kept == {i \in DOMAIN a.probabilities :
                                       \A j \in DOMAIN a.probabilities :
                                           a.legend[j] = a.legend[i] => j <= i}
                          Likeliest == {i \in Kept : \A j \in Kept :
                                            a.probabilities[i] >= a.probabilities[j]}
                      IN  DecodeAnswer(a).level = Min({a.legend[i] : i \in Likeliest})
    BY DEF LikeliestLevel
  <1>1. decision # Undecided
    BY DEF Undecided, Refuse
  <1>2. Sane(heard) /\ IsExchange(heard)
    BY <1>1, DecidedFrom
  <1> PICK a : a = heard.response[n]
    OBVIOUS
  <1>3. Scores(a)
    BY <1>2, WellFormedKinds DEF Sane
  <1>4. PICK response : /\ heard = Body(response)
                        /\ \A m \in DOMAIN response :
                               response[m].kind = "Score" => Indexed(response[m])
    <2>1. heard.kind = "Body"
      BY <1>2 DEF Sane
    <2>2. heard # NotSent /\ heard # BadBody /\ \A s : heard # Refusal(s)
      BY <2>1 DEF NotSent, BadBody, Refusal
    <2> QED
      BY <1>2, <2>2 DEF IsExchange
  <1>5. Indexed(a)
    BY <1>4 DEF Body
  <1> QED
    BY <1>3, <1>5, LevelsKept

LEMMA RebuildKeeps == TopologyInv => BlueprintRoundTrip
  <1> SUFFICES ASSUME TopologyInv, rebuild.on
               PROVE  LET built == rebuild.routes IN
                      /\ built = SubSeq(rebuild.specs, 1, Len(built))
                      /\ rebuild.subscribers = IdsOf(built)
                      /\ rebuild.reviewers =
                             {built[i].id : i \in {j \in DOMAIN built : built[j].reviewed}}
                      /\ rebuild.specs = Blueprint.routes /\ Len(built) < Len(routes)
                            => Unique(built, routes[Len(built) + 1].id)
    BY DEF BlueprintRoundTrip
  <1> PICK built, specs, n : built = rebuild.routes /\ specs = rebuild.specs /\ n = Len(built)
    OBVIOUS
  <1>1. /\ built \in Seq(RouteSpecs) /\ specs \in Seq(RouteSpecs) /\ n \in Nat
        /\ n <= Len(specs) /\ \A i \in 1..n : built[i] = specs[i]
        /\ rebuild.subscribers = IdsOf(built) /\ rebuild.reviewers = ReviewedOf(built)
        /\ DOMAIN built = 1..n
    BY DEF TopologyInv, BuildTypes, RebuildInv
  <1>2. built = SubSeq(specs, 1, n)
    <2>1. /\ SubSeq(specs, 1, n) \in Seq(RouteSpecs) /\ Len(SubSeq(specs, 1, n)) = n
          /\ \A i \in 1..n : SubSeq(specs, 1, n)[i] = specs[i]
      BY <1>1
    <2> QED
      BY <1>1, <2>1
  <1>3. ASSUME specs = routes, n < Len(routes) PROVE Unique(built, routes[n + 1].id)
    <2>1. \A i \in 1..n : routes[i].id # routes[n + 1].id
      <3>1. Apart(routes) /\ n + 1 \in DOMAIN routes /\ \A i \in 1..n : i \in DOMAIN routes /\ i # n + 1
        BY <1>1, <1>3 DEF TopologyInv
      <3> QED
        BY <3>1 DEF Apart
    <2> QED
      BY <1>1, <1>3, <2>1 DEF Unique, IdsOf
  <1> QED
    BY <1>1, <1>2, <1>3 DEF Blueprint, ReviewedOf

\* Routes with ids of their own are as many as their ids.
LEMMA IdsCount ==
    ASSUME NEW S, NEW rs \in Seq(S), Apart(rs)
    PROVE  Cardinality(IdsOf(rs)) = Len(rs)
  <1> DEFINE f == [i \in 1..Len(rs) |-> rs[i].id]
  <1>1. f \in Bijection(1..Len(rs), IdsOf(rs))
    <2>1. f \in [1..Len(rs) -> IdsOf(rs)]
      BY DEF IdsOf
    <2>2. \A i, j \in 1..Len(rs) : f[i] = f[j] => i = j
      BY DEF Apart
    <2>3. \A id \in IdsOf(rs) : \E i \in 1..Len(rs) : f[i] = id
      BY DEF IdsOf
    <2> HIDE DEF f
    <2> QED
      BY <2>1, <2>2, <2>3 DEF Bijection, Injection, Surjection, IsInjective
  <1>2. IsFiniteSet(1..Len(rs)) /\ Cardinality(1..Len(rs)) = Len(rs)
    <2>1. 1 \in Int /\ Len(rs) \in Int /\ Len(rs) \in Nat
      OBVIOUS
    <2>2. /\ IsFiniteSet(1..Len(rs))
          /\ Cardinality(1..Len(rs)) = IF 1 > Len(rs) THEN 0 ELSE Len(rs) - 1 + 1
      BY <2>1, FS_Interval, Zenon
    <2> QED
      BY <2>1, <2>2
  <1> HIDE DEF f
  <1>3. ExistsBijection(1..Len(rs), IdsOf(rs))
    BY <1>1 DEF ExistsBijection
  <1> QED
    BY <1>2, <1>3, FS_Bijection

LEMMA RequestCovers == TopologyInv => OneQuestionPerRoute
  <1> SUFFICES ASSUME TopologyInv, told = "running"
               PROVE  /\ UNION {IF Request[n].type = "Noul" THEN {n} ELSE Request[n].criteria :
                                    n \in DOMAIN Request} = IdsOf(routes)
                      /\ Cardinality(IdsOf(routes)) = Len(routes)
    BY DEF OneQuestionPerRoute
  <1>1. /\ routes \in Seq(RouteSpecs) /\ Apart(routes) /\ routes # <<>>
        /\ policy \in Policies /\ asked = Plan(policy, routes)
    BY DEF TopologyInv, BuildTypes, Asking
  <1>2. Cardinality(IdsOf(routes)) = Len(routes)
    BY <1>1, IdsCount
  <1>3. CASE policy = "FanOut"
    <2>1. asked = [n \in IdsOf(routes) |-> Noul]
      BY <1>1, <1>3 DEF Plan
    <2>2. DOMAIN Request = IdsOf(routes) /\ \A n \in IdsOf(routes) : Request[n].type = "Noul"
      BY <2>1 DEF Request, Encode, EncodeQuestion, Noul
    <2> QED
      BY <1>2, <2>2
  <1>4. CASE policy = "Exclusive"
    <2>1. asked = [n \in {"route"} |-> Choice(IdsOf(routes))]
      BY <1>1, <1>4 DEF Plan
    <2>2. /\ DOMAIN Request = {"route"}
          /\ Request["route"].type = "Choice" /\ Request["route"].criteria = IdsOf(routes)
      BY <2>1 DEF Request, Encode, EncodeQuestion, Choice
    <2> QED
      BY <1>2, <2>2
  <1> QED
    BY <1>1, <1>3, <1>4 DEF Policies

\* A verdict is about its subscription and has one of the three dispositions.
LEMMA DecideShape ==
    ASSUME NEW mode, NEW subs, subs # <<>>, NEW answers, Decide(mode, subs, answers).ok,
           NEW i \in DOMAIN Decide(mode, subs, answers).verdicts
    PROVE  \E q, d : /\ d \in Dispositions
                     /\ Decide(mode, subs, answers).verdicts[i] = Verdict(subs[i], q, d)
  <1>1. \A sub, q : Dispose(sub, q) \in Dispositions /\ "Drop" \in Dispositions
    BY DEF Dispose, Dispositions
  <1>2. \A e, n : Refuse(e, n).ok = FALSE
    BY DEF Refuse
  <1>3. CASE mode = "FanOut"
    <2>1. Decide(mode, subs, answers) =
             Decided([k \in DOMAIN subs |-> Verdict(subs[k], answers[subs[k].id].p,
                                                Dispose(subs[k], answers[subs[k].id].p))])
      BY <1>2, <1>3 DEF Decide, FanOutVerdicts
    <2> QED
      BY <1>1, <2>1 DEF Decided
  <1>4. CASE mode # "FanOut"
    <2>1. \E ps : Decide(mode, subs, answers) = Score(subs, ps)
      BY <1>2, <1>4 DEF Decide, ExclusiveVerdicts
    <2>2. PICK ps : Decide(mode, subs, answers) = Score(subs, ps)
      BY <2>1
    <2> DEFINE D(k) == IF Wins(ps, k) THEN Dispose(subs[k], ps[k]) ELSE "Drop"
    <2>3. Score(subs, ps) = Decided([k \in DOMAIN subs |-> Verdict(subs[k], ps[k], D(k))])
      BY DEF Score
    <2>4. D(i) \in Dispositions
      BY <1>1
    <2> HIDE DEF D
    <2>5. i \in DOMAIN subs
      BY <2>2, <2>3 DEF Decided
    <2>6. Decide(mode, subs, answers).verdicts[i] = Verdict(subs[i], ps[i], D(i))
      BY <2>2, <2>3, <2>5 DEF Decided
    <2> QED
      BY <2>4, <2>6
  <1> QED
    BY <1>3, <1>4

LEMMA TypesKept == TopologyInv => TypeOK
  <1> SUFFICES ASSUME TopologyInv PROVE TypeOK
    OBVIOUS
  <1>1. \A i \in DOMAIN routes : routes[i].id \in Ids
    <2>1. \A i \in DOMAIN routes : routes[i] \in RouteSpecs
      BY DEF TopologyInv, BuildTypes
    <2> QED
      BY <2>1, SpecIds
  <1>2. DOMAIN asked \subseteq Ids \union {"route"}
    <2>1. DOMAIN NoNames = {}
      BY DEF NoNames
    <2>2. DOMAIN Plan(policy, routes) \subseteq IdsOf(routes) \union {"route"}
      BY DEF Plan
    <2> QED
      BY <1>1, <2>1, <2>2 DEF TopologyInv, Asking, IdsOf
  <1>3. ASSUME decision.ok, NEW i \in DOMAIN decision.verdicts
        PROVE  decision.verdicts[i] \in [subscription : Ids, probability : Points,
                                         disposition : Dispositions]
    <2>1. decision # Undecided
      BY <1>3 DEF Undecided, Refuse
    <2>2. Sane(heard) /\ routes \in Seq(RouteSpecs) /\ routes # <<>> /\ policy \in Policies
      BY <1>3, <2>1, DecidedFrom
    <2> PICK r, v : r = heard.response /\ v = decision.verdicts
      OBVIOUS
    <2>3. PICK answers : DecodedFrom(answers, r) /\ decision = Decide(policy, routes, answers)
      BY <2>1, <2>2, DecidedFrom
    <2>4. DOMAIN v = DOMAIN routes /\ v[i].subscription = routes[i].id
      BY <1>3, <2>2, <2>3, VerdictsAlign
    <2>5. \E q, d : d \in Dispositions /\ v[i] = Verdict(routes[i], q, d)
      BY <1>3, <2>2, <2>3, DecideShape
    <2>6. v[i].probability \in Points
      <3>1. CASE policy = "FanOut"
        <4>1. /\ routes[i].id \in DOMAIN answers /\ answers[routes[i].id].kind = "Noul"
              /\ v[i].probability = answers[routes[i].id].p
          BY <1>3, <2>3, <2>4, <3>1, FanOutDecides
        <4>2. answers[routes[i].id] = r[routes[i].id] /\ routes[i].id \in DOMAIN r
          BY <2>3, <4>1, DecodeKeeps DEF DecodedFrom
        <4> QED
          BY <2>2, <4>1, <4>2, WellFormedKinds DEF Sane, IsProbability
      <3>2. CASE policy = "Exclusive"
        <4>1. /\ "route" \in DOMAIN answers /\ answers["route"].kind = "Choice"
              /\ IdsOf(routes) \subseteq DOMAIN answers["route"].probabilities
              /\ v[i].probability = answers["route"].probabilities[routes[i].id]
          BY <1>3, <2>2, <2>3, <2>4, <3>2, ExclusiveDecides
        <4>2. answers["route"] = r["route"] /\ "route" \in DOMAIN r
          BY <2>3, <4>1, DecodeKeeps DEF DecodedFrom
        <4>3. AllProbable(r["route"].probabilities)
          BY <2>2, <4>1, <4>2, WellFormedKinds DEF Sane
        <4>4. routes[i].id \in IdsOf(routes)
          BY <1>3, <2>4 DEF IdsOf
        <4> QED
          BY <4>1, <4>2, <4>3, <4>4 DEF AllProbable, IsProbability
      <3> QED
        BY <2>2, <3>1, <3>2 DEF Policies
    <2> QED
      BY <1>1, <2>4, <2>5, <2>6 DEF Verdict
  <1> QED
    BY <1>2, <1>3 DEF TopologyInv, BuildTypes, TypeOK

-----------------------------------------------------------------------------
(* The disposition of a route, from its number and its thresholds.          *)

\* A route's thresholds are one of the validated pairs.
LEMMA RoutesSound == \A spec \in RouteSpecs : Sound(spec)
  <1> TAKE spec \in RouteSpecs
  <1>1. PICK id \in Ids, t \in Thresholds, r \in BOOLEAN :
            spec = [id |-> id, deliver |-> t[1], review |-> t[2], reviewed |-> r]
    BY DEF RouteSpecs, RouteSpec
  <1>2. t \in Points \X Points /\ ValidThresholds(t[1], t[2])
    BY TopologyAssumption
  <1>3. t[1] \in Nat /\ t[2] \in Nat
    BY <1>2, TopologyAssumption DEF Points
  <1> QED
    BY <1>1, <1>2, <1>3 DEF Sound

\* Review is below deliver, so the thresholds reached are none, review, or both.
LEMMA DisposeCounts ==
    ASSUME NEW sub, Sound(sub), NEW p \in Nat
    PROVE  Engagement(Dispose(sub, p)) =
               Cardinality({k \in {"review", "deliver"} : AtLeast(p, sub[k])})
  <1> PICK reached : reached = {k \in {"review", "deliver"} : AtLeast(p, sub[k])}
    OBVIOUS
  <1>1. AtLeast(p, sub.deliver) => AtLeast(p, sub.review)
    BY DEF Sound, ValidThresholds, AtLeast, Value
  <1>2. CASE AtLeast(p, sub.deliver)
    <2>1. reached = {"review"} \cup {"deliver"}
      BY <1>1, <1>2
    <2>2. /\ IsFiniteSet({"review"}) /\ Cardinality({"review"}) = 1
          /\ "deliver" \notin {"review"}
      BY FS_Singleton
    <2>3. Cardinality({"review"} \cup {"deliver"}) = 2
      BY <2>2, FS_AddElement
    <2> QED
      BY <1>2, <2>1, <2>3 DEF Dispose, Engagement
  <1>3. CASE ~AtLeast(p, sub.deliver) /\ AtLeast(p, sub.review)
    <2>1. reached = {"review"}
      BY <1>3
    <2>2. Cardinality({"review"}) = 1
      BY FS_Singleton
    <2> QED
      BY <1>3, <2>1, <2>2 DEF Dispose, Engagement
  <1>4. CASE ~AtLeast(p, sub.deliver) /\ ~AtLeast(p, sub.review)
    <2>1. reached = {}
      BY <1>4
    <2> QED
      BY <1>4, <2>1, FS_EmptySet DEF Dispose, Engagement
  <1> QED
    BY <1>2, <1>3, <1>4

\* There is a winner to compare with: of finitely many numbers one is the
\* largest, and winning is to be at least every other and above those before.
LEMMA WinsMost ==
    ASSUME NEW n \in Nat, NEW ps \in [1..n -> Points], NEW i \in 1..n
    PROVE  Wins(ps, i) <=>
               \A j \in 1..n \ {i} : /\ AtLeast(ps[i], ps[j])
                                     /\ j < i => ~AtLeast(ps[j], ps[i])
  <1>1. Points \subseteq Nat /\ IsFiniteSet(Points)
    <2>1. 0 \in Int /\ Top \in Int
      BY TopologyAssumption
    <2>2. IsFiniteSet(0..Top)
      BY <2>1, FS_Interval
    <2> QED
      BY <2>1, <2>2 DEF Points
  <1>2. PICK m \in 1..n : \A j \in 1..n : ps[m] >= ps[j]
    <2> PICK S : S = {ps[j] : j \in 1..n}
      OBVIOUS
    <2>1. S \in SUBSET Points
      OBVIOUS
    <2>2. ps[i] \in S
      OBVIOUS
    <2>3. IsFiniteSet(S) /\ S \in SUBSET Nat /\ S # {}
      BY <1>1, <2>1, <2>2, FS_Subset
    <2>4. PICK x \in S : \A y \in S : y <= x
      BY <2>3, Largest
    <2>5. PICK j \in 1..n : ps[j] = x
      OBVIOUS
    <2>6. \A k \in 1..n : ps[k] \in S /\ ps[k] \in Nat
      BY <1>1
    <2> QED
      BY <2>4, <2>5, <2>6
  <1>3. /\ DOMAIN ps = 1..n /\ \A j \in 1..n : ps[j] \in Nat
        /\ \A j \in 1..n : j \in 1..i - 1 <=> j < i
        /\ \A j \in 1..i - 1 : j \in 1..n /\ j # i /\ j < i
    <2>1. DOMAIN ps = 1..n /\ \A j \in 1..n : ps[j] \in Nat
      BY <1>1
    <2>2. \A j \in 1..n : j \in 1..i - 1 <=> j < i
      OBVIOUS
    <2>3. \A j \in 1..i - 1 : j \in 1..n /\ j # i /\ j < i
      OBVIOUS
    <2> QED
      BY <2>1, <2>2, <2>3
  <1>4. ASSUME Wins(ps, i), NEW j \in 1..n \ {i}
        PROVE  AtLeast(ps[i], ps[j]) /\ (j < i => ~AtLeast(ps[j], ps[i]))
    <2>1. PICK k \in 1..n : Same(ps[i], ps[k]) /\ \A l \in 1..n : ps[k] >= ps[l]
      BY <1>3, <1>4 DEF Wins
    <2>2. AtLeast(ps[i], ps[j])
      BY <1>3, <2>1 DEF AtLeast, Same, Value
    <2>3. j < i => ~Same(ps[j], ps[i])
      BY <1>3, <1>4 DEF Wins
    <2> QED
      BY <1>3, <2>2, <2>3 DEF AtLeast, Same, Value
  <1>5. ASSUME \A j \in 1..n \ {i} : /\ AtLeast(ps[i], ps[j])
                                     /\ j < i => ~AtLeast(ps[j], ps[i])
        PROVE  Wins(ps, i)
    <2>1. Same(ps[i], ps[m])
      <3>1. m # i => AtLeast(ps[i], ps[m])
        BY <1>5
      <3> QED
        BY <1>2, <1>3, <3>1 DEF AtLeast, Same, Value
    <2>2. \A j \in 1..i - 1 : ~Same(ps[j], ps[i])
      <3> TAKE j \in 1..i - 1
      <3>1. j \in 1..n \ {i} /\ j < i
        BY <1>3
      <3>2. ~AtLeast(ps[j], ps[i])
        BY <1>5, <3>1
      <3> QED
        BY <1>3, <3>1, <3>2 DEF AtLeast, Same, Value
    <2> QED
      BY <1>2, <1>3, <2>1, <2>2 DEF Wins
  <1> QED
    BY <1>4, <1>5

LEMMA FanOutDisposes ==
    ASSUME NEW subs, NEW answers
    PROVE  \A v : v = Decide("FanOut", subs, answers) /\ v.ok =>
               \A i \in DOMAIN subs :
                   v.verdicts[i].disposition = Dispose(subs[i], v.verdicts[i].probability)
  <1> TAKE v
  <1> HAVE v = Decide("FanOut", subs, answers) /\ v.ok
  <1>1. \A e, n : Refuse(e, n).ok = FALSE
    BY DEF Refuse
  <1>2. v = Decided([i \in DOMAIN subs |->
               Verdict(subs[i], answers[subs[i].id].p, Dispose(subs[i], answers[subs[i].id].p))])
    BY <1>1 DEF Decide, FanOutVerdicts
  <1> QED
    BY <1>2 DEF Decided, Verdict

LEMMA ExclusiveDisposes ==
    ASSUME NEW subs, subs # <<>>, NEW answers
    PROVE  \A v : v = Decide("Exclusive", subs, answers) /\ v.ok =>
               \A ps : ps = [i \in DOMAIN subs |-> v.verdicts[i].probability] =>
                   \A i \in DOMAIN subs :
                       v.verdicts[i].disposition =
                           IF Wins(ps, i) THEN Dispose(subs[i], ps[i]) ELSE "Drop"
  <1> TAKE v
  <1> HAVE v = Decide("Exclusive", subs, answers) /\ v.ok
  <1> TAKE ps
  <1> HAVE ps = [i \in DOMAIN subs |-> v.verdicts[i].probability]
  <1>1. \A e, n : Refuse(e, n).ok = FALSE
    BY DEF Refuse
  <1>2. PICK qs : /\ qs = [i \in DOMAIN subs |-> answers["route"].probabilities[subs[i].id]]
                  /\ v = Score(subs, qs)
    BY <1>1 DEF Decide, ExclusiveVerdicts
  <1>3. \A i \in DOMAIN subs : v.verdicts[i] =
            Verdict(subs[i], qs[i], IF Wins(qs, i) THEN Dispose(subs[i], qs[i]) ELSE "Drop")
    BY <1>2 DEF Score, Decided
  <1>4. \A i \in DOMAIN subs :
            /\ v.verdicts[i].probability = qs[i]
            /\ v.verdicts[i].disposition =
                   IF Wins(qs, i) THEN Dispose(subs[i], qs[i]) ELSE "Drop"
    <2>1. \A sub, p, d : Verdict(sub, p, d).probability = p /\ Verdict(sub, p, d).disposition = d
      BY DEF Verdict
    <2> QED
      BY <1>3, <2>1
  <1>5. ps = qs
    BY <1>2, <1>4
  <1> QED
    BY <1>4, <1>5

LEMMA EngagedAsReached == TopologyInv => ThresholdsReached
  <1> SUFFICES ASSUME TopologyInv, decision.ok, NEW i \in DOMAIN routes
               PROVE  Engagement(decision.verdicts[i].disposition) =
                          IF i \in Eligible
                          THEN Cardinality({k \in {"review", "deliver"} :
                                   AtLeast(WireNumber(routes[i].id), routes[i][k])})
                          ELSE 0
    BY DEF ThresholdsReached
  <1>1. decision # Undecided
    BY DEF Undecided, Refuse
  <1>2. /\ Sane(heard) /\ routes \in Seq(RouteSpecs) /\ routes # <<>>
        /\ policy \in Policies
    BY <1>1, DecidedFrom
  <1> PICK v, r : v = decision.verdicts /\ r = heard.response
    OBVIOUS
  <1>3. PICK answers : DecodedFrom(answers, r) /\ decision = Decide(policy, routes, answers)
    BY <1>1, <1>2, DecidedFrom
  <1>4. DOMAIN v = DOMAIN routes
    BY <1>2, <1>3, VerdictsAlign
  <1>5. \A j \in DOMAIN routes : v[j].probability = WireNumber(routes[j].id)
    BY VerdictsAreWire DEF OneVerdictPerRoute
  <1>6. \A j \in DOMAIN routes : v[j].probability \in Points
    BY <1>4, TypesKept DEF TypeOK
  <1>7. Sound(routes[i]) /\ v[i].probability \in Nat
    BY <1>2, <1>6, RoutesSound, TopologyAssumption DEF Points
  <1>8. Engagement(Dispose(routes[i], v[i].probability)) =
            Cardinality({k \in {"review", "deliver"} :
                AtLeast(WireNumber(routes[i].id), routes[i][k])})
    BY <1>5, <1>7, DisposeCounts
  <1>9. CASE policy = "FanOut"
    <2>1. v[i].disposition = Dispose(routes[i], v[i].probability)
      BY <1>3, <1>9, FanOutDisposes
    <2>2. i \in Eligible
      BY <1>9 DEF Eligible
    <2> QED
      BY <1>8, <2>1, <2>2
  <1>10. CASE policy = "Exclusive"
    <2> PICK ps, n : ps = [j \in DOMAIN routes |-> v[j].probability] /\ n = Len(routes)
      OBVIOUS
    <2>1. v[i].disposition = IF Wins(ps, i) THEN Dispose(routes[i], ps[i]) ELSE "Drop"
      BY <1>2, <1>3, <1>10, ExclusiveDisposes
    <2>2. n \in Nat /\ DOMAIN routes = 1..n /\ ps \in [1..n -> Points]
      BY <1>2, <1>6
    <2>3. \A j \in 1..n : ps[j] = WireNumber(routes[j].id)
      BY <1>5, <2>2
    <2>4. i \in Eligible <=> Wins(ps, i)
      <3>1. i \in Eligible <=> \A j \in 1..n \ {i} : /\ AtLeast(ps[i], ps[j])
                                                     /\ j < i => ~AtLeast(ps[j], ps[i])
        BY <1>10, <2>2, <2>3 DEF Eligible
      <3> QED
        BY <2>2, <3>1, WinsMost
    <2>5. Engagement("Drop") = 0
      BY DEF Engagement
    <2> QED
      BY <1>8, <2>1, <2>4, <2>5
  <1> QED
    BY <1>2, <1>9, <1>10 DEF Policies

-----------------------------------------------------------------------------
(* What holds in every reachable state.                                    *)

\* from_blueprint keeps the routes of the blueprint, in order and with their
\* review sinks, hands out a handle for every sink and no other, and never
\* meets a duplicate in a blueprint of the bus's own.
THEOREM BlueprintRoundTripHolds == Spec => []BlueprintRoundTrip
  BY TopologyInvariant, RebuildKeeps, PTL

\* The one request of a run asks about every route, and about each once.
THEOREM OneQuestionPerRouteHolds == Spec => []OneQuestionPerRoute
  BY TopologyInvariant, RequestCovers, PTL

\* Verdict i, which dispatch zips with route i, is about route i and has the
\* number the service sent for it, under either policy.
THEOREM OneVerdictPerRouteHolds == Spec => []OneVerdictPerRoute
  BY TopologyInvariant, VerdictsAreWire, PTL

\* A run decides exactly the bodies that answer what it asked.
THEOREM DecidedIffAnsweredHolds == Spec => []DecidedIffAnswered
  BY TopologyInvariant, DecidedWhenAnswered, PTL

\* Under Policy::Exclusive at most one route gets the event: the likeliest,
\* and of equals the one registered first.
THEOREM ExclusiveWinnerHolds == Spec => []ExclusiveWinner
  BY TopologyInvariant, WinnerIsAlone, PTL

\* A route gets an event, for delivery or for review, exactly as its number
\* reaches its thresholds; under Policy::Exclusive the winner does, no other.
THEOREM ThresholdsReachedHolds == Spec => []ThresholdsReached
  BY TopologyInvariant, EngagedAsReached, PTL

\* The level of a decoded Score answer is the first of its likeliest levels,
\* each level with the number of the last index the legend calls by it.
THEOREM LikeliestLevelHolds == Spec => []LikeliestLevel
  BY TopologyInvariant, LevelsAreLikeliest, PTL

\* The state of a bus under construction and of its run is well-typed; the
\* probability of a verdict is one Probability::new accepts.
THEOREM TypeOKHolds == Spec => []TypeOK
  BY TopologyInvariant, TypesKept, PTL
=============================================================================
