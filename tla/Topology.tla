------------------------------ MODULE Topology -----------------------------
(***************************************************************************)
(* A bus from its construction to its verdicts: subscribe and its          *)
(* variants, dead_letters, blueprint and from_blueprint of src/src/bus.rs, *)
(* then the questions a run asks, as JevJudge sends them, and the verdicts *)
(* it draws from what comes back (Wire, Routing).  The run is module Bus.  *)
(*                                                                         *)
(* A subscription is its id, its two thresholds and whether it has a       *)
(* review sink: that is a RouteSpec of src/src/blueprint.rs.  A bus is     *)
(* built by one owner, so the calls are sequential; from_blueprint is a    *)
(* loop over the stored specs and takes a step for each of them.           *)
(***************************************************************************)
EXTENDS Wire

CONSTANTS Ids,         \* subscription ids
          Thresholds,  \* the (deliver, review) pairs in use
          MaxRoutes,   \* bound: routes of a bus or a stored blueprint
          Statuses,    \* HTTP statuses of a refusal
          ScoreReplies \* bound: the Score answers a service may send; indices are numbers

\* The indices of a Score answer: numbers, and finitely many of them.
Indexed(a) == DOMAIN a.probabilities \subseteq Nat /\ IsFiniteSet(DOMAIN a.probabilities)

ASSUME TopologyAssumption ==
    /\ Top \in Nat \ {0}
    /\ Thresholds \subseteq {t \in Points \X Points : ValidThresholds(t[1], t[2])}
    /\ \A a \in ScoreReplies : a.kind = "Score" /\ Indexed(a)

VARIABLES policy,       \* BusConfig::policy
          routes,       \* in registration order
          deadLetters,  \* a dead-letter sink is registered, and its handle given out
          rebuild,      \* the call of from_blueprint that is on, if one is
          told,         \* what the last call returned
          asked,        \* the QuestionSet of the run
          heard,        \* the last exchange with the service
          decision      \* what became of it: verdicts, or a JudgeFailure

vars == <<policy, routes, deadLetters, rebuild, told, asked, heard, decision>>

RouteSpec(id, t, reviewed) == [id |-> id, deliver |-> t[1], review |-> t[2], reviewed |-> reviewed]
RouteSpecs == {RouteSpec(id, t, r) : id \in Ids, t \in Thresholds, r \in BOOLEAN}

NoNames  == [n \in {} |-> Noul]
Undecided == Refuse("none", "none")

\* Of a call of from_blueprint: what it was given, the bus it builds and the
\* handles it makes.
Rebuilding(mode, specs, dead) ==
    [on |-> TRUE, policy |-> mode, specs |-> specs, deadLetters |-> dead,
     routes |-> <<>>, subscribers |-> {}, reviewers |-> {}]
NoRebuild == [Rebuilding("FanOut", <<>>, FALSE) EXCEPT !.on = FALSE]

Init ==
    /\ policy \in Policies
    /\ routes = <<>> /\ deadLetters = FALSE
    /\ rebuild = NoRebuild
    /\ told = "none"
    /\ asked = NoNames /\ heard = NotSent /\ decision = Undecided

Building == asked = NoNames /\ told # "finished" /\ ~rebuild.on

-----------------------------------------------------------------------------
(* Construction.                                                           *)

\* Mutant: no check.
AnyId(rs, id) == TRUE

\* check_unique.
Unique(rs, id) == id \notin IdsOf(rs)

Register(rs, spec) == Append(rs, spec)

Subscribe(spec) ==
    /\ Building
    /\ Len(routes) < MaxRoutes
    /\ IF Unique(routes, spec.id)
       THEN routes' = Register(routes, spec) /\ told' = "ok"
       ELSE routes' = routes /\ told' = "Duplicate"
    /\ UNCHANGED <<policy, deadLetters, rebuild, asked, heard, decision>>

TakeDeadLetters ==
    /\ Building
    /\ deadLetters' = TRUE
    /\ told' = IF deadLetters THEN "DeadLettersTaken" ELSE "ok"
    /\ UNCHANGED <<policy, routes, rebuild, asked, heard, decision>>

\* blueprint: the data half of the bus; of its config, the policy.
Blueprint == [policy |-> policy, routes |-> routes, deadLetters |-> deadLetters]

\* A blueprint that was stored, or sent by another process, is given to
\* from_blueprint. Its text is validated threshold by threshold, not for
\* duplicate ids.
FromBlueprint(mode, specs, dead) ==
    /\ Building
    /\ rebuild' = Rebuilding(mode, specs, dead)
    /\ UNCHANGED <<policy, routes, deadLetters, told, asked, heard, decision>>

\* Mutant: every route is rebuilt without its review sink.
WithSpecPlain(call, spec) ==
    [call EXCEPT !.routes = Register(@, [spec EXCEPT !.reviewed = FALSE]),
                 !.subscribers = @ \cup {spec.id}]

\* A spec is subscribed with the channels egress makes for its id.
WithSpec(call, spec) ==
    [call EXCEPT !.routes = Register(@, spec),
                 !.subscribers = @ \cup {spec.id},
                 !.reviewers = IF spec.reviewed THEN @ \cup {spec.id} ELSE @]

\* One turn of the loop; ? leaves it at the first duplicate, and the bus built
\* so far is dropped.
AddSpec ==
    /\ rebuild.on
    /\ Len(rebuild.routes) < Len(rebuild.specs)
    /\ LET spec == rebuild.specs[Len(rebuild.routes) + 1]
       IN  IF Unique(rebuild.routes, spec.id)
           THEN rebuild' = WithSpec(rebuild, spec) /\ UNCHANGED told
           ELSE rebuild' = NoRebuild /\ told' = "Duplicate"
    /\ UNCHANGED <<policy, routes, deadLetters, asked, heard, decision>>

\* from_blueprint returns; its bus takes the place of the one before.
Rebuilt ==
    /\ rebuild.on
    /\ Len(rebuild.routes) = Len(rebuild.specs)
    /\ policy' = rebuild.policy
    /\ routes' = rebuild.routes /\ deadLetters' = rebuild.deadLetters
    /\ rebuild' = NoRebuild
    /\ told' = "ok"
    /\ UNCHANGED <<asked, heard, decision>>

-----------------------------------------------------------------------------
(* The run.                                                                *)

\* run_fallible plans once; with nothing to ask it returns.
Run ==
    /\ Building
    /\ asked' = Plan(policy, routes)
    /\ told' = IF DOMAIN asked' = {} THEN "finished" ELSE "running"
    /\ UNCHANGED <<policy, routes, deadLetters, rebuild, heard, decision>>

Request == Encode(asked)

\* What a service may send: some of the names, either kind, some options, an
\* answer nobody asked for, and one number that is no probability.
Numbers     == Points \union {Top + 1}
WireNouls   == [kind : {"Noul"}, p : Numbers]
WireChoices == UNION {[kind : {"Choice"}, probabilities : [options -> Numbers],
                       confidence : {NoNumber, Top + 1}] : options \in SUBSET IdsOf(routes)}
AnswersTo(n) == IF Request[n].type = "Noul"
                THEN WireNouls \union {[kind |-> "Choice", probabilities |-> NoNames,
                                         confidence |-> NoNumber]}
                ELSE WireChoices \union {[kind |-> "Noul", p |-> 1]}
AsAsked == UNION {{f \in [names -> UNION {AnswersTo(n) : n \in names}] :
                       \A n \in names : f[n] \in AnswersTo(n)} :
                  names \in SUBSET DOMAIN Request}
Extras  == [{EmptyName} -> {[kind |-> "Noul", p |-> 1]}]
               \union UNION {[{n} -> ScoreReplies] : n \in Ids \ DOMAIN Request}
WithExtra(f, x) == [n \in DOMAIN f \union DOMAIN x |-> IF n \in DOMAIN f THEN f[n] ELSE x[n]]
Responses == AsAsked \union {WithExtra(f, x) : f \in AsAsked, x \in Extras}
Exchanges == {NotSent, BadBody} \union {Refusal(s) : s \in Statuses}
                 \union {Body(r) : r \in Responses}

\* The judge call, conclude, decide: after a transient error the bus asks
\* again while its budget lasts (Bus), any other ends the event.
Judged(exchange) ==
    /\ told = "running" /\ decision = Undecided
    /\ heard' = exchange
    /\ LET result == Judge(exchange) IN
       decision' = CASE result.ok -> Decide(policy, routes, result.answers)
                     [] ~result.ok /\ IsTransient(result) -> Undecided
                     [] OTHER -> Refuse(result.error, "none")
    /\ UNCHANGED <<policy, routes, deadLetters, rebuild, told, asked>>

Finished == told \in {"finished", "running"} /\ UNCHANGED vars

Next ==
    \/ \E spec \in RouteSpecs : Subscribe(spec)
    \/ TakeDeadLetters
    \/ \E mode \in Policies, specs \in BoundedSeq(RouteSpecs, MaxRoutes), dead \in BOOLEAN :
           FromBlueprint(mode, specs, dead)
    \/ AddSpec \/ Rebuilt
    \/ Run
    \/ \E exchange \in Exchanges : Judged(exchange)
    \/ Finished

Spec == Init /\ [][Next]_vars

-----------------------------------------------------------------------------
(* Properties.                                                             *)

\* Types; the thresholds of every route are one of the validated pairs.
TypeOK ==
    /\ policy \in Policies
    /\ routes \in Seq(RouteSpecs)
    /\ deadLetters \in BOOLEAN
    /\ rebuild \in [on : BOOLEAN, policy : Policies, specs : Seq(RouteSpecs),
                    deadLetters : BOOLEAN, routes : Seq(RouteSpecs),
                    subscribers : SUBSET Ids, reviewers : SUBSET Ids]
    /\ told \in {"none", "ok", "Duplicate", "DeadLettersTaken", "running", "finished"}
    /\ DOMAIN asked \subseteq Ids \union {"route"}
    /\ decision.ok => \A i \in DOMAIN decision.verdicts :
           decision.verdicts[i] \in [subscription : Ids, probability : Points,
                                     disposition : Dispositions]

\* blueprint's law: a bus rebuilt from a blueprint has its routes, in order and
\* with their review sinks, and the caller gets a handle for every sink of the
\* new bus and no other.  On the bus's own blueprint, whatever calls and
\* rebuilds made the bus, from_blueprint never reports a duplicate.
BlueprintRoundTrip ==
    rebuild.on =>
        LET built == rebuild.routes IN
        /\ built = SubSeq(rebuild.specs, 1, Len(built))
        /\ rebuild.subscribers = IdsOf(built)
        /\ rebuild.reviewers = {built[i].id : i \in {j \in DOMAIN built : built[j].reviewed}}
        /\ rebuild.specs = Blueprint.routes /\ Len(built) < Len(routes)
              => Unique(built, routes[Len(built) + 1].id)

\* The request asks about every route exactly once (plan, encode), although its
\* questions are a map keyed by id: two routes with one id would share one.
OneQuestionPerRoute ==
    told = "running" =>
        /\ UNION {IF Request[n].type = "Noul" THEN {n} ELSE Request[n].criteria :
                     n \in DOMAIN Request} = IdsOf(routes)
        /\ Cardinality(IdsOf(routes)) = Len(routes)

\* What the service said of a route.
WireNumber(id) == IF policy = "FanOut" THEN heard.response[id].p
                                       ELSE heard.response["route"].probabilities[id]

\* decide's postcondition, which dispatch's zip relies on, from the wire on:
\* verdict i is about route i and has the number the service gave that route.
OneVerdictPerRoute ==
    decision.ok =>
        /\ Len(decision.verdicts) = Len(routes)
        /\ \A i \in DOMAIN routes :
               /\ decision.verdicts[i].subscription = routes[i].id
               /\ decision.verdicts[i].probability = WireNumber(routes[i].id)

\* The body is sound in every answer, also in those nobody asked for, and
\* answers what was asked.
AnsweredAsAsked ==
    /\ heard.kind = "Body"
    /\ EmptyName \notin DOMAIN heard.response
    /\ \A n \in DOMAIN heard.response : WellFormed(heard.response[n])
    /\ \A n \in DOMAIN Request :
           /\ n \in DOMAIN heard.response
           /\ heard.response[n].kind = Request[n].type
           /\ Request[n].type = "Choice" =>
                  Request[n].criteria \subseteq DOMAIN heard.response[n].probabilities

\* A body that answers what was asked is always decided.  Anything else gives
\* no verdict at all: dispatch never sees a verdict for some of the routes.
DecidedIffAnswered == decision # Undecided => (decision.ok <=> AnsweredAsAsked)

\* The level of a Score answer is a name no other name is likelier than, and of
\* those the first (most_likely_level).  A name stands for the last of the
\* indices the legend gives it: the numbers of the others play no part.
LikeliestLevel ==
    decision.ok => \A n \in DOMAIN heard.response :
        LET a == heard.response[n]
            Kept == {i \in DOMAIN a.probabilities :
                         \A j \in DOMAIN a.probabilities : a.legend[j] = a.legend[i] => j <= i}
            Likeliest == {i \in Kept : \A j \in Kept : a.probabilities[i] >= a.probabilities[j]}
        IN  a.kind = "Score" => DecodeAnswer(a).level = Min({a.legend[i] : i \in Likeliest})

\* The routes a decision may engage: under Exclusive the winner only.
Eligible ==
    IF policy = "FanOut" THEN DOMAIN routes
    ELSE {i \in DOMAIN routes : \A j \in DOMAIN routes \ {i} :
              LET mine == WireNumber(routes[i].id) other == WireNumber(routes[j].id)
              IN  AtLeast(mine, other) /\ (j < i => ~AtLeast(other, mine))}

\* The disposition of an eligible route counts the thresholds its number is
\* at or above, as floats compare: none drops the event, one is the review
\* band, both deliver it.  So a number that lies on a threshold, the two zeros
\* and review = deliver have one outcome each, and the winner is engaged
\* whenever its number reaches review.
ThresholdsReached ==
    decision.ok => \A i \in DOMAIN routes :
        Engagement(decision.verdicts[i].disposition) =
            IF i \in Eligible
            THEN Cardinality({k \in {"review", "deliver"} :
                                 AtLeast(WireNumber(routes[i].id), routes[i][k])})
            ELSE 0

\* Policy::Exclusive: at most one route is not dropped; it is as probable as
\* any other, and a tie goes to the earliest registration.
ExclusiveWinner ==
    policy = "Exclusive" /\ decision.ok =>
        LET v == decision.verdicts IN
        \A i \in DOMAIN v : v[i].disposition # "Drop" =>
            \A j \in DOMAIN v \ {i} :
                /\ v[j].disposition = "Drop"
                /\ AtLeast(v[i].probability, v[j].probability)
                /\ j < i => ~AtLeast(v[j].probability, v[i].probability)
=============================================================================
