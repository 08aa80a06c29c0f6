------------------------------ MODULE Routing ------------------------------
(***************************************************************************)
(* The pure core of src/src/routing.rs: plan turns subscriptions into the  *)
(* questions of one judge request, decide turns its answers into one       *)
(* verdict per subscription.  With it the parts of subscription.rs and     *)
(* probability.rs that decide rests on.                                    *)
(*                                                                         *)
(* A Probability is a point of an ordered scale.  Point 0 is -0.0, which   *)
(* Probability::new accepts, and point 1 is 0.0: total_cmp tells them      *)
(* apart, the comparisons of floats do not.                                *)
(***************************************************************************)
EXTENDS Integers, SequencesExt

Policies     == {"FanOut", "Exclusive"}
Dispositions == {"Drop", "Review", "Deliver"}

\* Drop < Review < Deliver, the derived order of Disposition.
Engagement(d) == CASE d = "Drop" -> 0 [] d = "Review" -> 1 [] d = "Deliver" -> 2

\* The float a point stands for, as == and >= see it.
Value(p) == IF p = 0 THEN 1 ELSE p

AtLeast(p, q) == Value(p) >= Value(q)
Same(p, q)    == Value(p) = Value(q)

\* Thresholds::new.
ValidThresholds(deliver, review) == AtLeast(deliver, review)

\* Mutant: a probability on the review threshold is below it.
DisposeStrict(sub, p) ==
    CASE AtLeast(p, sub.deliver) -> "Deliver"
      [] ~AtLeast(p, sub.deliver) /\ ~AtLeast(sub.review, p) -> "Review"
      [] OTHER -> "Drop"

\* Thresholds::dispose.
Dispose(sub, p) ==
    CASE AtLeast(p, sub.deliver) -> "Deliver"
      [] ~AtLeast(p, sub.deliver) /\ AtLeast(p, sub.review) -> "Review"
      [] OTHER -> "Drop"

-----------------------------------------------------------------------------
(* plan: a QuestionSet is a function from names to questions.              *)

Noul            == [kind |-> "Noul", options |-> {}]
Choice(options) == [kind |-> "Choice", options |-> options]

IdsOf(subs) == {subs[i].id : i \in DOMAIN subs}

Plan(policy, subs) ==
    CASE policy = "FanOut" -> [n \in IdsOf(subs) |-> Noul]
      [] policy = "Exclusive" /\ subs # <<>> -> [n \in {"route"} |-> Choice(IdsOf(subs))]
      [] OTHER -> [n \in {} |-> Noul]

-----------------------------------------------------------------------------
(* decide.  An AnswerSet is a function from some names to answers; a       *)
(* Choice answer gives some options a probability.                         *)

Verdict(sub, p, d)  == [subscription |-> sub.id, probability |-> p, disposition |-> d]
Decided(verdicts)   == [ok |-> TRUE, verdicts |-> verdicts]
Refuse(error, name) == [ok |-> FALSE, error |-> error, name |-> name]

\* The first of these positions in registration order: collect stops there.
FirstOf(subs, bad) == subs[CHOOSE i \in bad : \A j \in bad : i <= j]

\* Mutant: an unanswered subscription is skipped.
FanOutSkipping(subs, answers) ==
    LET Answered(sub) == sub.id \in DOMAIN answers /\ answers[sub.id].kind = "Noul"
        asked == SelectSeq(subs, Answered)
    IN  Decided([i \in DOMAIN asked |->
            LET p == answers[asked[i].id].p IN Verdict(asked[i], p, Dispose(asked[i], p))])

FanOutVerdicts(subs, answers) ==
    LET bad == {i \in DOMAIN subs : \/ subs[i].id \notin DOMAIN answers
                                    \/ answers[subs[i].id].kind # "Noul"}
        id  == FirstOf(subs, bad).id
    IN  IF bad = {}
        THEN Decided([i \in DOMAIN subs |->
                LET p == answers[subs[i].id].p IN Verdict(subs[i], p, Dispose(subs[i], p))])
        ELSE Refuse(IF id \in DOMAIN answers THEN "WrongAnswerKind" ELSE "MissingAnswer", id)

\* Mutant: every maximal subscription wins.
WinsTied(ps, i) == \A j \in DOMAIN ps : AtLeast(ps[i], ps[j])

\* The maximum is total_cmp's; the first subscription whose probability
\* equals it, as floats do, is the winner.
Wins(ps, i) ==
    /\ \E m \in DOMAIN ps : Same(ps[i], ps[m]) /\ \A j \in DOMAIN ps : ps[m] >= ps[j]
    /\ \A j \in 1..i - 1 : ~Same(ps[j], ps[i])

Score(subs, ps) ==
    Decided([i \in DOMAIN subs |->
        Verdict(subs[i], ps[i], IF Wins(ps, i) THEN Dispose(subs[i], ps[i]) ELSE "Drop")])

ExclusiveVerdicts(subs, answers) ==
    LET options == answers["route"].probabilities
        omitted == {i \in DOMAIN subs : subs[i].id \notin DOMAIN options}
    IN  IF subs = <<>> THEN Decided(<<>>)
        ELSE IF "route" \notin DOMAIN answers THEN Refuse("MissingAnswer", "route")
        ELSE IF answers["route"].kind # "Choice" THEN Refuse("WrongAnswerKind", "route")
        ELSE IF omitted # {} THEN Refuse("MissingOption", FirstOf(subs, omitted).id)
        ELSE Score(subs, [i \in DOMAIN subs |-> options[subs[i].id]])

Decide(policy, subs, answers) ==
    IF policy = "FanOut" THEN FanOutVerdicts(subs, answers)
                         ELSE ExclusiveVerdicts(subs, answers)
=============================================================================
