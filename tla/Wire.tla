-------------------------------- MODULE Wire --------------------------------
(***************************************************************************)
(* JevJudge (src/src/jev): the request a QuestionSet becomes, what one     *)
(* exchange with the service can end in, and the answers or the JudgeError *)
(* the bus gets (jev/mod.rs, jev/wire.rs, jev/http.rs, judge.rs).          *)
(*                                                                         *)
(* A number on the wire is a float; those a Probability may hold are the   *)
(* points 0..Top of Routing's scale, every other number is one of the      *)
(* rest.  A level index is a decimal string on the wire: here a number     *)
(* with the order of those strings.  A level name is a number with the     *)
(* order of names.                                                         *)
(***************************************************************************)
EXTENDS Routing

CONSTANTS Top,      \* the last point of the probability scale
          NoNumber  \* an absent confidence

Points == 0..Top

-----------------------------------------------------------------------------
(* encode: the type tag, and under `criteria` the options or the levels.   *)

EncodeQuestion(q) == [type |-> q.kind, criteria |-> q.options]
Encode(questions) == [n \in DOMAIN questions |-> EncodeQuestion(questions[n])]

-----------------------------------------------------------------------------
(* JudgeError and is_transient.                                            *)

Fail(error)       == [ok |-> FALSE, error |-> error, status |-> 0]
Rejected(status)  == [ok |-> FALSE, error |-> "Rejected", status |-> status]
Answered(answers) == [ok |-> TRUE, answers |-> answers]

IsTransientStatus(s) == s \in {408, 429} \union 500..599
IsTransient(e) ==
    \/ e.error \in {"Unavailable", "TimedOut"}
    \/ e.error = "Rejected" /\ IsTransientStatus(e.status)

-----------------------------------------------------------------------------
(* decode.  A WireAnswer is of one of the three kinds.                     *)

\* Probability::new accepts it.
IsProbability(x)   == x \in Points
AllProbable(f)     == \A x \in DOMAIN f : IsProbability(f[x])
ConfidenceFits(a)  == a.confidence = NoNumber \/ IsProbability(a.confidence)

\* decode_score_distribution and most_likely_level have no error to report.
Scores(a) == /\ DOMAIN a.probabilities \subseteq DOMAIN a.legend
             /\ AllProbable(a.probabilities)
             /\ DOMAIN a.probabilities # {}

\* decode_answer returns no MalformedAnswer.
WellFormed(a) ==
    CASE a.kind = "Noul"   -> IsProbability(a.p)
      [] a.kind = "Choice" -> AllProbable(a.probabilities) /\ ConfidenceFits(a)
      [] a.kind = "Score"  -> Scores(a) /\ ConfidenceFits(a)

\* Mutant: the first of the indices that share a name stays.
DistributionFirst(a) ==
    LET FirstIndex(level) == Min({i \in DOMAIN a.probabilities : a.legend[i] = level})
    IN  [level \in {a.legend[i] : i \in DOMAIN a.probabilities} |-> a.probabilities[FirstIndex(level)]]

\* Re-keyed by name: where two indices share a name the last index stays.
Distribution(a) ==
    LET LastIndex(level) == Max({i \in DOMAIN a.probabilities : a.legend[i] = level})
    IN  [level \in {a.legend[i] : i \in DOMAIN a.probabilities} |-> a.probabilities[LastIndex(level)]]

\* Mutant: the last of the tied levels by name, as a plain max_by gives.
LastLikely(d) == Max({level \in DOMAIN d : \A other \in DOMAIN d : d[level] >= d[other]})

\* The highest probability; a tie goes to the first by name.
MostLikely(d) == Min({level \in DOMAIN d : \A other \in DOMAIN d : d[level] >= d[other]})

DecodeAnswer(a) ==
    IF a.kind # "Score" THEN a
    ELSE [kind |-> "Score", level |-> MostLikely(Distribution(a)),
          distribution |-> Distribution(a), confidence |-> a.confidence]

EmptyName == ""

\* Mutant: a malformed answer is left out.
DecodeLenient(response) ==
    Answered([n \in {m \in DOMAIN response : WellFormed(response[m])} |-> DecodeAnswer(response[n])])

\* All or nothing: collect stops at the first answer that is not well formed.
\* In name order the empty name is the first.
Decode(response) ==
    CASE EmptyName \in DOMAIN response -> Fail("MalformedReply")
      [] /\ EmptyName \notin DOMAIN response
         /\ \E n \in DOMAIN response : ~WellFormed(response[n]) -> Fail("MalformedAnswer")
      [] OTHER -> Answered([n \in DOMAIN response |-> DecodeAnswer(response[n])])

-----------------------------------------------------------------------------
(* One exchange: HttpSystemOne::ask, then JevJudge::judge.  A body that is *)
(* lost on its way, or is not a Response, is BadBody to json().            *)

NotSent        == [kind |-> "NotSent"]
Refusal(s)     == [kind |-> "Status", status |-> s]
BadBody        == [kind |-> "BadBody"]
Body(response) == [kind |-> "Body", response |-> response]

Ask(exchange) ==
    CASE exchange.kind = "NotSent" -> Fail("Unavailable")
      [] exchange.kind = "Status"  -> Rejected(exchange.status)
      [] exchange.kind = "BadBody" -> Fail("MalformedReply")
      [] exchange.kind = "Body"    -> Answered(exchange.response)

Judge(exchange) ==
    LET asked == Ask(exchange) IN IF asked.ok THEN Decode(asked.answers) ELSE asked
=============================================================================
