------------------------------ MODULE CacheKey -----------------------------
(***************************************************************************)
(* CacheKey::of (src/src/cache.rs): what is fed to the digest for a        *)
(* payload and a QuestionSet.  Every text is fed behind its length, so the *)
(* bytes determine the sequence of texts and a key is that sequence; two   *)
(* different ones are taken to have different digests.                     *)
(*                                                                         *)
(* A QuestionSet is the sequence of its names and questions, and criteria  *)
(* the sequence of their options and descriptions, in BTreeMap order.      *)
(***************************************************************************)
EXTENDS SequencesExt

NoulOf(instructions)             == [kind |-> "noul", instructions |-> instructions]
ChoiceOf(instructions, criteria) == [kind |-> "choice", instructions |-> instructions,
                                     criteria |-> criteria]
ScoreOf(instructions, levels)    == [kind |-> "score", instructions |-> instructions,
                                     levels |-> levels]

Named(name, question)     == [name |-> name, question |-> question]
Input(payload, questions) == [payload |-> payload, questions |-> questions]

\* plan of src/src/routing.rs; a subscription is its id and its instructions.
\* Both maps iterate by id, in whatever order the routes were registered: subs
\* is the routes of a bus in the order of their ids.
FanOutQuestions(subs) ==
    [i \in DOMAIN subs |-> Named(subs[i].id, NoulOf(subs[i].text))]
ExclusiveQuestions(subs) ==
    <<Named("route", ChoiceOf("which", [i \in DOMAIN subs |-> <<subs[i].id, subs[i].text>>]))>>

\* The texts after a question's instructions.
Rest(q) ==
    CASE q.kind = "noul"   -> <<>>
      [] q.kind = "choice" -> FlattenSeq(q.criteria)
      [] q.kind = "score"  -> q.levels

FeedQuestion(q) == <<q.kind, q.instructions>> \o Rest(q)

\* Mutant: the names are not fed.
KeyOfNameless(input) ==
    <<input.payload>> \o FlattenSeq([i \in DOMAIN input.questions |->
        FeedQuestion(input.questions[i].question)])

KeyOf(input) ==
    <<input.payload>> \o FlattenSeq([i \in DOMAIN input.questions |->
        <<input.questions[i].name>> \o FeedQuestion(input.questions[i].question)])
=============================================================================
