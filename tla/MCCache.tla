------------------------------ MODULE MCCache ------------------------------
\* Instances of Cache for TLC.
EXTENDS Cache, TLC
CONSTANTS c1, c2
Symmetry == Permutations({c1, c2})

\* The questions of buses that share a Cached, as near to each other as plan can
\* make them: a payload that reads like an id, a route named like the exclusive
\* question, and that question with two routes.
Route(id) == [id |-> id, text |-> "text"]
Planned == {Input("p", FanOutQuestions(<<Route("a")>>)),
            Input("a", FanOutQuestions(<<Route("a")>>)),
            Input("p", FanOutQuestions(<<Route("route")>>)),
            Input("p", ExclusiveQuestions(<<Route("a"), Route("route")>>))}

\* A Score whose last levels read like the question after it.
Colliding == {Input("p", <<Named("q", ScoreOf("i", <<"low">>)), Named("y", NoulOf("z"))>>),
              Input("p", <<Named("q", ScoreOf("i", <<"low", "y", "noul", "z">>))>>)}
=============================================================================
