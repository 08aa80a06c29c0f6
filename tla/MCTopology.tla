---------------------------- MODULE MCTopology -----------------------------
\* Instances of Topology for TLC: one id is the name of the exclusive question.
EXTENDS Topology
TwoIds   == {"a", "route"}
\* (deliver, review): a review band, and one between the two zeros.
TwoPairs == {<<3, 2>>, <<1, 0>>}
Absent     == -1
\* Score answers over the levels 1 and 2.
ScoreOf(legend, probabilities, confidence) ==
    [kind |-> "Score", legend |-> legend, probabilities |-> probabilities,
     confidence |-> confidence]
\* A tie whose first index is the later name; a lead of the later name; one
\* name for two indices, the first of them in the lead; an index the legend
\* lacks; no level; a confidence that is no probability.
FewScores ==
    {ScoreOf(<<2, 1>>, <<2, 2>>, Absent), ScoreOf(<<1, 2>>, <<1, 3>>, 2),
     ScoreOf(<<1, 1, 2>>, <<3, 0, 1>>, Absent), ScoreOf(<<1>>, <<0, 3>>, Absent),
     ScoreOf(<<1>>, <<>>, Absent), ScoreOf(<<1>>, <<3>>, 4)}
=============================================================================
