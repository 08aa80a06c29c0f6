SPECIFICATION Spec
CONSTANTS
    Ids <- TwoIds
    Thresholds <- TwoPairs
    Top = 3
    NoNumber <- Absent
    Statuses = {400, 408, 429, 503}
    ScoreReplies <- FewScores
    MaxRoutes = 2
INVARIANTS
    BlueprintRoundTrip
    OneQuestionPerRoute
    OneVerdictPerRoute
    DecidedIffAnswered
    ExclusiveWinner
    LikeliestLevel
    ThresholdsReached
