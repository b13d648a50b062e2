SPECIFICATION Spec
CONSTANTS
    First <- MCFirst
    FollowUps <- MCFollowUps
    Targets <- MCTargets
    Answers <- MCAnswers
    Facts = {TRUE, FALSE}
    MinEntries = 3
    MinCacheable = 2
    MaxChars = 10
    StoreSize = 2
    MaxOthers = 2
    MaxTurns = 2
    MaxText = 2
    MaxCalls = 2
    MaxArgs = 1
INVARIANTS NothingLost ToolTurnsPaired  RetrievalIsExact  StoredTurnIsWhatClientSaw
CHECK_DEADLOCK FALSE
