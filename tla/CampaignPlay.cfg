\* A player in two campaigns, one of which starts, ends and leaves the catalog.
SPECIFICATION PlaySpec
CONSTANTS
    foundations = foundations
    daily = daily
    encore = encore
    Never = Never
    NotJoined = NotJoined
    None = None
    Campaigns = {foundations, daily, encore}
    Default = foundations
    EndsAt <- SomeEnds
    GameId <- OneGame
    GameDetails <- OneTitle
    MayTerminate = FALSE
    MayUpgrade = FALSE
    MaxTime = 4
    StartsAt <- SomeStarts
    SingleAttempt = {daily}
    RequiredCampaigns <- SomeCampaigns
    RequiredLevels <- SomeLevels
    InitialLevels <- SomeInitial
    LevelsPerInterval <- SomePerInterval
    Interval <- SomeIntervals
    TotalLevels <- SomeTotals
INVARIANTS
    StartedLevelsWereUnlocked
    ShownTimesHold
    PrerequisitesAreMet
PROPERTIES
    GrantedAsShown
