\* Three campaigns, two of them with an end, against terminations of the catalog.
SPECIFICATION FairSpec
CONSTANTS
    foundations = foundations
    daily = daily
    rival = rival
    Never = Never
    Campaigns = {foundations, daily, rival}
    Default = foundations
    EndsAt <- SomeEnds
    GameId <- OneGame
    GameDetails <- SomeDetails
    MayTerminate = TRUE
    MayUpgrade = TRUE
    MaxTime = 2
INVARIANTS
    OpenCampaignsAreListed
    ListedCampaignsRun
    GamesAgree
PROPERTIES
    RegistrationEnds
    EndedCampaignsComplete
