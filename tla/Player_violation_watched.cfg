\* Continue-As-New while the StartLevel handler is blocked.
SPECIFICATION Spec
CONSTANTS
    c1 = c1
    c2 = c2
    h1 = h1
    h2 = h2
    s1 = s1
    s2 = s2
    NoHash = NoHash
    None = None
    Campaigns = {c1}
    MaxLevel = 1
    TotalLevels <- OneCampaign
    SingleAttempt = {}
    Awards = {1}
    Prices = {}
    FreezeCost = 1
    Hashes = {h1}
    Slots = {s1}
    MaxDay = 1
    ChildMayFail = FALSE
INVARIANT
    ActiveGameIsWatched
