\* Two Updates at a time, two campaigns, one day.
SPECIFICATION Spec
CONSTANTS
    c1 = c1
    c2 = c2
    h1 = h1
    h2 = h2
    s1 = s1
    s2 = s2
    NoHash = NoHash
    None = None
    Campaigns = {c1, c2}
    MaxLevel = 2
    TotalLevels <- TwoCampaigns
    SingleAttempt = {c2}
    Awards = {1}
    Prices = {1}
    FreezeCost = 1
    Hashes = {h1}
    Slots = {s1, s2}
    MaxDay = 1
    ChildMayFail = FALSE
SYMMETRY Symmetry
INVARIANTS
    OneOpenLevel
    NoResultIsDropped
    LevelsCompletedInOrder
    LostAttemptStaysLost
