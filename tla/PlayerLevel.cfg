\* A campaign of two levels: the first pays for hints in the second.
SPECIFICATION PLSpec
CONSTANTS
    c1 = c1
    h1 = h1
    r1 = r1
    s1 = s1
    s2 = s2
    NoHash = NoHash
    None = None
    Campaigns = {c1}
    MaxLevel = 2
    TotalLevels <- OneCampaign
    SingleAttempt = {}
    Awards = {2}
    Prices = {1}
    FreezeCost = 9
    Hashes = {h1}
    Slots = {s1, s2}
    MaxDay = 1
    ChildMayFail = TRUE
    Requests = {r1}
    SpendSlots = {s2}
INVARIANTS
    HintsArePaidOnce
PROPERTIES
    CompletionsCount
    RequestsReturn
    ResultsAreApplied
    ScoresArePublished
CHECK_DEADLOCK FALSE
