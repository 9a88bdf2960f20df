\* Level children that can fail, the restart from nothing, and three days.
SPECIFICATION Spec
CONSTANTS
    c1 = c1
    c2 = c2
    h1 = h1
    h2 = h2
    s1 = s1
    s2 = s2
    NoHash = NoHash
    None = None
    Campaigns = {c1}
    MaxLevel = 2
    TotalLevels <- OneCampaign
    SingleAttempt = {c1}
    Awards = {1}
    Prices = {1}
    FreezeCost = 1
    Hashes = {h1, h2}
    Slots = {s1, s2}
    MaxDay = 3
    ChildMayFail = TRUE
SYMMETRY Symmetry
INVARIANTS
    OwnedIInv
    StreakGapsArePaid
PROPERTIES
    ImplementsAccount
