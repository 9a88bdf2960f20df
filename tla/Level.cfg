\* Two requests, sent again to new runs, on two crossing words, under fairness.
SPECIFICATION LiveSpec
CONSTANTS
    c1 = c1
    c2 = c2
    c3 = c3
    r1 = r1
    r2 = r2
    s1 = s1
    s2 = s2
    None = None
    Wrong = Wrong
    Empty = Empty
    Puzzle <- Crossing
    FreeHints <- OneFreeBrush
    Limit = 2
    Tier = 1
    Ids = {r1, r2}
    MaxTries = 2
    Slots = {s1, s2}
    MaxTime = 2
INVARIANTS
    EndsAreRight
    ChargesAreShown
    NoSleepAfterTheEnd
PROPERTIES
    ImplementsGame
    UpdatesReturn
    LimitedLevelsReturn
CHECK_DEADLOCK FALSE
