\* Three players compete for two places.
SPECIFICATION Spec
CONSTANTS
    Players = {1, 2, 3}
    Gains = {1, 2}
    Size = 2
    MaxVersion = 2
    MaxQueue = 1
INVARIANTS
    BoardIsTop
    QuietBoardIsCurrent
PROPERTIES
    NobodyFallsBack
CHECK_DEADLOCK FALSE
