\* Every list of three short answers, and some of four.
SPECIFICATION FairSpec
CONSTANTS
    a = a
    b = b
    c = c
    d = d
    Letters = {a, b, c, d}
    Puzzles <- Lists
    Reach = 2
INVARIANTS
    PuzzleIsCrossword
    FailureMeansNoCrossword
PROPERTIES
    SearchEnds
CHECK_DEADLOCK FALSE
