\* Four days and an instant of the fifth, and an archive of two.
SPECIFICATION Spec
CONSTANTS
    a = a
    b = b
    c = c
    d = d
    e = e
    f = f
    Answers = {a, b, c, d, e, f}
    Sound <- Levels
    LevelCount = 2
    History = 2
    ToolCalls = 2
    Attempts = 2
    DayLength = 2
    MaxTime = 8
SYMMETRY Symmetry
INVARIANTS
    NoAnswerComesBack
    NoDateComesBack
    TodayIsStarted
