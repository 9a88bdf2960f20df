------------------------------ MODULE Crossword ------------------------------
(***************************************************************************)
(* BuildPuzzle of internal/game/catalog.go: the depth-first search that    *)
(* lays the answers of a level out as a crossword.                         *)
(*                                                                         *)
(* Each call of placeRemaining is a frame: a layout, which it never        *)
(* changes, and the placements it has not tried.  Which of them comes next *)
(* is left open.  The grid of a frame is derived from its layout, and the  *)
(* order in which words were placed is left out: a layout is a set.        *)
(***************************************************************************)
EXTENDS Integers, Sequences, SequencesExt

CONSTANTS
    Letters,
    Puzzles,   \* the lists of answers (LevelDefinition.Words) to build
    Reach      \* bound: coordinates that FailureMeansNoCrossword looks at

ASSUME CrosswordAssumption ==
    /\ Puzzles \subseteq Seq(Seq(Letters) \ {<<>>}) \ {<<>>}
    /\ Reach \in Nat

VARIABLES
    answers,  \* the list that is built
    frames,   \* the stack of placeRemaining
    result,   \* "searching", "built" or "failed"
    puzzle    \* Puzzle.Words once it is built

vars == <<answers, frames, result, puzzle>>

PlacedWord == [word: Nat \ {0}, row: Int, col: Int, direction: {"across", "down"}]

-----------------------------------------------------------------------------
(* The grid. *)

Size(w) == Len(answers[w.word])

\* wordPoint, for the indices of the word.
Cells(w) ==
    IF w.direction = "across"
    THEN {w.row} \X (w.col .. w.col + Size(w) - 1)
    ELSE (w.row .. w.row + Size(w) - 1) \X {w.col}

\* The letter of a word at one of its cells.
LetterAt(w, p) == answers[w.word][1 + (p[1] - w.row) + (p[2] - w.col)]

\* writeWord, for all words of the layout.
Grid(layout) == UNION {Cells(w) : w \in layout}

Left(p)  == <<p[1], p[2] - 1>>
Right(p) == <<p[1], p[2] + 1>>
Above(p) == <<p[1] - 1, p[2]>>
Below(p) == <<p[1] + 1, p[2]>>

Sides(w, p) == IF w.direction = "across" THEN {Above(p), Below(p)} ELSE {Left(p), Right(p)}

Ends(w) ==
    IF w.direction = "across" THEN {<<w.row, w.col - 1>>, <<w.row, w.col + Size(w)>>}
    ELSE {<<w.row - 1, w.col>>, <<w.row + Size(w), w.col>>}

\* No other letter touches the ends of the word.
EndsClear(w, layout) == Ends(w) \cap Grid(layout) = {}

\* A cell that is written already has the letter, and no parallel word.
Crosses(w, p, layout) ==
    \A v \in layout : p \in Cells(v) =>
        v.direction # w.direction /\ LetterAt(v, p) = LetterAt(w, p)

\* Fault: new cells are not kept apart from their neighbours.
FitsTouching(w, layout) ==
    /\ EndsClear(w, layout)
    /\ \A p \in Cells(w) : Crosses(w, p, layout)
    /\ Cells(w) \cap Grid(layout) # {}

\* placementFits
PlacementFits(w, layout) ==
    /\ EndsClear(w, layout)
    /\ \A p \in Cells(w) :
        IF p \in Grid(layout) THEN Crosses(w, p, layout)
        ELSE Sides(w, p) \cap Grid(layout) = {}
    /\ Cells(w) \cap Grid(layout) # {}

\* The word with its letter j on the letter i of v, at a right angle to v.
Crossing(word, j, v, i) ==
    IF v.direction = "across"
    THEN [word |-> word, row |-> v.row - (j - 1), col |-> v.col + (i - 1), direction |-> "down"]
    ELSE [word |-> word, row |-> v.row + (i - 1), col |-> v.col - (j - 1), direction |-> "across"]

\* findPlacements
FindPlacements(word, layout) ==
    {w \in UNION {{Crossing(word, ji[1], v, ji[2]) :
                    ji \in {x \in (1 .. Len(answers[word])) \X (1 .. Size(v)) :
                              answers[word][x[1]] = answers[v.word][x[2]]}} : v \in layout} :
        PlacementFits(w, layout)}

-----------------------------------------------------------------------------
(* The search. *)

\* The stable sort puts the first of the longest answers first.
SortsFirst(word) ==
    \A other \in DOMAIN answers \ {word} :
        \/ Len(answers[word]) > Len(answers[other])
        \/ Len(answers[word]) = Len(answers[other]) /\ word < other

FirstWord(word) == [word |-> word, row |-> 0, col |-> 0, direction |-> "across"]

Remaining(layout) == DOMAIN answers \ {w.word : w \in layout}

Frame(layout, words) ==
    [layout |-> layout, untried |-> UNION {FindPlacements(word, layout) : word \in words}]

\* Fault: a word that cannot be placed yet is not put off.
CallInOrder(layout) ==
    Frame(layout, {word \in Remaining(layout) : \A other \in Remaining(layout) : word <= other})

\* A call of placeRemaining, which may take the remaining words in any order.
Call(layout) == Frame(layout, Remaining(layout))

Init ==
    /\ answers \in Puzzles
    /\ \E word \in DOMAIN answers :
        SortsFirst(word) /\ frames = <<Call({FirstWord(word)})>>
    /\ result = "searching" /\ puzzle = {}

Top == Last(frames)

Tries(placement, untried) ==
    frames' = Append([frames EXCEPT ![Len(frames)].untried = untried],
                     Call(Top.layout \cup {placement}))

\* Fault: the loop over the placements starts over.
TryAgain(placement) == Tries(placement, Top.untried)

Try(placement) == Tries(placement, Top.untried \ {placement})

Descend ==
    /\ result = "searching"
    /\ \E placement \in Top.untried : Try(placement)
    /\ UNCHANGED <<answers, result, puzzle>>

MovedUpLeft(layout, rows, cols) ==
    {[w EXCEPT !.row = @ - rows, !.col = @ - cols] : w \in layout}

\* normalize, which moves the layout to row 0 and column 0.
Normalizes(layout) ==
    \E top, left \in layout :
        /\ \A w \in layout : top.row <= w.row /\ left.col <= w.col
        /\ puzzle' = MovedUpLeft(layout, top.row, left.col)

\* No word is left: every caller returns the layout.
Complete ==
    /\ result = "searching" /\ Remaining(Top.layout) = {}
    /\ result' = "built" /\ Normalizes(Top.layout)
    /\ UNCHANGED <<answers, frames>>

\* The caller goes on with its next placement; the first call fails.
Returns ==
    IF Len(frames) = 1 THEN result' = "failed" /\ UNCHANGED frames
    ELSE frames' = Front(frames) /\ UNCHANGED result

Backtrack ==
    /\ result = "searching" /\ Remaining(Top.layout) # {} /\ Top.untried = {}
    /\ Returns
    /\ UNCHANGED <<answers, puzzle>>

Next == Descend \/ Complete \/ Backtrack

Spec == Init /\ [][Next]_vars

\* The search is sequential code.
FairSpec == Spec /\ WF_vars(Next)

-----------------------------------------------------------------------------
(* Properties. *)

\* Every variable has its type, and the search has a frame to work in.
TypeOK ==
    /\ answers \in Puzzles
    /\ frames \in Seq([layout: SUBSET PlacedWord, untried: SUBSET PlacedWord]) \ {<<>>}
    /\ result \in {"searching", "built", "failed"}
    /\ puzzle \in SUBSET PlacedWord

\* Two words share a cell only at a right angle, with the same letter.
WordsCross(layout) ==
    \A v, w \in layout : v # w => \A p \in Cells(v) \cap Cells(w) :
        v.direction # w.direction /\ LetterAt(v, p) = LetterAt(w, p)

\* Letters that touch belong to a word.  With WordsCross, each line of two or
\* more letters is exactly one of the words.
LettersJoin(layout) ==
    \A p \in Grid(layout) :
        /\ Right(p) \in Grid(layout) =>
              \E w \in layout : w.direction = "across" /\ {p, Right(p)} \subseteq Cells(w)
        /\ Below(p) \in Grid(layout) =>
              \E w \in layout : w.direction = "down" /\ {p, Below(p)} \subseteq Cells(w)

\* No part of the layout is apart from the rest.
Connected(layout) ==
    \A part \in SUBSET layout : part \notin {{}, layout} =>
        \E v \in part, w \in layout \ part : Cells(v) \cap Cells(w) # {}

IsCrossword(layout) == WordsCross(layout) /\ LettersJoin(layout) /\ Connected(layout)

\* Every layout the search holds, and comes back to, reads as its words only.
LayoutsAreCrosswords == \A i \in DOMAIN frames : IsCrossword(frames[i].layout)

\* The puzzle is a crossword with each answer once, in the corner of the grid.
PuzzleIsCrossword ==
    result = "built" =>
        /\ IsCrossword(puzzle)
        /\ \A word \in DOMAIN answers : \E w \in puzzle : w.word = word
        /\ \A v, w \in puzzle : v.word = w.word => v = w
        /\ Grid(puzzle) \subseteq Nat \X Nat
        /\ \E p, q \in Grid(puzzle) : p[1] = 0 /\ q[2] = 0

\* The layouts of the list with this word in the first place.
LayoutsAround(first) ==
    LET others == DOMAIN answers \ {first}
        placements ==
            {w \in [word: others, row: -Reach .. Reach, col: -Reach .. Reach,
                    direction: {"across", "down"}] : WordsCross({FirstWord(first), w})}
    IN  {{FirstWord(first)} \cup {place[word] : word \in others} :
            place \in {f \in [others -> placements] : \A word \in others : f[word].word = word}}

\* The builder gives a list of up to three answers up only if no crossword
\* holds them, whatever it tried first.
FailureMeansNoCrossword ==
    result = "failed" /\ Len(answers) <= 3 =>
        \A word \in DOMAIN answers : SortsFirst(word) =>
            \A layout \in LayoutsAround(word) : ~IsCrossword(layout)

\* Whatever placements it tries, the search ends.
SearchEnds == <>(result # "searching")

-----------------------------------------------------------------------------
(* The inductive invariant behind them. *)

\* A layout holds each word at most once.
LayoutOK(layout) ==
    /\ \A w \in layout : w \in PlacedWord /\ w.word \in DOMAIN answers
    /\ \A v, w \in layout : v.word = w.word => v = w
    /\ IsCrossword(layout)

\* What a frame has not tried fits its layout, whatever was tried below it.
FrameOK(frame) ==
    /\ LayoutOK(frame.layout)
    /\ \A w \in frame.untried :
        /\ w \in PlacedWord /\ w.word \in Remaining(frame.layout)
        /\ PlacementFits(w, frame.layout)

IInv ==
    /\ TypeOK /\ PuzzleIsCrossword
    /\ \A i \in DOMAIN frames : FrameOK(frames[i])

\* The search has not passed the layout by: a frame has a part of it, and has not
\* tried what comes next in it.
Ahead(layout) ==
    \E i \in DOMAIN frames :
        /\ frames[i].layout \subseteq layout
        /\ \/ frames[i].untried \cap layout # {}
           \/ i = Len(frames) /\ Remaining(frames[i].layout) = {}

\* Of up to three answers, every crossword is ahead until one is found.
SearchInv ==
    result = "searching" /\ Len(answers) <= 3 =>
        \A word \in DOMAIN answers : SortsFirst(word) =>
            \A layout \in LayoutsAround(word) : IsCrossword(layout) => Ahead(layout)

=============================================================================
