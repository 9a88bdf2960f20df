--------------------------- MODULE CrosswordProofs ---------------------------
(* Proofs about Crossword: every layout the builder holds is a crossword, and *)
(* of up to three answers it finds one if there is one.                       *)
EXTENDS Crossword, SequenceTheorems, TLAPS

\* The cells of a word are pairs of integers, in one line.
LEMMA CellsOf ==
    ASSUME NEW w \in PlacedWord, w.word \in DOMAIN answers, answers \in Puzzles, NEW p
    PROVE  /\ Size(w) \in Nat \ {0}
           /\ p \in Cells(w) <=>
                /\ p = <<p[1], p[2]>> /\ p[1] \in Int /\ p[2] \in Int
                /\ w.direction = "across" =>
                      p[1] = w.row /\ w.col <= p[2] /\ p[2] < w.col + Size(w)
                /\ w.direction = "down" =>
                      p[2] = w.col /\ w.row <= p[1] /\ p[1] < w.row + Size(w)
  <1>1. answers \in Seq(Seq(Letters) \ {<<>>})
    BY CrosswordAssumption
  <1>2. answers[w.word] \in Seq(Letters) \ {<<>>}
    BY <1>1
  <1>3. Size(w) \in Nat \ {0}
    BY <1>2 DEF Size
  <1>4. w.row \in Int /\ w.col \in Int /\ w.direction \in {"across", "down"}
    BY DEF PlacedWord
  <1>5. CASE w.direction = "across"
    BY <1>3, <1>4, <1>5 DEF Cells
  <1>6. CASE w.direction = "down"
    BY <1>3, <1>4, <1>6 DEF Cells
  <1> QED BY <1>3, <1>4, <1>5, <1>6

Fitting(w, layout) ==
    /\ answers \in Puzzles
    /\ \A v \in layout \cup {w} : v \in PlacedWord /\ v.word \in DOMAIN answers
    /\ PlacementFits(w, layout)

\* A word that fits crosses the others at right angles and on equal letters.
LEMMA FittingCrosses ==
    ASSUME NEW layout, NEW w, Fitting(w, layout), WordsCross(layout)
    PROVE  WordsCross(layout \cup {w})
  <1>1. ASSUME NEW u \in layout, NEW p \in Cells(u) \cap Cells(w)
        PROVE  u.direction # w.direction /\ LetterAt(u, p) = LetterAt(w, p)
    <2>1. p \in Grid(layout)
      BY <1>1 DEF Grid
    <2> QED BY <1>1, <2>1 DEF Fitting, PlacementFits, Crosses
  <1> SUFFICES ASSUME NEW u \in layout \cup {w}, NEW v \in layout \cup {w}, u # v,
                      NEW p \in Cells(u) \cap Cells(v)
               PROVE  u.direction # v.direction /\ LetterAt(u, p) = LetterAt(v, p)
    BY DEF WordsCross
  <1>2. CASE u \in layout /\ v \in layout
    BY <1>2 DEF WordsCross
  <1>3. CASE u = w
    BY <1>1, <1>3
  <1>4. CASE v = w
    BY <1>1, <1>4
  <1> QED BY <1>2, <1>3, <1>4

\* Next to a cell of the new word lies the word itself, or a cell that was
\* written before, next to another one.
LEMMA NextToFitting ==
    ASSUME NEW layout, NEW w, Fitting(w, layout),
           NEW p \in Int \X Int, NEW q \in Int \X Int,
           \/ q = Right(p) /\ w.direction = "down"
           \/ q = Below(p) /\ w.direction = "across",
           p \in Grid(layout \cup {w}), q \in Grid(layout \cup {w})
    PROVE  p \in Grid(layout) /\ q \in Grid(layout)
  <1>1. /\ answers \in Puzzles /\ w \in PlacedWord /\ w.word \in DOMAIN answers
        /\ w.row \in Int /\ w.col \in Int
    BY DEF Fitting, PlacedWord
  <1>2. ~(p \in Cells(w) /\ q \in Cells(w))
    BY <1>1, CellsOf DEF Right, Below
  <1>3. p \in Cells(w) \cup Grid(layout) /\ q \in Cells(w) \cup Grid(layout)
    BY DEF Grid
  <1>4. p = <<p[1], p[2]>> /\ p[1] \in Int /\ p[2] \in Int
    OBVIOUS
  <1>5. ASSUME p \in Cells(w), p \notin Grid(layout) PROVE FALSE
    <2>1. q \in Sides(w, p)
      BY DEF Sides
    <2> QED BY <1>2, <1>3, <1>5, <2>1 DEF Fitting, PlacementFits
  <1>6. ASSUME q \in Cells(w), q \notin Grid(layout) PROVE FALSE
    <2>1. p \in Sides(w, q)
      BY <1>4 DEF Sides, Left, Right, Above, Below
    <2> QED BY <1>2, <1>3, <1>6, <2>1 DEF Fitting, PlacementFits
  <1> QED BY <1>3, <1>5, <1>6

\* Along the new word: both cells are its own, or both were written before.
LEMMA AlongFitting ==
    ASSUME NEW layout, NEW w, Fitting(w, layout),
           NEW p \in Int \X Int, NEW q \in Int \X Int,
           \/ q = Right(p) /\ w.direction = "across"
           \/ q = Below(p) /\ w.direction = "down",
           p \in Grid(layout \cup {w}), q \in Grid(layout \cup {w})
    PROVE  {p, q} \subseteq Cells(w) \/ (p \in Grid(layout) /\ q \in Grid(layout))
  <1>1. /\ answers \in Puzzles /\ w \in PlacedWord /\ w.word \in DOMAIN answers
        /\ w.row \in Int /\ w.col \in Int
    BY DEF Fitting, PlacedWord
  <1>2. p \in Cells(w) \cup Grid(layout) /\ q \in Cells(w) \cup Grid(layout)
    BY DEF Grid
  <1>3. p = <<p[1], p[2]>> /\ p[1] \in Int /\ p[2] \in Int
    OBVIOUS
  <1>4. Ends(w) \cap Grid(layout) = {}
    BY DEF Fitting, PlacementFits, EndsClear
  <1>5. ASSUME p \in Cells(w), q \notin Cells(w) PROVE q \in Ends(w)
    BY <1>1, <1>3, <1>5, CellsOf DEF Ends, Right, Below
  <1>6. ASSUME q \in Cells(w), p \notin Cells(w) PROVE p \in Ends(w)
    BY <1>1, <1>3, <1>6, CellsOf DEF Ends, Right, Below
  <1> QED BY <1>2, <1>4, <1>5, <1>6

\* A word that fits leaves every line a word.
LEMMA FittingJoins ==
    ASSUME NEW layout, NEW w, Fitting(w, layout), LettersJoin(layout)
    PROVE  LettersJoin(layout \cup {w})
  <1>1. ASSUME NEW p \in Grid(layout \cup {w}) PROVE p \in Int \X Int
    <2>1. PICK v \in layout \cup {w} : p \in Cells(v)
      BY <1>1 DEF Grid
    <2> QED BY <2>1, CellsOf DEF Fitting
  <1> SUFFICES ASSUME NEW p \in Grid(layout \cup {w})
               PROVE  /\ Right(p) \in Grid(layout \cup {w}) =>
                            \E v \in layout \cup {w} :
                                v.direction = "across" /\ {p, Right(p)} \subseteq Cells(v)
                      /\ Below(p) \in Grid(layout \cup {w}) =>
                            \E v \in layout \cup {w} :
                                v.direction = "down" /\ {p, Below(p)} \subseteq Cells(v)
    BY DEF LettersJoin
  <1>2. p \in Int \X Int
    BY <1>1
  <1>3. w.direction \in {"across", "down"}
    BY DEF Fitting, PlacedWord
  <1>4. ASSUME Right(p) \in Grid(layout \cup {w})
        PROVE  \E v \in layout \cup {w} : v.direction = "across" /\ {p, Right(p)} \subseteq Cells(v)
    <2>1. Right(p) \in Int \X Int
      BY <1>1, <1>4
    <2>2. CASE w.direction = "across"
      <3>1. {p, Right(p)} \subseteq Cells(w) \/ (p \in Grid(layout) /\ Right(p) \in Grid(layout))
        BY <1>2, <1>4, <2>1, <2>2, AlongFitting
      <3> QED BY <2>2, <3>1 DEF LettersJoin
    <2>3. CASE w.direction = "down"
      <3>1. p \in Grid(layout) /\ Right(p) \in Grid(layout)
        BY <1>2, <1>4, <2>1, <2>3, NextToFitting
      <3> QED BY <3>1 DEF LettersJoin
    <2> QED BY <1>3, <2>2, <2>3
  <1>5. ASSUME Below(p) \in Grid(layout \cup {w})
        PROVE  \E v \in layout \cup {w} : v.direction = "down" /\ {p, Below(p)} \subseteq Cells(v)
    <2>1. Below(p) \in Int \X Int
      BY <1>1, <1>5
    <2>2. CASE w.direction = "down"
      <3>1. {p, Below(p)} \subseteq Cells(w) \/ (p \in Grid(layout) /\ Below(p) \in Grid(layout))
        BY <1>2, <1>5, <2>1, <2>2, AlongFitting
      <3> QED BY <2>2, <3>1 DEF LettersJoin
    <2>3. CASE w.direction = "across"
      <3>1. p \in Grid(layout) /\ Below(p) \in Grid(layout)
        BY <1>2, <1>5, <2>1, <2>3, NextToFitting
      <3> QED BY <3>1 DEF LettersJoin
    <2> QED BY <1>3, <2>2, <2>3
  <1> QED BY <1>4, <1>5

\* A word that fits is not apart from the rest.
LEMMA FittingConnects ==
    ASSUME NEW layout, NEW w, Fitting(w, layout), Connected(layout)
    PROVE  Connected(layout \cup {w})
  <1>1. PICK u \in layout : Cells(u) \cap Cells(w) # {}
    BY DEF Fitting, PlacementFits, Grid
  <1> SUFFICES ASSUME NEW part \in SUBSET (layout \cup {w}), part \notin {{}, layout \cup {w}}
               PROVE  \E v \in part, x \in (layout \cup {w}) \ part : Cells(v) \cap Cells(x) # {}
    BY DEF Connected
  <1>2. CASE part \cap layout \notin {{}, layout}
    <2>1. PICK v \in part \cap layout, x \in layout \ (part \cap layout) : Cells(v) \cap Cells(x) # {}
      BY <1>2 DEF Connected
    <2> QED BY <2>1
  <1>3. CASE part \cap layout = {}
    <2>1. w \in part /\ u \notin part
      BY <1>3
    <2> QED BY <1>1, <2>1
  <1>4. CASE part \cap layout = layout
    <2>1. w \notin part /\ u \in part
      BY <1>4
    <2> QED BY <1>1, <2>1
  <1> QED BY <1>2, <1>3, <1>4

-----------------------------------------------------------------------------
(* The search. *)

\* What is said of a layout depends on the answers only.
LEMMA SameAnswers ==
    ASSUME answers' = answers, NEW layout, NEW frame
    PROVE  /\ IsCrossword(layout)' <=> IsCrossword(layout)
           /\ LayoutOK(layout)' <=> LayoutOK(layout)
           /\ FrameOK(frame)' <=> FrameOK(frame)
  <1>1. IsCrossword(layout)' <=> IsCrossword(layout)
    BY DEF IsCrossword, WordsCross, LettersJoin, Connected, Grid, Cells, Size, LetterAt
  <1>2. LayoutOK(layout)' <=> LayoutOK(layout)
    BY <1>1 DEF LayoutOK
  <1>3. IsCrossword(frame.layout)' <=> IsCrossword(frame.layout)
    BY DEF IsCrossword, WordsCross, LettersJoin, Connected, Grid, Cells, Size, LetterAt
  <1>4. ASSUME NEW w PROVE PlacementFits(w, frame.layout)' <=> PlacementFits(w, frame.layout)
    BY DEF PlacementFits, EndsClear, Crosses, Ends, Sides, Grid, Cells, Size, LetterAt
  <1>5. FrameOK(frame)' <=> FrameOK(frame)
    BY <1>3, <1>4 DEF FrameOK, LayoutOK, Remaining
  <1> QED BY <1>1, <1>2, <1>5

\* A call starts from the placements that fit its layout.
LEMMA CallOK ==
    ASSUME answers \in Puzzles, NEW layout, layout \subseteq PlacedWord, LayoutOK(layout)
    PROVE  FrameOK(Call(layout)) /\ Call(layout) \in [layout: SUBSET PlacedWord, untried: SUBSET PlacedWord]
  <1>1. Call(layout).layout = layout
    BY DEF Call, Frame
  <1>2. ASSUME NEW w \in Call(layout).untried
        PROVE  w \in PlacedWord /\ w.word \in Remaining(layout) /\ PlacementFits(w, layout)
    <2>1. PICK word \in Remaining(layout) : w \in FindPlacements(word, layout)
      BY <1>2 DEF Call, Frame
    <2>2. PlacementFits(w, layout)
      BY <2>1 DEF FindPlacements
    <2>0. PICK v \in layout : \E ji \in (1 .. Len(answers[word])) \X (1 .. Size(v)) :
             w = Crossing(word, ji[1], v, ji[2])
      BY <2>1 DEF FindPlacements
    <2>3. PICK j \in 1 .. Len(answers[word]), i \in 1 .. Size(v) : w = Crossing(word, j, v, i)
      BY <2>0
    <2>4. word \in Nat \ {0} /\ Len(answers[word]) \in Nat /\ Size(v) \in Nat
      <3>1. answers \in Seq(Seq(Letters) \ {<<>>})
        BY CrosswordAssumption
      <3>2. word \in DOMAIN answers /\ v.word \in DOMAIN answers
        BY <2>1 DEF Remaining, LayoutOK
      <3> QED BY <3>1, <3>2 DEF Size
    <2>5. v.row \in Int /\ v.col \in Int
      BY DEF PlacedWord
    <2>6. w \in PlacedWord /\ w.word = word
      BY <2>3, <2>4, <2>5 DEF Crossing, PlacedWord
    <2> QED BY <2>1, <2>2, <2>6
  <1>3. FrameOK(Call(layout))
    BY <1>1, <1>2 DEF FrameOK
  <1>4. Call(layout).untried \subseteq PlacedWord
    BY <1>2
  <1> QED BY <1>1, <1>3, <1>4 DEF Call, Frame

\* The layout with a placement its frame has not tried.
LEMMA PlacedOK ==
    ASSUME answers \in Puzzles, NEW frame, FrameOK(frame), NEW w \in frame.untried
    PROVE  LayoutOK(frame.layout \cup {w})
  <1>1. /\ w \in PlacedWord /\ w.word \in Remaining(frame.layout)
        /\ PlacementFits(w, frame.layout) /\ LayoutOK(frame.layout)
    BY DEF FrameOK
  <1>2. Fitting(w, frame.layout)
    BY <1>1 DEF Fitting, LayoutOK, Remaining
  <1>3. IsCrossword(frame.layout \cup {w})
    BY <1>1, <1>2, FittingCrosses, FittingJoins, FittingConnects DEF IsCrossword, LayoutOK
  <1>4. \A v \in frame.layout : v.word # w.word
    BY <1>1 DEF Remaining
  <1> QED BY <1>1, <1>3, <1>4 DEF LayoutOK, Remaining

\* The first word alone.
LEMMA FirstOK ==
    ASSUME answers \in Puzzles, NEW word \in DOMAIN answers
    PROVE  {FirstWord(word)} \subseteq PlacedWord /\ LayoutOK({FirstWord(word)})
  <1> DEFINE w == FirstWord(word)
  <1>1. answers \in Seq(Seq(Letters) \ {<<>>})
    BY CrosswordAssumption
  <1>2. w \in PlacedWord /\ w.word = word
    BY <1>1 DEF FirstWord, PlacedWord
  <1>3. w.direction = "across"
    BY DEF FirstWord
  <1> HIDE DEF w
  <1>4. Grid({w}) = Cells(w)
    BY DEF Grid
  <1>5. LettersJoin({w})
    <2> SUFFICES ASSUME NEW p \in Cells(w)
                 PROVE  Below(p) \notin Cells(w)
      BY <1>3, <1>4 DEF LettersJoin
    <2> QED BY <1>2, <1>3, CellsOf DEF Below, PlacedWord
  <1>6. WordsCross({w}) /\ Connected({w})
    BY DEF WordsCross, Connected
  <1> QED BY <1>2, <1>5, <1>6 DEF LayoutOK, IsCrossword, w

LEMMA InitHolds == Init => IInv
  <1> SUFFICES ASSUME Init PROVE IInv
    OBVIOUS
  <1>1. PICK word \in DOMAIN answers : frames = <<Call({FirstWord(word)})>>
    BY DEF Init
  <1>2. answers \in Puzzles
    BY DEF Init
  <1>3. /\ FrameOK(Call({FirstWord(word)}))
        /\ Call({FirstWord(word)}) \in [layout: SUBSET PlacedWord, untried: SUBSET PlacedWord]
    BY <1>2, FirstOK, CallOK
  <1>4. \A i \in DOMAIN frames : FrameOK(frames[i])
    BY <1>1, <1>3
  <1>5. TypeOK
    BY <1>1, <1>2, <1>3 DEF Init, TypeOK
  <1>6. PuzzleIsCrossword
    BY DEF Init, PuzzleIsCrossword
  <1> QED BY <1>4, <1>5, <1>6 DEF IInv

LEMMA DescendStep ==
    ASSUME IInv, Descend
    PROVE  TypeOK' /\ \A i \in DOMAIN frames' : FrameOK(frames'[i])
  <1> DEFINE n == Len(frames)
             FrameSet == [layout: SUBSET PlacedWord, untried: SUBSET PlacedWord]
  <1>1. /\ frames \in Seq(FrameSet) /\ frames # <<>> /\ n \in Nat \ {0} /\ n \in DOMAIN frames
        /\ answers \in Puzzles
    BY DEF IInv, TypeOK
  <1>2. Top = frames[n]
    BY DEF Top, Last
  <1>3. PICK w \in frames[n].untried : Try(w)
    BY <1>2 DEF Descend
  <1> DEFINE rest == [frames[n] EXCEPT !.untried = @ \ {w}]
             next == Call(frames[n].layout \cup {w})
  <1>4. frames' = Append([frames EXCEPT ![n] = rest], next)
    BY <1>1, <1>2, <1>3 DEF Try, Tries
  <1>5. FrameOK(frames[n]) /\ frames[n] \in FrameSet
    <2> HIDE DEF n, FrameSet
    <2>1. frames[n] \in FrameSet
      BY <1>1
    <2> QED BY <1>1, <2>1 DEF IInv
  <1>6. w \in PlacedWord
    BY <1>5
  <1>7. FrameOK(next) /\ next \in FrameSet
    <2>1. frames[n].layout \cup {w} \subseteq PlacedWord /\ LayoutOK(frames[n].layout \cup {w})
      BY <1>1, <1>5, <1>6, PlacedOK
    <2> QED BY <1>1, <2>1, CallOK
  <1>8. FrameOK(rest) /\ rest \in FrameSet
    BY <1>5 DEF FrameOK
  <1> HIDE DEF next, rest
  <1>9. frames' \in Seq(FrameSet) \ {<<>>}
    BY <1>1, <1>4, <1>7, <1>8
  <1>10. \A i \in DOMAIN frames' : FrameOK(frames'[i])
    <2> SUFFICES ASSUME NEW i \in 1 .. n + 1 PROVE FrameOK(frames'[i])
      BY <1>1, <1>4
    <2>1. CASE i = n + 1
      BY <1>1, <1>4, <1>7, <2>1
    <2>2. CASE i = n
      BY <1>1, <1>4, <1>8, <2>2
    <2>3. CASE i \in 1 .. n - 1
      <3>1. frames'[i] = frames[i]
        BY <1>1, <1>4, <2>3
      <3> QED BY <1>1, <2>3, <3>1 DEF IInv
    <2> QED BY <1>1, <2>1, <2>2, <2>3
  <1> QED BY <1>9, <1>10 DEF Descend, IInv, TypeOK

LEMMA BacktrackStep ==
    ASSUME IInv, Backtrack
    PROVE  TypeOK' /\ \A i \in DOMAIN frames' : FrameOK(frames'[i])
  <1> DEFINE FrameSet == [layout: SUBSET PlacedWord, untried: SUBSET PlacedWord]
  <1>1. frames \in Seq(FrameSet) /\ frames # <<>> /\ Len(frames) \in Nat \ {0}
    BY DEF IInv, TypeOK
  <1>2. CASE Len(frames) = 1
    BY <1>2 DEF IInv, TypeOK, Backtrack, Returns
  <1>3. CASE Len(frames) # 1
    <2>1. frames' = SubSeq(frames, 1, Len(frames) - 1) /\ UNCHANGED result
      BY <1>3 DEF Backtrack, Returns, Front
    <2>2. /\ frames' \in Seq(FrameSet) \ {<<>>} /\ Len(frames') = Len(frames) - 1
          /\ \A i \in 1 .. Len(frames) - 1 : frames'[i] = frames[i]
      <3> HIDE DEF FrameSet
      <3>1. /\ frames' \in Seq(FrameSet) /\ Len(frames') = Len(frames) - 1
            /\ \A i \in 1 .. Len(frames) - 1 : frames'[i] = frames[i]
        <4> DEFINE n == Len(frames) - 1
        <4>1. n \in Nat \ {0} /\ \A i \in 1 .. n : frames[i] \in FrameSet
          BY <1>1, <1>3
        <4>2. frames' = SubSeq(frames, 1, n)
          BY <2>1
        <4> HIDE DEF n
        <4>3. /\ SubSeq(frames, 1, n) \in Seq(FrameSet)
              /\ Len(SubSeq(frames, 1, n)) = IF 1 <= n THEN n - 1 + 1 ELSE 0
              /\ \A i \in 1 .. n - 1 + 1 : SubSeq(frames, 1, n)[i] = frames[1 + i - 1]
          <5>1. 1 \in Int /\ n \in Int
            BY <4>1
          <5> QED BY <4>1, <5>1, SubSeqProperties
        <4>4. Len(SubSeq(frames, 1, n)) = n
          BY <4>1, <4>3
        <4>5. \A i \in 1 .. n : SubSeq(frames, 1, n)[i] = frames[i]
          <5> TAKE i \in 1 .. n
          <5>1. 1 + i - 1 = i /\ i \in 1 .. n - 1 + 1
            BY <4>1
          <5> QED BY <4>3, <5>1
        <4> QED BY <4>2, <4>3, <4>4, <4>5 DEF n
      <3> QED BY <1>1, <1>3, <3>1
    <2>3. \A i \in DOMAIN frames' : FrameOK(frames'[i])
      BY <1>1, <2>2 DEF IInv
    <2> QED BY <2>1, <2>2, <2>3 DEF IInv, TypeOK, Backtrack
  <1> QED BY <1>2, <1>3

-----------------------------------------------------------------------------
(* The puzzle is the last layout, moved. *)

Move(w, rows, cols) == [w EXCEPT !.row = @ - rows, !.col = @ - cols]

Back(p, rows, cols) == <<p[1] + rows, p[2] + cols>>

\* A cell of the moved word is a moved cell of the word, with its letter.
LEMMA MovedCells ==
    ASSUME answers \in Puzzles, NEW w \in PlacedWord, w.word \in DOMAIN answers,
           NEW rows \in Int, NEW cols \in Int, NEW p \in Int \X Int
    PROVE  /\ Move(w, rows, cols) \in PlacedWord
           /\ Move(w, rows, cols).word = w.word
           /\ Move(w, rows, cols).direction = w.direction
           /\ p \in Cells(Move(w, rows, cols)) <=> Back(p, rows, cols) \in Cells(w)
           /\ LetterAt(Move(w, rows, cols), p) = LetterAt(w, Back(p, rows, cols))
  <1> DEFINE v == Move(w, rows, cols)
             q == <<p[1] + rows, p[2] + cols>>
  <1>1. w.row \in Int /\ w.col \in Int /\ w.direction \in {"across", "down"}
    BY DEF PlacedWord
  <1>2. /\ v \in PlacedWord /\ v.word = w.word /\ v.direction = w.direction
        /\ v.row = w.row - rows /\ v.col = w.col - cols
    <2>1. w.word \in Nat \ {0}
      BY DEF PlacedWord
    <2>2. /\ w = [x \in {"word", "row", "col", "direction"} |-> w[x]]
          /\ DOMAIN w = {"word", "row", "col", "direction"}
      BY DEF PlacedWord
    <2>3. v.word = w.word /\ v.direction = w.direction /\ v.row = w.row - rows /\ v.col = w.col - cols
      BY <2>2 DEF Move
    <2>4. v = [word |-> v.word, row |-> v.row, col |-> v.col, direction |-> v.direction]
      <3>1. v = [x \in {"word", "row", "col", "direction"} |-> v[x]]
        BY <2>2 DEF Move
      <3> HIDE DEF v
      <3> QED BY <3>1
    <2> HIDE DEF v
    <2> QED BY <1>1, <2>1, <2>3, <2>4 DEF PlacedWord
  <1>3. p = <<p[1], p[2]>> /\ p[1] \in Int /\ p[2] \in Int
    OBVIOUS
  <1>4. q[1] = p[1] + rows /\ q[2] = p[2] + cols
    OBVIOUS
  <1>5. LetterAt(v, p) = LetterAt(w, q)
    <2>1. (p[1] - v.row) + (p[2] - v.col) = (q[1] - w.row) + (q[2] - w.col)
      BY <1>1, <1>2, <1>3, <1>4
    <2>2. 1 + (p[1] - v.row) + (p[2] - v.col) = 1 + (q[1] - w.row) + (q[2] - w.col)
      BY <1>1, <1>2, <1>3, <1>4
    <2> QED BY <1>2, <2>2 DEF LetterAt
  <1>6. Size(v) = Size(w)
    BY <1>2 DEF Size
  <1>7. Size(w) \in Nat \ {0}
    BY CellsOf
  <1>8. p \in Cells(v) <=> q \in Cells(w)
    <2>1. CASE w.direction = "across"
      BY <1>1, <1>2, <1>3, <1>4, <1>6, <1>7, <2>1 DEF Cells
    <2>2. CASE w.direction = "down"
      BY <1>1, <1>2, <1>3, <1>4, <1>6, <1>7, <2>2 DEF Cells
    <2> QED BY <1>1, <2>1, <2>2
  <1> QED BY <1>2, <1>5, <1>8 DEF Back

\* What moving does to a layout.
LEMMA MovedLayout ==
    ASSUME answers \in Puzzles, NEW layout, layout \subseteq PlacedWord, LayoutOK(layout),
           NEW rows \in Int, NEW cols \in Int
    PROVE  /\ MovedUpLeft(layout, rows, cols) = {Move(w, rows, cols) : w \in layout}
           /\ Grid(MovedUpLeft(layout, rows, cols)) \subseteq Int \X Int
           /\ \A w \in layout : \A p \in Cells(Move(w, rows, cols)) :
                p \in Int \X Int /\ Back(p, rows, cols) \in Cells(w)
           /\ \A p \in Int \X Int : p \in Grid(MovedUpLeft(layout, rows, cols)) <=>
                Back(p, rows, cols) \in Grid(layout)
  <1> DEFINE M(w) == Move(w, rows, cols)
             B(p) == Back(p, rows, cols)
             moved == {M(w) : w \in layout}
  <1>1. moved = MovedUpLeft(layout, rows, cols)
    BY DEF MovedUpLeft, Move
  <1>2. ASSUME NEW w \in layout, NEW p \in Int \X Int
        PROVE  p \in Cells(M(w)) <=> B(p) \in Cells(w)
    BY MovedCells DEF LayoutOK
  <1>3. ASSUME NEW w \in layout, NEW p \in Cells(M(w)) PROVE p \in Int \X Int
    <2>1. M(w) \in PlacedWord /\ M(w).word \in DOMAIN answers
      <3>1. PICK q : q \in Int \X Int
        <4>1. <<0, 0>> \in Int \X Int
          OBVIOUS
        <4> QED BY <4>1
      <3>2. w \in PlacedWord /\ w.word \in DOMAIN answers
        BY DEF LayoutOK
      <3>3. M(w) \in PlacedWord /\ M(w).word = w.word
        BY <3>1, <3>2, MovedCells
      <3> HIDE DEF M
      <3> QED BY <3>2, <3>3
    <2> HIDE DEF M
    <2> QED BY <2>1, <1>3, CellsOf
  <1> HIDE DEF M, B
  <1>4. Grid(moved) = UNION {Cells(M(w)) : w \in layout}
    BY DEF Grid
  <1>5. ASSUME NEW p \in Int \X Int PROVE p \in Grid(moved) <=> B(p) \in Grid(layout)
    BY <1>2, <1>4 DEF Grid
  <1>6. Grid(moved) \subseteq Int \X Int
    BY <1>3, <1>4
  <1>7. \A w \in layout : \A p \in Cells(M(w)) : p \in Int \X Int /\ B(p) \in Cells(w)
    BY <1>2, <1>3
  <1> QED BY <1>1, <1>5, <1>6, <1>7 DEF M, B

\* A moved crossword is a crossword.
LEMMA MovedKeeps ==
    ASSUME answers \in Puzzles, NEW layout, layout \subseteq PlacedWord, LayoutOK(layout),
           NEW rows \in Int, NEW cols \in Int
    PROVE  IsCrossword(MovedUpLeft(layout, rows, cols))
  <1> DEFINE M(w) == Move(w, rows, cols)
             B(p) == Back(p, rows, cols)
             moved == MovedUpLeft(layout, rows, cols)
  <1>1. /\ moved = {M(w) : w \in layout}
        /\ Grid(moved) \subseteq Int \X Int
        /\ \A w \in layout : \A p \in Cells(M(w)) : p \in Int \X Int /\ B(p) \in Cells(w)
        /\ \A p \in Int \X Int : p \in Grid(moved) <=> B(p) \in Grid(layout)
    BY MovedLayout
  <1>2. \A w \in layout : \A p \in Int \X Int :
            /\ M(w).direction = w.direction
            /\ p \in Cells(M(w)) <=> B(p) \in Cells(w)
            /\ LetterAt(M(w), p) = LetterAt(w, B(p))
    BY MovedCells DEF LayoutOK
  <1>3. \A p \in Int \X Int :
            /\ Right(p) \in Int \X Int /\ Below(p) \in Int \X Int
            /\ B(Right(p)) = Right(B(p)) /\ B(Below(p)) = Below(B(p))
    BY DEF Back, Right, Below
  <1>4. IsCrossword(layout)
    BY DEF LayoutOK
  <1>5. \A w \in layout : \A q \in Cells(w) : \E p \in Int \X Int : q = B(p)
    <2> TAKE w \in layout
    <2> TAKE q \in Cells(w)
    <2>1. q = <<q[1], q[2]>> /\ q[1] \in Int /\ q[2] \in Int
      BY CellsOf DEF LayoutOK
    <2>2. <<q[1] - rows, q[2] - cols>> \in Int \X Int
      BY <2>1
    <2>3. q = B(<<q[1] - rows, q[2] - cols>>)
      BY <2>1 DEF Back
    <2> QED BY <2>2, <2>3
  <1> HIDE DEF M, B, moved
  <1>6. WordsCross(moved)
    <2> SUFFICES ASSUME NEW v \in layout, NEW w \in layout, M(v) # M(w),
                        NEW p \in Cells(M(v)) \cap Cells(M(w))
                 PROVE  M(v).direction # M(w).direction /\ LetterAt(M(v), p) = LetterAt(M(w), p)
      BY <1>1 DEF WordsCross
    <2>1. v # w /\ B(p) \in Cells(v) \cap Cells(w) /\ p \in Int \X Int
      BY <1>1
    <2>2. v.direction # w.direction /\ LetterAt(v, B(p)) = LetterAt(w, B(p))
      BY <1>4, <2>1 DEF IsCrossword, WordsCross
    <2> QED BY <1>2, <2>1, <2>2
  <1>7. LettersJoin(moved)
    <2> SUFFICES ASSUME NEW p \in Grid(moved)
                 PROVE  /\ Right(p) \in Grid(moved) =>
                              \E w \in moved : w.direction = "across" /\ {p, Right(p)} \subseteq Cells(w)
                        /\ Below(p) \in Grid(moved) =>
                              \E w \in moved : w.direction = "down" /\ {p, Below(p)} \subseteq Cells(w)
      BY DEF LettersJoin
    <2>1. p \in Int \X Int /\ B(p) \in Grid(layout)
      BY <1>1
    <2>2. ASSUME Right(p) \in Grid(moved)
          PROVE  \E w \in moved : w.direction = "across" /\ {p, Right(p)} \subseteq Cells(w)
      <3>1. Right(B(p)) \in Grid(layout)
        BY <1>1, <1>3, <2>1, <2>2
      <3>2. PICK w \in layout : w.direction = "across" /\ {B(p), Right(B(p))} \subseteq Cells(w)
        BY <1>4, <2>1, <3>1 DEF IsCrossword, LettersJoin
      <3>3. M(w) \in moved /\ M(w).direction = "across" /\ {p, Right(p)} \subseteq Cells(M(w))
        BY <1>1, <1>2, <1>3, <2>1, <3>2
      <3> QED BY <3>3
    <2>3. ASSUME Below(p) \in Grid(moved)
          PROVE  \E w \in moved : w.direction = "down" /\ {p, Below(p)} \subseteq Cells(w)
      <3>1. Below(B(p)) \in Grid(layout)
        BY <1>1, <1>3, <2>1, <2>3
      <3>2. PICK w \in layout : w.direction = "down" /\ {B(p), Below(B(p))} \subseteq Cells(w)
        BY <1>4, <2>1, <3>1 DEF IsCrossword, LettersJoin
      <3>3. M(w) \in moved /\ M(w).direction = "down" /\ {p, Below(p)} \subseteq Cells(M(w))
        BY <1>1, <1>2, <1>3, <2>1, <3>2
      <3> QED BY <3>3
    <2> QED BY <2>2, <2>3
  <1>8. Connected(moved)
    <2> SUFFICES ASSUME NEW part \in SUBSET moved, part \notin {{}, moved}
                 PROVE  \E v \in part, w \in moved \ part : Cells(v) \cap Cells(w) # {}
      BY DEF Connected
    <2> DEFINE old == {w \in layout : M(w) \in part}
    <2>1. old \in SUBSET layout /\ old \notin {{}, layout}
      BY <1>1
    <2>2. PICK v \in old, w \in layout \ old : Cells(v) \cap Cells(w) # {}
      BY <1>4, <2>1 DEF IsCrossword, Connected
    <2>3. PICK q : q \in Cells(v) /\ q \in Cells(w)
      BY <2>2
    <2>4. PICK p \in Int \X Int : q = B(p)
      BY <1>5, <2>3
    <2>5. p \in Cells(M(v)) \cap Cells(M(w)) /\ M(v) \in part /\ M(w) \in moved \ part
      BY <1>1, <1>2, <2>3, <2>4
    <2> QED BY <2>5
  <1> QED BY <1>6, <1>7, <1>8 DEF IsCrossword, moved

\* The top layout, which holds every answer, is moved to the corner.
LEMMA CompleteStep ==
    ASSUME IInv, Complete
    PROVE  PuzzleIsCrossword' /\ puzzle' \in SUBSET PlacedWord
  <1> DEFINE layout == Top.layout
  <1>1. answers \in Puzzles /\ answers' = answers
    BY DEF IInv, TypeOK, Complete
  <1>2. LayoutOK(layout) /\ layout \subseteq PlacedWord
    <2>1. Len(frames) \in DOMAIN frames
      BY DEF IInv, TypeOK
    <2>2. FrameOK(Top)
      BY <2>1 DEF IInv, Top, Last
    <2> QED BY <2>2 DEF FrameOK, LayoutOK
  <1>3. Remaining(layout) = {}
    BY DEF Complete
  <1>4. PICK top \in layout, left \in layout :
            /\ \A w \in layout : top.row <= w.row /\ left.col <= w.col
            /\ puzzle' = MovedUpLeft(layout, top.row, left.col)
    BY DEF Complete, Normalizes
  <1> HIDE DEF layout
  <1> DEFINE rows == top.row
             cols == left.col
             M(w) == Move(w, rows, cols)
  <1>5. rows \in Int /\ cols \in Int
    BY <1>2, <1>4 DEF PlacedWord
  <1>6. /\ puzzle' = {M(w) : w \in layout}
        /\ \A w \in layout : \A p \in Cells(M(w)) : p \in Int \X Int /\ Back(p, rows, cols) \in Cells(w)
        /\ \A p \in Int \X Int : p \in Grid(puzzle') <=> Back(p, rows, cols) \in Grid(layout)
    BY <1>1, <1>2, <1>4, <1>5, MovedLayout
  <1>7. IsCrossword(puzzle')
    BY <1>1, <1>2, <1>4, <1>5, MovedKeeps
  <1>8. \A w \in layout : M(w) \in PlacedWord /\ M(w).word = w.word
    <2>1. <<0, 0>> \in Int \X Int
      OBVIOUS
    <2> TAKE w \in layout
    <2>2. w \in PlacedWord /\ w.word \in DOMAIN answers
      BY <1>2 DEF LayoutOK
    <2> QED BY <1>1, <1>5, <2>1, <2>2, MovedCells
  <1>9. \A w \in layout : \A p \in Cells(w) :
            /\ p = <<p[1], p[2]>> /\ p[1] \in Int /\ p[2] \in Int
            /\ w.row <= p[1] /\ w.col <= p[2]
    <2> TAKE w \in layout
    <2> TAKE p \in Cells(w)
    <2>1. w \in PlacedWord /\ w.word \in DOMAIN answers
      BY <1>2 DEF LayoutOK
    <2>2. w.row \in Int /\ w.col \in Int /\ w.direction \in {"across", "down"}
      BY <2>1 DEF PlacedWord
    <2> QED BY <1>1, <2>1, <2>2, CellsOf
  <1>10. \A w \in layout : <<w.row, w.col>> \in Cells(w) /\ w.row \in Int /\ w.col \in Int
    <2> TAKE w \in layout
    <2>1. w \in PlacedWord /\ w.word \in DOMAIN answers
      BY <1>2 DEF LayoutOK
    <2>2. w.row \in Int /\ w.col \in Int /\ w.direction \in {"across", "down"}
      BY <2>1 DEF PlacedWord
    <2>3. Size(w) \in Nat \ {0}
      BY <1>1, <2>1, CellsOf
    <2> QED BY <2>2, <2>3 DEF Cells
  <1> HIDE DEF M
  <1>11. \A word \in DOMAIN answers : \E w \in puzzle' : w.word = word
    BY <1>3, <1>6, <1>8 DEF Remaining
  <1>12. \A v, w \in puzzle' : v.word = w.word => v = w
    BY <1>2, <1>6, <1>8 DEF LayoutOK
  <1>13. Grid(puzzle') \subseteq Nat \X Nat
    <2> SUFFICES ASSUME NEW w \in layout, NEW p \in Cells(M(w)) PROVE p \in Nat \X Nat
      BY <1>6 DEF Grid
    <2>1. p \in Int \X Int /\ Back(p, rows, cols) \in Cells(w)
      BY <1>6
    <2>2. w.row <= p[1] + rows /\ w.col <= p[2] + cols
      BY <1>9, <2>1 DEF Back
    <2>3. rows <= w.row /\ cols <= w.col /\ w.row \in Int /\ w.col \in Int
      BY <1>4, <1>10
    <2>4. p[1] \in Nat /\ p[2] \in Nat
      BY <1>5, <2>1, <2>2, <2>3
    <2> QED BY <2>1, <2>4
  <1>14. \E p, q \in Grid(puzzle') : p[1] = 0 /\ q[2] = 0
    <2> DEFINE p == <<0, top.col - cols>>
               q == <<left.row - rows, 0>>
    <2>1. /\ top.row \in Int /\ top.col \in Int /\ left.row \in Int /\ left.col \in Int
          /\ <<top.row, top.col>> \in Grid(layout) /\ <<left.row, left.col>> \in Grid(layout)
      BY <1>10 DEF Grid
    <2>2. Back(p, rows, cols) = <<top.row, top.col>> /\ Back(q, rows, cols) = <<left.row, left.col>>
      BY <1>5, <2>1 DEF Back
    <2>3. p \in Int \X Int /\ q \in Int \X Int
      BY <1>5, <2>1
    <2>4. p \in Grid(puzzle') /\ q \in Grid(puzzle')
      BY <1>6, <2>1, <2>2, <2>3
    <2> QED BY <2>4
  <1>15. puzzle' \subseteq PlacedWord
    BY <1>6, <1>8
  <1>16. IsCrossword(puzzle)'
    BY <1>1, <1>7 DEF IsCrossword, WordsCross, LettersJoin, Connected, Grid, Cells, Size, LetterAt
  <1>17. Grid(puzzle)' = Grid(puzzle')
    BY <1>1 DEF Grid, Cells, Size
  <1> QED BY <1>1, <1>11, <1>12, <1>13, <1>14, <1>15, <1>16, <1>17 DEF PuzzleIsCrossword

-----------------------------------------------------------------------------
(* The theorems. *)

\* What holds of the frames holds when the answers stay.
LEMMA FramesKept ==
    ASSUME answers' = answers, \A i \in DOMAIN frames' : FrameOK(frames'[i])
    PROVE  (\A i \in DOMAIN frames : FrameOK(frames[i]))'
  <1>1. \A frame : FrameOK(frame)' <=> FrameOK(frame)
    BY SameAnswers
  <1> QED BY <1>1

LEMMA StepHolds == IInv /\ [Next]_vars => IInv'
  <1> SUFFICES ASSUME IInv, [Next]_vars PROVE IInv'
    OBVIOUS
  <1>1. answers' = answers
    BY DEF Next, Descend, Complete, Backtrack, vars
  <1>2. CASE Descend
    <2>1. result' = "searching"
      BY <1>2 DEF Descend
    <2> QED BY <1>1, <1>2, <2>1, DescendStep, FramesKept DEF IInv, PuzzleIsCrossword
  <1>3. CASE Complete
    <2>1. UNCHANGED <<answers, frames>> /\ result' = "built"
      BY <1>3 DEF Complete
    <2>2. TypeOK'
      BY <1>3, <2>1, CompleteStep DEF IInv, TypeOK
    <2>3. \A i \in DOMAIN frames' : FrameOK(frames'[i])
      BY <2>1 DEF IInv
    <2> QED BY <1>1, <1>3, <2>2, <2>3, CompleteStep, FramesKept DEF IInv
  <1>4. CASE Backtrack
    <2>1. result' # "built"
      BY <1>4 DEF Backtrack, Returns
    <2> QED BY <1>1, <1>4, <2>1, BacktrackStep, FramesKept DEF IInv, PuzzleIsCrossword
  <1>5. CASE UNCHANGED vars
    <2>1. TypeOK' /\ \A i \in DOMAIN frames' : FrameOK(frames'[i])
      BY <1>5 DEF vars, IInv, TypeOK
    <2>2. PuzzleIsCrossword'
      <3>1. IsCrossword(puzzle)' <=> IsCrossword(puzzle)
        BY <1>5 DEF vars, IsCrossword, WordsCross, LettersJoin, Connected, Grid, Cells, Size, LetterAt
      <3>2. Grid(puzzle)' = Grid(puzzle)
        BY <1>5 DEF vars, Grid, Cells, Size
      <3> QED BY <1>5, <3>1, <3>2 DEF vars, IInv, PuzzleIsCrossword
    <2> QED BY <1>1, <2>1, <2>2, FramesKept DEF IInv
  <1> QED BY <1>2, <1>3, <1>4, <1>5 DEF Next

\* The invariant holds in every reachable state of the search.
THEOREM Inductive == Spec => []IInv
  BY InitHolds, StepHolds, PTL DEF Spec

\* Every variable has its type, and the search always has a frame.
THEOREM TypeCorrect == Spec => []TypeOK
  <1>1. IInv => TypeOK
    BY DEF IInv
  <1> QED BY <1>1, Inductive, PTL

\* Every layout that placeRemaining holds, and comes back to after a failed
\* attempt, reads across and down as its words and nothing else.
THEOREM LayoutsHold == Spec => []LayoutsAreCrosswords
  <1>1. IInv => LayoutsAreCrosswords
    BY DEF IInv, LayoutsAreCrosswords, FrameOK, LayoutOK
  <1> QED BY <1>1, Inductive, PTL

\* A puzzle that BuildPuzzle returns is a crossword that holds each answer
\* once and starts at row 0 and column 0.
THEOREM PuzzleHolds == Spec => []PuzzleIsCrossword
  <1>1. IInv => PuzzleIsCrossword
    BY DEF IInv
  <1> QED BY <1>1, Inductive, PTL

-----------------------------------------------------------------------------
(* Of up to three answers, the search passes no crossword by.                *)

\* A word that crosses another is one of its crossings.
LEMMA CrossingFound ==
    ASSUME answers \in Puzzles,
           NEW v \in PlacedWord, v.word \in DOMAIN answers,
           NEW w \in PlacedWord, w.word \in DOMAIN answers, v.direction # w.direction,
           NEW p \in Cells(v) \cap Cells(w), LetterAt(v, p) = LetterAt(w, p)
    PROVE  \E j \in 1 .. Len(answers[w.word]), i \in 1 .. Size(v) :
              /\ answers[w.word][j] = answers[v.word][i]
              /\ w = Crossing(w.word, j, v, i)
  <1>1. /\ p = <<p[1], p[2]>> /\ p[1] \in Int /\ p[2] \in Int
        /\ Size(v) \in Nat /\ Size(w) \in Nat
    BY CellsOf
  <1>2. /\ v.row \in Int /\ v.col \in Int /\ w.row \in Int /\ w.col \in Int
        /\ v.direction \in {"across", "down"} /\ w.direction \in {"across", "down"}
        /\ w = [word |-> w.word, row |-> w.row, col |-> w.col, direction |-> w.direction]
    BY DEF PlacedWord
  <1> DEFINE j == 1 + (p[1] - w.row) + (p[2] - w.col)
             i == 1 + (p[1] - v.row) + (p[2] - v.col)
  <1>3. answers[w.word][j] = answers[v.word][i]
    BY DEF LetterAt
  <1>4. CASE v.direction = "across" /\ w.direction = "down"
    <2>1. /\ p[1] = v.row /\ v.col <= p[2] /\ p[2] < v.col + Size(v)
          /\ p[2] = w.col /\ w.row <= p[1] /\ p[1] < w.row + Size(w)
      BY <1>4, CellsOf
    <2>2. i \in 1 .. Size(v) /\ j \in 1 .. Size(w)
      BY <1>1, <1>2, <2>1
    <2>3. w.row = v.row - (j - 1) /\ w.col = v.col + (i - 1)
      BY <1>1, <1>2, <2>1
    <2> HIDE DEF i, j
    <2>4. w = Crossing(w.word, j, v, i)
      BY <1>2, <1>4, <2>3 DEF Crossing
    <2> QED BY <1>3, <2>2, <2>4 DEF Size
  <1>5. CASE v.direction = "down" /\ w.direction = "across"
    <2>1. /\ p[1] = w.row /\ w.col <= p[2] /\ p[2] < w.col + Size(w)
          /\ p[2] = v.col /\ v.row <= p[1] /\ p[1] < v.row + Size(v)
      BY <1>5, CellsOf
    <2>2. i \in 1 .. Size(v) /\ j \in 1 .. Size(w)
      BY <1>1, <1>2, <2>1
    <2>3. w.row = v.row + (i - 1) /\ w.col = v.col - (j - 1)
      BY <1>1, <1>2, <2>1
    <2> HIDE DEF i, j
    <2>4. w = Crossing(w.word, j, v, i)
      BY <1>2, <1>5, <2>3 DEF Crossing
    <2> QED BY <1>3, <2>2, <2>4 DEF Size
  <1> QED BY <1>2, <1>4, <1>5

\* A crossword that the search may still reach, and a part of it.
PartOf(layout, whole) ==
    /\ answers \in Puzzles
    /\ whole \subseteq PlacedWord /\ LayoutOK(whole)
    /\ layout \subseteq whole

\* Nothing in a crossword touches the ends of its words.
LEMMA EndsOfPart ==
    ASSUME NEW whole, NEW layout, PartOf(layout, whole), NEW w \in whole \ layout
    PROVE  EndsClear(w, layout)
  <1>1. /\ answers \in Puzzles /\ w \in PlacedWord /\ w.word \in DOMAIN answers
        /\ w.row \in Int /\ w.col \in Int /\ w.direction \in {"across", "down"}
        /\ Size(w) \in Nat \ {0}
        /\ WordsCross(whole) /\ LettersJoin(whole)
    BY CellsOf DEF PartOf, LayoutOK, IsCrossword, PlacedWord
  <1> SUFFICES ASSUME NEW e \in Ends(w), e \in Grid(layout)
               PROVE  FALSE
    BY DEF EndsClear
  <1>2. /\ e = <<e[1], e[2]>> /\ e[1] \in Int /\ e[2] \in Int
        /\ e \notin Cells(w) /\ e \in Grid(whole)
    <2>1. e = <<e[1], e[2]>> /\ e[1] \in Int /\ e[2] \in Int
      BY <1>1 DEF Ends
    <2>2. e \notin Cells(w)
      BY <1>1, <2>1, CellsOf DEF Ends
    <2> QED BY <2>1, <2>2 DEF PartOf, Grid
  <1>3. PICK c \in Cells(w) :
           IF w.direction = "across" THEN e = Right(c) \/ c = Right(e)
           ELSE e = Below(c) \/ c = Below(e)
    <2>1. CASE w.direction = "across"
      <3>1. <<w.row, w.col>> \in Cells(w) /\ <<w.row, w.col + Size(w) - 1>> \in Cells(w)
        BY <1>1, <2>1 DEF Cells
      <3>2. <<w.row, w.col>> = Right(e) \/ e = Right(<<w.row, w.col + Size(w) - 1>>)
        BY <1>1, <2>1 DEF Ends, Right
      <3> QED BY <2>1, <3>1, <3>2
    <2>2. CASE w.direction = "down"
      <3>1. <<w.row, w.col>> \in Cells(w) /\ <<w.row + Size(w) - 1, w.col>> \in Cells(w)
        BY <1>1, <2>2 DEF Cells
      <3>2. <<w.row, w.col>> = Below(e) \/ e = Below(<<w.row + Size(w) - 1, w.col>>)
        BY <1>1, <2>2 DEF Ends, Below
      <3> QED BY <2>2, <3>1, <3>2
    <2> QED BY <1>1, <2>1, <2>2
  <1>4. c \in Grid(whole)
    BY <1>3 DEF Grid
  <1>5. PICK x \in whole : x.direction = w.direction /\ {c, e} \subseteq Cells(x)
    BY <1>1, <1>2, <1>3, <1>4 DEF LettersJoin
  <1>6. x # w
    BY <1>2, <1>5
  <1> QED BY <1>1, <1>3, <1>5, <1>6 DEF WordsCross

\* Nothing touches its sides but what crosses it: a word there would cross the
\* neighbour at a third word, and with w that makes four.
LEMMA SidesOfPart ==
    ASSUME NEW whole, NEW layout, PartOf(layout, whole), Len(answers) <= 3,
           NEW w \in whole \ layout, NEW v \in layout,
           NEW q \in Cells(v) \cap Cells(w),
           NEW p \in Cells(w), p \notin Grid(layout)
    PROVE  Sides(w, p) \cap Grid(layout) = {}
  <1>1. /\ answers \in Puzzles /\ w \in whole /\ v \in whole /\ v # w
        /\ WordsCross(whole) /\ LettersJoin(whole)
    BY DEF PartOf, LayoutOK, IsCrossword
  <1>2. ASSUME NEW u \in whole
        PROVE  /\ u \in PlacedWord /\ u.word \in DOMAIN answers
               /\ u.row \in Int /\ u.col \in Int /\ u.direction \in {"across", "down"}
    BY DEF PartOf, LayoutOK, PlacedWord
  <1>3. v.direction # w.direction
    BY <1>1 DEF WordsCross
  <1>4. /\ p = <<p[1], p[2]>> /\ p[1] \in Int /\ p[2] \in Int
        /\ q = <<q[1], q[2]>> /\ q[1] \in Int /\ q[2] \in Int
    BY <1>1, <1>2, CellsOf
  <1> SUFFICES ASSUME NEW s \in Sides(w, p), s \in Grid(layout)
               PROVE  FALSE
    OBVIOUS
  <1>5. s = <<s[1], s[2]>> /\ s[1] \in Int /\ s[2] \in Int
    BY <1>4 DEF Sides, Above, Below, Left, Right
  <1>6. PICK u \in layout : s \in Cells(u)
    BY DEF Grid
  <1>7. PICK x \in whole : x.direction # w.direction /\ {s, p} \subseteq Cells(x)
    <2>1. s \in Grid(whole) /\ p \in Grid(whole)
      BY <1>1, <1>6 DEF PartOf, Grid
    <2>2. IF w.direction = "across" THEN s = Below(p) \/ p = Below(s)
          ELSE s = Right(p) \/ p = Right(s)
      BY <1>4, <1>5 DEF Sides, Above, Below, Left, Right
    <2>3. \E x \in whole : /\ x.direction = (IF w.direction = "across" THEN "down" ELSE "across")
                           /\ {s, p} \subseteq Cells(x)
      BY <1>1, <2>1, <2>2 DEF LettersJoin
    <2> QED BY <1>1, <1>2, <2>3
  <1>8. x \notin layout /\ x # w
    BY <1>7 DEF Grid
  <1>9. u = v
    <2>1. \A y, z \in whole : y.word = z.word => y = z
      BY DEF PartOf, LayoutOK
    <2>2. answers \in Seq(Seq(Letters) \ {<<>>})
      BY <1>1, CrosswordAssumption
    <2>3. \A y \in whole : y.word \in 1 .. 3
      BY <1>2, <2>2
    <2>4. u \in whole
      BY <1>6 DEF PartOf
    <2>5. CASE u # v
      <3>1. /\ u.word # v.word /\ u.word # w.word /\ u.word # x.word
            /\ v.word # w.word /\ v.word # x.word /\ w.word # x.word
        BY <1>1, <1>6, <1>7, <1>8, <2>1, <2>4, <2>5
      <3> QED BY <1>1, <1>7, <2>3, <2>4, <3>1
    <2> QED BY <2>5
  <1>10. p = q
    <2>1. CASE w.direction = "across"
      <3>1. v.direction = "down"
        BY <1>1, <1>2, <1>3, <2>1
      <3>2. s[2] = v.col /\ q[2] = v.col /\ p[1] = w.row /\ q[1] = w.row
        BY <1>1, <1>2, <1>6, <1>9, <2>1, <3>1, CellsOf
      <3>3. s[2] = p[2]
        BY <1>4, <2>1 DEF Sides, Above, Below
      <3> QED BY <1>4, <3>2, <3>3
    <2>2. CASE w.direction = "down"
      <3>1. v.direction = "across"
        BY <1>1, <1>2, <1>3, <2>2
      <3>2. s[1] = v.row /\ q[1] = v.row /\ p[2] = w.col /\ q[2] = w.col
        BY <1>1, <1>2, <1>6, <1>9, <2>2, <3>1, CellsOf
      <3>3. s[1] = p[1]
        BY <1>4, <2>2 DEF Sides, Left, Right
      <3> QED BY <1>4, <3>2, <3>3
    <2> QED BY <1>1, <1>2, <2>1, <2>2
  <1> QED BY <1>10 DEF Grid

\* A part of a crossword finds a word of the rest.
LEMMA NextIsFound ==
    ASSUME NEW whole, NEW layout, PartOf(layout, whole), Len(answers) <= 3,
           layout # {}, layout # whole
    PROVE  \E w \in whole \ layout : w \in FindPlacements(w.word, layout)
  <1>1. Connected(whole) /\ WordsCross(whole) /\ layout \in SUBSET whole
    BY DEF PartOf, LayoutOK, IsCrossword
  <1>2. PICK v \in layout, w \in whole \ layout : Cells(v) \cap Cells(w) # {}
    BY <1>1 DEF Connected
  <1>3. PICK p \in Cells(v) \cap Cells(w) : TRUE
    BY <1>2
  <1>4. /\ v \in whole /\ v # w /\ v.direction # w.direction /\ LetterAt(v, p) = LetterAt(w, p)
    BY <1>1, <1>2, <1>3 DEF WordsCross
  <1>5. /\ answers \in Puzzles /\ v \in PlacedWord /\ v.word \in DOMAIN answers
        /\ w \in PlacedWord /\ w.word \in DOMAIN answers
    BY <1>2, <1>4 DEF PartOf, LayoutOK
  <1>6. PICK j \in 1 .. Len(answers[w.word]), i \in 1 .. Size(v) :
              /\ answers[w.word][j] = answers[v.word][i]
              /\ w = Crossing(w.word, j, v, i)
    BY <1>3, <1>4, <1>5, CrossingFound
  <1>7. PlacementFits(w, layout)
    <2>1. EndsClear(w, layout)
      BY <1>2, EndsOfPart
    <2>2. ASSUME NEW c \in Cells(w), c \in Grid(layout)
          PROVE  Crosses(w, c, layout)
      BY <1>1, <1>2, <2>2 DEF Crosses, WordsCross
    <2>3. ASSUME NEW c \in Cells(w), c \notin Grid(layout)
          PROVE  Sides(w, c) \cap Grid(layout) = {}
      BY <1>2, <1>3, <2>3, SidesOfPart
    <2>4. Cells(w) \cap Grid(layout) # {}
      BY <1>2, <1>3 DEF Grid
    <2> QED BY <2>1, <2>2, <2>3, <2>4 DEF PlacementFits
  <1>8. w \in FindPlacements(w.word, layout)
    <2> DEFINE at == {x \in (1 .. Len(answers[w.word])) \X (1 .. Size(v)) :
                         answers[w.word][x[1]] = answers[v.word][x[2]]}
    <2>1. <<j, i>> \in at
      BY <1>6
    <2>2. w \in {Crossing(w.word, ji[1], v, ji[2]) : ji \in at}
      BY <1>6, <2>1
    <2> QED BY <1>2, <1>7, <2>2 DEF FindPlacements
  <1> QED BY <1>2, <1>8

\* A crossword of all answers.
Whole(layout) ==
    /\ answers \in Puzzles /\ Len(answers) <= 3
    /\ layout \subseteq PlacedWord /\ LayoutOK(layout) /\ Remaining(layout) = {}

\* A call for a part of it has a word of it to try, unless nothing is left.
LEMMA CallGoesOn ==
    ASSUME NEW whole, Whole(whole), NEW layout, layout \subseteq whole, layout # {}
    PROVE  /\ Call(layout).layout = layout
           /\ Remaining(layout) = {} \/ Call(layout).untried \cap whole # {}
  <1>1. PartOf(layout, whole) /\ Len(answers) <= 3
    BY DEF PartOf, Whole
  <1>2. CASE Remaining(layout) # {}
    <2>1. layout # whole
      BY <1>2 DEF Whole
    <2>2. PICK w \in whole \ layout : w \in FindPlacements(w.word, layout)
      BY <1>1, <2>1, NextIsFound
    <2>3. w.word \in Remaining(layout)
      BY <2>2 DEF Whole, LayoutOK, Remaining
    <2>4. w \in Call(layout).untried
      BY <2>2, <2>3 DEF Call, Frame
    <2> QED BY <2>2, <2>4 DEF Call, Frame
  <1> QED BY <1>2 DEF Call, Frame

\* What the property calls a layout of the list.
LEMMA AroundIsWhole ==
    ASSUME answers \in Puzzles, Len(answers) <= 3, NEW word \in DOMAIN answers,
           NEW layout \in LayoutsAround(word), IsCrossword(layout)
    PROVE  Whole(layout) /\ FirstWord(word) \in layout
  <1> DEFINE others == DOMAIN answers \ {word}
             Places == [word: others, row: -Reach .. Reach, col: -Reach .. Reach,
                        direction: {"across", "down"}]
  <1>1. PICK place :
           /\ \A other \in others : place[other] \in Places /\ place[other].word = other
           /\ layout = {FirstWord(word)} \cup {place[other] : other \in others}
    <2> DEFINE placements == {w \in Places : WordsCross({FirstWord(word), w})}
    <2>1. PICK place \in {f \in [others -> placements] : \A other \in others : f[other].word = other} :
             layout = {FirstWord(word)} \cup {place[other] : other \in others}
      BY DEF LayoutsAround
    <2>2. \A other \in others : place[other] \in Places /\ place[other].word = other
      OBVIOUS
    <2> QED BY <2>1, <2>2
  <1>2. answers \in Seq(Seq(Letters) \ {<<>>}) /\ DOMAIN answers \subseteq Nat \ {0}
    BY CrosswordAssumption
  <1>3. Places \subseteq PlacedWord
    BY <1>2, CrosswordAssumption DEF PlacedWord
  <1>4. FirstWord(word) \in PlacedWord /\ FirstWord(word).word = word
    BY FirstOK DEF FirstWord
  <1>5. layout \subseteq PlacedWord
    BY <1>1, <1>3, <1>4
  <1>6. ASSUME NEW w \in layout
        PROVE  /\ w.word \in DOMAIN answers
               /\ w = IF w.word = word THEN FirstWord(word) ELSE place[w.word]
    BY <1>1, <1>4, <1>6
  <1>7. LayoutOK(layout)
    BY <1>5, <1>6 DEF LayoutOK
  <1>8. Remaining(layout) = {}
    <2>1. ASSUME NEW other \in DOMAIN answers
          PROVE  \E w \in layout : w.word = other
      <3>1. CASE other = word
        BY <1>1, <1>4, <3>1
      <3>2. CASE other # word
        BY <1>1, <3>2
      <3> QED BY <3>1, <3>2
    <2> QED BY <2>1 DEF Remaining
  <1> QED BY <1>1, <1>5, <1>7, <1>8 DEF Whole

LEMMA DescendStaysBehind ==
    ASSUME IInv, Descend, NEW whole, Whole(whole), Ahead(whole)
    PROVE  Ahead(whole)'
  <1> DEFINE n == Len(frames)
             FrameSet == [layout: SUBSET PlacedWord, untried: SUBSET PlacedWord]
  <1>1. /\ frames \in Seq(FrameSet) /\ n \in Nat \ {0} /\ n \in DOMAIN frames
        /\ answers' = answers
    BY DEF IInv, TypeOK, Descend
  <1>2. Top = frames[n]
    BY DEF Top, Last
  <1>3. PICK w \in frames[n].untried : Try(w)
    BY <1>2 DEF Descend
  <1> DEFINE rest == [frames[n] EXCEPT !.untried = @ \ {w}]
             next == Call(frames[n].layout \cup {w})
  <1>4. frames' = Append([frames EXCEPT ![n] = rest], next)
    BY <1>1, <1>2, <1>3 DEF Try, Tries
  <1>5. frames[n] \in FrameSet
    <2> HIDE DEF n, FrameSet
    <2> QED BY <1>1
  <1>6. rest.layout = frames[n].layout /\ rest.untried = frames[n].untried \ {w}
    BY <1>5
  <1> HIDE DEF next, rest
  <1>7. /\ DOMAIN frames' = 1 .. n + 1 /\ Len(frames') = n + 1
        /\ frames'[n] = rest /\ frames'[n + 1] = next
        /\ \A i \in 1 .. n - 1 : frames'[i] = frames[i]
    BY <1>1, <1>4
  <1>8. PICK i \in 1 .. n :
           /\ frames[i].layout \subseteq whole
           /\ \/ frames[i].untried \cap whole # {}
              \/ i = n /\ Remaining(frames[i].layout) = {}
    BY <1>1 DEF Ahead
  (* Nothing is tried once no word is left. *)
  <1>9. frames[i].untried \cap whole # {}
    <2>1. w.word \in Remaining(frames[n].layout)
      BY <1>1, <1>3 DEF IInv, FrameOK
    <2> QED BY <1>8, <2>1
  <1>10. CASE i < n
    BY <1>1, <1>7, <1>8, <1>9, <1>10 DEF Ahead
  <1>11. CASE i = n /\ w \notin whole
    BY <1>1, <1>6, <1>7, <1>8, <1>9, <1>11 DEF Ahead
  <1>12. CASE i = n /\ w \in whole
    <2>1. frames[n].layout \cup {w} \subseteq whole
      BY <1>8, <1>12
    <2>2. /\ next.layout = frames[n].layout \cup {w}
          /\ Remaining(next.layout) = {} \/ next.untried \cap whole # {}
      BY <2>1, CallGoesOn DEF next
    <2> QED BY <1>1, <1>7, <2>1, <2>2 DEF Ahead, Remaining
  <1> QED BY <1>1, <1>10, <1>11, <1>12

\* The caller still has it ahead; so the first call does not fail.
LEMMA BacktrackStaysBehind ==
    ASSUME IInv, Backtrack, NEW whole, Whole(whole), Ahead(whole)
    PROVE  Ahead(whole)' /\ result' = "searching"
  <1> DEFINE n == Len(frames)
  <1>1. /\ frames \in Seq([layout: SUBSET PlacedWord, untried: SUBSET PlacedWord])
        /\ n \in Nat \ {0} /\ answers' = answers
    BY DEF IInv, TypeOK, Backtrack
  <1>2. frames[n].untried = {} /\ Remaining(frames[n].layout) # {} /\ result = "searching"
    BY DEF Backtrack, Top, Last
  <1>3. PICK i \in 1 .. n :
           /\ frames[i].layout \subseteq whole
           /\ \/ frames[i].untried \cap whole # {}
              \/ i = n /\ Remaining(frames[i].layout) = {}
    BY <1>1 DEF Ahead
  <1>4. i \in 1 .. n - 1 /\ frames[i].untried \cap whole # {}
    BY <1>1, <1>2, <1>3
  <1>5. n # 1
    <2> HIDE DEF n
    <2> QED BY <1>1, <1>4
  <1>6. frames' = SubSeq(frames, 1, n - 1) /\ result' = "searching"
    BY <1>2, <1>5 DEF Backtrack, Returns, Front
  <1>7. i \in DOMAIN frames' /\ frames'[i] = frames[i]
    BY <1>1, <1>4, <1>6
  <1> QED BY <1>3, <1>4, <1>6, <1>7 DEF Ahead

\* One answer is placed first.
LEMMA OneFirst ==
    ASSUME answers \in Puzzles, NEW first \in DOMAIN answers, SortsFirst(first),
           NEW word \in DOMAIN answers, SortsFirst(word)
    PROVE  word = first
  <1>1. answers \in Seq(Seq(Letters) \ {<<>>})
    BY CrosswordAssumption
  <1>2. Len(answers[first]) \in Nat /\ Len(answers[word]) \in Nat /\ first \in Nat /\ word \in Nat
    BY <1>1
  <1> QED BY <1>2 DEF SortsFirst

LEMMA InitAhead == Init => SearchInv /\ FailureMeansNoCrossword
  <1> SUFFICES ASSUME Init, Len(answers) <= 3, NEW word \in DOMAIN answers, SortsFirst(word),
                      NEW layout \in LayoutsAround(word), IsCrossword(layout)
               PROVE  Ahead(layout)
    BY DEF Init, SearchInv, FailureMeansNoCrossword
  <1>1. PICK first \in DOMAIN answers :
           SortsFirst(first) /\ frames = <<Call({FirstWord(first)})>>
    BY DEF Init
  <1>2. answers \in Puzzles
    BY DEF Init
  <1>3. first = word
    BY <1>1, <1>2, OneFirst
  <1>4. Whole(layout) /\ FirstWord(word) \in layout
    BY <1>2, AroundIsWhole
  <1> DEFINE call == Call({FirstWord(word)})
  <1>5. /\ call.layout = {FirstWord(word)}
        /\ Remaining({FirstWord(word)}) = {} \/ call.untried \cap layout # {}
    BY <1>4, CallGoesOn
  <1> HIDE DEF call
  <1>6. frames = <<call>>
    BY <1>1, <1>3 DEF call
  <1>7. 1 \in DOMAIN frames /\ frames[1] = call /\ Len(frames) = 1
    BY <1>6
  <1> QED BY <1>4, <1>5, <1>7 DEF Ahead

LEMMA StepAhead == IInv /\ SearchInv /\ FailureMeansNoCrossword /\ [Next]_vars
                      => SearchInv' /\ FailureMeansNoCrossword'
  <1> SUFFICES ASSUME IInv, SearchInv, FailureMeansNoCrossword, [Next]_vars
               PROVE  SearchInv' /\ FailureMeansNoCrossword'
    OBVIOUS
  <1>1. answers' = answers
    BY DEF Next, Descend, Complete, Backtrack, vars
  <1>2. ASSUME NEW word
        PROVE  /\ SortsFirst(word)' <=> SortsFirst(word)
               /\ LayoutsAround(word)' = LayoutsAround(word)
    BY <1>1 DEF SortsFirst, LayoutsAround, WordsCross, Cells, Size, LetterAt
  <1>3. ASSUME NEW layout
        PROVE  IsCrossword(layout)' <=> IsCrossword(layout)
    BY <1>1, SameAnswers
  <1>4. ASSUME result = "searching", Len(answers) <= 3,
               NEW word \in DOMAIN answers, SortsFirst(word),
               NEW layout \in LayoutsAround(word), IsCrossword(layout)
        PROVE  /\ result' = "searching" => Ahead(layout)'
               /\ result' # "failed"
    <2>1. Ahead(layout) /\ Whole(layout)
      BY <1>4, AroundIsWhole DEF SearchInv, IInv, TypeOK
    <2>2. CASE Descend
      BY <2>1, <2>2, DescendStaysBehind DEF Descend
    <2>3. CASE Backtrack
      BY <2>1, <2>3, BacktrackStaysBehind
    <2>4. CASE Complete
      BY <2>4 DEF Complete
    <2>5. CASE UNCHANGED vars
      BY <1>4, <2>1, <2>5 DEF vars, Ahead, Remaining
    <2> QED BY <2>2, <2>3, <2>4, <2>5 DEF Next
  <1>5. result # "searching" => result' = result
    BY DEF Next, Descend, Complete, Backtrack, vars
  <1>6. SearchInv'
    BY <1>1, <1>2, <1>3, <1>4, <1>5 DEF SearchInv
  <1>7. FailureMeansNoCrossword'
    BY <1>1, <1>2, <1>3, <1>4, <1>5 DEF FailureMeansNoCrossword
  <1> QED BY <1>6, <1>7

\* For every list of up to three answers, of any letters and lengths, and
\* whatever BuildPuzzle tries first, it fails only if no crossword holds them.
THEOREM FailureIsRight == Spec => []FailureMeansNoCrossword
  <1>1. Init => IInv /\ SearchInv /\ FailureMeansNoCrossword
    BY InitHolds, InitAhead
  <1>2. IInv /\ SearchInv /\ FailureMeansNoCrossword /\ [Next]_vars
           => (IInv /\ SearchInv /\ FailureMeansNoCrossword)'
    BY StepHolds, StepAhead
  <1> QED BY <1>1, <1>2, PTL DEF Spec

=============================================================================
