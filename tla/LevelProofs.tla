----------------------------- MODULE LevelProofs -----------------------------
(***************************************************************************)
(* Proofs about Level, for any puzzle, any limit and any number of         *)
(* requests, handlers and runs.                                            *)
(*                                                                         *)
(* The inductive invariant says what the mutex protects: the hint that was *)
(* paid for still has something to show (HandlersInv), so that at most one *)
(* charge is never shown (ChargeInv), and the last word found is what      *)
(* completes a level (EndInv), which is a matter of counting.              *)
(***************************************************************************)
EXTENDS Level, FiniteSetTheorems, SequenceTheorems, FunctionTheorems,
        WellFoundedInduction, TLAPS

USE PuzzleAssumption, LimitsAssumption

-----------------------------------------------------------------------------
(* Words, and what a hint shows. *)

LEMMA WordsAreNumbers ==
    /\ Len(Puzzle) \in Nat /\ Words = 1..Len(Puzzle)
    /\ IsFiniteSet(Words) /\ Cardinality(Words) = Len(Puzzle)
<1>1. Puzzle \in Seq(Seq(Cells))
  OBVIOUS
<1>2. Len(Puzzle) \in Nat /\ DOMAIN Puzzle = 1..Len(Puzzle)
  BY <1>1, LenProperties
<1>3. IsFiniteSet(1..Len(Puzzle)) /\ Cardinality(1..Len(Puzzle)) = Len(Puzzle)
  BY <1>2, FS_Interval
<1> QED
  BY <1>2, <1>3 DEF Words

(* A nonempty set of numbers has a least one. *)
LEMMA MinIsMember ==
    ASSUME NEW S \in SUBSET Nat, S # {}
    PROVE  Min(S) \in S
<1>1. PICK x \in S : \A y \in S : ~(<<y, x>> \in OpToRel(<, Nat))
  BY NatLessThanWellFounded, WFMin
<1>2. ASSUME NEW y \in S  PROVE x <= y
  <2>1. x \in Nat /\ y \in Nat
    OBVIOUS
  <2>2. y < x => <<y, x>> \in OpToRel(<, Nat)
    BY <2>1, Zenon DEF OpToRel
  <2>3. ~(y < x)
    BY <1>1, <2>2, Zenon
  <2> QED
    BY <2>1, <2>3
<1> QED
  BY <1>2 DEF Min

(* Words found once each: all of them when there are as many as words. *)
LEMMA AllFound ==
    ASSUME NEW f \in Seq(Words), IsInjective(f)
    PROVE  /\ Len(f) \in Nat
           /\ Len(f) = Len(Puzzle) <=> Words \ Range(f) = {}
<1>1. Len(f) \in Nat /\ f \in [1..Len(f) -> Words] /\ DOMAIN f = 1..Len(f)
  BY LenProperties
<1>2. f \in [1..Len(f) -> Range(f)] /\ Range(f) \subseteq Words
  BY <1>1 DEF Range
<1>3. f \in Bijection(1..Len(f), Range(f))
  BY <1>1, <1>2 DEF Bijection, Injection, Surjection, IsInjective, Range
<1>4. Range(f) = Range(f) /\ ExistsBijection(1..Len(f), Range(f))
  BY <1>3 DEF ExistsBijection
<1>5. IsFiniteSet(Range(f)) /\ Cardinality(Range(f)) = Len(f)
  BY <1>1, <1>4, FS_CountingElements, FS_NatBijection, FS_Bijection, FS_Interval
<1>6. Cardinality(Range(f)) = Cardinality(Words) => Range(f) = Words
  BY <1>2, WordsAreNumbers, FS_Subset
<1> QED
  BY <1>1, <1>2, <1>5, <1>6, WordsAreNumbers

LEMMA FindsWord ==
    ASSUME found \in Seq(Words), IsInjective(found), NEW w \in Unsolved,
           found' = Append(found, w)
    PROVE  /\ found' \in Seq(Words) /\ IsInjective(found')
           /\ Range(found') = Range(found) \cup {w}
<1>1. w \in Words /\ w \notin Range(found)
  BY DEF Unsolved
<1>2. /\ found' \in Seq(Words) /\ Len(found') = Len(found) + 1
      /\ \A i \in 1..Len(found) : found'[i] = found[i]
      /\ found'[Len(found) + 1] = w
  BY <1>1, AppendProperties
<1>3. Len(found) \in Nat /\ DOMAIN found = 1..Len(found) /\ DOMAIN found' = 1..(Len(found) + 1)
  BY <1>2, LenProperties
<1>4. \A i \in 1..Len(found) : found[i] \in Range(found)
  BY <1>3 DEF Range
<1>5. IsInjective(found')
  BY <1>1, <1>2, <1>3, <1>4 DEF IsInjective
<1>6. \A i \in 1..(Len(found) + 1) : i \in 1..Len(found) \/ i = Len(found) + 1
  BY <1>3
<1>7. Range(found') \subseteq Range(found) \cup {w}
  BY <1>2, <1>3, <1>4, <1>6 DEF Range
<1>8. Range(found) \subseteq Range(found')
  BY <1>2, <1>3 DEF Range
<1>9. w \in Range(found')
  <2>1. Len(found) + 1 \in DOMAIN found'
    BY <1>3
  <2> QED
    BY <1>2, <2>1 DEF Range
<1> QED
  BY <1>2, <1>5, <1>7, <1>8, <1>9

(* A hint with a target reveals cells of the puzzle or finds a new word. *)
LEMMA HintTarget ==
    ASSUME NEW hint \in HintTypes, HasTarget(hint)
    PROVE  Min(Targets(hint)) \in Unsolved
<1>1. Targets(hint) \subseteq Unsolved /\ Unsolved \subseteq Nat
  BY WordsAreNumbers DEF Targets, Unsolved
<1> QED
  BY <1>1, MinIsMember DEF HasTarget

LEMMA HiddenAreCells ==
    ASSUME NEW w \in Words, NEW n \in Nat
    PROVE  FirstHidden(w, n) \subseteq Cells
<1>1. \A i \in DOMAIN Puzzle[w] : Puzzle[w][i] \in CellsOf(w)
  BY DEF CellsOf, Range
<1>2. CellsOf(w) \subseteq Cells
  BY DEF Cells
<1> QED
  BY <1>1, <1>2 DEF FirstHidden, HiddenIn

-----------------------------------------------------------------------------
(* How a level ends. *)

LEMMA ScoreIsBounded ==
    ASSUME NEW d \in Int, NEW g \in Nat, NEW u \in [HintTypes -> Nat]
    PROVE  Score(d, g, u) \in 0..30
<1>1. AtLeastZero(d) \in Nat
  BY DEF AtLeastZero
<1>2. SpeedBonus(AtLeastZero(d)) \in 0..10
  BY <1>1 DEF SpeedBonus
<1>3. AccuracyBonus(g) \in 0..10
  BY DEF AccuracyBonus, AtLeastZero
<1>4. u["letter"] \in Nat /\ u["brush"] \in Nat /\ u["word"] \in Nat
  BY DEF HintTypes
<1>5. \A n \in Nat : AtLeastZero(10 - n) \in 0..10
  BY DEF AtLeastZero
<1>6. 2 * u["letter"] + 4 * u["brush"] + 8 * u["word"] \in Nat
  <2>1. \A a, b, c \in Nat : 2 * a + 4 * b + 8 * c \in Nat
    OBVIOUS
  <2> QED
    BY <1>4, <2>1, Zenon
<1>7. HintBonus(u) \in 0..10
  BY <1>5, <1>6 DEF HintBonus
<1>8. \A a, b, c \in 0..10 : a + b + c \in 0..30
  OBVIOUS
<1> QED
  BY <1>2, <1>3, <1>7, <1>8, Zenon DEF Score

(* What is left of a level that is not complete. *)
LEMMA OpenHasWords ==
    ASSUME TypeOK, EndInv, EndsAreRight
    PROVE  ~complete <=> Unsolved # {}
BY AllFound DEF TypeOK, EndInv, EndsAreRight, Unsolved

(* finishLevelIfExpired. *)
LEMMA ExpiresRight ==
    ASSUME IInv, Expires, found' = found, startedAt' = startedAt
    PROVE  /\ EndsAreRight'
           /\ complete' <=> Len(found') = Len(Puzzle)
           /\ complete' \in BOOLEAN /\ timedOut' \in BOOLEAN
           /\ endedAt' \in 0..MaxTime /\ score' \in 0..30
           /\ Ended => UNCHANGED ending
           /\ Ended => Ended'
           /\ Late => timedOut'
<1> USE DEF IInv
<1>1. complete \in BOOLEAN /\ timedOut \in BOOLEAN /\ endedAt \in 0..MaxTime
      /\ now \in 0..MaxTime /\ startedAt \in Nat /\ score \in 0..30
  BY DEF TypeOK
<1>2. timedOut => ~complete
  BY DEF EndsAreRight
<1>3. timedOut' = Late /\ Late \in BOOLEAN /\ complete' = complete /\ score' = score
  BY DEF Expires, Late
<1>4. timedOut => timedOut' /\ endedAt' = endedAt
  BY <1>1, <1>2, <1>3 DEF Expires, Late, Ended
<1>5. complete => ~timedOut' /\ ~timedOut /\ endedAt' = endedAt
  BY <1>1, <1>2, <1>3 DEF Expires, Late, Ended
<1>6. ~Ended /\ timedOut' => endedAt' = now /\ Overdue(now)
  BY <1>1, <1>3 DEF Expires, Late, Ended
<1>7. ~Ended /\ ~timedOut' => endedAt' = endedAt
  BY DEF Expires
<1>8. Ended => UNCHANGED ending /\ Ended'
  BY <1>1, <1>2, <1>3, <1>4, <1>5 DEF Ended, ending
<1>9. EndsAreRight'
  <2>1. IsInjective(found') /\ Unsolved' = Unsolved
    BY DEF EndsAreRight, Unsolved
  <2>2. complete' => ~(Limit > 0 /\ endedAt' - startedAt' >= Limit)
    BY <1>3, <1>5 DEF EndsAreRight
  <2>5. complete' <=> Unsolved' = {}
    BY <1>3, <2>1 DEF EndsAreRight
  <2>3. timedOut' => Unsolved' # {}
    BY <1>3, <2>1, OpenHasWords DEF Late
  <2>4. timedOut' => Limit > 0 /\ endedAt' - startedAt' >= Limit
    BY <1>1, <1>3, <1>4, <1>6 DEF EndsAreRight, Overdue, Ended, Late
  <2> QED
    BY <1>3, <2>1, <2>2, <2>3, <2>4, <2>5 DEF EndsAreRight, Late
<1> QED
  BY <1>1, <1>3, <1>4, <1>5, <1>6, <1>7, <1>8, <1>9 DEF EndInv, Ended

(* finishLevelIfSolved, in a step that finds a new word or none. *)
LEMMA FinishRight ==
    ASSUME IInv, ~complete, ~timedOut, ~Overdue(now), FinishLevelIfSolved,
           startedAt' = startedAt, incorrect' \in Nat, hintsUsed' \in [HintTypes -> Nat],
           \/ found' = found
           \/ \E w \in Unsolved : found' = Append(found, w)
    PROVE  /\ EndsAreRight'
           /\ complete' <=> Len(found') = Len(Puzzle)
           /\ found' \in Seq(Words)
           /\ complete' \in BOOLEAN /\ timedOut' = FALSE
           /\ endedAt' \in 0..MaxTime /\ score' \in 0..30
<1> USE DEF IInv
<1>1. complete = FALSE /\ timedOut = FALSE /\ endedAt \in 0..MaxTime
      /\ now \in 0..MaxTime /\ startedAt \in Nat /\ score \in 0..30
  BY DEF TypeOK
<1>2. found' \in Seq(Words) /\ IsInjective(found')
  BY FindsWord DEF TypeOK, EndsAreRight
<1>3. Len(found') = Len(Puzzle) <=> Unsolved' = {}
  BY <1>2, AllFound DEF Unsolved
<1>4. CASE Len(found') = Len(Puzzle)
  <2>1. /\ complete' = TRUE /\ endedAt' = now /\ timedOut' = timedOut
        /\ score' = Score(now - startedAt, incorrect', hintsUsed')
    BY <1>1, <1>4 DEF FinishLevelIfSolved, FinishWith
  <2>2. score' \in 0..30
    <3>1. now - startedAt \in Int
      BY <1>1
    <3> QED
      BY <2>1, <3>1, ScoreIsBounded, Zenon
  <2>3. ~(Limit > 0 /\ endedAt' - startedAt' >= Limit)
    BY <2>1 DEF Overdue
  <2> QED
    BY <1>1, <1>2, <1>3, <1>4, <2>1, <2>2, <2>3 DEF EndsAreRight
<1>5. CASE Len(found') # Len(Puzzle)
  <2>1. UNCHANGED ending
    BY <1>5 DEF FinishLevelIfSolved, FinishWith
  <2>2. complete' = FALSE /\ timedOut' = FALSE /\ endedAt' = endedAt /\ score' = score
    BY <1>1, <2>1 DEF ending
  <2>3. EndsAreRight'
    BY <1>2, <1>3, <1>5, <2>2 DEF EndsAreRight
  <2> QED
    BY <1>1, <1>2, <1>5, <2>2, <2>3
<1> QED
  BY <1>4, <1>5

-----------------------------------------------------------------------------
(* What a hint is charged for. *)

(* recordHintUse: a free hint is not paid for, any other is. *)
LEMMA HintsCounted ==
    ASSUME TypeOK, FreeHintsFirst, NEW hint \in HintTypes, Shows(hint)
    PROVE  /\ hints' \in [HintTypes -> Nat] /\ hintsUsed' \in [HintTypes -> Nat]
           /\ FreeHintsFirst'
           /\ PaidHints \in Int
           /\ hints[hint] > 0 => PaidHints' = PaidHints
           /\ hints[hint] = 0 => PaidHints' = PaidHints + 1
<1>1. /\ hints' = [hints EXCEPT ![hint] = AtLeastZero(@ - 1)]
      /\ hintsUsed' = [hintsUsed EXCEPT ![hint] = @ + 1]
  BY DEF Shows
<1>2. \A h \in HintTypes : hints[h] \in Nat /\ hintsUsed[h] \in Nat /\ FreeHints[h] \in Nat
  BY DEF TypeOK
<1>3. hints' \in [HintTypes -> Nat] /\ hintsUsed' \in [HintTypes -> Nat]
  BY <1>1, <1>2 DEF TypeOK, AtLeastZero
<1>4. /\ \A h \in HintTypes \ {hint} : hints'[h] = hints[h] /\ hintsUsed'[h] = hintsUsed[h]
      /\ hintsUsed'[hint] = hintsUsed[hint] + 1
      /\ hints'[hint] = AtLeastZero(hints[hint] - 1)
  BY <1>1 DEF TypeOK
<1>5. \A h \in HintTypes \ {hint} : PaidFor(h)' = PaidFor(h)
  BY <1>4 DEF PaidFor
<1>6. hints[hint] > 0 => hints'[hint] = hints[hint] - 1 /\ PaidFor(hint)' = PaidFor(hint)
  BY <1>2, <1>4 DEF PaidFor, AtLeastZero
<1>7. hints[hint] = 0 => hints'[hint] = 0 /\ PaidFor(hint)' = PaidFor(hint) + 1
  BY <1>2, <1>4 DEF PaidFor, AtLeastZero
<1>8. FreeHintsFirst'
  BY <1>2, <1>4, <1>5, <1>6, <1>7 DEF FreeHintsFirst
<1>9. \A h \in HintTypes : PaidFor(h) \in Int
  BY <1>2 DEF PaidFor
<1>10. hint \in {"letter", "brush", "word"}
  BY DEF HintTypes
<1> HIDE DEF PaidFor
<1>11. hints[hint] > 0 => PaidHints' = PaidHints
  BY <1>5, <1>6, <1>10 DEF PaidHints, HintTypes
<1>12. hints[hint] = 0 => PaidHints' = PaidHints + 1
  BY <1>5, <1>7, <1>9, <1>10 DEF PaidHints, HintTypes
<1> QED
  BY <1>3, <1>8, <1>9, <1>11, <1>12 DEF PaidHints, HintTypes

(* No charge is counted twice while no hint of that kind changes. *)
LEMMA SamePlaySamePaid ==
    ASSUME hints' = hints, hintsUsed' = hintsUsed
    PROVE  PaidHints' = PaidHints /\ (FreeHintsFirst => FreeHintsFirst')
BY DEF PaidHints, PaidFor, FreeHintsFirst

(* What applyHint shows is of the puzzle, and a word it finds is new. *)
LEMMA HintShows ==
    ASSUME TypeOK, NEW hint \in HintTypes, HasTarget(hint), Shows(hint)
    PROVE  /\ revealed' \subseteq Cells
           /\ found' = found \/ \E w \in Unsolved : found' = Append(found, w)
<1> DEFINE w == Min(Targets(hint))
<1>1. w \in Unsolved /\ w \in Words
  BY HintTarget DEF Unsolved
<1>2. FirstHidden(w, 1) \subseteq Cells /\ FirstHidden(w, 2) \subseteq Cells
  BY <1>1, HiddenAreCells
<1> HIDE DEF w
<1>3. CASE hint = "word"
  BY <1>1, <1>3 DEF Shows, TypeOK, w
<1>4. CASE hint # "word"
  BY <1>2, <1>4 DEF Shows, TypeOK, w
<1> QED
  BY <1>3, <1>4

-----------------------------------------------------------------------------
(* The steps of a handler. *)

(* A handler that returns gives the mutex back, and leaves the others alone. *)
LEMMA HandlerReturns ==
    ASSUME TypeOK, HandlersInv, NEW s \in Slots, lock \in {None, s}, Returns(s)
    PROVE  /\ HandlersInv'
           /\ pc' \in [Slots -> {"idle", "accepted", "paying", "paid"}]
           /\ op' \in [Slots -> Ids \cup {None}] /\ lock' \in Slots \cup {None}
           /\ upgrade' \in BOOLEAN /\ continueRequested' \in BOOLEAN
           /\ mainPc' \in {"select", "await", "drain", "returned"} /\ deadline' \in BOOLEAN
           /\ request' \in [Ids -> Requests \cup {NoRequest}]
           /\ tries' \in [Ids -> Nat] /\ seen' \subseteq Ids /\ charged' \subseteq Ids
           /\ now' \in 0..MaxTime /\ mainPc' = mainPc /\ charged' = charged
           /\ \A t \in Slots : pc'[t] \notin {"paying", "paid"}
<1>1. /\ pc' = [pc EXCEPT ![s] = "idle"] /\ op' = [op EXCEPT ![s] = None]
      /\ lock' = None /\ request' = request /\ mainPc' = mainPc /\ now' = now
      /\ tries' = tries /\ seen' = seen /\ charged' = charged
      /\ upgrade' = upgrade /\ continueRequested' = continueRequested /\ deadline' = deadline
  BY DEF Returns, loop, clients
<1>2. pc'[s] = "idle" /\ \A t \in Slots \ {s} : pc'[t] = pc[t] /\ op'[t] = op[t]
  BY <1>1 DEF TypeOK
<1>3. \A t \in Slots \ {s} : lock # t /\ pc[t] \notin {"paying", "paid"}
  BY DEF HandlersInv
<1>4. \A t \in Slots : pc'[t] \notin {"paying", "paid"}
  BY <1>2, <1>3
<1>5. \A t \in Slots : pc'[t] # "idle" => op'[t] \in Ids /\ Asked(t)' # NoRequest
  BY <1>1, <1>2 DEF HandlersInv, Asked
<1>6. mainPc' = "returned" => \A t \in Slots : pc'[t] = "idle"
  BY <1>1, <1>2 DEF HandlersInv
<1>7. HandlersInv'
  BY <1>1, <1>4, <1>5, <1>6 DEF HandlersInv
<1> QED
  BY <1>1, <1>4, <1>7 DEF TypeOK

(* While the mutex is free nothing is being paid for. *)
LEMMA FreeMutex ==
    ASSUME HandlersInv, lock = None
    PROVE  \A t \in Slots : pc[t] \notin {"paying", "paid"}
BY DEF HandlersInv

LEMMA ChargesAreNumbers ==
    ASSUME TypeOK, IsFiniteSet(charged)
    PROVE  PaidHints \in Int /\ Cardinality(charged) \in Nat
<1>1. \A h \in HintTypes : hints[h] \in Nat /\ hintsUsed[h] \in Nat /\ FreeHints[h] \in Nat
  BY DEF TypeOK
<1>2. \A h \in HintTypes : PaidFor(h) \in Int
  BY <1>1 DEF PaidFor
<1>3. PaidHints \in Int
  BY <1>2 DEF PaidHints, HintTypes
<1> QED
  BY <1>3, FS_CardinalityType

(* A handler that returns without a change. *)
LEMMA HandlerNoChange ==
    ASSUME IInv, NEW s \in Slots, lock \in {None, s}, Returns(s),
           UNCHANGED <<play, ending, changed>>, pc[s] # "paid"
    PROVE  IInv' /\ UNCHANGED <<play, ending>>
<1> USE DEF IInv
<1>1. HandlersInv' /\ mainPc' = mainPc /\ charged' = charged /\ now' = now
      /\ \A t \in Slots : pc'[t] \notin {"paying", "paid"}
  BY HandlerReturns DEF Returns
<1>2. \A t \in Slots : pc[t] # "paid"
  BY DEF HandlersInv
<1>3. TypeOK'
  BY HandlerReturns DEF TypeOK, play, ending
<1>4. EndInv' /\ EndsAreRight' /\ NoSleepAfterTheEnd'
  BY <1>1 DEF EndInv, EndsAreRight, NoSleepAfterTheEnd, Unsolved, Ended, play, ending
<1>5. FreeHintsFirst' /\ PaidHints' = PaidHints
  BY SamePlaySamePaid DEF play
<1>6. ChargeInv'
  <2>1. PaidHints \in Int /\ Cardinality(charged) \in Nat
    BY ChargesAreNumbers DEF ChargeInv
  <2> HIDE DEF IInv
  <2>2. timedOut' = timedOut
    BY DEF ending
  <2> QED
    BY <1>1, <1>2, <1>5, <2>1, <2>2 DEF ChargeInv, IInv
<1> QED
  BY <1>1, <1>3, <1>4, <1>5, <1>6

(* A handler that finds the level over. *)
LEMMA TimesOutStep ==
    ASSUME IInv, NEW s \in Slots, TimesOut(s)
    PROVE  IInv' /\ (Ended => UNCHANGED <<play, ending>>)
<1>1. /\ lock = None /\ Late /\ Expires /\ changed' = TRUE /\ Returns(s)
      /\ UNCHANGED play
  BY DEF TimesOut, Runs
<1>2. found' = found /\ revealed' = revealed /\ startedAt' = startedAt
      /\ attempts' = attempts /\ incorrect' = incorrect
      /\ hints' = hints /\ hintsUsed' = hintsUsed
  BY <1>1 DEF play
<1>3. /\ HandlersInv' /\ mainPc' = mainPc /\ charged' = charged /\ now' = now
      /\ \A t \in Slots : pc'[t] \notin {"paying", "paid"}
  BY <1>1, HandlerReturns DEF IInv, Returns
<1>4. /\ EndsAreRight' /\ (complete' <=> Len(found') = Len(Puzzle))
      /\ (Ended => UNCHANGED ending /\ Ended') /\ timedOut'
  BY <1>1, <1>2, ExpiresRight
<1>5. TypeOK'
  BY <1>1, <1>2, HandlerReturns, ExpiresRight DEF IInv, TypeOK
<1>6. EndInv'
  BY <1>2, <1>3, <1>4 DEF IInv, EndInv
<1>7. FreeHintsFirst' /\ PaidHints' = PaidHints
  BY <1>2, SamePlaySamePaid DEF IInv
<1>8. ChargeInv'
  <2>1. PaidHints \in Int /\ Cardinality(charged) \in Nat
    BY ChargesAreNumbers DEF IInv, ChargeInv
  <2>2. Cardinality(charged) <= PaidHints + 1 /\ IsFiniteSet(charged)
    BY <2>1 DEF IInv, ChargeInv
  <2> QED
    BY <1>3, <1>4, <1>7, <2>2 DEF ChargeInv
<1> QED
  BY <1>1, <1>3, <1>4, <1>5, <1>6, <1>7, <1>8 DEF IInv, NoSleepAfterTheEnd

(* A guess. *)
LEMMA GuessStep ==
    ASSUME IInv, NEW s \in Slots, Guess(s)
    PROVE  IInv' /\ ~Ended
<1>1. /\ lock = None /\ ~Late /\ ~complete /\ ~timedOut /\ ~Overdue(now)
      /\ FinishLevelIfSolved /\ changed' = TRUE /\ Returns(s) /\ attempts' = attempts + 1
      /\ UNCHANGED <<revealed, hintsUsed, hints, startedAt>>
  BY DEF Guess, Guesses, Plays, Runs, Late, IInv, TypeOK
<1>2. /\ found' = found \/ \E w \in Unsolved : found' = Append(found, w)
      /\ incorrect' \in Nat
  BY DEF Guess, Guesses, IInv, TypeOK
<1>3. /\ EndsAreRight' /\ (complete' <=> Len(found') = Len(Puzzle))
      /\ found' \in Seq(Words) /\ complete' \in BOOLEAN /\ timedOut' = FALSE
      /\ endedAt' \in 0..MaxTime /\ score' \in 0..30
  BY <1>1, <1>2, FinishRight DEF IInv, TypeOK
<1>4. /\ HandlersInv' /\ mainPc' = mainPc /\ charged' = charged /\ now' = now
      /\ \A t \in Slots : pc'[t] \notin {"paying", "paid"}
  BY <1>1, HandlerReturns DEF IInv, Returns
<1>5. TypeOK'
  <2>1. attempts' \in Nat
    BY <1>1 DEF IInv, TypeOK
  <2>2. TypeOK /\ HandlersInv
    BY DEF IInv
  <2> QED
    BY <1>1, <1>2, <1>3, <2>1, <2>2, HandlerReturns DEF TypeOK
<1>6. EndInv'
  BY <1>1, <1>3, <1>4 DEF IInv, EndInv, Ended
<1>7. FreeHintsFirst' /\ PaidHints' = PaidHints
  BY <1>1, SamePlaySamePaid DEF IInv
<1>8. ChargeInv'
  <2>1. PaidHints \in Int /\ Cardinality(charged) \in Nat
    BY ChargesAreNumbers DEF IInv, ChargeInv
  <2>2. Cardinality(charged) <= PaidHints /\ IsFiniteSet(charged)
    BY <1>1, <2>1, FreeMutex DEF IInv, ChargeInv
  <2> QED
    BY <1>3, <1>4, <1>7, <2>1, <2>2 DEF ChargeInv
<1> QED
  BY <1>1, <1>3, <1>4, <1>5, <1>6, <1>7, <1>8 DEF IInv, NoSleepAfterTheEnd, Ended

(* A hint that is shown: a free one, or one that was paid for. *)
LEMMA ShownStep ==
    ASSUME IInv, NEW s \in Slots, lock \in {None, s}, ~complete, ~timedOut, ~Overdue(now),
           NEW hint \in HintTypes, HasTarget(hint), Shows(hint), Returns(s),
           \/ lock = None /\ hints[hint] > 0
           \/ lock = s /\ pc[s] = "paid" /\ hints[hint] = 0
    PROVE  IInv'
<1>1. /\ FinishLevelIfSolved /\ changed' = TRUE
      /\ UNCHANGED <<attempts, incorrect, startedAt>>
  BY DEF Shows
<1>2. /\ found' = found \/ \E w \in Unsolved : found' = Append(found, w)
      /\ revealed' \subseteq Cells
  BY HintShows DEF IInv
<1>3. /\ hints' \in [HintTypes -> Nat] /\ hintsUsed' \in [HintTypes -> Nat]
      /\ FreeHintsFirst' /\ PaidHints \in Int
      /\ hints[hint] > 0 => PaidHints' = PaidHints
      /\ hints[hint] = 0 => PaidHints' = PaidHints + 1
  BY HintsCounted DEF IInv
<1>4. /\ EndsAreRight' /\ (complete' <=> Len(found') = Len(Puzzle))
      /\ found' \in Seq(Words) /\ complete' \in BOOLEAN /\ timedOut' = FALSE
      /\ endedAt' \in 0..MaxTime /\ score' \in 0..30
  BY <1>1, <1>2, <1>3, FinishRight DEF IInv, TypeOK
<1>5. /\ HandlersInv' /\ mainPc' = mainPc /\ charged' = charged /\ now' = now
      /\ \A t \in Slots : pc'[t] \notin {"paying", "paid"}
  BY HandlerReturns DEF IInv, Returns
<1>6. TypeOK'
  BY <1>1, <1>2, <1>3, <1>4, HandlerReturns DEF IInv, TypeOK
<1>7. EndInv'
  BY <1>1, <1>4, <1>5 DEF IInv, EndInv, Ended
<1>8. ChargeInv'
  <2>1. Cardinality(charged) \in Nat /\ IsFiniteSet(charged)
    BY ChargesAreNumbers DEF IInv, ChargeInv
  <2>2. Cardinality(charged) <= PaidHints + (IF lock = s THEN 1 ELSE 0)
    BY <1>3, <2>1, FreeMutex DEF IInv, ChargeInv
  <2>3. Cardinality(charged) <= PaidHints'
    BY <1>3, <2>1, <2>2
  <2>4. PaidHints' \in Int
    BY <1>3
  <2> QED
    BY <1>4, <1>5, <2>1, <2>3, <2>4 DEF ChargeInv
<1> QED
  BY <1>1, <1>3, <1>4, <1>5, <1>6, <1>7, <1>8 DEF IInv, NoSleepAfterTheEnd

LEMMA FreeHintStep ==
    ASSUME IInv, NEW s \in Slots, FreeHint(s)
    PROVE  IInv' /\ ~Ended
<1> DEFINE hint == Asked(s).hint
<1>1. /\ pc[s] = "accepted" /\ lock = None /\ ~Late /\ ~complete /\ Asked(s).kind = "hint"
      /\ HasTarget(hint) /\ hints[hint] > 0 /\ Shows(hint) /\ Returns(s)
  BY DEF FreeHint, Plays, Runs
<1>2. ~timedOut /\ ~Overdue(now)
  BY <1>1 DEF Late
<1>3. hint \in HintTypes
  BY <1>1 DEF IInv, HandlersInv, TypeOK, Asked, Requests, NoRequest
<1> HIDE DEF hint
<1> QED
  BY <1>1, <1>2, <1>3, ShownStep DEF Ended

(* The points are spent, and the deadline is looked at again. *)
LEMMA FinishPaidHintStep ==
    ASSUME IInv, NEW s \in Slots, FinishPaidHint(s)
    PROVE  IInv' /\ (Ended => UNCHANGED <<play, ending>>)
<1> DEFINE hint == Asked(s).hint
<1>1. pc[s] = "paid" /\ Returns(s)
  BY DEF FinishPaidHint, Resumes
<1>2. lock = s /\ ~complete /\ HasTarget(hint) /\ hints[hint] = 0 /\ Asked(s).kind = "hint"
  BY <1>1 DEF IInv, HandlersInv
<1>3. hint \in HintTypes
  BY <1>1, <1>2 DEF IInv, HandlersInv, TypeOK, Asked, Requests, NoRequest
<1>4. CASE ~Late
  <2>1. Shows(hint)
    BY <1>2, <1>4 DEF FinishPaidHint, Resumes
  <2>2. ~timedOut /\ ~Overdue(now)
    BY <1>2, <1>4 DEF Late
  <2> HIDE DEF hint
  <2> QED
    BY <1>1, <1>2, <1>3, <2>1, <2>2, ShownStep DEF Ended
<1>5. CASE Late
  <2>1. Expires /\ changed' = TRUE /\ UNCHANGED play
    BY <1>5 DEF FinishPaidHint, Resumes
  <2>2. /\ found' = found /\ revealed' = revealed /\ startedAt' = startedAt
        /\ attempts' = attempts /\ incorrect' = incorrect
        /\ hints' = hints /\ hintsUsed' = hintsUsed
    BY <2>1 DEF play
  <2>3. /\ HandlersInv' /\ mainPc' = mainPc /\ charged' = charged /\ now' = now
        /\ \A t \in Slots : pc'[t] \notin {"paying", "paid"}
    BY <1>1, <1>2, HandlerReturns DEF IInv, Returns
  <2>4. /\ EndsAreRight' /\ (complete' <=> Len(found') = Len(Puzzle))
        /\ (Ended => UNCHANGED ending /\ Ended') /\ timedOut'
    BY <1>5, <2>1, <2>2, ExpiresRight
  <2>5. TypeOK'
    BY <1>1, <1>2, <2>1, <2>2, HandlerReturns, ExpiresRight DEF IInv, TypeOK
  <2>6. EndInv'
    BY <2>2, <2>3, <2>4 DEF IInv, EndInv
  <2>7. FreeHintsFirst' /\ PaidHints' = PaidHints
    BY <2>2, SamePlaySamePaid DEF IInv
  <2>8. ChargeInv'
    <3>1. PaidHints \in Int /\ Cardinality(charged) \in Nat
      BY ChargesAreNumbers DEF IInv, ChargeInv
    <3>2. Cardinality(charged) <= PaidHints + 1 /\ IsFiniteSet(charged)
      BY <3>1 DEF IInv, ChargeInv
    <3> QED
      BY <2>3, <2>4, <2>7, <3>2 DEF ChargeInv
  <2> QED
    BY <2>1, <2>3, <2>4, <2>5, <2>6, <2>7, <2>8 DEF IInv, NoSleepAfterTheEnd
<1> QED
  BY <1>4, <1>5

(* A request is accepted: it waits for the mutex, and nothing else changes. *)
LEMMA AcceptStep ==
    ASSUME IInv, NEW s \in Slots, Accept(s)
    PROVE  IInv' /\ UNCHANGED <<play, ending>>
<1>1. PICK id \in Ids \ seen :
        /\ IF request[id] = NoRequest
           THEN \E asked \in Requests : request' = [request EXCEPT ![id] = asked]
           ELSE UNCHANGED request
        /\ tries' = [tries EXCEPT ![id] = @ + 1]
        /\ seen' = seen \cup {id}
        /\ op' = [op EXCEPT ![s] = id]
  BY DEF Accept
<1>2. /\ mainPc # "returned" /\ pc[s] = "idle" /\ pc' = [pc EXCEPT ![s] = "accepted"]
      /\ UNCHANGED <<play, ending, lock, changed, loop, charged, now>>
  BY DEF Accept
<1>3. /\ request' \in [Ids -> Requests \cup {NoRequest}]
      /\ request'[id] # NoRequest
      /\ \A other \in Ids : request[other] # NoRequest => request'[other] = request[other]
  <2>1. request \in [Ids -> Requests \cup {NoRequest}] /\ id \in Ids
    BY DEF IInv, TypeOK
  <2>2. \A asked \in Requests : asked # NoRequest
    BY DEF Requests, NoRequest
  <2> QED
    BY <1>1, <2>1, <2>2
<1>4. /\ pc'[s] = "accepted" /\ op'[s] = id
      /\ \A t \in Slots \ {s} : pc'[t] = pc[t] /\ op'[t] = op[t]
  BY <1>1, <1>2 DEF IInv, TypeOK
<1>5. TypeOK'
  <2>1. tries' \in [Ids -> Nat] /\ op' \in [Slots -> Ids \cup {None}]
        /\ pc' \in [Slots -> {"idle", "accepted", "paying", "paid"}]
    BY <1>1, <1>2 DEF IInv, TypeOK
  <2> QED
    BY <1>1, <1>2, <1>3, <2>1 DEF IInv, TypeOK, play, ending, loop
<1>6. HandlersInv'
  <2>1. \A t \in Slots : pc'[t] # "idle" => op'[t] \in Ids /\ Asked(t)' # NoRequest
    BY <1>3, <1>4 DEF IInv, HandlersInv, Asked
  <2>2. lock' = lock /\ complete' = complete /\ hints' = hints /\ mainPc' = mainPc
        /\ found' = found /\ revealed' = revealed
    BY <1>2 DEF play, ending, loop
  <2>3. \A t \in Slots : pc'[t] \in {"paying", "paid"} <=> lock' = t
    BY <1>2, <1>4, <2>2 DEF IInv, HandlersInv
  <2>4. \A hint \in HintTypes : HasTarget(hint)' = HasTarget(hint)
    BY <2>2 DEF HasTarget, Targets, Unsolved, HiddenIn, Visible
  <2>5. ASSUME NEW t \in Slots, lock' = t
        PROVE  /\ ~complete' /\ Asked(t)'.kind = "hint"
               /\ HasTarget(Asked(t).hint)' /\ hints'[Asked(t)'.hint] = 0
    <3>1. t # s /\ lock = t /\ pc[t] \in {"paying", "paid"}
      BY <1>2, <2>2, <2>5 DEF IInv, HandlersInv
    <3>2. op[t] \in Ids /\ Asked(t) # NoRequest /\ Asked(t)' = Asked(t)
      BY <1>3, <1>4, <3>1 DEF IInv, HandlersInv, Asked
    <3>3. Asked(t).kind = "hint" /\ HasTarget(Asked(t).hint) /\ hints[Asked(t).hint] = 0
          /\ ~complete
      BY <3>1 DEF IInv, HandlersInv
    <3>4. Asked(t).hint \in HintTypes
      BY <3>2, <3>3 DEF IInv, TypeOK, Asked, Requests, NoRequest
    <3> QED
      BY <2>2, <2>4, <3>2, <3>3, <3>4
  <2> QED
    BY <1>2, <2>1, <2>2, <2>3, <2>5 DEF HandlersInv
<1>7. EndInv' /\ EndsAreRight' /\ NoSleepAfterTheEnd'
  BY <1>2 DEF IInv, EndInv, EndsAreRight, NoSleepAfterTheEnd, Unsolved, Ended, play, ending, loop
<1>8. FreeHintsFirst' /\ PaidHints' = PaidHints
  BY <1>2, SamePlaySamePaid DEF IInv, play
<1>9. ChargeInv'
  <2>1. charged' = charged /\ timedOut' = timedOut
    BY <1>2 DEF ending
  <2>2. \A t \in Slots : (pc'[t] = "paid" <=> pc[t] = "paid") /\ (pc'[t] = "paying" <=> pc[t] = "paying")
    BY <1>2, <1>4
  <2> QED
    BY <1>8, <2>1, <2>2 DEF IInv, ChargeInv
<1> QED
  BY <1>2, <1>5, <1>6, <1>7, <1>8, <1>9 DEF IInv

(* A paid hint takes the mutex, is answered, or is refused. *)
LEMMA PayingKeepsPlay ==
    ASSUME IInv, NEW s \in Slots, pc[s] # "idle", lock' = s, lock \in {None, s}, mainPc # "returned",
           NEW to \in {"paying", "paid"}, pc' = [pc EXCEPT ![s] = to],
           UNCHANGED <<play, ending, op, changed, loop, clients, now>>,
           charged' \subseteq Ids,
           ~complete, Asked(s).kind = "hint",
           HasTarget(Asked(s).hint), hints[Asked(s).hint] = 0
    PROVE  /\ TypeOK' /\ HandlersInv' /\ EndInv' /\ EndsAreRight' /\ FreeHintsFirst'
           /\ NoSleepAfterTheEnd' /\ PaidHints' = PaidHints
           /\ pc'[s] = to /\ \A t \in Slots \ {s} : pc'[t] \notin {"paying", "paid"}
<1>1. pc'[s] = to /\ \A t \in Slots \ {s} : pc'[t] = pc[t]
  BY DEF IInv, TypeOK
<1>2. \A t \in Slots \ {s} : pc[t] \notin {"paying", "paid"}
  BY DEF IInv, HandlersInv
<1>3. /\ found' = found /\ revealed' = revealed /\ hints' = hints /\ hintsUsed' = hintsUsed
      /\ complete' = complete /\ mainPc' = mainPc /\ op' = op /\ request' = request
  BY DEF play, ending, loop, clients
<1>4. TypeOK'
  BY DEF IInv, TypeOK, play, ending, loop, clients
<1>5. Asked(s)' = Asked(s) /\ HasTarget(Asked(s).hint)' = HasTarget(Asked(s).hint)
  BY <1>3 DEF Asked, HasTarget, Targets, Unsolved, HiddenIn, Visible
<1>6. \A t \in Slots : pc'[t] # "idle" => op'[t] \in Ids /\ Asked(t)' # NoRequest
  BY <1>1, <1>3 DEF IInv, HandlersInv, Asked
<1>7. HandlersInv'
  <2>1. \A t \in Slots : pc'[t] \in {"paying", "paid"} <=> lock' = t
    BY <1>1, <1>2
  <2> QED
    BY <1>3, <1>5, <1>6, <2>1 DEF HandlersInv
<1>8. EndInv' /\ EndsAreRight' /\ NoSleepAfterTheEnd'
  BY DEF IInv, EndInv, EndsAreRight, NoSleepAfterTheEnd, Unsolved, Ended, play, ending, loop
<1>9. FreeHintsFirst' /\ PaidHints' = PaidHints
  BY <1>3, SamePlaySamePaid DEF IInv
<1> QED
  BY <1>1, <1>2, <1>4, <1>7, <1>8, <1>9

LEMMA BeginPaidHintStep ==
    ASSUME IInv, NEW s \in Slots, BeginPaidHint(s)
    PROVE  IInv' /\ UNCHANGED <<play, ending>>
<1>1. /\ pc[s] = "accepted" /\ lock = None /\ ~Late /\ ~complete /\ Asked(s).kind = "hint"
      /\ HasTarget(Asked(s).hint) /\ hints[Asked(s).hint] = 0 /\ lock' = s
      /\ pc' = [pc EXCEPT ![s] = "paying"]
      /\ UNCHANGED <<play, ending, op, changed, loop, clients, charged, now>>
  BY DEF BeginPaidHint, Plays, Runs
<1>2. mainPc # "returned" /\ ~timedOut
  BY <1>1 DEF IInv, HandlersInv, Late
<1>3. charged' \subseteq Ids
  BY <1>1 DEF IInv, TypeOK
<1>4. /\ TypeOK' /\ HandlersInv' /\ EndInv' /\ EndsAreRight' /\ FreeHintsFirst'
      /\ NoSleepAfterTheEnd' /\ PaidHints' = PaidHints
  BY <1>1, <1>2, <1>3, PayingKeepsPlay
<1>5. ChargeInv'
  <2>1. PaidHints \in Int /\ Cardinality(charged) \in Nat
    BY ChargesAreNumbers DEF IInv, ChargeInv
  <2>2. Cardinality(charged) <= PaidHints /\ IsFiniteSet(charged) /\ charged' = charged
    BY <1>1, <1>2, <2>1, FreeMutex DEF IInv, ChargeInv
  <2> QED
    BY <1>4, <2>1, <2>2 DEF ChargeInv
<1> QED
  BY <1>1, <1>4, <1>5 DEF IInv

LEMMA ChargeStep ==
    ASSUME IInv, NEW s \in Slots, Charge(s)
    PROVE  IInv' /\ UNCHANGED <<play, ending>>
<1>1. /\ pc[s] = "paying" /\ charged' = charged \cup {op[s]}
      /\ pc' = [pc EXCEPT ![s] = "paid"]
      /\ UNCHANGED <<play, ending, op, lock, changed, loop, clients, now>>
  BY DEF Charge
<1>2. /\ lock = s /\ lock' = s /\ mainPc # "returned" /\ ~complete /\ Asked(s).kind = "hint"
      /\ HasTarget(Asked(s).hint) /\ hints[Asked(s).hint] = 0 /\ op[s] \in Ids
      /\ \A t \in Slots \ {s} : pc[t] \notin {"paying", "paid"}
  BY <1>1 DEF IInv, HandlersInv
<1>3. charged' \subseteq Ids
  BY <1>1, <1>2 DEF IInv, TypeOK
<1>4. /\ TypeOK' /\ HandlersInv' /\ EndInv' /\ EndsAreRight' /\ FreeHintsFirst'
      /\ NoSleepAfterTheEnd' /\ PaidHints' = PaidHints /\ pc'[s] = "paid"
  BY <1>1, <1>2, <1>3, PayingKeepsPlay
<1>5. ChargeInv'
  <2>1. PaidHints \in Int /\ Cardinality(charged) \in Nat
    BY ChargesAreNumbers DEF IInv, ChargeInv
  <2>2. Cardinality(charged) <= PaidHints /\ IsFiniteSet(charged)
    BY <1>1, <1>2, <2>1 DEF IInv, ChargeInv
  <2>3. /\ IsFiniteSet(charged') /\ Cardinality(charged') \in Nat
        /\ Cardinality(charged') <= Cardinality(charged) + 1
    <3>1. /\ IsFiniteSet(charged \cup {op[s]})
          /\ \/ Cardinality(charged \cup {op[s]}) = Cardinality(charged)
             \/ Cardinality(charged \cup {op[s]}) = Cardinality(charged) + 1
      BY <2>2, FS_AddElement, Zenon
    <3> QED
      BY <1>1, <2>1, <3>1
  <2>4. Cardinality(charged') <= PaidHints' + 1
    BY <1>4, <2>1, <2>2, <2>3
  <2> QED
    BY <1>4, <2>3, <2>4 DEF ChargeInv
<1> QED
  BY <1>1, <1>4, <1>5 DEF IInv

LEMMA ChargeRefusedStep ==
    ASSUME IInv, NEW s \in Slots, ChargeRefused(s)
    PROVE  IInv' /\ UNCHANGED <<play, ending>>
<1>1. pc[s] = "paying" /\ Returns(s) /\ UNCHANGED <<play, ending, changed>>
  BY DEF ChargeRefused
<1>2. lock = s
  BY <1>1 DEF IInv, HandlersInv
<1> QED
  BY <1>1, <1>2, HandlerNoChange

-----------------------------------------------------------------------------
(* The steps of the main coroutine. *)

(* No handler and no request changes with the main coroutine, which may time *)
(* the level out.                                                            *)
LEMMA MainKeeps ==
    ASSUME IInv, UNCHANGED <<play, handlers, request, charged, now>>,
           mainPc' = "returned" => \A t \in Slots : pc[t] = "idle",
           mainPc' \in {"drain", "returned"} => Ended',
           mainPc' = "select" /\ Ended' => changed',
           Expires \/ UNCHANGED ending,
           tries' = tries, seen' \subseteq Ids,
           changed' \in BOOLEAN /\ upgrade' \in BOOLEAN /\ continueRequested' \in BOOLEAN,
           mainPc' \in {"select", "await", "drain", "returned"}, deadline' \in BOOLEAN
    PROVE  IInv' /\ (Ended => UNCHANGED <<play, ending>>)
<1>1. /\ found' = found /\ revealed' = revealed /\ startedAt' = startedAt
      /\ attempts' = attempts /\ incorrect' = incorrect
      /\ hints' = hints /\ hintsUsed' = hintsUsed
      /\ pc' = pc /\ op' = op /\ lock' = lock
  BY DEF play, handlers
<1>2. /\ EndsAreRight' /\ (complete' <=> Len(found') = Len(Puzzle))
      /\ complete' = complete /\ timedOut' \in BOOLEAN
      /\ endedAt' \in 0..MaxTime /\ score' \in 0..30
      /\ (Ended => UNCHANGED ending) /\ (timedOut => timedOut')
  <2>1. CASE Expires
    <3>1. /\ EndsAreRight' /\ (complete' <=> Len(found') = Len(Puzzle))
          /\ timedOut' \in BOOLEAN /\ endedAt' \in 0..MaxTime /\ score' \in 0..30
          /\ (Ended => UNCHANGED ending)
      BY <1>1, <2>1, ExpiresRight
    <3>2. timedOut => timedOut'
      BY <3>1 DEF Ended, ending
    <3>3. complete' = complete
      BY <2>1 DEF Expires
    <3> QED
      BY <3>1, <3>2, <3>3
  <2>2. CASE UNCHANGED ending
    BY <1>1, <2>2 DEF IInv, TypeOK, EndInv, EndsAreRight, Unsolved, ending
  <2> QED
    BY <2>1, <2>2
<1>3. complete' \in BOOLEAN
  BY <1>2 DEF IInv, TypeOK
<1>4. TypeOK'
  BY <1>1, <1>2, <1>3 DEF IInv, TypeOK
<1>5. HandlersInv'
  <2>1. \A t \in Slots : Asked(t)' = Asked(t)
    BY <1>1 DEF Asked
  <2>2. \A hint : HasTarget(hint)' = HasTarget(hint)
    BY <1>1 DEF HasTarget, Targets, Unsolved, HiddenIn, Visible
  <2> QED
    BY <1>1, <1>2, <2>1, <2>2 DEF IInv, HandlersInv
<1>6. EndInv'
  BY <1>1, <1>2 DEF IInv, EndInv
<1>7. FreeHintsFirst' /\ PaidHints' = PaidHints
  BY <1>1, SamePlaySamePaid DEF IInv
<1>8. ChargeInv'
  <2>1. PaidHints \in Int /\ Cardinality(charged) \in Nat
    BY ChargesAreNumbers DEF IInv, ChargeInv
  <2> QED
    BY <1>1, <1>2, <1>7, <2>1 DEF IInv, ChargeInv
<1> QED
  BY <1>2, <1>4, <1>5, <1>6, <1>7, <1>8 DEF IInv, NoSleepAfterTheEnd

LEMMA MainStep ==
    ASSUME IInv, Main
    PROVE  IInv' /\ (Ended => UNCHANGED <<play, ending>>)
<1>1. changed \in BOOLEAN /\ upgrade \in BOOLEAN /\ continueRequested \in BOOLEAN
      /\ mainPc \in {"select", "await", "drain", "returned"} /\ deadline \in BOOLEAN
      /\ seen \subseteq Ids
  BY DEF IInv, TypeOK
<1>2. NextIteration => /\ mainPc' \in {"select", "await", "drain"}
                       /\ mainPc' = "drain" => Ended'
                       /\ mainPc' = "select" => ~Ended'
  BY DEF NextIteration, Ended
<1>3. CASE Wake
  BY <1>1, <1>2, <1>3, MainKeeps DEF Wake, clients, ending
<1>4. CASE ReceiveUpgrade
  BY <1>1, <1>2, <1>4, MainKeeps DEF ReceiveUpgrade, clients
<1>5. CASE DeadlinePasses
  BY <1>1, <1>2, <1>5, MainKeeps DEF DeadlinePasses, clients
<1>6. CASE ContinueAsNew
  <2>1. /\ IF Ended THEN UNCHANGED ending ELSE Expires
        /\ deadline' = (TRUE /\ Limit > 0 /\ ~complete' /\ ~timedOut')
        /\ mainPc' = IF complete' \/ timedOut' THEN "drain" ELSE "select"
        /\ changed' = FALSE /\ upgrade' = FALSE /\ continueRequested' = FALSE
        /\ seen' = {}
        /\ UNCHANGED <<play, handlers, request, tries, charged, now>>
    BY <1>6 DEF ContinueAsNew, Continues
  <2>2. Expires \/ UNCHANGED ending
    BY <2>1
  <2>3. deadline' \in BOOLEAN
    BY <2>1
  <2>4. /\ mainPc' \in {"select", "drain"}
        /\ mainPc' = "drain" => Ended'
        /\ mainPc' = "select" => ~Ended'
    BY <2>1 DEF Ended
  <2> QED
    BY <2>1, <2>2, <2>3, <2>4, MainKeeps
<1>7. CASE Return
  <2>1. Ended /\ UNCHANGED ending /\ Ended'
    BY <1>7 DEF Return, IInv, EndInv, Ended, ending
  <2> QED
    BY <1>1, <1>7, <2>1, MainKeeps DEF Return, clients
<1> QED
  BY <1>3, <1>4, <1>5, <1>6, <1>7 DEF Main

LEMMA TickStep ==
    ASSUME IInv, Tick
    PROVE  IInv' /\ UNCHANGED <<play, ending>>
<1>1. now' = now + 1 /\ now < MaxTime /\ now \in 0..MaxTime
      /\ UNCHANGED <<play, ending, handlers, changed, loop, clients, charged>>
  BY DEF Tick, IInv, TypeOK
<1>2. TypeOK'
  BY <1>1 DEF IInv, TypeOK, play, ending, handlers, loop, clients
<1>3. HandlersInv'
  <2>1. \A t \in Slots : Asked(t)' = Asked(t)
    BY <1>1 DEF Asked, handlers, clients
  <2>2. \A hint : HasTarget(hint)' = HasTarget(hint)
    BY <1>1 DEF HasTarget, Targets, Unsolved, HiddenIn, Visible, play
  <2> QED
    BY <1>1, <2>1, <2>2 DEF IInv, HandlersInv, play, ending, handlers, loop
<1>4. EndInv' /\ EndsAreRight' /\ NoSleepAfterTheEnd'
  BY <1>1 DEF IInv, TypeOK, EndInv, EndsAreRight, NoSleepAfterTheEnd, Unsolved, Ended,
              play, ending, loop
<1>5. FreeHintsFirst' /\ PaidHints' = PaidHints
  BY <1>1, SamePlaySamePaid DEF IInv, play
<1>6. ChargeInv'
  BY <1>1, <1>5 DEF IInv, ChargeInv, handlers, ending
<1> QED
  BY <1>1, <1>2, <1>3, <1>4, <1>5, <1>6 DEF IInv

LEMMA RequestUpgradeStep ==
    ASSUME IInv, RequestUpgrade
    PROVE  IInv' /\ UNCHANGED <<play, ending>>
<1>1. /\ mainPc' = mainPc /\ mainPc # "returned" /\ upgrade' = TRUE
      /\ UNCHANGED <<play, ending, handlers, changed, clients, charged,
                     continueRequested, deadline, now>>
  BY DEF RequestUpgrade
<1>2. /\ changed' \in BOOLEAN /\ upgrade' \in BOOLEAN /\ continueRequested' \in BOOLEAN
      /\ mainPc' \in {"select", "await", "drain", "returned"} /\ deadline' \in BOOLEAN
      /\ tries' = tries /\ request' = request /\ seen' \subseteq Ids
  BY <1>1 DEF IInv, TypeOK, clients
<1>3. Ended' = Ended /\ UNCHANGED ending
  BY <1>1 DEF Ended, ending
<1>4. /\ mainPc' \in {"drain", "returned"} => Ended'
      /\ mainPc' = "select" /\ Ended' => changed'
  BY <1>1, <1>3 DEF IInv, EndInv, NoSleepAfterTheEnd
<1> QED
  BY <1>1, <1>2, <1>3, <1>4, MainKeeps

-----------------------------------------------------------------------------
(* The invariant is inductive. *)

LEMMA InitIInv == Init => IInv
<1> SUFFICES ASSUME Init PROVE IInv
  OBVIOUS
<1>1. /\ found = <<>> /\ revealed = {} /\ startedAt = 0 /\ now \in 0..MaxTime
      /\ hintsUsed = [h \in HintTypes |-> 0] /\ hints = FreeHints
      /\ complete = FALSE /\ score = 0 /\ timedOut = Overdue(now)
      /\ endedAt = IF timedOut THEN now ELSE 0
      /\ pc = [s \in Slots |-> "idle"] /\ lock = None /\ charged = {}
      /\ mainPc = IF timedOut THEN "drain" ELSE "select"
  BY DEF Init
<1>2. Overdue(now) \in BOOLEAN
  BY DEF Overdue
<1>3. TypeOK
  <2>1. found \in Seq(Words) /\ now \in 0..MaxTime /\ endedAt \in 0..MaxTime
        /\ hintsUsed \in [HintTypes -> Nat] /\ hints \in [HintTypes -> Nat]
    BY <1>1, <1>2
  <2>2. /\ attempts = 0 /\ incorrect = 0 /\ op = [s \in Slots |-> None] /\ seen = {}
        /\ changed = FALSE /\ upgrade = FALSE /\ continueRequested = FALSE
        /\ deadline = (Limit > 0 /\ ~timedOut)
        /\ request = [id \in Ids |-> NoRequest] /\ tries = [id \in Ids |-> 0]
    BY DEF Init
  <2>3. /\ request \in [Ids -> Requests \cup {NoRequest}] /\ tries \in [Ids -> Nat]
        /\ op \in [Slots -> Ids \cup {None}]
        /\ pc \in [Slots -> {"idle", "accepted", "paying", "paid"}]
    BY <1>1, <2>2
  <2>4. timedOut \in BOOLEAN /\ deadline \in BOOLEAN
        /\ mainPc \in {"select", "await", "drain", "returned"}
    BY <1>1, <1>2, <2>2
  <2>5. attempts \in Nat /\ incorrect \in Nat /\ startedAt \in Nat /\ score \in 0..30
    BY <1>1, <2>2
  <2>6. revealed \subseteq Cells /\ seen \subseteq Ids /\ charged \subseteq Ids
    BY <1>1, <2>2, Zenon
  <2>7. /\ complete \in BOOLEAN /\ changed \in BOOLEAN /\ upgrade \in BOOLEAN
        /\ continueRequested \in BOOLEAN /\ lock \in Slots \cup {None}
    BY <1>1, <2>2, Zenon
  <2> QED
    BY <2>1, <2>3, <2>4, <2>5, <2>6, <2>7 DEF TypeOK
<1>4. HandlersInv
  BY <1>1 DEF HandlersInv
<1>5. Len(found) = 0 /\ Range(found) = {} /\ IsInjective(found)
  BY <1>1 DEF Range, IsInjective
<1>6. Len(Puzzle) # 0
  BY EmptySeq
<1>7. EndInv
  BY <1>1, <1>5, <1>6 DEF EndInv, Ended
<1>8. Unsolved # {}
  BY <1>5, <1>6, WordsAreNumbers DEF Unsolved
<1>9. EndsAreRight
  BY <1>1, <1>5, <1>8 DEF EndsAreRight, Overdue
<1>10. \A h \in HintTypes : PaidFor(h) = 0
  BY <1>1 DEF PaidFor
<1>11. FreeHintsFirst /\ PaidHints = 0
  BY <1>10 DEF FreeHintsFirst, PaidHints, HintTypes
<1>12. ChargeInv
  BY <1>1, <1>11, FS_EmptySet DEF ChargeInv
<1>13. NoSleepAfterTheEnd
  BY <1>1 DEF NoSleepAfterTheEnd, Ended
<1> QED
  BY <1>3, <1>4, <1>7, <1>9, <1>11, <1>12, <1>13 DEF IInv

LEMMA NextIInv ==
    ASSUME IInv, [Next]_vars
    PROVE  IInv' /\ (Ended => UNCHANGED <<play, ending>>)
<1>1. CASE \E s \in Slots : Accept(s)
  BY <1>1, AcceptStep
<1>2. CASE \E s \in Slots : Handler(s)
  <2>1. PICK s \in Slots : Handler(s)
    BY <1>2
  <2>2. CASE TimesOut(s)
    BY <2>2, TimesOutStep
  <2>3. CASE FindsComplete(s) \/ GuessEmpty(s) \/ HintRefused(s)
    <3>1. pc[s] = "accepted" /\ lock = None /\ Returns(s) /\ UNCHANGED <<play, ending, changed>>
      BY <2>3 DEF FindsComplete, GuessEmpty, HintRefused, Plays, Runs
    <3> QED
      BY <3>1, HandlerNoChange
  <2>4. CASE Guess(s)
    BY <2>4, GuessStep
  <2>5. CASE FreeHint(s)
    BY <2>5, FreeHintStep
  <2>6. CASE BeginPaidHint(s)
    BY <2>6, BeginPaidHintStep
  <2>7. CASE FinishPaidHint(s)
    BY <2>7, FinishPaidHintStep
  <2> QED
    BY <2>1, <2>2, <2>3, <2>4, <2>5, <2>6, <2>7 DEF Handler
<1>3. CASE \E s \in Slots : Activity(s)
  BY <1>3, ChargeStep, ChargeRefusedStep DEF Activity
<1>4. CASE Main
  BY <1>4, MainStep
<1>5. CASE RequestUpgrade
  BY <1>5, RequestUpgradeStep
<1>6. CASE Tick
  BY <1>6, TickStep
<1>7. CASE UNCHANGED vars
  <2>1. UNCHANGED <<play, ending, handlers, changed, loop, clients, charged, now>>
    BY <1>7 DEF vars, play, ending, handlers, loop, clients
  <2>2. /\ Ended' = Ended /\ UNCHANGED ending
        /\ mainPc' = mainPc /\ deadline' = deadline /\ upgrade' = upgrade
        /\ continueRequested' = continueRequested /\ tries' = tries /\ seen' = seen
        /\ request' = request /\ changed' = changed
    BY <2>1 DEF Ended, ending, loop, clients
  <2>3. /\ mainPc' = "returned" => \A t \in Slots : pc[t] = "idle"
        /\ mainPc' \in {"drain", "returned"} => Ended'
        /\ mainPc' = "select" /\ Ended' => changed'
    BY <2>2 DEF IInv, HandlersInv, EndInv, NoSleepAfterTheEnd
  <2>4. /\ changed' \in BOOLEAN /\ upgrade' \in BOOLEAN /\ continueRequested' \in BOOLEAN
        /\ mainPc' \in {"select", "await", "drain", "returned"} /\ deadline' \in BOOLEAN
        /\ seen' \subseteq Ids
    BY <2>2 DEF IInv, TypeOK
  <2> QED
    BY <2>1, <2>2, <2>3, <2>4, MainKeeps
<1> QED
  BY <1>1, <1>2, <1>3, <1>4, <1>5, <1>6, <1>7 DEF Next

-----------------------------------------------------------------------------
(* The theorems. *)

(* The invariant holds throughout every run of a level. *)
THEOREM IInvariant == Spec => []IInv
<1>1. IInv /\ [Next]_vars => IInv'
  BY NextIInv
<1> QED
  BY InitIInv, <1>1, PTL DEF Spec

(* A level is solved before its deadline, or times out after it, unsolved:   *)
(* with any number of handlers, requests, retries and Continue-As-News.      *)
THEOREM EndsAreAlwaysRight == Spec => []EndsAreRight
<1>1. IInv => EndsAreRight
  BY DEF IInv
<1> QED
  BY IInvariant, <1>1, PTL

(* The loop has a wakeup waiting whenever it sleeps on a level that ended.   *)
THEOREM LoopNeverSleepsAfterTheEnd == Spec => []NoSleepAfterTheEnd
<1>1. IInv => NoSleepAfterTheEnd
  BY DEF IInv
<1> QED
  BY IInvariant, <1>1, PTL

(* Nobody pays for a hint that is still free, and of what was paid for one   *)
(* hint at most is not shown, when the deadline overtook it.                 *)
THEOREM ChargesAreAlwaysShown == Spec => []ChargesAreShown
<1>1. ASSUME IInv  PROVE ChargesAreShown
  <2>1. PaidHints \in Int /\ Cardinality(charged) \in Nat
    BY <1>1, ChargesAreNumbers DEF IInv, ChargeInv
  <2> DEFINE paid == {s \in Slots : pc[s] = "paid"}
  <2>2. CASE \E s \in Slots : pc[s] = "paid"
    <3>1. PICK s \in Slots : pc[s] = "paid"
      BY <2>2
    <3>2. paid = {s}
      BY <1>1, <3>1 DEF IInv, HandlersInv
    <3>3. Cardinality(paid) = 1
      BY <3>2, FS_Singleton
    <3>4. Cardinality(charged) <= PaidHints + 1
      BY <1>1, <2>1 DEF IInv, ChargeInv
    <3> HIDE DEF paid
    <3>5. Cardinality(charged) <= PaidHints + Cardinality(paid) + (IF timedOut THEN 1 ELSE 0)
      BY <2>1, <3>3, <3>4
    <3> QED
      BY <1>1, <3>5 DEF IInv, ChargesAreShown, paid
  <2>3. CASE ~ \E s \in Slots : pc[s] = "paid"
    <3>1. paid = {}
      BY <2>3
    <3>2. Cardinality(paid) = 0
      BY <3>1, FS_EmptySet
    <3>3. Cardinality(charged) <= PaidHints + (IF timedOut THEN 1 ELSE 0)
      BY <1>1, <2>1, <2>3 DEF IInv, ChargeInv
    <3> HIDE DEF paid
    <3>4. Cardinality(charged) <= PaidHints + Cardinality(paid) + (IF timedOut THEN 1 ELSE 0)
      BY <2>1, <3>2, <3>3
    <3> QED
      BY <1>1, <3>4 DEF IInv, ChargesAreShown, paid
  <2> QED
    BY <2>2, <2>3
<1> QED
  BY IInvariant, <1>1, PTL

(* A level that has ended keeps what was found, how it ended and its score.  *)
THEOREM EndIsAlwaysFinal == Spec => EndIsFinal
<1>1. IInv /\ [Next]_vars => [Ended => UNCHANGED <<play, ending>>]_vars
  BY NextIInv
<1> QED
  BY IInvariant, <1>1, PTL DEF Spec, EndIsFinal

-----------------------------------------------------------------------------
(* The level implements the atomic game. *)

LEMMA GameStutters ==
    ASSUME UNCHANGED <<found, complete, timedOut, startedAt, now>>,
           mainPc' = "returned" <=> mainPc = "returned"
    PROVE  UNCHANGED AtomicGame!vars
BY DEF AtomicGame!vars, Range

(* A step that finds a word before the deadline solves it. *)
LEMMA GameSolves ==
    ASSUME IInv, ~complete, ~timedOut, ~Overdue(now), FinishLevelIfSolved,
           UNCHANGED <<startedAt, now, mainPc>>,
           incorrect' \in Nat, hintsUsed' \in [HintTypes -> Nat],
           \/ found' = found
           \/ \E w \in Unsolved : found' = Append(found, w)
    PROVE  [AtomicGame!Next]_(AtomicGame!vars)
<1>1. /\ EndsAreRight' /\ (complete' <=> Len(found') = Len(Puzzle))
      /\ found' \in Seq(Words) /\ complete' \in BOOLEAN /\ timedOut' = FALSE
  BY FinishRight
<1>2. CASE found' = found
  <2>1. Len(found') # Len(Puzzle)
    BY <1>2 DEF IInv, EndInv
  <2>2. UNCHANGED ending
    BY <2>1 DEF FinishLevelIfSolved, FinishWith
  <2> QED
    BY <1>2, <2>2, GameStutters DEF ending
<1>3. CASE \E w \in Unsolved : found' = Append(found, w)
  <2>1. PICK w \in Unsolved : found' = Append(found, w)
    BY <1>3
  <2>2. Range(found') = Range(found) \cup {w} /\ IsInjective(found')
    BY <2>1, FindsWord DEF IInv, TypeOK, EndsAreRight
  <2>3. complete' <=> Words \ Range(found') = {}
    BY <1>1, <2>2, AllFound
  <2>4. Range(found') \subseteq Words
    BY <1>1, LenProperties DEF Range
  <2>5. complete' <=> Range(found') = Words
    BY <2>3, <2>4
  <2>6. w \in AtomicGame!Words /\ w \notin Range(found) /\ AtomicGame!Words = Words
    BY DEF Unsolved, AtomicGame!Words, Words
  <2>7. ~AtomicGame!Overdue
    BY DEF Overdue, AtomicGame!Overdue
  <2>8. AtomicGame!Solve(w)
    BY <1>1, <2>2, <2>5, <2>6, <2>7 DEF AtomicGame!Solve
  <2> QED
    BY <2>6, <2>8 DEF AtomicGame!Next
<1> QED
  BY <1>2, <1>3

(* finishLevelIfExpired times it out, or changes nothing that counts. *)
LEMMA GameTimesOut ==
    ASSUME IInv, Expires, UNCHANGED <<found, startedAt, now>>,
           mainPc # "returned", mainPc' # "returned"
    PROVE  [AtomicGame!Next]_(AtomicGame!vars)
<1>1. complete \in BOOLEAN /\ timedOut \in BOOLEAN /\ (timedOut => ~complete)
  BY DEF IInv, TypeOK, EndsAreRight
<1>2. complete' = complete /\ timedOut' = Late
  BY DEF Expires
<1>3. CASE ~Ended /\ timedOut'
  <2>1. Overdue(now) /\ ~complete /\ ~timedOut
    BY <1>2, <1>3 DEF Ended, Late
  <2>2. AtomicGame!Overdue
    BY <2>1 DEF Overdue, AtomicGame!Overdue
  <2>3. AtomicGame!TimeOut
    BY <1>2, <1>3, <2>1, <2>2 DEF AtomicGame!TimeOut, Range
  <2> QED
    BY <2>3 DEF AtomicGame!Next
<1>4. CASE ~(~Ended /\ timedOut')
  <2>1. timedOut' = timedOut
    BY <1>1, <1>2, <1>4 DEF Ended, Late
  <2> QED
    BY <1>2, <2>1, GameStutters
<1> QED
  BY <1>3, <1>4

LEMMA GameHandler ==
    ASSUME IInv, NEW s \in Slots, Handler(s)
    PROVE  [AtomicGame!Next]_(AtomicGame!vars)
<1>1. pc[s] # "idle" /\ mainPc # "returned"
  <2>1. pc[s] \in {"accepted", "paid"}
    BY DEF Handler, TimesOut, FindsComplete, GuessEmpty, Guess, HintRefused, FreeHint,
           BeginPaidHint, FinishPaidHint, Resumes, Plays, Runs
  <2> QED
    BY <2>1 DEF IInv, HandlersInv
<1>2. IInv' /\ mainPc' = mainPc /\ now' = now
  <2>1. IInv'
    BY NextIInv DEF Next
  <2>2. mainPc' = mainPc /\ now' = now
    BY DEF Handler, TimesOut, FindsComplete, GuessEmpty, Guess, Guesses, HintRefused, FreeHint,
           BeginPaidHint, FinishPaidHint, Resumes, Returns, loop
  <2> QED
    BY <2>1, <2>2
<1>3. incorrect' \in Nat /\ hintsUsed' \in [HintTypes -> Nat]
  BY <1>2 DEF IInv, TypeOK
<1>4. CASE TimesOut(s)
  BY <1>1, <1>2, <1>4, GameTimesOut DEF TimesOut, play
<1>5. CASE FindsComplete(s) \/ GuessEmpty(s) \/ HintRefused(s) \/ BeginPaidHint(s)
  <2>1. UNCHANGED <<play, ending>>
    BY <1>5 DEF FindsComplete, GuessEmpty, HintRefused, BeginPaidHint
  <2> QED
    BY <1>2, <2>1, GameStutters DEF play, ending
<1>6. CASE Guess(s)
  <2>1. ~complete /\ ~timedOut /\ ~Overdue(now) /\ FinishLevelIfSolved /\ startedAt' = startedAt
    BY <1>6 DEF Guess, Guesses, Plays, Late
  <2>2. found' = found \/ \E w \in Unsolved : found' = Append(found, w)
    BY <1>6 DEF Guess, Guesses
  <2> QED
    BY <1>2, <1>3, <2>1, <2>2, GameSolves
<1>7. ASSUME ~complete, ~Late, HasTarget(Asked(s).hint), Shows(Asked(s).hint),
             Asked(s).kind = "hint"
      PROVE  [AtomicGame!Next]_(AtomicGame!vars)
  <2>1. Asked(s).hint \in HintTypes
    BY <1>1, <1>7 DEF IInv, HandlersInv, TypeOK, Asked, Requests, NoRequest
  <2>2. found' = found \/ \E w \in Unsolved : found' = Append(found, w)
    BY <1>7, <2>1, HintShows DEF IInv
  <2>3. ~timedOut /\ ~Overdue(now) /\ FinishLevelIfSolved /\ startedAt' = startedAt
    BY <1>7 DEF Late, Shows
  <2> QED
    BY <1>2, <1>3, <1>7, <2>2, <2>3, GameSolves
<1>8. CASE FreeHint(s)
  BY <1>7, <1>8 DEF FreeHint, Plays
<1>9. CASE FinishPaidHint(s)
  <2>1. ~complete /\ HasTarget(Asked(s).hint) /\ Asked(s).kind = "hint"
    BY <1>9 DEF FinishPaidHint, Resumes, IInv, HandlersInv
  <2>2. CASE Late
    BY <1>1, <1>2, <1>9, <2>2, GameTimesOut DEF FinishPaidHint, Resumes, play
  <2>3. CASE ~Late
    BY <1>7, <1>9, <2>1, <2>3 DEF FinishPaidHint, Resumes
  <2> QED
    BY <2>2, <2>3
<1> QED
  BY <1>4, <1>5, <1>6, <1>8, <1>9 DEF Handler

LEMMA GameMain ==
    ASSUME IInv, Main
    PROVE  [AtomicGame!Next]_(AtomicGame!vars)
<1>1. CASE Wake \/ ReceiveUpgrade
  <2>1. mainPc # "returned" /\ mainPc' # "returned" /\ UNCHANGED <<play, ending, now>>
    BY <1>1 DEF Wake, ReceiveUpgrade, NextIteration
  <2> QED
    BY <2>1, GameStutters DEF play, ending
<1>2. CASE DeadlinePasses
  <2>1. mainPc # "returned" /\ mainPc' # "returned" /\ UNCHANGED <<play, now>> /\ Expires
    BY <1>2 DEF DeadlinePasses, NextIteration
  <2> QED
    BY <2>1, GameTimesOut DEF play
<1>3. CASE ContinueAsNew
  <2>1. mainPc # "returned" /\ mainPc' # "returned" /\ UNCHANGED <<play, now>>
        /\ (Expires \/ UNCHANGED ending)
    BY <1>3 DEF ContinueAsNew, Continues
  <2> QED
    BY <2>1, GameTimesOut, GameStutters DEF play, ending
<1>4. CASE Return
  <2>1. /\ mainPc = "drain" /\ mainPc' = "returned" /\ Ended
        /\ UNCHANGED <<play, ending, now>>
    BY <1>4 DEF Return, IInv, EndInv
  <2>2. AtomicGame!Report
    BY <2>1 DEF AtomicGame!Report, Ended, play, ending, Range
  <2> QED
    BY <2>2 DEF AtomicGame!Next
<1> QED
  BY <1>1, <1>2, <1>3, <1>4 DEF Main

LEMMA StepMaps ==
    ASSUME IInv, [Next]_vars
    PROVE  [AtomicGame!Next]_(AtomicGame!vars)
<1>1. CASE \E s \in Slots : Accept(s) \/ Activity(s)
  <2>1. UNCHANGED <<play, ending, now>>
    BY <1>1 DEF Accept, Activity, Charge, ChargeRefused, Returns
  <2>2. mainPc' = mainPc
    BY <1>1 DEF Accept, Activity, Charge, ChargeRefused, Returns, loop
  <2> QED
    BY <2>1, <2>2, GameStutters DEF play, ending
<1>2. CASE \E s \in Slots : Handler(s)
  BY <1>2, GameHandler
<1>3. CASE Main
  BY <1>3, GameMain
<1>4. CASE RequestUpgrade
  BY <1>4, GameStutters DEF RequestUpgrade, play, ending
<1>5. CASE Tick
  <2>1. now' = now + 1 /\ UNCHANGED <<play, ending, loop>>
    BY <1>5 DEF Tick
  <2>2. now \in Nat /\ startedAt \in Nat
    BY DEF IInv, TypeOK
  <2>3. AtomicGame!TimePasses
    BY <2>1, <2>2 DEF AtomicGame!TimePasses, play, ending, loop, Range
  <2> QED
    BY <2>3 DEF AtomicGame!Next
<1>6. CASE UNCHANGED vars
  BY <1>6, GameStutters DEF vars
<1> QED
  BY <1>1, <1>2, <1>3, <1>4, <1>5, <1>6 DEF Next

LEMMA InitMaps == Init => AtomicGame!Init
<1> SUFFICES ASSUME Init PROVE AtomicGame!Init
  OBVIOUS
<1>1. /\ found = <<>> /\ startedAt = 0 /\ now \in 0..MaxTime /\ complete = FALSE
      /\ timedOut = Overdue(now) /\ mainPc = IF timedOut THEN "drain" ELSE "select"
  BY DEF Init
<1>2. Range(found) = {} /\ mainPc # "returned"
  BY <1>1 DEF Range
<1>3. now - startedAt \in Nat /\ (Overdue(now) <=> AtomicGame!Overdue)
  BY <1>1 DEF Overdue, AtomicGame!Overdue
<1> QED
  BY <1>1, <1>2, <1>3 DEF AtomicGame!Init

(* Guesses, hints, the timer and the handlers that find the deadline passed  *)
(* implement a game in which words are solved and the deadline passes.       *)
THEOREM GameRefinement == Spec => ImplementsGame
<1>1. IInv /\ [Next]_vars => [AtomicGame!Next]_(AtomicGame!vars)
  BY StepMaps
<1> QED
  BY InitMaps, <1>1, IInvariant, PTL DEF Spec, ImplementsGame, AtomicGame!Spec

=============================================================================
