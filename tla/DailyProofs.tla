----------------------------- MODULE DailyProofs -----------------------------
(* Proofs about Daily: no answer and no date comes back.                     *)
EXTENDS Daily, SequenceTheorems, TLAPS

\* Today begins now at the latest, and tomorrow does not.
LEMMA TodayIs ==
    ASSUME now \in Nat
    PROVE  Today \in Nat /\ StartsAt(Today) <= now /\ now < StartsAt(Today + 1)
  <1>1. \A n \in Nat, k \in Nat \ {0} :
            n \div k \in Nat /\ (n \div k) * k <= n /\ n < (n \div k + 1) * k
    OBVIOUS
  <1> QED BY <1>1, DailyAssumption DEF Today, StartsAt

\* Days follow each other.
LEMMA LaterDay ==
    ASSUME NEW d \in Nat, NEW e \in Nat, d < e
    PROVE  StartsAt(d + 1) <= StartsAt(e) /\ StartsAt(d) < StartsAt(e)
  <1>1. e - d \in Nat \ {0}
    OBVIOUS
  <1>2. \A k \in Nat \ {0}, m \in Nat \ {0} : k <= m * k
    OBVIOUS
  <1>3. DayLength <= (e - d) * DayLength
    BY <1>1, <1>2, DailyAssumption
  <1>4. (e - d) * DayLength = e * DayLength - d * DayLength
    BY DailyAssumption
  <1>5. (d + 1) * DayLength = d * DayLength + DayLength
    BY DailyAssumption
  <1>6. d * DayLength \in Nat /\ e * DayLength \in Nat
    BY DailyAssumption
  <1> QED BY <1>3, <1>4, <1>5, <1>6, DailyAssumption DEF StartsAt

\* The date that is chosen is not over.
LEMMA NextWindowIs ==
    ASSUME now \in Nat, NEW date \in Nat
    PROVE  /\ NextWindow(date) \in Nat /\ date <= NextWindow(date)
           /\ now < StartsAt(NextWindow(date)) => NextWindow(date) = date
  <1>1. CASE now < EndsAt(date)
    BY <1>1, DailyAssumption DEF NextWindow, EndsAt, StartsAt
  <1>2. CASE ~(now < EndsAt(date))
    <2>1. EndsAt(date) \in Nat
      BY DailyAssumption DEF EndsAt, StartsAt
    <2>2. NextWindow(date) = Today
      BY <1>2, <2>1 DEF NextWindow
    <2>3. Today \in Nat /\ StartsAt(Today) <= now /\ now < StartsAt(Today + 1)
      BY TodayIs
    <2>4. StartsAt(Today) \in Nat /\ StartsAt(Today + 1) \in Nat
      BY <2>3, DailyAssumption DEF StartsAt
    <2>5. date <= Today
      <3> SUFFICES ASSUME Today < date PROVE FALSE
        BY <2>3
      <3>1. StartsAt(Today + 1) <= StartsAt(date) /\ StartsAt(date) < StartsAt(date + 1)
        BY <2>3, LaterDay
      <3>2. StartsAt(date) \in Nat
        BY DailyAssumption DEF StartsAt
      <3> QED BY <1>2, <2>1, <2>3, <2>4, <3>1, <3>2 DEF EndsAt
    <2> QED BY <2>2, <2>3, <2>4, <2>5
  <1> QED BY <1>1, <1>2

\* Once a date has begun and the next has not, it is today.
LEMMA IsToday ==
    ASSUME now \in Nat, NEW date \in Nat, StartsAt(date) <= now, now < StartsAt(date + 1)
    PROVE  date = Today
  <1>1. Today \in Nat /\ StartsAt(Today) <= now /\ now < StartsAt(Today + 1)
    BY TodayIs
  <1>2. \A d \in Nat : StartsAt(d) \in Nat
    BY DailyAssumption DEF StartsAt
  <1>3. CASE date < Today
    BY <1>1, <1>2, <1>3, LaterDay
  <1>4. CASE Today < date
    BY <1>1, <1>2, <1>4, LaterDay
  <1> QED BY <1>1, <1>3, <1>4

-----------------------------------------------------------------------------
(* The parts of the invariant. *)

\* What is said of the chain stays when only the clock moves on.
LEMMA ChainKept ==
    ASSUME TypeOK, ArchiveIsRecent, DatesAdvance, NeighboursDiffer,
           UNCHANGED <<recentPuzzles, chain>>, now' \in Nat, now <= now'
    PROVE  ArchiveIsRecent' /\ DatesAdvance' /\ NeighboursDiffer'
  <1>1. ArchiveIsRecent' /\ NeighboursDiffer'
    BY DEF ArchiveIsRecent, NeighboursDiffer
  <1>2. now \in Nat /\ \A i \in DOMAIN chain : chain[i].date \in Nat
    <2>1. now \in Nat /\ \A i \in DOMAIN chain : chain[i] \in Archived
      BY DailyAssumption DEF TypeOK
    <2> QED BY <2>1 DEF Archived
  <1>3. ASSUME NEW i \in DOMAIN chain PROVE StartsAt(chain[i].date) <= now'
    <2>1. StartsAt(chain[i].date) <= now /\ StartsAt(chain[i].date) \in Nat
      BY <1>2, <1>3, DailyAssumption DEF DatesAdvance, StartsAt
    <2> QED BY <1>2, <2>1
  <1>4. DatesAdvance'
    BY <1>3 DEF DatesAdvance, StartsAt
  <1> QED BY <1>1, <1>4

\* An iteration for the day after the last challenge.
LEMMA IterationPlace ==
    ASSUME now \in Nat, now' = now, NEW date \in Nat, NextIteration(date),
           chain' # <<>> => Last(chain)'.date \in Nat /\ date = Last(chain)'.date + 1
    PROVE  /\ PlaceInDay'
           /\ nextDate' \in Nat /\ pc' \in {"waitStart", "generating"}
           /\ attempt' \in 1 .. Attempts /\ calls' \in 0 .. ToolCalls - 1 /\ generated' \subseteq Answers
  <1>1. /\ NextWindow(date) \in Nat /\ date <= NextWindow(date)
        /\ now < StartsAt(NextWindow(date)) => NextWindow(date) = date
    BY NextWindowIs
  <1>2. StartsAt(NextWindow(date)) \in Nat
    BY <1>1, DailyAssumption DEF StartsAt
  <1>3. nextDate' = NextWindow(date) /\ attempt' = 1 /\ calls' = 0 /\ generated' = {}
    BY DEF NextIteration, Afresh
  <1>4. CASE now < StartsAt(NextWindow(date))
    <2>1. pc' = "waitStart" /\ nextDate' = date
      BY <1>1, <1>3, <1>4 DEF NextIteration
    <2> QED BY <1>3, <2>1, DailyAssumption DEF PlaceInDay, Waits
  <1>5. CASE ~(now < StartsAt(NextWindow(date)))
    <2>1. pc' = "generating"
      BY <1>5 DEF NextIteration
    <2>2. StartsAt(nextDate)' <= now'
      BY <1>2, <1>3, <1>5 DEF StartsAt
    <2>3. chain' # <<>> => Last(chain)'.date < nextDate'
      BY <1>1, <1>3
    <2> QED BY <1>1, <1>3, <2>1, <2>2, <2>3, DailyAssumption DEF PlaceInDay, Waits
  <1> QED BY <1>4, <1>5

\* A started challenge ends the chain and the archive.
LEMMA ChainGrows ==
    ASSUME IInv, StartCampaign
    PROVE  /\ chain' \in Seq(Archived) \ {<<>>} /\ recentPuzzles' \in Seq(Archived)
           /\ Last(chain)'.date = nextDate
           /\ ArchiveIsRecent' /\ DatesAdvance' /\ NeighboursDiffer'
  <1> DEFINE n == Len(chain)
             m == Len(recentPuzzles)
             puzzle == [date |-> nextDate, answers |-> generated]
             puzzles == Append(recentPuzzles, puzzle)
  <1>1. /\ pc = "starting" /\ chain' = Append(chain, puzzle) /\ now' = now
        /\ recentPuzzles' = IF Len(puzzles) > History THEN KeepNewest(puzzles) ELSE puzzles
    BY DEF StartCampaign, StartsCampaign, Archive
  <1>2. /\ chain \in Seq(Archived) /\ recentPuzzles \in Seq(Archived) /\ now \in Nat
        /\ nextDate \in Nat /\ generated \subseteq Answers /\ History \in Nat \ {0}
    BY DailyAssumption DEF IInv, TypeOK
  <1>3. puzzle \in Archived /\ puzzle.date = nextDate /\ puzzle.answers = generated
    BY <1>2 DEF Archived
  <1> HIDE DEF puzzle
  <1>4. /\ chain' \in Seq(Archived) /\ Len(chain') = n + 1 /\ chain'[n + 1] = puzzle
        /\ \A i \in 1 .. n : chain'[i] = chain[i]
        /\ n \in Nat /\ m \in Nat
    BY <1>1, <1>2, <1>3
  <1>5. /\ puzzles \in Seq(Archived) /\ Len(puzzles) = m + 1 /\ puzzles[m + 1] = puzzle
        /\ \A i \in 1 .. m : puzzles[i] = recentPuzzles[i]
    BY <1>2, <1>3
  <1> HIDE DEF n, m, puzzles
  <1>6. /\ m = IF n < History THEN n ELSE History
        /\ \A i \in 1 .. m : recentPuzzles[i] = chain[n - m + i]
    <2>1. DOMAIN recentPuzzles = 1 .. m
      BY <1>2 DEF m
    <2> QED BY <2>1 DEF IInv, ArchiveIsRecent, n, m
  <1>7. \A i \in 1 .. m + 1 : puzzles[i] = chain'[n - m + i]
    <2> TAKE i \in 1 .. m + 1
    <2>1. CASE i = m + 1
      BY <1>4, <1>5, <2>1
    <2>2. CASE i \in 1 .. m
      <3>1. n - m + i \in 1 .. n
        BY <1>2, <1>4, <1>6, <2>2
      <3> QED BY <1>4, <1>5, <1>6, <2>2, <3>1
    <2> QED BY <1>4, <2>1, <2>2
  <1>8. /\ recentPuzzles' \in Seq(Archived)
        /\ Len(recentPuzzles') = IF n + 1 < History THEN n + 1 ELSE History
        /\ \A i \in 1 .. Len(recentPuzzles') :
              recentPuzzles'[i] = chain'[(n + 1) - Len(recentPuzzles') + i]
    <2>1. CASE m + 1 > History
      <3>1. m = History /\ n >= History
        BY <1>2, <1>4, <1>6, <2>1
      <3> DEFINE k == m + 1
      <3>2. recentPuzzles' = SubSeq(puzzles, 2, k)
        BY <1>1, <1>4, <1>5, <2>1, <3>1 DEF KeepNewest
      <3>3. k \in Int /\ k = m + 1 /\ \A i \in 2 .. k : puzzles[i] \in Archived
        BY <1>4, <1>5
      <3> HIDE DEF k
      <3>4. /\ SubSeq(puzzles, 2, k) \in Seq(Archived)
            /\ Len(SubSeq(puzzles, 2, k)) = IF 2 <= k THEN k - 2 + 1 ELSE 0
            /\ \A i \in 1 .. k - 2 + 1 : SubSeq(puzzles, 2, k)[i] = puzzles[2 + i - 1]
        <4>1. 2 \in Int
          OBVIOUS
        <4> QED BY <3>3, <4>1, SubSeqProperties
      <3>5. Len(recentPuzzles') = m
        BY <1>2, <1>4, <3>1, <3>2, <3>3, <3>4
      <3>6. \A i \in 1 .. m : recentPuzzles'[i] = chain'[(n + 1) - m + i]
        <4> TAKE i \in 1 .. m
        <4>1. i \in 1 .. k - 2 + 1 /\ 2 + i - 1 = i + 1 /\ i + 1 \in 1 .. m + 1
          BY <1>4, <3>3
        <4>2. recentPuzzles'[i] = puzzles[i + 1]
          BY <3>2, <3>4, <4>1
        <4>3. n - m + (i + 1) = (n + 1) - m + i
          BY <1>4
        <4> QED BY <1>7, <4>1, <4>2, <4>3
      <3>7. recentPuzzles' \in Seq(Archived)
        BY <3>2, <3>4
      <3>8. Len(recentPuzzles') = IF n + 1 < History THEN n + 1 ELSE History
        BY <1>2, <1>4, <3>1, <3>5
      <3> QED BY <3>5, <3>6, <3>7, <3>8
    <2>2. CASE ~(m + 1 > History)
      <3>1. m = n /\ recentPuzzles' = puzzles
        BY <1>1, <1>2, <1>4, <1>5, <1>6, <2>2
      <3>2. \A i \in 1 .. m + 1 : n - m + i = (n + 1) - (m + 1) + i
        BY <1>4
      <3> QED BY <1>2, <1>4, <1>5, <1>7, <2>2, <3>1, <3>2
    <2> QED BY <2>1, <2>2
  <1>9. ArchiveIsRecent'
    <2>1. DOMAIN recentPuzzles' = 1 .. Len(recentPuzzles')
      BY <1>8
    <2>2. Len(chain') = n + 1
      BY <1>4
    <2>3. \A i \in DOMAIN recentPuzzles' :
            recentPuzzles'[i] = chain'[Len(chain') - Len(recentPuzzles') + i]
      BY <1>8, <2>1, <2>2
    <2>4. Len(recentPuzzles') = IF Len(chain') < History THEN Len(chain') ELSE History
      BY <1>8, <2>2
    <2> QED BY <2>3, <2>4 DEF ArchiveIsRecent
  <1>10. \A i \in 1 .. n : chain[i] \in Archived /\ chain[i].date \in Nat
    <2>1. \A i \in 1 .. n : chain[i] \in Archived
      BY <1>2 DEF n
    <2> QED BY <2>1 DEF Archived
  <1>11. DatesAdvance'
    <2>1. StartsAt(nextDate) <= now
      BY <1>1 DEF IInv, PlaceInDay
    <2>2. \A i \in 1 .. n : StartsAt(chain[i].date) <= now
      BY <1>2 DEF IInv, DatesAdvance, n
    <2>3. \A i \in 1 .. n + 1 : StartsAt(chain'[i].date) <= now'
      BY <1>1, <1>3, <1>4, <2>1, <2>2
    <2>4. \A i \in 1 .. n : \A j \in 1 .. n : i <= j => chain[j].date - chain[i].date >= j - i
      BY <1>2 DEF IInv, DatesAdvance, n
    <2>5. \A i \in 1 .. n : nextDate - chain[i].date >= (n + 1) - i
      <3> TAKE i \in 1 .. n
      <3>1. chain # <<>> /\ Last(chain) = chain[n] /\ n \in 1 .. n
        BY <1>2, <1>4 DEF Last, n
      <3>2. chain[n].date < nextDate
        BY <1>1, <3>1 DEF IInv, PlaceInDay
      <3>3. chain[n].date - chain[i].date >= n - i
        BY <1>4, <2>4, <3>1
      <3> QED BY <1>2, <1>4, <1>10, <3>1, <3>2, <3>3
    <2>6. ASSUME NEW i \in 1 .. n + 1, NEW j \in 1 .. n + 1, i <= j
          PROVE  chain'[j].date - chain'[i].date >= j - i
      <3>1. CASE j \in 1 .. n
        <4>1. i \in 1 .. n
          BY <1>4, <2>6, <3>1
        <4> QED BY <1>4, <2>4, <2>6, <3>1, <4>1
      <3>2. CASE j = n + 1 /\ i \in 1 .. n
        BY <1>3, <1>4, <2>5, <3>2
      <3>3. CASE j = n + 1 /\ i = n + 1
        BY <1>2, <1>3, <1>4, <3>3
      <3> QED BY <1>4, <2>6, <3>1, <3>2, <3>3
    <2> QED BY <1>4, <2>3, <2>6 DEF DatesAdvance, StartsAt
  <1>12. NeighboursDiffer'
    <2>1. ASSUME NEW i \in 1 .. n, (n + 1) - i <= History
          PROVE  chain[i].answers \cap generated = {}
      <3> DEFINE k == i - (n - m)
      <3>1. k \in 1 .. m /\ n - m + k = i
        <4>1. n \in Int /\ m \in Int /\ i \in Int /\ 1 <= i /\ i <= n
          BY <1>4
        <4>2. k >= 1
          BY <1>2, <1>6, <2>1, <4>1
        <4> QED BY <4>1, <4>2
      <3> HIDE DEF k
      <3>2. recentPuzzles[k] = chain[n - m + k]
        BY <1>6, <3>1
      <3>3. chain[i] \in Range(recentPuzzles)
        <4>1. recentPuzzles[k] = chain[i]
          BY <3>1, <3>2
        <4>2. k \in DOMAIN recentPuzzles
          BY <1>2, <3>1 DEF m
        <4> QED BY <4>1, <4>2 DEF Range
      <3>4. generated \cap RecentWords = {}
        BY <1>1 DEF IInv, PlaceInDay
      <3> QED BY <3>3, <3>4 DEF RecentWords
    <2>2. ASSUME NEW i \in 1 .. n, NEW j \in 1 .. n, i < j, j - i <= History
          PROVE  chain[i].answers \cap chain[j].answers = {}
      <3>1. DOMAIN chain = 1 .. n
        BY <1>2 DEF n
      <3>2. NeighboursDiffer
        BY DEF IInv
      <3> QED BY <2>2, <3>1, <3>2 DEF NeighboursDiffer
    <2>3. ASSUME NEW i \in 1 .. n + 1, NEW j \in 1 .. n + 1, i < j, j - i <= History
          PROVE  chain'[i].answers \cap chain'[j].answers = {}
      <3>1. i \in 1 .. n
        BY <1>4, <2>3
      <3>2. CASE j = n + 1
        BY <1>3, <1>4, <2>1, <2>3, <3>1, <3>2
      <3>3. CASE j \in 1 .. n
        BY <1>4, <2>2, <2>3, <3>1, <3>3
      <3> QED BY <1>4, <3>2, <3>3
    <2> QED BY <1>4, <2>3 DEF NeighboursDiffer
  <1>13. chain' # <<>> /\ Last(chain)'.date = nextDate
    BY <1>3, <1>4 DEF Last
  <1> QED BY <1>4, <1>8, <1>9, <1>11, <1>12, <1>13

-----------------------------------------------------------------------------
(* The steps. *)

LEMMA InitHolds == Init => IInv
  <1> SUFFICES ASSUME Init PROVE IInv
    OBVIOUS
  <1>1. TypeOK
    <2>1. attempt \in 1 .. Attempts /\ calls \in 0 .. ToolCalls - 1 /\ now \in 0 .. MaxTime
      BY DailyAssumption DEF Init
    <2>2. recentPuzzles \in Seq(Archived) /\ chain \in Seq(Archived)
      BY DEF Init
    <2>3. /\ pc \in {"closed", "begins", "waitStart", "generating", "starting", "waitEnd", "failed"}
          /\ nextDate \in Nat /\ generated \subseteq Answers
          /\ upgrade \in BOOLEAN /\ taken \subseteq Nat
      BY DEF Init
    <2> QED BY <2>1, <2>2, <2>3 DEF TypeOK
  <1>2. ArchiveIsRecent /\ DatesAdvance /\ NeighboursDiffer /\ PlaceInDay
    BY DailyAssumption DEF Init, ArchiveIsRecent, DatesAdvance, NeighboursDiffer, PlaceInDay, Waits
  <1> QED BY <1>1, <1>2 DEF IInv

\* The last challenge is one of the chain.
LEMMA LastOf ==
    ASSUME TypeOK, chain # <<>>
    PROVE  Last(chain).date \in Nat /\ \E i \in DOMAIN chain : Last(chain) = chain[i]
  <1>1. Len(chain) \in DOMAIN chain /\ Last(chain) = chain[Len(chain)]
    BY DEF TypeOK, Last
  <1>2. Last(chain) \in Archived
    BY <1>1 DEF TypeOK
  <1> QED BY <1>1, <1>2 DEF Archived

\* The next iteration, for the day after the last challenge.
LEMMA IterationStep ==
    ASSUME IInv, Waits \/ pc = "begins", NextIteration(nextDate),
           UNCHANGED <<recentPuzzles, upgrade, taken, chain, now>>
    PROVE  IInv'
  <1>1. TypeOK /\ now \in Nat /\ nextDate \in Nat /\ now <= now'
    BY DailyAssumption DEF IInv, TypeOK
  <1>2. ArchiveIsRecent' /\ DatesAdvance' /\ NeighboursDiffer'
    BY <1>1, ChainKept DEF IInv
  <1>3. chain' # <<>> => Last(chain)'.date \in Nat /\ nextDate = Last(chain)'.date + 1
    BY <1>1, LastOf DEF IInv, PlaceInDay
  <1>4. /\ PlaceInDay'
        /\ nextDate' \in Nat /\ pc' \in {"waitStart", "generating"}
        /\ attempt' \in 1 .. Attempts /\ calls' \in 0 .. ToolCalls - 1 /\ generated' \subseteq Answers
    BY <1>1, <1>3, IterationPlace
  <1>5. TypeOK'
    BY <1>1, <1>4 DEF TypeOK
  <1> QED BY <1>2, <1>4, <1>5 DEF IInv

\* A new run, for the day after the last challenge of its chain.
LEMMA NewRunStep ==
    ASSUME NEW date \in Nat, ContinueAsNewFor(date), UNCHANGED <<taken, now>>, IInv,
           recentPuzzles' \in Seq(Archived), chain' \in Seq(Archived),
           chain' # <<>> => date = Last(chain)'.date + 1,
           ArchiveIsRecent' /\ DatesAdvance' /\ NeighboursDiffer'
    PROVE  IInv'
  <1>1. /\ pc' = "begins" /\ nextDate' = date /\ upgrade' = FALSE
        /\ attempt' = 1 /\ calls' = 0 /\ generated' = {}
    BY DEF ContinueAsNewFor, Afresh
  <1>2. PlaceInDay'
    BY <1>1 DEF PlaceInDay, Waits
  <1>3. attempt' \in 1 .. Attempts /\ calls' \in 0 .. ToolCalls - 1
    BY <1>1, DailyAssumption
  <1>4. now' \in 0 .. MaxTime /\ taken' \subseteq Nat
    BY DEF IInv, TypeOK
  <1>5. TypeOK'
    BY <1>1, <1>3, <1>4 DEF TypeOK
  <1> QED BY <1>2, <1>5 DEF IInv

LEMMA StartSingletonStep ==
    ASSUME IInv, NEW date \in Dates, StartSingleton(date)
    PROVE  IInv'
  <1>1. /\ ContinueAsNewFor(date) /\ UNCHANGED <<taken, now>>
        /\ recentPuzzles' = <<>> /\ chain' = <<>>
    BY DEF StartSingleton
  <1>2. date \in Nat
    BY DEF Dates
  <1>3. recentPuzzles' \in Seq(Archived) /\ chain' \in Seq(Archived)
    BY <1>1
  <1>4. ArchiveIsRecent' /\ DatesAdvance' /\ NeighboursDiffer'
    BY <1>1, DailyAssumption DEF ArchiveIsRecent, DatesAdvance, NeighboursDiffer
  <1> QED BY <1>1, <1>2, <1>3, <1>4, NewRunStep

LEMMA BeginStep ==
    ASSUME IInv, Begin
    PROVE  IInv'
  BY IterationStep DEF Begin

LEMMA WindowStep ==
    ASSUME IInv, WindowOpens \/ WindowCloses \/ ReceiveUpgrade
    PROVE  IInv'
  <1>1. /\ Waits /\ UNCHANGED <<recentPuzzles, taken, chain, now>>
    BY DEF WindowOpens, WindowCloses, ReceiveUpgrade, Waits
  <1>2. /\ TypeOK /\ nextDate \in Nat /\ now \in Nat /\ now <= now' /\ now' \in Nat
        /\ recentPuzzles' \in Seq(Archived) /\ chain' \in Seq(Archived)
    BY <1>1, DailyAssumption DEF IInv, TypeOK
  <1>3. ArchiveIsRecent' /\ DatesAdvance' /\ NeighboursDiffer'
    BY <1>1, <1>2, ChainKept DEF IInv
  <1>4. CASE NextIteration(nextDate) /\ UNCHANGED upgrade
    BY <1>1, <1>4, IterationStep
  <1>5. CASE ContinueAsNewFor(nextDate)
    <2>1. chain' # <<>> => nextDate = Last(chain)'.date + 1
      BY <1>1 DEF IInv, PlaceInDay
    <2> QED BY <1>1, <1>2, <1>3, <1>5, <2>1, NewRunStep
  <1>6. CASE WindowOpens /\ pc' = "generating" /\ UNCHANGED <<nextDate, activity, upgrade>>
    <2>1. TypeOK'
      BY <1>1, <1>6 DEF IInv, TypeOK, activity
    <2>2. StartsAt(nextDate)' <= now'
      BY <1>1, <1>6 DEF WindowOpens, Due, StartsAt, IInv, TypeOK
    <2>3. chain' # <<>> => Last(chain)'.date < nextDate'
      <3> SUFFICES ASSUME chain # <<>> PROVE Last(chain).date < nextDate
        BY <1>1, <1>6
      <3>1. nextDate = Last(chain).date + 1
        BY <1>1 DEF IInv, PlaceInDay
      <3>2. Last(chain).date \in Nat
        BY <1>2, LastOf
      <3> QED BY <3>1, <3>2
    <2>4. PlaceInDay'
      BY <1>6, <2>2, <2>3 DEF PlaceInDay, Waits
    <2> QED BY <1>3, <2>1, <2>4 DEF IInv
  <1> QED BY <1>1, <1>4, <1>5, <1>6 DEF WindowOpens, WindowCloses, ReceiveUpgrade

LEMMA GenerateStep ==
    ASSUME IInv, NEW challenge \in Challenges, Generate(challenge)
    PROVE  IInv'
  <1>1. /\ pc = "generating" /\ pc' = "starting" /\ ValidChallenge(challenge)
        /\ generated' = AnswersOf(challenge, LevelCount)
        /\ UNCHANGED <<nextDate, recentPuzzles, attempt, calls, upgrade, taken, chain, now>>
    BY DEF Generate, state
  <1>2. \A i \in 1 .. LevelCount : Range(challenge[i]) \subseteq Answers
    <2> TAKE i \in 1 .. LevelCount
    <2>1. challenge[i] \in Seq(Answers)
      BY DailyAssumption DEF Challenges
    <2> QED BY <2>1 DEF Range
  <1>3. generated' \subseteq Answers
    BY <1>1, <1>2 DEF AnswersOf
  <1>4. generated' \cap RecentWords' = {}
    <2>1. RecentWords' = RecentWords
      BY <1>1 DEF RecentWords
    <2>2. \A i \in 1 .. LevelCount : Range(challenge[i]) \cap RecentWords = {}
      BY <1>1 DEF ValidChallenge, ValidLevel
    <2> QED BY <1>1, <2>1, <2>2 DEF AnswersOf
  <1>5. TypeOK' /\ TypeOK /\ now' \in Nat /\ now <= now'
    BY <1>1, <1>3 DEF IInv, TypeOK
  <1>6. ArchiveIsRecent' /\ DatesAdvance' /\ NeighboursDiffer'
    BY <1>1, <1>5, ChainKept DEF IInv
  <1>7. PlaceInDay'
    BY <1>1, <1>4 DEF IInv, PlaceInDay, Waits, StartsAt, Last
  <1> QED BY <1>5, <1>6, <1>7 DEF IInv

\* Steps that leave the chain and its dates alone, and end no generation well.
LEMMA AsideStep ==
    ASSUME IInv,
           \/ RejectChallenge \/ LoseResponse \/ GiveUpGeneration \/ StartConflict
           \/ RequestUpgrade \/ Tick \/ UNCHANGED vars
           \/ \E date \in Dates : StartByHand(date) \/ CampaignFails(date)
    PROVE  IInv'
  <1>1. /\ UNCHANGED <<nextDate, recentPuzzles, generated, chain>>
        /\ pc' = pc \/ pc' = "failed"
    BY DEF RejectChallenge, LoseResponse, GiveUpGeneration, StartConflict, AttemptFails,
           RequestUpgrade, Tick, StartByHand, CampaignFails, vars, state, activity
  <1>2. attempt' \in 1 .. Attempts /\ calls' \in 0 .. ToolCalls - 1
    BY DailyAssumption
       DEF IInv, TypeOK, RejectChallenge, LoseResponse, GiveUpGeneration, StartConflict,
           AttemptFails, RequestUpgrade, Tick, StartByHand, CampaignFails, vars, state, activity
  <1>3. now' \in 0 .. MaxTime /\ now <= now' /\ now \in Nat /\ upgrade' \in BOOLEAN /\ taken' \subseteq Nat
    <2>1. /\ now \in 0 .. MaxTime /\ MaxTime \in Nat
          /\ now' = now \/ (now < MaxTime /\ now' = now + 1)
      BY DailyAssumption
         DEF IInv, TypeOK, RejectChallenge, LoseResponse, GiveUpGeneration, StartConflict,
             RequestUpgrade, Tick, StartByHand, CampaignFails, vars
    <2>2. upgrade \in BOOLEAN /\ (upgrade' = upgrade \/ upgrade' = TRUE)
      BY DEF IInv, TypeOK, RejectChallenge, LoseResponse, GiveUpGeneration, StartConflict,
             RequestUpgrade, Tick, StartByHand, CampaignFails, vars
    <2>3. now' \in 0 .. MaxTime /\ now <= now' /\ now \in Nat
      BY <2>1
    <2>4. upgrade' \in BOOLEAN
      BY <2>2
    <2>5. taken' = taken \/ \E date \in Dates : taken' = taken \cup {date} \/ taken' = taken \ {date}
      BY DEF RejectChallenge, LoseResponse, GiveUpGeneration, StartConflict,
             RequestUpgrade, Tick, StartByHand, CampaignFails, vars
    <2>6. taken \subseteq Nat /\ Dates \subseteq Nat
      BY DEF IInv, TypeOK, Dates
    <2>7. taken' \subseteq Nat
      BY <2>5, <2>6
    <2> QED BY <2>3, <2>4, <2>7
  <1>4. TypeOK' /\ TypeOK
    BY <1>1, <1>2, <1>3 DEF IInv, TypeOK
  <1>5. ArchiveIsRecent' /\ DatesAdvance' /\ NeighboursDiffer'
    BY <1>1, <1>3, <1>4, ChainKept DEF IInv
  <1>6. StartsAt(nextDate) \in Nat
    BY <1>4, DailyAssumption DEF TypeOK, StartsAt
  <1>7. PlaceInDay'
    BY <1>1, <1>3, <1>6 DEF IInv, PlaceInDay, Waits, StartsAt, Last, RecentWords
  <1> QED BY <1>4, <1>5, <1>7 DEF IInv

LEMMA StartCampaignStep ==
    ASSUME IInv, StartCampaign
    PROVE  IInv'
  <1>1. /\ chain' \in Seq(Archived) \ {<<>>} /\ recentPuzzles' \in Seq(Archived)
        /\ Last(chain)'.date = nextDate
        /\ ArchiveIsRecent' /\ DatesAdvance' /\ NeighboursDiffer'
    BY ChainGrows
  <1>2. /\ now' = now /\ now \in 0 .. MaxTime /\ now \in Nat /\ nextDate \in Nat
        /\ taken' = taken \cup {nextDate} /\ GoesOn(nextDate + 1)
        /\ attempt \in 1 .. Attempts /\ calls \in 0 .. ToolCalls - 1 /\ generated \subseteq Answers
        /\ taken \subseteq Nat /\ upgrade \in BOOLEAN
    BY DEF StartCampaign, StartsCampaign, IInv, TypeOK
  <1>3. CASE NextIteration(nextDate + 1) /\ UNCHANGED upgrade
    <2>1. /\ PlaceInDay'
          /\ nextDate' \in Nat /\ pc' \in {"waitStart", "generating"}
          /\ attempt' \in 1 .. Attempts /\ calls' \in 0 .. ToolCalls - 1 /\ generated' \subseteq Answers
      BY <1>1, <1>2, <1>3, IterationPlace
    <2> QED BY <1>1, <1>2, <1>3, <2>1 DEF IInv, TypeOK
  <1>4. CASE pc' = "waitEnd" /\ nextDate' = nextDate + 1 /\ UNCHANGED <<activity, upgrade>>
    <2>1. PlaceInDay'
      BY <1>1, <1>4 DEF PlaceInDay, Waits
    <2> QED BY <1>1, <1>2, <1>4, <2>1 DEF IInv, TypeOK, activity
  <1>5. CASE ContinueAsNewFor(nextDate + 1)
    <2>1. /\ pc' = "begins" /\ nextDate' = nextDate + 1 /\ upgrade' = FALSE
          /\ attempt' = 1 /\ calls' = 0 /\ generated' = {}
      BY <1>5 DEF ContinueAsNewFor, Afresh
    <2>2. PlaceInDay'
      BY <1>1, <2>1 DEF PlaceInDay, Waits
    <2>3. attempt' \in 1 .. Attempts /\ calls' \in 0 .. ToolCalls - 1
      BY <2>1, DailyAssumption
    <2>4. nextDate' \in Nat /\ taken' \subseteq Nat
      BY <1>2, <2>1
    <2>5. TypeOK'
      BY <1>1, <1>2, <2>1, <2>3, <2>4 DEF TypeOK
    <2> QED BY <1>1, <2>2, <2>5 DEF IInv
  <1> QED BY <1>2, <1>3, <1>4, <1>5 DEF GoesOn

LEMMA StepHolds == IInv /\ [Next]_vars => IInv'
  BY StartSingletonStep, BeginStep, WindowStep, GenerateStep, AsideStep, StartCampaignStep DEF Next

-----------------------------------------------------------------------------
(* The theorems. *)

\* The invariant holds in every reachable state.
THEOREM Inductive == Spec => []IInv
  BY InitHolds, StepHolds, PTL DEF Spec

\* Every variable keeps its type.
THEOREM TypeCorrect == Spec => []TypeOK
  <1>1. IInv => TypeOK
    BY DEF IInv
  <1> QED BY <1>1, Inductive, PTL

\* Whatever days are skipped and however often the run changes, the archive
\* and the validation keep an answer from coming back within History days.
THEOREM AnswersStayAway == Spec => []NoAnswerComesBack
  <1>1. IInv => NoAnswerComesBack
    <2> SUFFICES ASSUME IInv, NEW i \in DOMAIN chain, NEW j \in DOMAIN chain,
                        i < j, chain[j].date - chain[i].date <= History
                 PROVE  chain[i].answers \cap chain[j].answers = {}
      BY DEF NoAnswerComesBack
    <2>1. i \in Nat /\ j \in Nat /\ chain[i] \in Archived /\ chain[j] \in Archived
      BY DEF IInv, TypeOK
    <2>2. chain[i].date \in Nat /\ chain[j].date \in Nat
      BY <2>1 DEF Archived
    <2>3. chain[j].date - chain[i].date >= j - i
      BY <2>1 DEF IInv, DatesAdvance
    <2>4. j - i <= History
      BY <2>1, <2>2, <2>3, DailyAssumption
    <2> QED BY <2>1, <2>4 DEF IInv, NeighboursDiffer
  <1> QED BY <1>1, Inductive, PTL

\* A challenge is only ever prepared for a date after those of all before it.
THEOREM DatesStayAway == Spec => []NoDateComesBack
  <1>1. IInv => NoDateComesBack
    <2> SUFFICES ASSUME IInv, ~Closed, NEW i \in DOMAIN chain
                 PROVE  chain[i].date < nextDate
      BY DEF NoDateComesBack
    <2>1. /\ chain \in Seq(Archived) /\ chain # <<>> /\ nextDate \in Nat
          /\ Len(chain) \in DOMAIN chain /\ Last(chain) = chain[Len(chain)]
          /\ i \in Nat /\ i <= Len(chain) /\ Len(chain) \in Nat
      BY DEF IInv, TypeOK, Last
    <2>2. chain[i] \in Archived /\ Last(chain) \in Archived
      BY <2>1
    <2>3. chain[i].date \in Nat /\ Last(chain).date \in Nat
      BY <2>2 DEF Archived
    <2>4. Last(chain).date - chain[i].date >= Len(chain) - i
      BY <2>1 DEF IInv, DatesAdvance
    <2>5. Last(chain).date < nextDate
      BY <2>1, <2>3 DEF IInv, TypeOK, PlaceInDay, Closed, Waits
    <2> QED BY <2>1, <2>3, <2>4, <2>5
  <1> QED BY <1>1, Inductive, PTL

\* While the singleton sleeps, the challenge it started last is today's.
THEOREM TodayStays == Spec => []TodayIsStarted
  <1>1. IInv => TodayIsStarted
    <2> SUFFICES ASSUME IInv, Waits, ~Due, chain # <<>>
                 PROVE  Last(chain).date = Today
      BY DEF TodayIsStarted
    <2>1. TypeOK /\ now \in Nat
      BY DEF IInv, TypeOK
    <2>2. PICK i \in DOMAIN chain : Last(chain) = chain[i]
      BY <2>1, LastOf
    <2>3. Last(chain).date \in Nat /\ nextDate = Last(chain).date + 1
      BY <2>1, LastOf DEF IInv, PlaceInDay
    <2>4. StartsAt(Last(chain).date) <= now
      BY <2>2 DEF IInv, DatesAdvance
    <2>5. now < StartsAt(Last(chain).date + 1)
      BY <2>1, <2>3, DailyAssumption DEF Due, StartsAt
    <2> QED BY <2>1, <2>3, <2>4, <2>5, IsToday
  <1> QED BY <1>1, Inductive, PTL

=============================================================================
