---------------------------- MODULE PlayerProofs ----------------------------
(***************************************************************************)
(* Proofs about Player, for any campaigns, prices, number of concurrent    *)
(* Updates and number of days: IInv is inductive, and the safety           *)
(* properties follow from it; with the owner of the name it shows that     *)
(* PlayerWorkflow implements the atomic account of PlayerAccount.tla, and  *)
(* with the order of days that the gaps of a streak were paid for.  Then   *)
(* about PlayerLevel, which plays a Player.                                *)
(***************************************************************************)
EXTENDS PlayerLevel, SequenceTheorems, FiniteSetTheorems, TLAPS

USE CampaignsAssumption, PointsAssumption, BoundsAssumption

(* The fields an Update has, by its kind. *)
LEMMA UpdateFields ==
    ASSUME NEW u \in Updates \cup {NoUpdate}
    PROVE  /\ u.kind = "authenticate" => u.hash \in Hashes
           /\ u.kind = "start" => u.level \in LevelIds
           /\ u.kind = "spend" => u.level \in LevelIds /\ u.amount \in Nat \ {0}
<1>1. CASE u \in [kind: {"authenticate"}, hash: Hashes, register: BOOLEAN]
  BY <1>1
<1>2. CASE u \in [kind: {"start"}, level: LevelIds]
  BY <1>2
<1>3. CASE u \in [kind: {"spend"}, level: LevelIds, amount: Prices]
  BY <1>3
<1>4. CASE u \in [kind: {"freeze"}]
  BY <1>4
<1>5. CASE u = NoUpdate
  BY <1>5 DEF NoUpdate
<1> QED
  BY <1>1, <1>2, <1>3, <1>4, <1>5 DEF Updates

(* A level of a campaign is a pair of its ID and a number. *)
LEMMA LevelParts ==
    ASSUME NEW level \in LevelIds
    PROVE  /\ level[1] \in Campaigns /\ level[2] \in 1..MaxLevel
           /\ TotalLevels[level[1]] \in 1..MaxLevel
           /\ level # None
BY DEF LevelIds

(* A start keeps what the progress says of the next level. *)
LEMMA JoinedProgress ==
    ASSUME NEW p \in Progress, NEW c \in Campaigns
    PROVE  /\ Join(p, c) \in Progress
           /\ Join(p, c).joined
           /\ Join(p, c).nextLevel = p.nextLevel
           /\ Join(p, c).failed = p.failed
           /\ Join(p, c).completedLevels = p.completedLevels
<1>1. TotalLevels[c] \in 0..MaxLevel
  OBVIOUS
<1> QED
  BY <1>1 DEF Join, Progress

(* A completion moves the progress to the next level. *)
LEMMA AdvancedProgress ==
    ASSUME NEW p \in Progress, p.nextLevel <= MaxLevel, p.completedLevels = p.nextLevel - 1
    PROVE  /\ Advance(p) \in Progress
           /\ Advance(p).completedLevels = Advance(p).nextLevel - 1
<1>1. /\ p.nextLevel + 1 \in 1..(MaxLevel + 1)
      /\ p.completedLevels + 1 \in 0..MaxLevel
      /\ p.nextLevel \in Int
      /\ (p.completedLevels + 1 >= p.totalLevels) \in BOOLEAN
  BY DEF Progress
<1> DEFINE done  == p.completedLevels + 1 >= p.totalLevels
           after == [p EXCEPT !.nextLevel = p.nextLevel + 1,
                              !.completedLevels = p.completedLevels + 1,
                              !.completed = done]
<1>2. Advance(p) = after
  BY DEF Advance, Advances
<1>3. done \in BOOLEAN
  BY <1>1, Zenon
<1>4. after \in Progress
  <2> HIDE DEF done
  <2> QED
    BY <1>1, <1>3 DEF Progress
<1>5. after.nextLevel = p.nextLevel + 1 /\ after.completedLevels = p.completedLevels + 1
  <2> HIDE DEF done
  <2> QED
    BY <1>1, <1>3 DEF Progress
<1> HIDE DEF after
<1> QED
  BY <1>1, <1>2, <1>4, <1>5

(* A covered debit leaves an account that is not overdrawn. *)
LEMMA DebitedAccount ==
    ASSUME NEW acct \in Account, NEW amount \in Nat, NEW freeze \in BOOLEAN,
           amount <= acct.points, acct.points <= acct.lifetimePoints
    PROVE  LET after == [acct EXCEPT !.points = @ - amount, !.streakFreeze = freeze]
               spent == [acct EXCEPT !.points = @ - amount]
           IN  /\ after \in Account /\ spent \in Account
               /\ 0 <= after.points /\ after.points <= after.lifetimePoints
               /\ 0 <= spent.points /\ spent.points <= spent.lifetimePoints
<1>1. acct.points - amount \in Int
  BY DEF Account
<1>2. [acct EXCEPT !.points = @ - amount, !.streakFreeze = freeze] \in Account
  BY <1>1 DEF Account
<1>3. [acct EXCEPT !.points = @ - amount] \in Account
  BY <1>1 DEF Account
<1> QED
  BY <1>2, <1>3 DEF Account

(* An award is added to both balances. *)
LEMMA PaidAccount ==
    ASSUME NEW acct \in Account, NEW award \in Nat
    PROVE  LET paid == [acct EXCEPT !.points = @ + award, !.lifetimePoints = @ + award]
           IN  /\ paid \in Account
               /\ paid.points = acct.points + award
               /\ paid.lifetimePoints = acct.lifetimePoints + award
               /\ paid.hash = acct.hash
<1>1. acct.points + award \in Int /\ acct.lifetimePoints + award \in Nat
  BY DEF Account
<1> QED
  BY <1>1 DEF Account

(* The streak operators return accounts and leave the points alone. *)
LEMMA StreakAccounts ==
    ASSUME NEW acct \in Account, NEW today \in Days
    PROVE  /\ UpdateStreak(acct, today) \in Account
           /\ ExpireStreak(acct, today) \in Account
           /\ UpdateStreak(acct, today).points = acct.points
           /\ UpdateStreak(acct, today).lifetimePoints = acct.lifetimePoints
           /\ UpdateStreak(acct, today).hash = acct.hash
           /\ ExpireStreak(acct, today).points = acct.points
           /\ ExpireStreak(acct, today).lifetimePoints = acct.lifetimePoints
           /\ ExpireStreak(acct, today).hash = acct.hash
<1>1. UpdateStreak(acct, today) \in Account
  <2>1. CASE acct.lastCompletionDay = today
    BY <2>1 DEF UpdateStreak, StreakAfter
  <2>2. CASE acct.lastCompletionDay # today
    <3> DEFINE streak == IF acct.lastCompletionDay \in (today - 1)..(today - 1)
                         THEN acct.currentStreak + 1 ELSE 1
    <3>1. streak \in Nat /\ MaxOf(acct.bestStreak, streak) \in Nat
      BY DEF Account, MaxOf
    <3>2. UpdateStreak(acct, today) =
            [acct EXCEPT !.currentStreak = streak,
                         !.bestStreak = MaxOf(@, streak),
                         !.lastCompletionDay = today]
      BY <2>2 DEF UpdateStreak, StreakAfter
    <3> HIDE DEF streak
    <3> QED
      BY <3>1, <3>2 DEF Account
  <2> QED
    BY <2>1, <2>2
<1>2. ExpireStreak(acct, today) \in Account
  <2>1. acct.lastCompletionDay = today - 2 /\ acct.lastCompletionDay # NoDay
          => today - 1 \in Days \cup {NoDay}
    BY DEF Account, Days, NoDay
  <2>2. acct.lastCompletionDay = today - 2 /\ acct.lastCompletionDay # NoDay
          => [acct EXCEPT !.streakFreeze = FALSE, !.lastCompletionDay = today - 1] \in Account
    BY <2>1 DEF Account
  <2>3. [acct EXCEPT !.currentStreak = 0] \in Account
    BY DEF Account
  <2> QED
    BY <2>2, <2>3 DEF ExpireStreak
<1>3. /\ UpdateStreak(acct, today).points = acct.points
      /\ UpdateStreak(acct, today).lifetimePoints = acct.lifetimePoints
      /\ UpdateStreak(acct, today).hash = acct.hash
  BY DEF UpdateStreak, StreakAfter, Account
<1>4. /\ ExpireStreak(acct, today).points = acct.points
      /\ ExpireStreak(acct, today).lifetimePoints = acct.lifetimePoints
      /\ ExpireStreak(acct, today).hash = acct.hash
  BY DEF ExpireStreak, Account
<1> QED
  BY <1>1, <1>2, <1>3, <1>4

-----------------------------------------------------------------------------
(* Initially. *)
LEMMA InitIInv == Init => IInv
<1> SUFFICES ASSUME Init PROVE IInv
  OBVIOUS
<1> USE DEF Init
<1>1. TypeOK
  <2>1. account \in Account
    BY DEF NewAccount, Account
  <2>2. progress \in [Campaigns -> Progress] /\ seen \in [Slots -> Progress]
    BY DEF NotJoined, Progress
  <2>3. child \in [LevelIds -> [status: ChildStatus, day: Days \cup {NoDay}]]
    BY DEF NoChild, ChildStatus
  <2>4. completed \in Seq([level: LevelIds, day: Days])
    OBVIOUS
  <2>5. op \in [Slots -> Updates \cup {NoUpdate}]
    OBVIOUS
  <2>6. day \in Days
    BY DEF Days
  <2> QED
    BY <2>1, <2>2, <2>3, <2>4, <2>5, <2>6 DEF TypeOK
<1>2. HandlersInv /\ OpenInv /\ ChildInv
  BY DEF HandlersInv, OpenInv, ChildInv, NotJoined, NoChild
<1>3. ScoreInv /\ NoLostWakeup /\ NeverOverdrawn /\ LatestScoreIsInFlight
  BY DEF ScoreInv, NoLostWakeup, NeverOverdrawn, LatestScoreIsInFlight, NewAccount
<1> QED
  BY <1>1, <1>2, <1>3 DEF IInv

-----------------------------------------------------------------------------
(* Update handlers. *)

(* A slot that becomes idle keeps the handlers' variables in their types. *)
LEMMA ReturnsTypes ==
    ASSUME TypeOK, NEW s \in Slots, Returns(s)
    PROVE  /\ pc' \in [Slots -> {"idle", "accepted", "resolving", "starting", "started"}]
           /\ op' \in [Slots -> Updates \cup {NoUpdate}]
           /\ seen' \in [Slots -> Progress]
  BY DEF TypeOK, Returns, NotJoined, Progress

LEMMA AcceptStep ==
    ASSUME IInv, NEW s \in Slots, Accept(s)
    PROVE  IInv'
<1> USE DEF IInv, Accept, player, loop, board
<1>1. TypeOK'
  BY DEF TypeOK
<1>2. HandlersInv'
  BY DEF HandlersInv, TypeOK
<1>3. OpenInv'
  BY DEF OpenInv
<1>4. ChildInv'
  BY DEF ChildInv, TypeOK
<1>5. ScoreInv' /\ NoLostWakeup' /\ NeverOverdrawn' /\ LatestScoreIsInFlight'
  BY DEF ScoreInv, NoLostWakeup, NeverOverdrawn, LatestScoreIsInFlight
<1> QED
  BY <1>1, <1>2, <1>3, <1>4, <1>5

(* What the handlers that do not block have in common. *)
LEMMA DecidesStep ==
    ASSUME IInv, NEW s \in Slots, NEW kind, NEW valid, NEW acct,
           Decides(s, kind, valid, acct),
           valid => /\ acct \in Account
                    /\ 0 <= acct.points /\ acct.points <= acct.lifetimePoints
    PROVE  IInv'
<1> USE DEF IInv, Decides, loop, board
<1>1. TypeOK'
  BY ReturnsTypes DEF TypeOK
<1>2. HandlersInv'
  BY DEF HandlersInv, TypeOK, Runs, Returns
<1>3. OpenInv'
  BY DEF OpenInv
<1>4. ChildInv'
  BY DEF ChildInv, TypeOK, Runs, Returns
<1>5. ScoreInv' /\ NoLostWakeup' /\ NeverOverdrawn' /\ LatestScoreIsInFlight'
  BY DEF ScoreInv, NoLostWakeup, NeverOverdrawn, LatestScoreIsInFlight
<1> QED
  BY <1>1, <1>2, <1>3, <1>4, <1>5

LEMMA AuthenticateStep ==
    ASSUME IInv, NEW s \in Slots, Authenticate(s)
    PROVE  IInv'
<1>1. op[s].hash \in Hashes
  BY UpdateFields DEF IInv, TypeOK, Authenticate, Decides, Runs
<1>2. [account EXCEPT !.hash = op[s].hash] \in Account
  BY <1>1 DEF IInv, TypeOK, Account
<1>3. Authenticated(s) \in Account
  BY <1>2, StreakAccounts DEF Authenticated, IInv, TypeOK
<1>4. /\ Authenticated(s).points = account.points
      /\ Authenticated(s).lifetimePoints = account.lifetimePoints
  BY <1>2, StreakAccounts DEF Authenticated, IInv, TypeOK, Account
<1> QED
  BY <1>3, <1>4, DecidesStep DEF Authenticate, IInv, NeverOverdrawn

LEMMA BuyFreezeStep ==
    ASSUME IInv, NEW s \in Slots, BuyFreeze(s)
    PROVE  IInv'
<1>1. ValidateStreakFreezePurchase =>
        Frozen \in Account /\ 0 <= Frozen.points /\ Frozen.points <= Frozen.lifetimePoints
  BY DebitedAccount DEF ValidateStreakFreezePurchase, Frozen, IInv, TypeOK, NeverOverdrawn
<1> QED
  BY <1>1, DecidesStep DEF BuyFreeze

LEMMA SpendPointsStep ==
    ASSUME IInv, NEW s \in Slots, SpendPoints(s)
    PROVE  IInv'
<1>1. op[s].amount \in Nat \ {0}
  BY UpdateFields DEF IInv, TypeOK, SpendPoints, Decides, Runs
<1>2. ValidateSpendPoints(op[s]) =>
        /\ Charged(s) \in Account
        /\ 0 <= Charged(s).points /\ Charged(s).points <= Charged(s).lifetimePoints
  BY <1>1, DebitedAccount DEF ValidateSpendPoints, Charged, IInv, TypeOK, NeverOverdrawn
<1> QED
  BY <1>2, DecidesStep DEF SpendPoints

LEMMA StartRefusedStep ==
    ASSUME IInv, NEW s \in Slots, StartRefused(s)
    PROVE  IInv'
<1> USE DEF IInv, StartRefused, player, loop, board
<1>1. TypeOK'
  BY ReturnsTypes DEF TypeOK
<1>2. HandlersInv'
  BY DEF HandlersInv, TypeOK, Runs, Returns
<1>3. OpenInv'
  BY DEF OpenInv
<1>4. ChildInv'
  BY DEF ChildInv, TypeOK, Runs, Returns
<1>5. ScoreInv' /\ NoLostWakeup' /\ NeverOverdrawn' /\ LatestScoreIsInFlight'
  BY DEF ScoreInv, NoLostWakeup, NeverOverdrawn, LatestScoreIsInFlight
<1> QED
  BY <1>1, <1>2, <1>3, <1>4, <1>5

LEMMA StartStep ==
    ASSUME IInv, NEW s \in Slots, Start(s)
    PROVE  IInv'
<1> USE DEF IInv, Start, Resolves, player, loop, board
<1>1. op[s].level \in LevelIds /\ op[s].level[1] \in Campaigns
  BY UpdateFields, LevelParts DEF TypeOK, Runs
<1>2. TypeOK'
  BY <1>1 DEF TypeOK
<1>3. levelFuture = None
  BY DEF OpenInv
<1>4. HandlersInv'
  BY <1>1, <1>3 DEF HandlersInv, TypeOK, Runs
<1>5. OpenInv'
  BY DEF OpenInv
<1>6. ChildInv'
  BY DEF ChildInv, TypeOK, Runs
<1>7. ScoreInv' /\ NoLostWakeup' /\ NeverOverdrawn' /\ LatestScoreIsInFlight'
  BY DEF ScoreInv, NoLostWakeup, NeverOverdrawn, LatestScoreIsInFlight
<1> QED
  BY <1>2, <1>4, <1>5, <1>6, <1>7

LEMMA ResolveAllowedStep ==
    ASSUME IInv, NEW s \in Slots, ResolveAllowed(s)
    PROVE  IInv'
<1> USE DEF IInv, ResolveAllowed, player, loop, board
<1>1. TypeOK'
  BY DEF TypeOK
<1>2. HandlersInv'
  BY DEF HandlersInv, TypeOK
<1>3. OpenInv'
  BY DEF OpenInv
<1>4. ChildInv'
  BY DEF ChildInv, TypeOK
<1>5. ScoreInv' /\ NoLostWakeup' /\ NeverOverdrawn' /\ LatestScoreIsInFlight'
  BY DEF ScoreInv, NoLostWakeup, NeverOverdrawn, LatestScoreIsInFlight
<1> QED
  BY <1>1, <1>2, <1>3, <1>4, <1>5

(* ResolveRefused and StartFails. *)
LEMMA FailsStep ==
    ASSUME IInv, NEW s \in Slots, NEW state \in {"resolving", "starting"},
           Fails(s, state)
    PROVE  IInv'
<1> USE DEF IInv, Fails, player, loop, board
<1>1. TypeOK'
  BY ReturnsTypes DEF TypeOK
<1>2. HandlersInv'
  BY DEF HandlersInv, TypeOK, Returns
<1>3. OpenInv'
  BY DEF OpenInv
<1>4. ChildInv'
  BY DEF ChildInv, TypeOK, Returns
<1>5. ScoreInv' /\ NoLostWakeup' /\ NeverOverdrawn' /\ LatestScoreIsInFlight'
  BY DEF ScoreInv, NoLostWakeup, NeverOverdrawn, LatestScoreIsInFlight
<1> QED
  BY <1>1, <1>2, <1>3, <1>4, <1>5

LEMMA ChildStartsStep ==
    ASSUME IInv, NEW s \in Slots, ChildStarts(s)
    PROVE  IInv'
<1> USE DEF IInv, ChildStarts, player, loop, board
<1>1. op[s].level \in LevelIds
  BY UpdateFields DEF TypeOK, HandlersInv
<1>2. TypeOK'
  <2>1. child' \in [LevelIds -> [status: ChildStatus, day: Days \cup {NoDay}]]
    BY <1>1 DEF TypeOK, ChildStatus
  <2> QED
    BY <2>1 DEF TypeOK
<1>3. HandlersInv'
  BY DEF HandlersInv, TypeOK
<1>4. OpenInv'
  BY DEF OpenInv
<1>5. ChildInv'
  <2>1. mainPc # "failed"
    BY DEF HandlersInv
  <2>2. pc'[s] = "started" /\ op'[s].level = op[s].level
    BY DEF TypeOK
  <2>3. \A t \in Slots : pc[t] = "started" => pc'[t] = "started"
    BY DEF TypeOK
  <2>4. \A level \in LevelIds : level # op[s].level => child'[level] = child[level]
    BY DEF TypeOK
  <2>5. child'[op[s].level] = [status |-> "running", day |-> NoDay]
    BY <1>1 DEF TypeOK
  <2> QED
    BY <1>1, <2>1, <2>2, <2>3, <2>4, <2>5 DEF ChildInv
<1>6. ScoreInv' /\ NoLostWakeup' /\ NeverOverdrawn' /\ LatestScoreIsInFlight'
  BY DEF ScoreInv, NoLostWakeup, NeverOverdrawn, LatestScoreIsInFlight
<1> QED
  BY <1>2, <1>3, <1>4, <1>5, <1>6

(* A function keeps its type when one of its values is replaced. *)
LEMMA ExceptKeepsType ==
    ASSUME NEW S, NEW T, NEW f \in [S -> T], NEW c \in S, NEW v \in T
    PROVE  [f EXCEPT ![c] = v] \in [S -> T]
OBVIOUS

LEMMA FinishStartStep ==
    ASSUME IInv, NEW s \in Slots, FinishStart(s)
    PROVE  IInv'
<1> USE DEF IInv, FinishStart, Opens, board
<1> DEFINE level == op[s].level
<1>1. lock = s /\ op[s].kind = "start"
  BY DEF HandlersInv
<1>2. level \in LevelIds /\ level[1] \in Campaigns /\ level # None
  BY <1>1, UpdateFields, LevelParts DEF TypeOK
<1>3. Resolvable(progress[level[1]], level)
  BY <1>1 DEF HandlersInv
<1>4. progress[level[1]] \in Progress /\ TotalLevels[level[1]] \in 1..MaxLevel
  BY <1>2, LevelParts DEF TypeOK
<1> HIDE DEF level
<1>5. progress' = [progress EXCEPT ![level[1]] = Join(@, level[1])]
  BY DEF level
<1>6. Join(progress[level[1]], level[1]) \in Progress
  BY <1>2, <1>4, JoinedProgress
<1>7. TypeOK'
  <2>1. progress \in [Campaigns -> Progress] /\ level[1] \in Campaigns
    BY <1>2 DEF TypeOK
  <2>2. progress' = [progress EXCEPT ![level[1]] = Join(progress[level[1]], level[1])]
    BY <1>5
  <2>3. progress' \in [Campaigns -> Progress]
    BY ONLY <1>6, <2>1, <2>2, ExceptKeepsType
  <2> QED
    BY <1>2, <2>3, ReturnsTypes DEF TypeOK, level
<1>8. HandlersInv'
  BY <1>1 DEF HandlersInv, TypeOK, Returns
<1>9. OpenInv'
  <2>1. progress'[level[1]] = Join(progress[level[1]], level[1])
    BY <1>2, <1>5 DEF TypeOK
  <2>2. /\ progress'[level[1]].joined
        /\ progress'[level[1]].nextLevel = progress[level[1]].nextLevel
        /\ progress'[level[1]].failed = progress[level[1]].failed
        /\ progress'[level[1]].completedLevels = progress[level[1]].completedLevels
    BY <1>2, <1>4, <2>1, JoinedProgress
  <2>3. Resolvable(progress'[level[1]], level)
    BY <1>3, <2>2 DEF Resolvable
  <2>4. \A c \in Campaigns : c # level[1] => progress'[c] = progress[c]
    BY <1>5 DEF TypeOK
  <2>5. \A c \in Campaigns : progress'[c].completedLevels = progress'[c].nextLevel - 1
    BY <2>2, <2>4 DEF OpenInv
  <2>6. active' = level /\ levelFuture' = level
    BY DEF level
  <2> QED
    BY <1>2, <2>2, <2>3, <2>5, <2>6 DEF OpenInv, Resolvable
<1>10. ChildInv'
  <2>1. \A t \in Slots : pc[t] = "started" => t = s
    BY <1>1 DEF HandlersInv
  <2>2. levelFuture = None /\ levelFuture' = op[s].level
    BY <1>1 DEF HandlersInv
  <2>3. \A id \in LevelIds : id # None
    BY LevelParts
  <2> QED
    BY <2>1, <2>2, <2>3 DEF ChildInv
<1>11. NoLostWakeup'
  BY DEF NoLostWakeup
<1>12. ScoreInv' /\ NeverOverdrawn' /\ LatestScoreIsInFlight'
  BY DEF ScoreInv, NeverOverdrawn, LatestScoreIsInFlight
<1> QED
  BY <1>7, <1>8, <1>9, <1>10, <1>11, <1>12

-----------------------------------------------------------------------------
(* The event loop. *)

LEMMA NextIterationFacts ==
    ASSUME NextIteration, armed \in BOOLEAN
    PROVE  /\ mainPc' \in {"select", "await"} /\ armed' \in BOOLEAN
           /\ mainPc' = "await" => boardFuture' = 0
           /\ mainPc' = "select" => armed' = (levelFuture' # None)
  BY DEF NextIteration, Iterates

(* A solved level: its points, its progress and its score. *)
LEMMA CreditFacts ==
    ASSUME IInv, NEW level \in LevelIds, NEW d \in Days, Credit(level, d), Applies(level)
    PROVE  /\ account' \in Account /\ NeverOverdrawn'
           /\ progress' \in [Campaigns -> Progress]
           /\ \A c \in Campaigns : progress'[c].completedLevels = progress'[c].nextLevel - 1
           /\ completed' \in Seq([level: LevelIds, day: Days])
           /\ Len(completed') = Len(completed) + 1
<1> USE DEF IInv, Credit
<1>1. account' \in Account /\ NeverOverdrawn'
  <2>1. PICK award \in Awards :
          account' = [UpdateStreak(account, d) EXCEPT
                        !.points = @ + award, !.lifetimePoints = @ + award]
    OBVIOUS
  <2>2. /\ UpdateStreak(account, d) \in Account
        /\ UpdateStreak(account, d).points = account.points
        /\ UpdateStreak(account, d).lifetimePoints = account.lifetimePoints
    BY StreakAccounts DEF TypeOK
  <2>3. award \in Nat
    BY ONLY award \in Awards, PointsAssumption DEF PointsAssumption
  <2>4. /\ account' \in Account
        /\ account'.points = account.points + award
        /\ account'.lifetimePoints = account.lifetimePoints + award
    BY <2>1, <2>2, <2>3, PaidAccount
  <2>5. account.points \in Int /\ account.lifetimePoints \in Nat /\ NeverOverdrawn
    BY DEF TypeOK, Account
  <2>6. NeverOverdrawn'
    BY ONLY <2>3, <2>4, <2>5 DEF NeverOverdrawn
  <2> QED
    BY ONLY <2>4, <2>6
<1>2. /\ progress[level[1]] \in Progress /\ level[1] \in Campaigns
      /\ progress[level[1]].nextLevel <= MaxLevel
      /\ progress[level[1]].completedLevels = progress[level[1]].nextLevel - 1
  BY LevelParts DEF TypeOK, Applies, OpenInv
<1>3. /\ Advance(progress[level[1]]) \in Progress
      /\ Advance(progress[level[1]]).completedLevels
           = Advance(progress[level[1]]).nextLevel - 1
  BY <1>2, AdvancedProgress
<1>4. progress' = [progress EXCEPT ![level[1]] = Advance(progress[level[1]])]
  OBVIOUS
<1>5. /\ progress' \in [Campaigns -> Progress]
      /\ \A c \in Campaigns : progress'[c].completedLevels = progress'[c].nextLevel - 1
  BY <1>2, <1>3, <1>4 DEF TypeOK, OpenInv
<1>6. /\ completed' \in Seq([level: LevelIds, day: Days])
      /\ Len(completed') = Len(completed) + 1
  BY DEF TypeOK
<1> QED
  BY <1>1, <1>5, <1>6

LEMMA LevelEndsStep ==
    ASSUME IInv, LevelEnds
    PROVE  IInv'
<1> USE DEF IInv, LevelEnds, handlers
<1> DEFINE level == levelFuture
<1>1. mainPc = "select" /\ armed /\ level \in LevelIds /\ level # None
  BY DEF LevelReady, TypeOK, OpenInv
<1>2. child[level].status \in {"solved", "timedOut"} /\ child[level].day \in Days
  BY <1>1 DEF LevelReady, ChildInv
<1>3. Applies(level)
  BY <1>1 DEF Applies, OpenInv, Resolvable
<1>4. active' = None /\ levelFuture' = None
  BY <1>3
<1>5. \A s \in Slots : lock # s /\ pc[s] # "started"
  BY <1>1 DEF HandlersInv
<1>6. /\ mainPc' \in {"select", "await"} /\ armed' \in BOOLEAN
      /\ mainPc' = "await" => boardFuture' = 0
      /\ mainPc' = "select" => ~armed'
  BY <1>4, NextIterationFacts DEF TypeOK
<1>7. HandlersInv'
  BY <1>5, <1>6 DEF HandlersInv
<1>8. ChildInv'
  BY <1>1, <1>2, <1>5, <1>6 DEF ChildInv
<1>9. NoLostWakeup'
  BY <1>4 DEF NoLostWakeup
<1>10. CASE child[level].status = "solved"
  <2>1. Credit(level, child[level].day)
    BY <1>3, <1>10
  <2>2. /\ account' \in Account /\ NeverOverdrawn'
        /\ progress' \in [Campaigns -> Progress]
        /\ \A c \in Campaigns : progress'[c].completedLevels = progress'[c].nextLevel - 1
        /\ completed' \in Seq([level: LevelIds, day: Days])
        /\ Len(completed') = Len(completed) + 1
    BY <1>1, <1>2, <1>3, <2>1, CreditFacts
  <2>3. /\ boardFuture' = Len(completed) + 1 /\ Len(completed) \in Nat
        /\ publishing' = publishing \cup {Len(completed) + 1}
    <3>1. Len(completed) \in Nat
      BY DEF TypeOK
    <3> QED
      BY <2>1, <3>1, Zenon DEF Credit
  <2>4. TypeOK'
    <3>1. boardFuture' \in Nat /\ Len(completed) + 1 \in Nat \ {0}
      BY <2>3
    <3>2. publishing' \subseteq Nat \ {0}
      BY <2>3, <3>1 DEF TypeOK
    <3> QED
      BY <1>4, <1>6, <2>2, <3>1, <3>2 DEF TypeOK
  <2>5. OpenInv'
    BY <1>4, <1>6, <2>2 DEF OpenInv
  <2>6. ScoreInv' /\ LatestScoreIsInFlight'
    BY <1>6, <2>2, <2>3 DEF ScoreInv, LatestScoreIsInFlight
  <2> QED
    BY <1>7, <1>8, <1>9, <2>2, <2>4, <2>5, <2>6
<1>11. CASE child[level].status = "timedOut"
  <2>1. TimeOut(level)
    BY <1>3, <1>11
  <2>2. progress[level[1]] \in Progress /\ level[1] \in Campaigns
    BY <1>1, LevelParts DEF TypeOK
  <2>3. [progress[level[1]] EXCEPT !.failed = TRUE] \in Progress
    BY <2>2 DEF Progress
  <2>4. progress' = [progress EXCEPT ![level[1]] = [progress[level[1]] EXCEPT !.failed = TRUE]]
    BY <2>1 DEF TimeOut
  <2>5. progress' \in [Campaigns -> Progress]
    BY <2>2, <2>3, <2>4 DEF TypeOK
  <2>6. \A c \in Campaigns : progress'[c].completedLevels = progress'[c].nextLevel - 1
    BY <2>2, <2>4 DEF TypeOK, OpenInv, Progress
  <2>7. TypeOK'
    BY <1>4, <1>6, <2>1, <2>5 DEF TypeOK, TimeOut
  <2>8. OpenInv'
    BY <1>4, <1>6, <2>6 DEF OpenInv
  <2>9. ScoreInv' /\ LatestScoreIsInFlight' /\ NeverOverdrawn'
    BY <1>6, <2>1 DEF ScoreInv, LatestScoreIsInFlight, NeverOverdrawn, TimeOut
  <2> QED
    BY <1>7, <1>8, <1>9, <2>7, <2>8, <2>9
<1> QED
  BY <1>2, <1>10, <1>11

LEMMA BoardPublishedStep ==
    ASSUME IInv, BoardPublished
    PROVE  IInv'
<1> USE DEF IInv, BoardPublished, player, handlers, board
<1>1. /\ mainPc' \in {"select", "await"} /\ armed' \in BOOLEAN
      /\ mainPc' = "select" => armed' = (levelFuture' # None)
  BY NextIterationFacts DEF TypeOK
<1>2. TypeOK'
  BY <1>1 DEF TypeOK
<1>3. HandlersInv' /\ OpenInv' /\ ChildInv'
  BY <1>1 DEF HandlersInv, OpenInv, ChildInv
<1>4. ScoreInv' /\ NeverOverdrawn' /\ LatestScoreIsInFlight'
  BY DEF ScoreInv, NeverOverdrawn, LatestScoreIsInFlight, TypeOK
<1>5. NoLostWakeup'
  BY <1>1 DEF NoLostWakeup
<1> QED
  BY <1>2, <1>3, <1>4, <1>5

LEMMA WakeStep ==
    ASSUME IInv, Wake \/ ReceiveUpgrade
    PROVE  IInv'
<1> USE DEF IInv, Wake, ReceiveUpgrade, player, handlers, board
<1>1. /\ mainPc' \in {"select", "await"} /\ armed' \in BOOLEAN
      /\ mainPc' = "await" => boardFuture' = 0
      /\ mainPc' = "select" => armed' = (levelFuture' # None)
  BY NextIterationFacts DEF TypeOK
<1>2. TypeOK'
  BY <1>1 DEF TypeOK
<1>3. HandlersInv' /\ OpenInv' /\ ChildInv'
  BY <1>1 DEF HandlersInv, OpenInv, ChildInv
<1>4. ScoreInv' /\ NeverOverdrawn' /\ LatestScoreIsInFlight'
  BY <1>1 DEF ScoreInv, NeverOverdrawn, LatestScoreIsInFlight
<1>5. NoLostWakeup'
  BY <1>1 DEF NoLostWakeup
<1> QED
  BY <1>2, <1>3, <1>4, <1>5

(* No child runs after its parent has closed. *)
LEMMA TerminatedChildren ==
    ASSUME TypeOK, ChildInv, TerminateChildren
    PROVE  /\ child' \in [LevelIds -> [status: ChildStatus, day: Days \cup {NoDay}]]
           /\ \A level \in LevelIds : child'[level].status # "running"
           /\ \A level \in LevelIds :
                child'[level].status \in {"solved", "timedOut"} => child'[level].day \in Days
<1> DEFINE after(level) == IF child[level].status = "running"
                           THEN [child[level] EXCEPT !.status = "failed"] ELSE child[level]
<1>1. \A level \in LevelIds :
        /\ after(level) \in [status: ChildStatus, day: Days \cup {NoDay}]
        /\ after(level).status # "running"
        /\ after(level).status \in {"solved", "timedOut"} => after(level).day \in Days
  BY DEF TypeOK, ChildInv, ChildStatus
<1>2. child' = [level \in LevelIds |-> after(level)]
  BY DEF TerminateChildren
<1> HIDE DEF after
<1> QED
  BY <1>1, <1>2

LEMMA ContinueAsNewStep ==
    ASSUME IInv, ContinueAsNew
    PROVE  IInv'
<1> USE DEF IInv, ContinueAsNew, player, handlers
<1>1. TypeOK'
  BY TerminatedChildren DEF TypeOK
<1>2. HandlersInv' /\ OpenInv'
  BY DEF HandlersInv, OpenInv
<1>3. ChildInv'
  BY TerminatedChildren DEF ChildInv
<1>4. ScoreInv' /\ NoLostWakeup' /\ NeverOverdrawn' /\ LatestScoreIsInFlight'
  BY DEF ScoreInv, NoLostWakeup, NeverOverdrawn, LatestScoreIsInFlight
<1> QED
  BY <1>1, <1>2, <1>3, <1>4

LEMMA LevelFailedStep ==
    ASSUME IInv, LevelFailed
    PROVE  IInv'
<1> USE DEF IInv, LevelFailed, player, board
<1>1. TypeOK'
  <2>1. seen' \in [Slots -> Progress]
    BY DEF NotJoined, Progress
  <2>2. op' \in [Slots -> Updates \cup {NoUpdate}]
    OBVIOUS
  <2> QED
    BY <2>1, <2>2, TerminatedChildren DEF TypeOK
<1>2. HandlersInv'
  BY DEF HandlersInv
<1>3. OpenInv'
  BY DEF OpenInv, LevelReady
<1>4. ChildInv'
  BY TerminatedChildren DEF ChildInv
<1>5. ScoreInv' /\ NoLostWakeup' /\ NeverOverdrawn' /\ LatestScoreIsInFlight'
  BY DEF ScoreInv, NoLostWakeup, NeverOverdrawn, LatestScoreIsInFlight, LevelReady
<1> QED
  BY <1>1, <1>2, <1>3, <1>4, <1>5

LEMMA RestartStep ==
    ASSUME IInv, Restart
    PROVE  IInv'
<1> USE DEF IInv, Restart, handlers
<1>1. TypeOK'
  <2>1. account' \in Account
    BY DEF NewAccount, Account
  <2>2. progress' \in [Campaigns -> Progress]
    BY DEF NotJoined, Progress
  <2>3. completed' \in Seq([level: LevelIds, day: Days])
    OBVIOUS
  <2> QED
    BY <2>1, <2>2, <2>3 DEF TypeOK
<1>2. HandlersInv'
  BY DEF HandlersInv
<1>3. OpenInv'
  BY DEF OpenInv, NotJoined
<1>4. ChildInv'
  BY DEF ChildInv
<1>5. ScoreInv' /\ NoLostWakeup' /\ NeverOverdrawn' /\ LatestScoreIsInFlight'
  BY DEF ScoreInv, NoLostWakeup, NeverOverdrawn, LatestScoreIsInFlight, NewAccount
<1> QED
  BY <1>1, <1>2, <1>3, <1>4, <1>5

-----------------------------------------------------------------------------
(* The environment. *)

LEMMA ChildEndsStep ==
    ASSUME IInv, NEW level \in LevelIds, NEW status \in {"solved", "timedOut", "failed"},
           ChildEnds(level, status)
    PROVE  IInv'
<1> USE DEF IInv, ChildEnds, player, handlers, loop, board
<1>1. TypeOK'
  <2>1. child' \in [LevelIds -> [status: ChildStatus, day: Days \cup {NoDay}]]
    BY DEF TypeOK, ChildStatus
  <2> QED
    BY <2>1 DEF TypeOK
<1>2. HandlersInv' /\ OpenInv'
  BY DEF HandlersInv, OpenInv
<1>3. ChildInv'
  <2>1. child'[level] = [status |-> status, day |-> day]
    BY DEF TypeOK
  <2>2. \A other \in LevelIds : other # level => child'[other] = child[other]
    BY DEF TypeOK
  <2> QED
    BY <2>1, <2>2 DEF ChildInv, TypeOK
<1>4. ScoreInv' /\ NoLostWakeup' /\ NeverOverdrawn' /\ LatestScoreIsInFlight'
  BY DEF ScoreInv, NoLostWakeup, NeverOverdrawn, LatestScoreIsInFlight
<1> QED
  BY <1>1, <1>2, <1>3, <1>4

LEMMA PublishStep ==
    ASSUME IInv, NEW version \in publishing, Publish(version)
    PROVE  IInv'
<1> USE DEF IInv, Publish, player, handlers, loop
<1>1. TypeOK'
  BY DEF TypeOK
<1>2. HandlersInv' /\ OpenInv' /\ ChildInv'
  BY DEF HandlersInv, OpenInv, ChildInv
<1>3. ScoreInv' /\ NoLostWakeup' /\ NeverOverdrawn' /\ LatestScoreIsInFlight'
  BY DEF ScoreInv, NoLostWakeup, NeverOverdrawn, LatestScoreIsInFlight
<1> QED
  BY <1>1, <1>2, <1>3

LEMMA ClockStep ==
    ASSUME IInv, RequestUpgrade \/ Tick
    PROVE  IInv'
<1> USE DEF IInv, RequestUpgrade, Tick, player, handlers, loop, board
<1>1. TypeOK'
  <2>1. day' \in Days
    BY DEF TypeOK, Days
  <2> QED
    BY <2>1 DEF TypeOK
<1>2. HandlersInv' /\ OpenInv' /\ ChildInv'
  BY DEF HandlersInv, OpenInv, ChildInv
<1>3. ScoreInv' /\ NoLostWakeup' /\ NeverOverdrawn' /\ LatestScoreIsInFlight'
  BY DEF ScoreInv, NoLostWakeup, NeverOverdrawn, LatestScoreIsInFlight
<1> QED
  BY <1>1, <1>2, <1>3

LEMMA StutterStep ==
    ASSUME IInv, UNCHANGED vars
    PROVE  IInv'
<1> USE DEF IInv, vars
<1>1. TypeOK'
  BY DEF TypeOK
<1>2. HandlersInv' /\ OpenInv' /\ ChildInv'
  BY DEF HandlersInv, OpenInv, ChildInv
<1>3. ScoreInv' /\ NoLostWakeup' /\ NeverOverdrawn' /\ LatestScoreIsInFlight'
  BY DEF ScoreInv, NoLostWakeup, NeverOverdrawn, LatestScoreIsInFlight
<1> QED
  BY <1>1, <1>2, <1>3

-----------------------------------------------------------------------------
(* The strengthened invariant holds in every state of every instance: the  *)
(* mutex keeps the StartLevel snapshot current while its handler is        *)
(* blocked, and the loop always waits for the level that is running.       *)
THEOREM Inductive == Spec => []IInv
<1>1. IInv /\ [Next]_vars => IInv'
  <2> SUFFICES ASSUME IInv, [Next]_vars PROVE IInv'
    OBVIOUS
  <2>1. ASSUME NEW s \in Slots, Accept(s) \/ Handler(s) \/ Catalog(s) \/ Server(s)
        PROVE  IInv'
    BY <2>1, AcceptStep, AuthenticateStep, BuyFreezeStep, SpendPointsStep,
       StartRefusedStep, StartStep, FinishStartStep, ResolveAllowedStep,
       FailsStep, ChildStartsStep
       DEF Handler, Catalog, Server, ResolveRefused, StartFails
  <2>2. CASE Main
    BY <2>2, LevelEndsStep, LevelFailedStep, BoardPublishedStep, WakeStep,
       ContinueAsNewStep DEF Main
  <2>3. CASE Environment
    BY <2>3, RestartStep, ClockStep, ChildEndsStep, PublishStep
       DEF Environment, ChildSolved, ChildTimesOut, ChildFails
  <2>4. CASE UNCHANGED vars
    BY <2>4, StutterStep
  <2> QED
    BY <2>1, <2>2, <2>3, <2>4 DEF Next
<1> QED
  BY <1>1, InitIInv, PTL DEF Spec

(* Every variable keeps its type. *)
THEOREM TypeCorrect == Spec => []TypeOK
<1>1. IInv => TypeOK
  BY DEF IInv
<1> QED
  BY <1>1, Inductive, PTL

(* At most one level Workflow of the player runs at any time, however many *)
(* StartLevel Updates are validated at once.                               *)
THEOREM OneLevel == Spec => []OneOpenLevel
<1>1. IInv => OneOpenLevel
  BY LevelParts DEF IInv, OneOpenLevel, HandlersInv, ChildInv
<1> QED
  BY <1>1, Inductive, PTL

(* The result of the level the loop waits for is never dropped. *)
THEOREM ResultsApply == Spec => []NoResultIsDropped
<1>1. IInv => NoResultIsDropped
  BY DEF IInv, NoResultIsDropped, Applies, OpenInv, Resolvable
<1> QED
  BY <1>1, Inductive, PTL

(* Queued debits never overdraw the points. *)
THEOREM Solvent == Spec => []NeverOverdrawn
<1>1. IInv => NeverOverdrawn
  BY DEF IInv
<1> QED
  BY <1>1, Inductive, PTL

(* A level that starts while the loop is blocked always wakes it. *)
THEOREM Awake == Spec => []NoLostWakeup
<1>1. IInv => NoLostWakeup
  BY DEF IInv
<1> QED
  BY <1>1, Inductive, PTL

(* The score of the last completion is delivered or on its way, also across *)
(* Continue-As-New.                                                         *)
THEOREM ScoreSurvives == Spec => []LatestScoreIsInFlight
<1>1. IInv => LatestScoreIsInFlight
  BY DEF IInv
<1> QED
  BY <1>1, Inductive, PTL

(* A timed-out single attempt is never played again. *)
THEOREM LostIsLost == Spec => []LostAttemptStaysLost
<1>1. IInv => LostAttemptStaysLost
  BY UpdateFields, LevelParts
     DEF IInv, TypeOK, LostAttemptStaysLost, HandlersInv, OpenInv, ChildInv, Resolvable
<1> QED
  BY <1>1, Inductive, PTL

-----------------------------------------------------------------------------
(* The order of the completed levels. *)

(* The levels completed in a campaign are finitely many. *)
LEMMA CompletedOfFinite ==
    ASSUME NEW c, NEW n \in Nat
    PROVE  IsFiniteSet(CompletedOf(c, n)) /\ Cardinality(CompletedOf(c, n)) \in Nat
<1>1. CompletedOf(c, n) \subseteq 1..n
  BY DEF CompletedOf
<1>2. IsFiniteSet(1..n)
  BY FS_Interval
<1> QED
  BY <1>1, <1>2, FS_Subset, FS_CardinalityType

(* A step that completes nothing and leaves the next levels alone. *)
LEMMA OrderKept ==
    ASSUME LevelsCompletedInOrder, completed' = completed,
           \A c \in Campaigns : progress'[c].nextLevel = progress[c].nextLevel
    PROVE  LevelsCompletedInOrder'
<1>1. \A c, n : CompletedOf(c, n)' = CompletedOf(c, n)
  BY DEF CompletedOf
<1> QED
  BY <1>1 DEF LevelsCompletedInOrder

(* Applied to the open level, a completion is the next one of its campaign. *)
LEMMA CreditInOrder ==
    ASSUME IInv, LevelsCompletedInOrder, NEW level \in LevelIds, NEW d \in Days,
           Credit(level, d), Applies(level)
    PROVE  LevelsCompletedInOrder'
<1> DEFINE n == Len(completed)
           entry == [level |-> level, day |-> d]
           Of(c, k) == {i \in 1..k : completed'[i].level[1] = c}
<1>1. /\ n \in Nat /\ DOMAIN completed = 1..n
      /\ DOMAIN completed' = 1..(n + 1) /\ Len(completed') = n + 1
      /\ completed'[n + 1] = entry
      /\ \A i \in 1..n : completed'[i] = completed[i]
  <2>1. completed' = Append(completed, entry)
    BY DEF Credit
  <2>2. completed \in Seq([level: LevelIds, day: Days]) /\ entry \in [level: LevelIds, day: Days]
    BY DEF IInv, TypeOK
  <2> QED
    BY <2>1, <2>2, AppendProperties, LenProperties
<1>2. ASSUME NEW c, NEW k \in 0..n
      PROVE  Of(c, k) = CompletedOf(c, k)
  BY <1>1, <1>2 DEF CompletedOf
<1>3. ASSUME NEW c \in Campaigns
      PROVE  /\ Cardinality(CompletedOf(c, n)) \in Nat
             /\ Cardinality(Of(c, n + 1)) = Cardinality(CompletedOf(c, n))
                                              + (IF c = level[1] THEN 1 ELSE 0)
  <2>1. CASE c = level[1]
    <3>1. Of(c, n + 1) = CompletedOf(c, n) \cup {n + 1}
      BY <1>1, <2>1 DEF CompletedOf
    <3>2. n + 1 \notin CompletedOf(c, n)
      BY <1>1 DEF CompletedOf
    <3>3. IsFiniteSet(CompletedOf(c, n)) /\ Cardinality(CompletedOf(c, n)) \in Nat
      BY <1>1, CompletedOfFinite
    <3> QED
      BY <2>1, <3>1, <3>2, <3>3, FS_AddElement
  <2>2. CASE c # level[1]
    <3>1. Of(c, n + 1) = CompletedOf(c, n)
      BY <1>1, <2>2 DEF CompletedOf
    <3>2. Cardinality(CompletedOf(c, n)) \in Nat
      BY <1>1, CompletedOfFinite
    <3>3. Cardinality(Of(c, n + 1)) = Cardinality(CompletedOf(c, n))
      BY <3>1
    <3> HIDE DEF Of
    <3> QED
      BY <2>2, <3>2, <3>3
  <2> QED
    BY <2>1, <2>2
<1>4. /\ level[1] \in Campaigns
      /\ level[2] = Cardinality(CompletedOf(level[1], n)) + 1
      /\ \A c \in Campaigns :
          /\ progress[c].nextLevel = Cardinality(CompletedOf(c, n)) + 1
          /\ progress'[c].nextLevel = progress[c].nextLevel
                                        + (IF c = level[1] THEN 1 ELSE 0)
  <2>1. level[1] \in Campaigns /\ progress \in [Campaigns -> Progress]
    BY LevelParts DEF IInv, TypeOK
  <2>2. \A c \in Campaigns : progress[c].nextLevel = Cardinality(CompletedOf(c, n)) + 1
    BY DEF LevelsCompletedInOrder
  <2>3. progress' = [progress EXCEPT ![level[1]] = Advance(progress[level[1]])]
    BY DEF Credit
  <2>4. Advance(progress[level[1]]).nextLevel = progress[level[1]].nextLevel + 1
    BY <2>1 DEF Advance, Advances, Progress
  <2>5. \A c \in Campaigns : progress[c].nextLevel \in Nat
    BY <2>1 DEF Progress
  <2>6. level[2] = progress[level[1]].nextLevel
    BY DEF Applies
  <2> QED
    BY <2>1, <2>2, <2>3, <2>4, <2>5, <2>6
<1>5. ASSUME NEW i \in DOMAIN completed'
      PROVE  completed'[i].level[2] = Cardinality(Of(completed'[i].level[1], i))
  <2>1. CASE i \in 1..n
    <3>1. completed[i].level[2] = Cardinality(CompletedOf(completed[i].level[1], i))
      BY <1>1, <2>1 DEF LevelsCompletedInOrder
    <3>2. i \in 0..n
      BY <1>1, <2>1
    <3>3. Of(completed[i].level[1], i) = CompletedOf(completed[i].level[1], i)
      BY <1>2, <3>2
    <3>4. completed'[i] = completed[i]
      BY <1>1, <2>1
    <3> QED
      BY <3>1, <3>3, <3>4
  <2>2. CASE i = n + 1
    <3>1. completed'[i].level = level
      BY <1>1, <2>2
    <3>2. Cardinality(Of(level[1], n + 1)) = Cardinality(CompletedOf(level[1], n)) + 1
      BY <1>3, <1>4
    <3> QED
      BY <1>4, <2>2, <3>1, <3>2
  <2>3. i \in 1..n \/ i = n + 1
    <3>1. n \in Nat /\ i \in 1..(n + 1)
      BY <1>1
    <3> HIDE DEF n
    <3> QED
      BY ONLY <3>1
  <2> HIDE DEF n, Of
  <2> QED
    BY <2>1, <2>2, <2>3, Zenon
<1>6. \A c \in Campaigns : progress'[c].nextLevel = Cardinality(Of(c, n + 1)) + 1
  BY <1>3, <1>4
<1>7. \A c, k : CompletedOf(c, k)' = Of(c, k)
  BY DEF CompletedOf
<1> QED
  BY <1>1, <1>5, <1>6, <1>7 DEF LevelsCompletedInOrder

(* A result is applied: a completion, a time-out, or nothing. *)
LEMMA LevelEndsInOrder ==
    ASSUME IInv, LevelsCompletedInOrder, LevelEnds
    PROVE  LevelsCompletedInOrder'
<1>1. /\ levelFuture \in LevelIds
      /\ child[levelFuture].status \in {"solved", "timedOut"}
      /\ child[levelFuture].day \in Days
  BY DEF IInv, LevelEnds, LevelReady, OpenInv, ChildInv, TypeOK
<1>2. CASE Applies(levelFuture) /\ child[levelFuture].status = "solved"
  BY <1>1, <1>2, CreditInOrder DEF LevelEnds
<1>3. CASE Applies(levelFuture) /\ child[levelFuture].status # "solved"
  <2>1. TimeOut(levelFuture)
    BY <1>3 DEF LevelEnds
  <2>2. \A c \in Campaigns : progress'[c].nextLevel = progress[c].nextLevel
    BY <2>1 DEF TimeOut, IInv, TypeOK, Progress
  <2> QED
    BY <2>1, <2>2, OrderKept DEF TimeOut
<1>4. CASE ~Applies(levelFuture)
  BY <1>4, OrderKept DEF LevelEnds, player
<1> QED
  BY <1>2, <1>3, <1>4

(* A started level joins its campaign, whose next level stays. *)
LEMMA FinishStartInOrder ==
    ASSUME IInv, LevelsCompletedInOrder, NEW s \in Slots, FinishStart(s)
    PROVE  LevelsCompletedInOrder'
<1>1. \A c \in Campaigns : progress'[c].nextLevel = progress[c].nextLevel
  <2>1. progress \in [Campaigns -> Progress] /\ op[s].level[1] \in Campaigns
    BY UpdateFields, LevelParts DEF FinishStart, Opens, IInv, TypeOK, HandlersInv
  <2>2. progress' = [progress EXCEPT ![op[s].level[1]]
                        = Join(progress[op[s].level[1]], op[s].level[1])]
    BY DEF FinishStart, Opens
  <2>3. Join(progress[op[s].level[1]], op[s].level[1]).nextLevel
            = progress[op[s].level[1]].nextLevel
    BY <2>1, JoinedProgress
  <2> QED
    BY <2>1, <2>2, <2>3
<1> QED
  BY <1>1, OrderKept DEF FinishStart, Opens

(* The levels of a campaign are completed in order and once each. *)
THEOREM CompletedInOrder == Spec => []LevelsCompletedInOrder
<1>1. Init => LevelsCompletedInOrder
  <2> SUFFICES ASSUME Init PROVE LevelsCompletedInOrder
    OBVIOUS
  <2>1. completed = <<>> /\ \A c \in Campaigns : progress[c].nextLevel = 1
    BY DEF Init, NotJoined
  <2>2. DOMAIN completed = {} /\ Len(completed) = 0
    BY <2>1
  <2>3. \A c : CompletedOf(c, 0) = {}
    BY DEF CompletedOf
  <2>4. \A c : Cardinality(CompletedOf(c, 0)) + 1 = 1
    BY <2>3, FS_EmptySet
  <2> QED
    BY <2>1, <2>2, <2>4 DEF LevelsCompletedInOrder
<1>2. IInv /\ LevelsCompletedInOrder /\ [Next]_vars => LevelsCompletedInOrder'
  <2> SUFFICES ASSUME IInv, LevelsCompletedInOrder, [Next]_vars
               PROVE  LevelsCompletedInOrder'
    OBVIOUS
  <2>1. ASSUME NEW s \in Slots, Accept(s) \/ Handler(s) \/ Catalog(s) \/ Server(s)
        PROVE  LevelsCompletedInOrder'
    <3>1. CASE FinishStart(s)
      BY <3>1, FinishStartInOrder
    <3>2. CASE ~FinishStart(s)
      <4>1. UNCHANGED <<progress, completed>>
        BY <2>1, <3>2
           DEF Accept, Handler, Authenticate, BuyFreeze, SpendPoints, Decides, StartRefused,
               Start, Resolves, Catalog, ResolveAllowed, ResolveRefused, Server, ChildStarts,
               StartFails, Fails, player
      <4> QED
        BY <4>1, OrderKept
    <3> QED
      BY <3>1, <3>2
  <2>2. CASE LevelEnds
    BY <2>2, LevelEndsInOrder
  <2>3. CASE Main /\ ~LevelEnds
    BY <2>3, OrderKept
       DEF Main, LevelFailed, BoardPublished, Wake, ReceiveUpgrade, ContinueAsNew, player
  <2>4. CASE Restart
    <3>1. completed' = <<>> /\ \A c \in Campaigns : progress'[c].nextLevel = 1
      BY <2>4 DEF Restart, NotJoined
    <3>2. DOMAIN completed' = {} /\ Len(completed') = 0
      BY <3>1
    <3>3. \A c : CompletedOf(c, 0)' = {}
      BY DEF CompletedOf
    <3>4. \A c : Cardinality(CompletedOf(c, 0)') + 1 = 1
      BY <3>3, FS_EmptySet
    <3> QED
      BY <3>1, <3>2, <3>4 DEF LevelsCompletedInOrder
  <2>5. CASE Environment /\ ~Restart
    BY <2>5, OrderKept
       DEF Environment, RequestUpgrade, Tick, ChildSolved, ChildTimesOut, ChildFails,
           ChildEnds, Publish, player
  <2>6. CASE UNCHANGED vars
    BY <2>6, OrderKept DEF vars
  <2> QED
    BY <2>1, <2>2, <2>3, <2>4, <2>5, <2>6 DEF Next
<1> QED
  BY <1>1, <1>2, Inductive, PTL DEF Spec

-----------------------------------------------------------------------------
(* The owner of the name. *)
LEMMA InitOwner == Init => OwnerInv
BY DEF Init, OwnerInv, NewAccount, NoChild, NoUpdate

LEMMA AuthenticateOwner ==
    ASSUME OwnedIInv, NEW s \in Slots, Authenticate(s)
    PROVE  /\ OwnerInv'
           /\ \/ account'.hash = account.hash
              \/ account.hash = NoHash /\ account'.hash \in Hashes
           /\ account'.points = account.points
           /\ account'.lifetimePoints = account.lifetimePoints
<1> USE DEF OwnedIInv, IInv, Authenticate, Decides, loop
<1>1. op[s].hash \in Hashes
  BY UpdateFields DEF TypeOK, Runs
<1>2. [account EXCEPT !.hash = op[s].hash] \in Account
  BY <1>1 DEF TypeOK, Account
<1>3. /\ Authenticated(s).hash = op[s].hash
      /\ Authenticated(s).points = account.points
      /\ Authenticated(s).lifetimePoints = account.lifetimePoints
  BY <1>2, StreakAccounts DEF Authenticated, TypeOK, Account
<1>4. CASE ValidateCredentials(op[s])
  <2>1. account' = Authenticated(s)
    BY <1>4
  <2>2. account.hash = NoHash \/ account.hash = op[s].hash
    BY <1>4 DEF ValidateCredentials
  <2>3. OwnerInv'
    BY <1>1, <1>3, <2>1 DEF OwnerInv, TypeOK, Returns, Runs
  <2> QED
    BY <1>1, <1>3, <2>1, <2>2, <2>3
<1>5. CASE ~ValidateCredentials(op[s])
  BY <1>5 DEF OwnerInv, TypeOK, Returns, Runs
<1> QED
  BY <1>4, <1>5

(* The debits need no other claim than the one they were accepted under. *)
LEMMA DebitOwner ==
    ASSUME OwnedIInv, NEW s \in Slots, BuyFreeze(s) \/ SpendPoints(s)
    PROVE  OwnerInv' /\ account'.hash = account.hash /\ account.hash # NoHash
<1> USE DEF OwnedIInv, IInv, BuyFreeze, SpendPoints, Decides, loop
<1>1. account'.hash = account.hash
  <2>1. account \in Account
    BY DEF TypeOK
  <2>2. Frozen.hash = account.hash /\ Charged(s).hash = account.hash
    BY <2>1 DEF Frozen, Charged, Account
  <2>3. account' \in {account, Frozen, Charged(s)}
    OBVIOUS
  <2> QED
    BY <2>2, <2>3
<1>2. account.hash # NoHash
  BY DEF OwnerInv, Runs
<1>3. OwnerInv'
  BY <1>1 DEF OwnerInv, TypeOK, Returns, Runs
<1> QED
  BY <1>1, <1>2, <1>3

(* The other steps of handlers. *)
LEMMA HandlerOwner ==
    ASSUME OwnedIInv, NEW s \in Slots,
           \/ Accept(s) \/ StartRefused(s) \/ Start(s) \/ ResolveAllowed(s)
           \/ ResolveRefused(s) \/ StartFails(s)
    PROVE  OwnerInv'
<1> USE DEF OwnedIInv, IInv, player, loop
<1>1. CASE Accept(s)
  <2> USE <1>1 DEF Accept
  <2>1. PICK u \in Updates :
          /\ u.kind # "authenticate" => account.hash # NoHash
          /\ op' = [op EXCEPT ![s] = u]
    <3>1. \A u \in Updates : u.kind = "spend" /\ ValidateSpendPoints(u) => active # None
      BY UpdateFields, LevelParts DEF ValidateSpendPoints
    <3> QED
      BY <3>1 DEF OwnerInv
  <2> QED
    BY <2>1 DEF OwnerInv, TypeOK
<1>2. CASE StartRefused(s) \/ ResolveRefused(s) \/ StartFails(s)
  BY <1>2 DEF StartRefused, ResolveRefused, StartFails, Fails, Returns, OwnerInv, TypeOK, Runs
<1>3. CASE Start(s) \/ ResolveAllowed(s)
  BY <1>3 DEF Start, Resolves, ResolveAllowed, OwnerInv, TypeOK, Runs
<1> QED
  BY <1>1, <1>2, <1>3

LEMMA ChildStartsOwner ==
    ASSUME OwnedIInv, NEW s \in Slots, ChildStarts(s)
    PROVE  OwnerInv'
<1> USE DEF OwnedIInv, IInv, ChildStarts, player, loop
<1>1. op[s].level \in LevelIds
  BY UpdateFields DEF TypeOK, HandlersInv
<1>2. child'[op[s].level].status = "running"
  BY <1>1 DEF TypeOK
<1>3. \A level \in LevelIds : level # op[s].level => child'[level] = child[level]
  BY DEF TypeOK
<1>4. \A t \in Slots : t # s => pc'[t] = pc[t]
  BY DEF TypeOK
<1> QED
  BY <1>1, <1>2, <1>3, <1>4 DEF OwnerInv

LEMMA FinishStartOwner ==
    ASSUME OwnedIInv, NEW s \in Slots, FinishStart(s)
    PROVE  OwnerInv'
BY UpdateFields, LevelParts
   DEF OwnedIInv, IInv, FinishStart, Opens, Returns, OwnerInv, HandlersInv, TypeOK

LEMMA LevelEndsOwner ==
    ASSUME OwnedIInv, LevelEnds
    PROVE  OwnerInv'
<1> USE DEF OwnedIInv, IInv, LevelEnds, handlers
<1>1. levelFuture \in LevelIds /\ levelFuture # None /\ mainPc' # "failed"
  BY NextIterationFacts DEF LevelReady, TypeOK, OpenInv
<1>2. \A s \in Slots : pc[s] # "started"
  BY <1>1 DEF HandlersInv
<1>3. active' = None /\ active # None /\ levelFuture' = None
  BY <1>1 DEF Applies, OpenInv, Resolvable
<1>4. account'.hash = account.hash
  <2>1. CASE child[levelFuture].status = "solved"
    <3>1. Credit(levelFuture, child[levelFuture].day)
      BY <1>1, <2>1 DEF Applies, OpenInv, Resolvable
    <3>2. child[levelFuture].day \in Days
      BY <1>1, <2>1 DEF ChildInv
    <3>3. PICK award \in Awards :
            account' = [UpdateStreak(account, child[levelFuture].day) EXCEPT
                          !.points = @ + award, !.lifetimePoints = @ + award]
      BY <3>1 DEF Credit
    <3>4. /\ UpdateStreak(account, child[levelFuture].day) \in Account
          /\ UpdateStreak(account, child[levelFuture].day).hash = account.hash
      BY <3>2, StreakAccounts DEF TypeOK
    <3>5. award \in Nat
      OBVIOUS
    <3> QED
      BY <3>3, <3>4, <3>5, PaidAccount
  <2>2. CASE child[levelFuture].status # "solved"
    BY <2>2 DEF TimeOut, player
  <2> QED
    BY <2>1, <2>2
<1> QED
  BY <1>1, <1>2, <1>3, <1>4, LevelParts DEF OwnerInv

LEMMA LoopOwner ==
    ASSUME OwnedIInv, BoardPublished \/ Wake \/ ReceiveUpgrade \/ ContinueAsNew
    PROVE  OwnerInv'
<1> USE DEF OwnedIInv, IInv, player, handlers
<1>1. CASE BoardPublished \/ Wake \/ ReceiveUpgrade
  <2>1. mainPc' # "failed"
    BY <1>1, NextIterationFacts DEF BoardPublished, Wake, ReceiveUpgrade, TypeOK
  <2> QED
    BY <1>1, <2>1 DEF BoardPublished, Wake, ReceiveUpgrade, OwnerInv
<1>2. CASE ContinueAsNew
  BY <1>2, LevelParts DEF ContinueAsNew, OwnerInv
<1> QED
  BY <1>1, <1>2

LEMMA FailureOwner ==
    ASSUME OwnedIInv, LevelFailed \/ Restart
    PROVE  OwnerInv'
<1> USE DEF OwnedIInv, IInv, player, handlers
<1>1. CASE LevelFailed
  <2>1. levelFuture \in LevelIds /\ child[levelFuture].status = "failed"
    BY <1>1 DEF LevelFailed, LevelReady, OpenInv, TypeOK
  <2>2. ChildMayFail /\ active # None
    BY <2>1, LevelParts DEF OwnerInv, OpenInv
  <2> QED
    BY <1>1, <2>2 DEF LevelFailed, OwnerInv
<1>2. CASE Restart
  BY <1>2, LevelParts DEF Restart, OwnerInv, HandlersInv
<1> QED
  BY <1>1, <1>2

LEMMA EnvironmentOwner ==
    ASSUME OwnedIInv, Environment, ~Restart
    PROVE  OwnerInv'
<1> USE DEF OwnedIInv, IInv, player, handlers, loop
<1>1. ASSUME NEW level \in LevelIds,
             ChildSolved(level) \/ ChildTimesOut(level) \/ ChildFails(level)
      PROVE  OwnerInv'
  <2> USE <1>1 DEF ChildSolved, ChildTimesOut, ChildFails, ChildEnds
  <2>1. child'[level].status = "failed" => ChildMayFail
    BY DEF TypeOK
  <2>2. \A other \in LevelIds : other # level => child'[other] = child[other]
    BY DEF TypeOK
  <2> QED
    BY <2>1, <2>2 DEF OwnerInv
<1>2. ASSUME NEW version \in publishing, Publish(version)
      PROVE  OwnerInv'
  BY <1>2 DEF Publish, OwnerInv
<1>3. CASE RequestUpgrade \/ Tick
  BY <1>3 DEF RequestUpgrade, Tick, OwnerInv
<1> QED
  BY <1>1, <1>2, <1>3 DEF Environment

LEMMA OwnerStep ==
    ASSUME OwnedIInv, [Next]_vars
    PROVE  OwnerInv'
<1>1. ASSUME NEW s \in Slots, Accept(s) \/ Handler(s) \/ Catalog(s) \/ Server(s)
      PROVE  OwnerInv'
  BY <1>1, HandlerOwner, AuthenticateOwner, DebitOwner, ChildStartsOwner, FinishStartOwner
     DEF Handler, Catalog, Server
<1>2. CASE Main
  BY <1>2, LevelEndsOwner, LoopOwner, FailureOwner DEF Main
<1>3. CASE Environment
  BY <1>3, EnvironmentOwner, FailureOwner
<1>4. CASE UNCHANGED vars
  BY <1>4 DEF vars, OwnedIInv, OwnerInv
<1> QED
  BY <1>1, <1>2, <1>3, <1>4 DEF Next

(* The invariant with the owner of the name. *)
THEOREM InductiveOwned == Spec => []OwnedIInv
<1>1. OwnerInv /\ IInv /\ [Next]_vars => OwnerInv'
  BY OwnerStep DEF OwnedIInv
<1>2. IInv /\ OwnerInv => OwnedIInv
  BY DEF OwnedIInv
<1> QED
  BY <1>1, <1>2, InitOwner, Inductive, PTL DEF Spec

-----------------------------------------------------------------------------
(* Each step is a step of the atomic account. *)

(* A step that leaves the mapped state alone stutters. *)
LEMMA Stutters ==
    ASSUME UNCHANGED <<account, active>>,
           \A c \in Campaigns : /\ progress'[c].nextLevel = progress[c].nextLevel
                                /\ progress'[c].failed = progress[c].failed
    PROVE  UNCHANGED AtomicAccount!vars
BY DEF AtomicAccount!vars

LEMMA InitMaps == Init => AtomicAccount!Init
BY DEF Init, AtomicAccount!Init, NewAccount, NotJoined

(* The first registration is Claim; a later login leaves the account alone. *)
LEMMA AuthenticateMaps ==
    ASSUME OwnedIInv, NEW s \in Slots, Authenticate(s)
    PROVE  AtomicAccount!Claim \/ UNCHANGED AtomicAccount!vars
<1>1. UNCHANGED <<progress, active>>
  BY DEF Authenticate, Decides
<1> QED
  BY <1>1, AuthenticateOwner DEF AtomicAccount!Claim, AtomicAccount!vars

(* A debit that passes its second validation is Debit. *)
LEMMA DebitMaps ==
    ASSUME OwnedIInv, NEW s \in Slots, BuyFreeze(s) \/ SpendPoints(s)
    PROVE  \/ \E amount \in Prices \cup {FreezeCost} : AtomicAccount!Debit(amount)
           \/ UNCHANGED AtomicAccount!vars
<1> USE DEF OwnedIInv, IInv
<1>1. account \in Account /\ account'.hash = account.hash /\ account.hash # NoHash
  BY DebitOwner DEF TypeOK
<1>2. UNCHANGED <<progress, active>>
  BY DEF BuyFreeze, SpendPoints, Decides
<1>3. CASE UNCHANGED account
  BY <1>2, <1>3 DEF AtomicAccount!vars
<1>4. CASE BuyFreeze(s) /\ account' # account
  <2>1. account' = Frozen /\ account.points >= FreezeCost
    BY <1>4 DEF BuyFreeze, Decides, ValidateStreakFreezePurchase
  <2>2. /\ account'.points = account.points - FreezeCost
        /\ account'.lifetimePoints = account.lifetimePoints
    BY <1>1, <2>1 DEF Frozen, Account
  <2>3. AtomicAccount!Debit(FreezeCost)
    BY <1>1, <1>2, <2>1, <2>2 DEF AtomicAccount!Debit
  <2> QED
    BY <2>3
<1>5. CASE SpendPoints(s) /\ account' # account
  <2>1. /\ op[s].level \in LevelIds /\ op[s].amount \in Prices
        /\ account' = Charged(s) /\ ValidateSpendPoints(op[s])
    <3>1. op[s] \in Updates \cup {NoUpdate} /\ op[s].kind = "spend"
      BY <1>5 DEF SpendPoints, Decides, Runs, TypeOK
    <3>2. op[s] \in [kind: {"spend"}, level: LevelIds, amount: Prices]
      BY <3>1 DEF Updates, NoUpdate
    <3> QED
      BY <1>5, <3>2 DEF SpendPoints, Decides
  <2>2. active # None /\ account.points >= op[s].amount
    BY <2>1, LevelParts DEF ValidateSpendPoints
  <2>3. /\ account'.points = account.points - op[s].amount
        /\ account'.lifetimePoints = account.lifetimePoints
    BY <1>1, <2>1 DEF Charged, Account
  <2>4. AtomicAccount!Debit(op[s].amount)
    BY <1>1, <1>2, <2>2, <2>3 DEF AtomicAccount!Debit
  <2> QED
    BY <2>1, <2>4
<1> QED
  BY <1>3, <1>4, <1>5

(* The end of a StartLevel handler is Open. *)
LEMMA FinishStartMaps ==
    ASSUME OwnedIInv, NEW s \in Slots, FinishStart(s)
    PROVE  \E c \in Campaigns : AtomicAccount!Open(c)
<1> USE DEF OwnedIInv, IInv, FinishStart, Opens
<1> DEFINE level == op[s].level
           camp  == level[1]
<1>1. lock = s /\ op[s].kind = "start" /\ active = None
  BY DEF HandlersInv
<1>2. level \in LevelIds /\ camp \in Campaigns /\ level = <<camp, level[2]>>
  BY <1>1, UpdateFields, LevelParts DEF TypeOK, LevelIds
<1>3. Resolvable(progress[camp], level)
  BY <1>1 DEF HandlersInv
<1>4. account.hash # NoHash /\ account' = account
  BY <1>1 DEF OwnerInv
<1>5. progress \in [Campaigns -> Progress]
  BY DEF TypeOK
<1>6. progress' = [progress EXCEPT ![camp] = Join(progress[camp], camp)]
  OBVIOUS
<1>7. active' = level
  OBVIOUS
<1>8. /\ Join(progress[camp], camp).nextLevel = progress[camp].nextLevel
      /\ Join(progress[camp], camp).failed = progress[camp].failed
  BY <1>2, <1>5, JoinedProgress
<1> HIDE DEF level, camp
<1>9. \A k \in Campaigns : /\ progress'[k].nextLevel = progress[k].nextLevel
                           /\ progress'[k].failed = progress[k].failed
  BY <1>2, <1>5, <1>6, <1>8
<1>10. AtomicAccount!Open(camp)
  BY <1>1, <1>2, <1>3, <1>4, <1>7, <1>9 DEF AtomicAccount!Open, Resolvable
<1> QED
  BY <1>2, <1>10

(* The result of the open level is Win or Lose. *)
LEMMA LevelEndsMaps ==
    ASSUME OwnedIInv, LevelEnds
    PROVE  \E c \in Campaigns : AtomicAccount!Win(c) \/ AtomicAccount!Lose(c)
<1> USE DEF OwnedIInv, IInv, LevelEnds
<1> DEFINE level == levelFuture
<1>0. PICK camp \in Campaigns : camp = level[1]
  BY LevelParts DEF LevelReady, TypeOK, OpenInv, LevelIds
<1>1. level \in LevelIds /\ camp \in Campaigns /\ level = <<camp, level[2]>> /\ level # None
  BY <1>0, LevelParts DEF LevelReady, TypeOK, OpenInv, LevelIds
<1>2. Applies(level) /\ active = level /\ active' = None
  BY <1>1 DEF Applies, OpenInv, Resolvable
<1>3. progress[camp] \in Progress /\ progress[camp].nextLevel = level[2]
  BY <1>0, <1>1, <1>2 DEF TypeOK, Applies
<1>4. /\ child[level].status \in {"solved", "timedOut"}
      /\ child[level].day \in Days
  BY <1>1 DEF LevelReady, ChildInv
<1>5. CASE child[level].status = "solved"
  <2>1. Credit(level, child[level].day)
    BY <1>2, <1>5
  <2>2. PICK award \in Awards :
          account' = [UpdateStreak(account, child[level].day) EXCEPT
                        !.points = @ + award, !.lifetimePoints = @ + award]
    BY <2>1 DEF Credit
  <2>3. /\ UpdateStreak(account, child[level].day) \in Account
        /\ UpdateStreak(account, child[level].day).hash = account.hash
        /\ UpdateStreak(account, child[level].day).points = account.points
        /\ UpdateStreak(account, child[level].day).lifetimePoints = account.lifetimePoints
    BY <1>4, StreakAccounts DEF TypeOK
  <2>4. award \in Nat
    OBVIOUS
  <2>5. /\ account'.hash = account.hash
        /\ account'.points = account.points + award
        /\ account'.lifetimePoints = account.lifetimePoints + award
    BY <2>2, <2>3, <2>4, PaidAccount
  <2>6. progress' = [progress EXCEPT ![camp] = Advance(progress[camp])]
    BY <1>0, <2>1 DEF Credit
  <2>7. /\ Advance(progress[camp]).nextLevel = progress[camp].nextLevel + 1
        /\ Advance(progress[camp]).failed = progress[camp].failed
    BY <1>3 DEF Advance, Advances, Progress
  <2>8. /\ progress'[camp].nextLevel = progress[camp].nextLevel + 1
        /\ progress'[camp].failed = progress[camp].failed
        /\ \A k \in Campaigns : k # camp => progress'[k] = progress[k]
    BY <1>1, <2>6, <2>7 DEF TypeOK
  <2> HIDE DEF level
  <2>9. /\ active = <<camp, progress[camp].nextLevel>>
        /\ active' = None
    BY <1>1, <1>2, <1>3
  <2>10. [k \in Campaigns |-> progress'[k].nextLevel]
           = [[k \in Campaigns |-> progress[k].nextLevel] EXCEPT ![camp] = @ + 1]
    BY <1>1, <2>8
  <2>11. [k \in Campaigns |-> progress'[k].failed] = [k \in Campaigns |-> progress[k].failed]
    BY <1>1, <2>8
  <2>12. AtomicAccount!Win(camp)
    BY <1>1, <2>4, <2>5, <2>9, <2>10, <2>11 DEF AtomicAccount!Win
  <2> QED
    BY <2>12
<1>6. CASE child[level].status = "timedOut"
  <2>1. account' = account
        /\ progress' = [progress EXCEPT ![camp] = [progress[camp] EXCEPT !.failed = TRUE]]
    BY <1>0, <1>2, <1>6 DEF TimeOut
  <2>2. /\ progress'[camp].nextLevel = progress[camp].nextLevel
        /\ progress'[camp].failed = TRUE
        /\ \A k \in Campaigns : k # camp => progress'[k] = progress[k]
    BY <1>1, <1>3, <2>1 DEF TypeOK, Progress
  <2> HIDE DEF level
  <2>3. active = <<camp, progress[camp].nextLevel>> /\ active' = None
    BY <1>1, <1>2, <1>3
  <2>4. [k \in Campaigns |-> progress'[k].nextLevel] = [k \in Campaigns |-> progress[k].nextLevel]
    BY <1>1, <2>2
  <2>5. [k \in Campaigns |-> progress'[k].failed]
          = [[k \in Campaigns |-> progress[k].failed] EXCEPT ![camp] = TRUE]
    BY <1>1, <2>2
  <2>6. AtomicAccount!Lose(camp)
    BY <1>1, <2>1, <2>3, <2>4, <2>5 DEF AtomicAccount!Lose
  <2> QED
    BY <2>6
<1> QED
  BY <1>4, <1>5, <1>6

(* A restart after a failure is Wipe. *)
LEMMA RestartMaps ==
    ASSUME OwnedIInv, Restart
    PROVE  AtomicAccount!Wipe
BY DEF OwnedIInv, OwnerInv, Restart, AtomicAccount!Wipe, NewAccount, NotJoined

LEMMA StepMaps ==
    ASSUME OwnedIInv, [Next]_vars
    PROVE  [AtomicAccount!Next]_(AtomicAccount!vars)
<1>1. ASSUME NEW s \in Slots,
             \/ Accept(s) \/ StartRefused(s) \/ Start(s) \/ ResolveAllowed(s)
             \/ ResolveRefused(s) \/ StartFails(s) \/ ChildStarts(s)
      PROVE  UNCHANGED AtomicAccount!vars
  <2>1. UNCHANGED <<account, progress, active>>
    BY <1>1 DEF Accept, StartRefused, Start, Resolves, ResolveAllowed, ResolveRefused,
                StartFails, Fails, ChildStarts, player
  <2> QED
    BY <2>1, Stutters
<1>2. ASSUME NEW s \in Slots, Authenticate(s) \/ BuyFreeze(s) \/ SpendPoints(s) \/ FinishStart(s)
      PROVE  AtomicAccount!Next \/ UNCHANGED AtomicAccount!vars
  BY <1>2, AuthenticateMaps, DebitMaps, FinishStartMaps DEF AtomicAccount!Next
<1>3. CASE LevelEnds \/ Restart
  BY <1>3, LevelEndsMaps, RestartMaps DEF AtomicAccount!Next
<1>4. CASE (Main /\ ~LevelEnds) \/ (Environment /\ ~Restart) \/ UNCHANGED vars
  <2>1. UNCHANGED <<account, progress, active>>
    BY <1>4 DEF Main, Environment, LevelFailed, BoardPublished, Wake, ReceiveUpgrade,
                ContinueAsNew, RequestUpgrade, Tick, ChildSolved, ChildTimesOut,
                ChildFails, ChildEnds, Publish, player, vars
  <2> QED
    BY <2>1, Stutters
<1> QED
  BY <1>1, <1>2, <1>3, <1>4 DEF Next, Handler, Catalog, Server

(* PlayerWorkflow, with its queued handlers, its blocked StartLevel, its     *)
(* event loop and its Continue-As-New, implements the atomic account.       *)
THEOREM AccountRefinement == Spec => ImplementsAccount
<1>1. Init => AtomicAccount!Init
  BY InitMaps
<1>2. OwnedIInv /\ [Next]_vars => [AtomicAccount!Next]_(AtomicAccount!vars)
  BY StepMaps
<1> QED
  BY <1>1, <1>2, InductiveOwned, PTL DEF Spec, ImplementsAccount, AtomicAccount!Spec

(* Two registrations that are validated at once claim a name only once, and *)
(* no later Update changes its password while the Workflow runs.            *)
THEOREM NameKept == Spec => ClaimedNameIsKept
<1>1. ASSUME OwnedIInv, [Next]_vars, account.hash # NoHash, mainPc # "failed"
      PROVE  account'.hash = account.hash
  <2>1. ASSUME NEW s \in Slots, Authenticate(s) \/ BuyFreeze(s) \/ SpendPoints(s)
        PROVE  account'.hash = account.hash
    BY <1>1, <2>1, AuthenticateOwner, DebitOwner
  <2>2. CASE LevelEnds
    BY <1>1, <2>2, LevelEndsMaps DEF AtomicAccount!Win, AtomicAccount!Lose
  <2>3. CASE Restart
    BY <1>1, <2>3 DEF Restart
  <2>4. CASE UNCHANGED account
    BY <2>4
  <2>5. ASSUME NEW s \in Slots, Accept(s) \/ Handler(s) \/ Catalog(s) \/ Server(s)
        PROVE  account'.hash = account.hash
    <3>1. \/ Authenticate(s) \/ BuyFreeze(s) \/ SpendPoints(s)
          \/ UNCHANGED account
      BY <2>5 DEF Handler, Catalog, Server, Accept, StartRefused, Start, Resolves,
                  ResolveAllowed, ResolveRefused, StartFails, Fails, ChildStarts,
                  FinishStart, Opens, player
    <3> QED
      BY <3>1, <2>1, <2>4
  <2>6. CASE (Main /\ ~LevelEnds) \/ (Environment /\ ~Restart) \/ UNCHANGED vars
    <3>1. UNCHANGED account
      BY <2>6 DEF Main, Environment, LevelFailed, BoardPublished, Wake, ReceiveUpgrade,
                  ContinueAsNew, RequestUpgrade, Tick, ChildSolved, ChildTimesOut,
                  ChildFails, ChildEnds, Publish, player, vars
    <3> QED
      BY <3>1, <2>4
  <2> QED
    BY <1>1, <2>2, <2>3, <2>5, <2>6 DEF Next
<1>2. OwnedIInv /\ [Next]_vars =>
        [account.hash # NoHash /\ mainPc # "failed" => account'.hash = account.hash]_vars
  BY <1>1
<1> QED
  BY <1>2, InductiveOwned, PTL DEF Spec, ClaimedNameIsKept

-----------------------------------------------------------------------------
(* The days of the streak. *)

(* They are finitely many. *)
LEMMA CompletionDaysFinite ==
    ASSUME TypeOK
    PROVE  /\ CompletionDays \subseteq Days
           /\ IsFiniteSet(CompletionDays) /\ Cardinality(CompletionDays) \in Nat
<1>1. CompletionDays \subseteq Days
  <2>1. completed \in Seq([level: LevelIds, day: Days])
    BY DEF TypeOK
  <2>2. \A i \in DOMAIN completed : completed[i] \in [level: LevelIds, day: Days]
    <3> DEFINE Entry == [level: LevelIds, day: Days]
    <3> HIDE DEF Entry
    <3>1. completed \in Seq(Entry)
      BY <2>1 DEF Entry
    <3>2. \A i \in DOMAIN completed : completed[i] \in Entry
      BY <3>1, LenProperties, ElementOfSeq
    <3> QED
      BY <3>2 DEF Entry
  <2>3. \A i \in DOMAIN completed : completed[i].day \in Days
    BY <2>2
  <2> QED
    BY <2>3 DEF CompletionDays
<1>2. IsFiniteSet(Days)
  BY FS_Interval DEF Days
<1> QED
  BY <1>1, <1>2, FS_Subset, FS_CardinalityType

(* A completion adds its day. *)
LEMMA CompletionAddsDay ==
    ASSUME TypeOK, NEW level \in LevelIds, NEW d \in Days,
           completed' = Append(completed, [level |-> level, day |-> d])
    PROVE  CompletionDays' = CompletionDays \cup {d}
<1> DEFINE n     == Len(completed)
           entry == [level |-> level, day |-> d]
<1>1. completed \in Seq([level: LevelIds, day: Days]) /\ entry \in [level: LevelIds, day: Days]
  BY DEF TypeOK
<1>2. /\ DOMAIN completed' = (DOMAIN completed) \cup {n + 1}
      /\ completed'[n + 1] = entry
      /\ \A i \in DOMAIN completed : completed'[i] = completed[i]
  <2>1. n \in Nat /\ DOMAIN completed = 1..n
    BY <1>1, LenProperties
  <2>2. /\ Len(completed') = n + 1 /\ completed'[n + 1] = entry
        /\ \A i \in 1..n : completed'[i] = completed[i]
        /\ completed' \in Seq([level: LevelIds, day: Days])
    BY <1>1, AppendProperties
  <2>3. DOMAIN completed' = 1..(n + 1)
    BY <2>2, LenProperties
  <2>4. 1..(n + 1) = (1..n) \cup {n + 1}
    BY <2>1
  <2> QED
    BY <2>1, <2>2, <2>3, <2>4
<1>3. CompletionDays' = {completed'[i].day : i \in DOMAIN completed'}
  BY DEF CompletionDays
<1> QED
  BY <1>2, <1>3 DEF CompletionDays

(* The completions since a day, when the last of them is added. *)
LEMMA RunsGrow ==
    ASSUME NEW S \in SUBSET Days, IsFiniteSet(S), NEW d \in Days, \A c \in S : c <= d,
           NEW first \in S \cup {d}
    PROVE  LET run   == {c \in S : c >= first}
               after == {c \in S \cup {d} : c >= first}
           IN  /\ Cardinality(run) \in Nat /\ Cardinality(after) \in Nat
               /\ first = d => Cardinality(after) = 1
               /\ first # d => Cardinality(after) >= 2
               /\ first \in S /\ d \notin S => Cardinality(after) = Cardinality(run) + 1
               /\ first \in S => Cardinality(run) >= 1
<1> DEFINE run   == {c \in S : c >= first}
           after == {c \in S \cup {d} : c >= first}
<1>1. /\ IsFiniteSet(run) /\ IsFiniteSet(after)
      /\ Cardinality(run) \in Nat /\ Cardinality(after) \in Nat
  <2>1. IsFiniteSet(S \cup {d})
    BY FS_AddElement
  <2> QED
    BY <2>1, FS_Subset, FS_CardinalityType
<1>0. d \in Int /\ first \in Int /\ \A c \in S : c \in Int
  BY DEF Days
<1>2. first = d => Cardinality(after) = 1
  <2>1. ASSUME first = d PROVE after = {d}
    <3>1. \A c \in after : c = d
      BY <1>0, <2>1
    <3>2. d \in after
      BY <1>0, <2>1
    <3> HIDE DEF after
    <3> QED
      BY <3>1, <3>2
  <2> QED
    BY <2>1, FS_Singleton
<1>3. first # d => Cardinality(after) >= 2
  <2>1. ASSUME first # d PROVE {first, d} \subseteq after
    BY <2>1, <1>0
  <2>2. ASSUME first # d PROVE Cardinality({first, d}) = 2
    <3>1. IsFiniteSet({d}) /\ Cardinality({d}) = 1
      BY FS_Singleton
    <3>2. {first, d} = {d} \cup {first} /\ first \notin {d}
      BY <2>2
    <3>3. Cardinality({d} \cup {first}) = Cardinality({d}) + 1
      BY <3>1, <3>2, FS_AddElement
    <3> QED
      BY <3>1, <3>2, <3>3
  <2> QED
    BY <1>1, <2>1, <2>2, FS_Subset
<1>4. first \in S /\ d \notin S => Cardinality(after) = Cardinality(run) + 1
  <2>1. first \in S => after = run \cup {d}
    BY DEF Days
  <2>2. d \notin S => d \notin run
    OBVIOUS
  <2> QED
    BY <1>1, <2>1, <2>2, FS_AddElement
<1>5. first \in S => Cardinality(run) >= 1
  <2>1. first \in S => {first} \subseteq run
    BY <1>0
  <2>2. Cardinality({first}) = 1
    BY FS_Singleton
  <2>3. first \in S => Cardinality({first}) <= Cardinality(run)
    BY <1>1, <2>1, FS_Subset
  <2> HIDE DEF run
  <2> QED
    BY <1>1, <2>2, <2>3
<1> QED
  BY <1>1, <1>2, <1>3, <1>4, <1>5

LEMMA ProductOfNats ==
    ASSUME NEW a \in Nat, NEW b \in Nat
    PROVE  a * b \in Nat
OBVIOUS

(* A day of a completion counts itself. *)
LEMMA RunsNotEmpty ==
    ASSUME TypeOK, NEW first \in CompletionDays
    PROVE  /\ Cardinality({d \in CompletionDays : d >= first}) \in Nat
           /\ Cardinality({d \in CompletionDays : d >= first}) >= 1
<1> DEFINE run == {d \in CompletionDays : d >= first}
<1>1. {first} \subseteq run
  BY CompletionDaysFinite DEF Days
<1>2. IsFiniteSet(run) /\ Cardinality(run) \in Nat
  BY CompletionDaysFinite, FS_Subset, FS_CardinalityType
<1>3. Cardinality({first}) = 1 /\ Cardinality({first}) <= Cardinality(run)
  BY <1>1, <1>2, FS_Singleton, FS_Subset
<1> HIDE DEF run
<1>4. Cardinality(run) >= 1
  BY <1>2, <1>3
<1> QED
  BY <1>2, <1>4 DEF run

(* What was paid for more days was paid for fewer. *)
LEMMA PaidForLess ==
    ASSUME account \in Account, NEW more \in Int, NEW less \in Int, less <= more, Paid(more)
    PROVE  Paid(less)
<1>1. account.lifetimePoints - account.points \in Int
  BY DEF Account
<1>2. FreezeCost * (more - less) >= 0
  BY ProductOfNats
<1>3. FreezeCost * (more - less) = FreezeCost * more - FreezeCost * less
  OBVIOUS
<1>4. FreezeCost * more \in Int /\ FreezeCost * less \in Int
  OBVIOUS
<1> QED
  BY <1>1, <1>2, <1>3, <1>4 DEF Paid

(* What a completion on day d does to the streak. *)
LEMMA UpdateStreakFields ==
    ASSUME NEW acct \in Account, NEW d \in Days
    PROVE  LET after == UpdateStreak(acct, d) IN
           /\ after \in Account
           /\ after.points = acct.points /\ after.lifetimePoints = acct.lifetimePoints
           /\ after.streakFreeze = acct.streakFreeze
           /\ after.lastCompletionDay = d
           /\ after.currentStreak = IF acct.lastCompletionDay = d THEN acct.currentStreak
                                    ELSE IF acct.lastCompletionDay = d - 1
                                    THEN acct.currentStreak + 1 ELSE 1
           /\ after.bestStreak \in {acct.bestStreak, after.currentStreak}
           /\ after.bestStreak >= acct.bestStreak
           /\ acct.lastCompletionDay # d => after.bestStreak >= after.currentStreak
<1> DEFINE streak == IF acct.lastCompletionDay \in (d - 1)..(d - 1)
                     THEN acct.currentStreak + 1 ELSE 1
           new    == [acct EXCEPT !.currentStreak = streak,
                                  !.bestStreak = MaxOf(@, streak),
                                  !.lastCompletionDay = d]
<1>1. CASE acct.lastCompletionDay = d
  <2>1. UpdateStreak(acct, d) = acct
    BY <1>1 DEF UpdateStreak, StreakAfter
  <2> QED
    BY <1>1, <2>1 DEF Account
<1>2. CASE acct.lastCompletionDay # d
  <2>1. UpdateStreak(acct, d) = new
    BY <1>2 DEF UpdateStreak, StreakAfter
  <2>2. /\ streak \in Nat
        /\ streak = IF acct.lastCompletionDay = d - 1 THEN acct.currentStreak + 1 ELSE 1
    BY DEF Account, Days, NoDay
  <2>3. /\ MaxOf(acct.bestStreak, streak) \in Nat
        /\ MaxOf(acct.bestStreak, streak) \in {acct.bestStreak, streak}
        /\ MaxOf(acct.bestStreak, streak) >= acct.bestStreak
        /\ MaxOf(acct.bestStreak, streak) >= streak
    BY <2>2 DEF Account, MaxOf
  <2> HIDE DEF streak
  <2>4. /\ new \in Account
        /\ new.points = acct.points /\ new.lifetimePoints = acct.lifetimePoints
        /\ new.streakFreeze = acct.streakFreeze
        /\ new.lastCompletionDay = d /\ new.currentStreak = streak
        /\ new.bestStreak = MaxOf(acct.bestStreak, streak)
    BY <2>2, <2>3 DEF Account
  <2> HIDE DEF new
  <2> QED
    BY <1>2, <2>1, <2>2, <2>3, <2>4
<1> QED
  BY <1>1, <1>2

(* Points that come and go leave what the streak was paid with. *)
LEMMA StreakSpent ==
    ASSUME StreakInv, TypeOK, account' \in Account, UNCHANGED completed,
           account'.currentStreak = account.currentStreak,
           account'.bestStreak = account.bestStreak,
           account'.lastCompletionDay = account.lastCompletionDay,
           FreezeCost * (Ready' - Ready)
             <= (account'.lifetimePoints - account'.points)
                - (account.lifetimePoints - account.points)
    PROVE  StreakInv'
<1>1. CompletionDays' = CompletionDays
  BY DEF CompletionDays
<1>2. /\ account.lifetimePoints - account.points \in Int
      /\ account'.lifetimePoints - account'.points \in Int
      /\ Ready \in Int /\ Ready' \in Int
  BY DEF TypeOK, Account, Ready
<1>3. ASSUME NEW k \in Int, Paid(k + Ready)
      PROVE  FreezeCost * (k + Ready') <= account'.lifetimePoints - account'.points
  <2>1. FreezeCost * (k + Ready') = FreezeCost * (k + Ready) + FreezeCost * (Ready' - Ready)
    BY <1>2
  <2>2. /\ FreezeCost * (k + Ready) \in Int /\ FreezeCost * (Ready' - Ready) \in Int
        /\ FreezeCost * (k + Ready') \in Int
    BY <1>2
  <2> QED
    BY <1>2, <1>3, <2>1, <2>2 DEF Paid
<1>4. Paid(Ready)'
  <2>1. Paid(0 + Ready)
    BY <1>2 DEF StreakInv
  <2>2. 0 + Ready' = Ready'
    BY DEF Ready
  <2> QED
    BY <1>3, <2>1, <2>2 DEF Paid
<1>5. ASSUME NEW first \in CompletionDays,
             Cardinality({d \in CompletionDays : d >= first}) <= account.currentStreak
      PROVE  Paid(Missed(first) + Ready)'
  <2>1. Missed(first) \in Int
    <3>1. first \in Int
      BY CompletionDaysFinite DEF Days
    <3> QED
      BY <3>1 DEF Missed, TypeOK, Account, Days, NoDay
  <2>3. Missed(first)' = Missed(first)
    BY DEF Missed
  <2>2. Paid(Missed(first) + Ready)
    BY <1>5 DEF StreakInv
  <2> QED
    BY <1>3, <2>1, <2>2, <2>3 DEF Paid
<1> QED
  BY <1>1, <1>4, <1>5 DEF StreakInv

(* A login keeps the streak, covers one missed day with a freeze that was paid *)
(* for, or ends the streak.                                                    *)
LEMMA AuthenticateStreak ==
    ASSUME StreakInv, OwnedIInv, NEW s \in Slots, Authenticate(s)
    PROVE  StreakInv'
<1> DEFINE named == [account EXCEPT !.hash = op[s].hash]
<1>1. /\ TypeOK /\ UNCHANGED completed /\ account' \in Account /\ account \in Account
      /\ CompletionDays' = CompletionDays
  <2>1. IInv'
    BY AuthenticateStep DEF OwnedIInv
  <2>2. UNCHANGED completed
    BY DEF Authenticate, Decides
  <2> QED
    BY <2>1, <2>2 DEF OwnedIInv, IInv, TypeOK, CompletionDays
<1>2. account' = account \/ account' = ExpireStreak(named, day)
  BY DEF Authenticate, Decides, Authenticated
<1>3. /\ named.points = account.points /\ named.lifetimePoints = account.lifetimePoints
      /\ named.streakFreeze = account.streakFreeze
      /\ named.lastCompletionDay = account.lastCompletionDay
      /\ named.currentStreak = account.currentStreak
      /\ named.bestStreak = account.bestStreak
  BY <1>1 DEF Account
<1>4. day \in Days
  BY <1>1 DEF TypeOK
<1>5. CASE account' = account \/ account' = named
  <2>0. account'.streakFreeze = account.streakFreeze
    BY <1>3, <1>5
  <2>1. Ready' = Ready /\ Ready \in Int
    BY <2>0 DEF Ready
  <2>2. FreezeCost * (Ready' - Ready) = 0
    BY <2>1
  <2> QED
    BY <1>1, <1>3, <1>5, <2>2, StreakSpent DEF Account
<1>6. CASE account' = [named EXCEPT !.currentStreak = 0]
  <2>1. /\ account'.points = account.points /\ account'.lifetimePoints = account.lifetimePoints
        /\ account'.streakFreeze = account.streakFreeze
        /\ account'.lastCompletionDay = account.lastCompletionDay
        /\ account'.currentStreak = 0
        /\ account'.bestStreak = account.bestStreak
    BY <1>3, <1>6 DEF Account
  <2>2. Ready' = Ready /\ Paid(Ready)'
    BY <2>1 DEF Ready, Paid, StreakInv
  <2>3. \A first \in CompletionDays :
          ~(Cardinality({d \in CompletionDays : d >= first}) <= 0)
    BY <1>1, RunsNotEmpty
  <2>4. 0 <= account.bestStreak
    BY <1>1 DEF Account
  <2> QED
    BY <1>1, <2>1, <2>2, <2>3, <2>4 DEF StreakInv
<1>7. CASE /\ account.streakFreeze /\ account.lastCompletionDay # NoDay
           /\ account.lastCompletionDay = day - 2
           /\ account' = [named EXCEPT !.streakFreeze = FALSE, !.lastCompletionDay = day - 1]
  <2>1. /\ account'.points = account.points /\ account'.lifetimePoints = account.lifetimePoints
        /\ account'.streakFreeze = FALSE
        /\ account'.lastCompletionDay = account.lastCompletionDay + 1
        /\ account'.currentStreak = account.currentStreak
        /\ account'.bestStreak = account.bestStreak
    BY <1>3, <1>4, <1>7 DEF Account, Days
  <2>2. Ready = 1 /\ Ready' = 0
    BY <1>7, <2>1 DEF Ready
  <2>3. Paid(Ready)'
    <3>1. Paid(0)
      BY <1>1, <2>2, PaidForLess DEF StreakInv
    <3> QED
      BY <2>1, <2>2, <3>1 DEF Paid
  <2>4. ASSUME NEW first \in CompletionDays
        PROVE  Missed(first)' + Ready' = Missed(first) + Ready
    <3>1. first \in Int /\ account.lastCompletionDay \in Int /\ account.currentStreak \in Int
      BY <1>1, CompletionDaysFinite DEF Account, Days, NoDay
    <3> QED
      BY <2>1, <2>2, <3>1 DEF Missed
  <2>5. \A first \in CompletionDays :
          first <= account.lastCompletionDay => first <= account'.lastCompletionDay
    BY <1>1, <2>1, CompletionDaysFinite DEF Account, Days, NoDay
  <2> QED
    BY <1>1, <2>1, <2>3, <2>4, <2>5 DEF StreakInv, Paid
<1> QED
  BY <1>2, <1>3, <1>5, <1>6, <1>7 DEF ExpireStreak

(* A purchase readies a freeze for one day; a hint pays for none. *)
LEMMA DebitStreak ==
    ASSUME StreakInv, OwnedIInv, NEW s \in Slots, BuyFreeze(s) \/ SpendPoints(s)
    PROVE  StreakInv'
<1>1. /\ TypeOK /\ UNCHANGED completed /\ account' \in Account /\ account \in Account
  <2>1. IInv'
    BY BuyFreezeStep, SpendPointsStep DEF OwnedIInv
  <2>2. UNCHANGED completed
    BY DEF BuyFreeze, SpendPoints, Decides
  <2> QED
    BY <2>1, <2>2 DEF OwnedIInv, IInv, TypeOK
<1>2. CASE account' = account
  <2>1. Ready' = Ready /\ Ready \in Int
    BY <1>2 DEF Ready
  <2>2. FreezeCost * (Ready' - Ready) = 0
    BY <2>1
  <2> QED
    BY <1>1, <1>2, <2>2, StreakSpent DEF Account
<1>3. CASE account' = Frozen /\ ~account.streakFreeze
  <2>1. /\ account'.points = account.points - FreezeCost
        /\ account'.lifetimePoints = account.lifetimePoints
        /\ account'.streakFreeze
        /\ account'.lastCompletionDay = account.lastCompletionDay
        /\ account'.currentStreak = account.currentStreak
        /\ account'.bestStreak = account.bestStreak
    BY <1>1, <1>3 DEF Frozen, Account
  <2>2. Ready = 0 /\ Ready' = 1
    BY <1>3, <2>1 DEF Ready
  <2>3. FreezeCost * (Ready' - Ready) = FreezeCost
    BY <2>2
  <2> QED
    BY <1>1, <2>1, <2>3, StreakSpent DEF Account
<1>4. CASE SpendPoints(s) /\ account' = Charged(s)
  <2>1. op[s].amount \in Nat \ {0}
    BY <1>1, <1>4, UpdateFields DEF TypeOK, SpendPoints, Decides, Runs
  <2>2. /\ account'.points = account.points - op[s].amount
        /\ account'.lifetimePoints = account.lifetimePoints
        /\ account'.streakFreeze = account.streakFreeze
        /\ account'.lastCompletionDay = account.lastCompletionDay
        /\ account'.currentStreak = account.currentStreak
        /\ account'.bestStreak = account.bestStreak
    BY <1>1, <1>4, <2>1 DEF Charged, Account
  <2>3. Ready' = Ready /\ Ready \in Int
    BY <2>2 DEF Ready
  <2>4. FreezeCost * (Ready' - Ready) = 0
    BY <2>3
  <2> QED
    BY <1>1, <2>1, <2>2, <2>4, StreakSpent DEF Account
<1> QED
  BY <1>2, <1>3, <1>4 DEF BuyFreeze, SpendPoints, Decides, ValidateStreakFreezePurchase

(* A completion on the last day so far: days that it finds paid stay paid, and *)
(* it starts, extends or keeps the streak.                                     *)
LEMMA CreditStreak ==
    ASSUME StreakInv, TypeOK, NEW level \in LevelIds, NEW d \in Days, Credit(level, d),
           \A c \in CompletionDays : c <= d
    PROVE  StreakInv'
<1> DEFINE after == UpdateStreak(account, d)
           S == CompletionDays
           Run(first)   == {c \in S : c >= first}
           Grown(first) == {c \in S \cup {d} : c >= first}
<1>1. account \in Account /\ d \in Int
  BY DEF TypeOK, Days
<1>2. PICK award \in Awards :
        account' = [after EXCEPT !.points = @ + award, !.lifetimePoints = @ + award]
  BY DEF Credit
<1>3. /\ after \in Account
      /\ after.points = account.points /\ after.lifetimePoints = account.lifetimePoints
      /\ after.streakFreeze = account.streakFreeze
      /\ after.lastCompletionDay = d
      /\ after.currentStreak = IF account.lastCompletionDay = d THEN account.currentStreak
                               ELSE IF account.lastCompletionDay = d - 1
                               THEN account.currentStreak + 1 ELSE 1
      /\ after.bestStreak \in {account.bestStreak, after.currentStreak}
      /\ after.bestStreak >= account.bestStreak
      /\ account.lastCompletionDay # d => after.bestStreak >= after.currentStreak
  BY <1>1, UpdateStreakFields
<1> HIDE DEF after
<1>4. /\ account'.points = account.points + award
      /\ account'.lifetimePoints = account.lifetimePoints + award
      /\ account'.streakFreeze = after.streakFreeze
      /\ account'.lastCompletionDay = after.lastCompletionDay
      /\ account'.currentStreak = after.currentStreak
      /\ account'.bestStreak = after.bestStreak
      /\ account'.lifetimePoints - account'.points = account.lifetimePoints - account.points
  <2>1. award \in Nat /\ after.points + award \in Int /\ after.lifetimePoints + award \in Nat
    BY <1>3 DEF Account
  <2>2. account.points \in Int /\ account.lifetimePoints \in Int
    BY <1>1 DEF Account
  <2> QED
    BY <1>2, <1>3, <2>1, <2>2 DEF Account
<1>5. Ready' = Ready /\ Ready \in {0, 1}
  <2>1. account'.streakFreeze = account.streakFreeze
    BY <1>3, <1>4
  <2> QED
    BY <2>1 DEF Ready
<1>6. CompletionDays' = S \cup {d}
  BY CompletionAddsDay DEF Credit
<1>7. S \subseteq Days /\ IsFiniteSet(S) /\ Cardinality(S) \in Nat
  BY CompletionDaysFinite
<1>8. /\ Cardinality(S \cup {d}) \in Nat
      /\ Cardinality(S) <= Cardinality(S \cup {d})
      /\ Cardinality(S \cup {d}) >= 1
      /\ d \notin S => Cardinality(S \cup {d}) = Cardinality(S) + 1
  <2>1. IsFiniteSet(S \cup {d})
    BY <1>7, FS_AddElement
  <2>2. Cardinality({d}) = 1 /\ IsFiniteSet({d})
    BY FS_Singleton
  <2>3. Cardinality({d}) <= Cardinality(S \cup {d}) /\ Cardinality(S) <= Cardinality(S \cup {d})
    BY <2>1, FS_Subset
  <2>4. Cardinality(S \cup {d}) \in Nat
    BY <2>1, FS_CardinalityType
  <2>5. d \notin S => Cardinality(S \cup {d}) = Cardinality(S) + 1
    BY <1>7, FS_AddElement
  <2> HIDE DEF S
  <2> QED
    BY <2>2, <2>3, <2>4, <2>5
<1>9. /\ account.currentStreak \in Nat /\ account.bestStreak \in Nat
      /\ account.lastCompletionDay \in Int
      /\ account.currentStreak <= account.bestStreak
      /\ account.bestStreak <= Cardinality(S)
      /\ \A c \in S : c \in Int /\ c <= account.lastCompletionDay /\ c <= d
  <2>1. /\ account.currentStreak \in Nat /\ account.bestStreak \in Nat
        /\ account.lastCompletionDay \in Int
    BY <1>1 DEF Account, Days, NoDay
  <2>2. \A c \in S : c \in Int
    BY <1>7 DEF Days
  <2>3. /\ account.currentStreak <= account.bestStreak
        /\ account.bestStreak <= Cardinality(S)
        /\ \A c \in S : c <= account.lastCompletionDay
    BY DEF StreakInv
  <2> QED
    BY <2>1, <2>2, <2>3
<1>10. account.lastCompletionDay = d - 1 => d \notin S
  BY <1>1, <1>9
<1>11. /\ account'.currentStreak <= account'.bestStreak
       /\ account'.bestStreak <= Cardinality(CompletionDays')
  <2> HIDE DEF S
  <2> QED
    BY <1>1, <1>3, <1>4, <1>6, <1>7, <1>8, <1>9, <1>10
<1>12. /\ \A k \in Int : Paid(k)' <=> Paid(k)
       /\ Paid(Ready)'
  BY <1>4, <1>5 DEF Paid, StreakInv
<1>13. ASSUME NEW first \in CompletionDays'
       PROVE  first <= account'.lastCompletionDay
  BY <1>1, <1>3, <1>4, <1>6, <1>9
<1>14. ASSUME NEW first \in CompletionDays',
              Cardinality(Grown(first)) <= account'.currentStreak
       PROVE  Paid(Missed(first) + Ready)'
  <2>1. /\ Cardinality(Run(first)) \in Nat /\ Cardinality(Grown(first)) \in Nat
        /\ first = d => Cardinality(Grown(first)) = 1
        /\ first # d => Cardinality(Grown(first)) >= 2
        /\ first \in S /\ d \notin S => Cardinality(Grown(first)) = Cardinality(Run(first)) + 1
    <3>1. S \in SUBSET Days /\ first \in S \cup {d} /\ \A c \in S : c <= d
      BY <1>6, <1>7, <1>9
    <3> HIDE DEF S
    <3> QED
      BY <1>7, <3>1, RunsGrow
  <2>2. /\ first \in Int
        /\ Missed(first)' = d - first + 1 - account'.currentStreak
        /\ Missed(first)' + Ready' \in Int
        /\ account'.currentStreak \in Nat
    BY <1>1, <1>3, <1>4, <1>5, <1>6, <1>9 DEF Missed
  <2>3. Paid(Missed(first) + Ready)' <=> Paid(Missed(first)' + Ready')
    BY <1>4 DEF Paid
  <2>4. CASE first = d
    <3>1. Missed(first)' + Ready' <= Ready /\ Ready \in Int
      BY <1>5, <1>14, <2>1, <2>2, <2>4
    <3>2. Paid(Ready)
      BY DEF StreakInv
    <3> QED
      BY <1>1, <2>2, <2>3, <3>1, <3>2, PaidForLess
  <2>5. CASE first # d
    <3>1. first \in S
      BY <1>6, <2>5
    <3>2. account.lastCompletionDay \in {d - 1, d}
      BY <1>3, <1>4, <1>14, <2>1, <2>5
    <3>3. /\ Cardinality(Run(first)) <= account.currentStreak
          /\ Missed(first)' = Missed(first)
      <4>1. CASE account.lastCompletionDay = d /\ d \in S
        <5>1. S \cup {d} = S
          BY <4>1
        <5>2. Grown(first) = Run(first)
          BY <5>1
        <5> QED
          BY <1>3, <1>4, <1>14, <2>2, <4>1, <5>2 DEF Missed
      <4>2. CASE account.lastCompletionDay = d /\ d \notin S
        <5> HIDE DEF Run, Grown, S
        <5> QED
          BY <1>3, <1>4, <1>9, <1>14, <2>1, <2>2, <3>1, <4>2 DEF Missed
      <4>3. CASE account.lastCompletionDay = d - 1
        <5> HIDE DEF Run, Grown, S
        <5> QED
          BY <1>1, <1>3, <1>4, <1>9, <1>10, <1>14, <2>1, <2>2, <3>1, <4>3 DEF Missed
      <4> QED
        BY <3>2, <4>1, <4>2, <4>3
    <3>4. Paid(Missed(first) + Ready)
      BY <3>1, <3>3 DEF StreakInv
    <3> QED
      BY <1>5, <2>3, <3>3, <3>4
  <2> QED
    BY <2>4, <2>5
<1> QED
  BY <1>6, <1>11, <1>12, <1>13, <1>14 DEF StreakInv

-----------------------------------------------------------------------------
(* The order of days. *)

(* A step that completes nothing: a level it waits for ends today, or was       *)
(* waited for before.                                                           *)
LEMMA DaysKept ==
    ASSUME DaysInv, TypeOK, UNCHANGED completed, day' \in {day, day + 1},
           \A level \in LevelIds : child'[level].day \in {child[level].day, day, NoDay},
           \A level \in LevelIds :
             /\ child'[level].status \in {"solved", "timedOut"}
             /\ levelFuture' = level \/ \E s \in Slots : pc'[s] = "started" /\ op'[s].level = level
             => \/ child'[level].day = day
                \/ /\ child'[level] = child[level]
                   /\ levelFuture = level
                      \/ \E s \in Slots : pc[s] = "started" /\ op[s].level = level
    PROVE  DaysInv'
<1>1. CompletionDays' = CompletionDays
  BY DEF CompletionDays
<1>2. day' \in Int /\ day \in Int /\ day >= 1 /\ \A d \in CompletionDays : d \in Int /\ d <= day
  BY CompletionDaysFinite DEF DaysInv, TypeOK, Days
<1>3. \A level \in LevelIds : child'[level].day <= day'
  <2>1. \A level \in LevelIds : child[level].day \in Int /\ child[level].day <= day
    BY DEF DaysInv, TypeOK, Days, NoDay
  <2> QED
    BY <1>2, <2>1 DEF NoDay
<1> QED
  BY <1>1, <1>2, <1>3 DEF DaysInv

(* An Update handler completes nothing. *)
LEMMA HandlerDays ==
    ASSUME DaysInv, OwnedIInv, NEW s \in Slots, Accept(s) \/ Handler(s) \/ Catalog(s) \/ Server(s)
    PROVE  DaysInv'
<1> USE DEF OwnedIInv, IInv
<1>1. TypeOK /\ UNCHANGED <<completed, day>>
  BY DEF Accept, Handler, Authenticate, BuyFreeze, SpendPoints, Decides, StartRefused, Start,
         Resolves, FinishStart, Opens, Catalog, ResolveAllowed, ResolveRefused, Server,
         ChildStarts, StartFails, Fails, player
<1>2. CASE ChildStarts(s)
  <2>1. op[s].level \in LevelIds
    BY <1>2, UpdateFields DEF ChildStarts, TypeOK, HandlersInv
  <2>2. /\ child'[op[s].level] = [status |-> "running", day |-> NoDay]
        /\ \A level \in LevelIds : level # op[s].level => child'[level] = child[level]
    BY <1>2, <2>1 DEF ChildStarts, TypeOK
  <2>3. /\ UNCHANGED <<levelFuture, op>>
        /\ \A t \in Slots : t # s => pc'[t] = pc[t]
    BY <1>2 DEF ChildStarts, TypeOK, loop
  <2> QED
    BY <1>1, <2>2, <2>3, DaysKept
<1>3. CASE FinishStart(s)
  <2>1. /\ levelFuture' = op[s].level /\ pc[s] = "started" /\ UNCHANGED child
        /\ \A t \in Slots : pc'[t] = "started" => pc[t] = "started" /\ op'[t] = op[t]
    BY <1>3 DEF FinishStart, Opens, Returns, TypeOK
  <2> QED
    BY <1>1, <2>1, DaysKept
<1>4. CASE ~ChildStarts(s) /\ ~FinishStart(s)
  <2>1. UNCHANGED <<levelFuture, child>>
    BY <1>4 DEF Accept, Handler, Authenticate, BuyFreeze, SpendPoints, Decides, StartRefused,
                Start, Resolves, Catalog, ResolveAllowed, ResolveRefused, Server, StartFails,
                Fails, loop
  <2>2. \A t \in Slots : pc'[t] = "started" => pc[t] = "started" /\ op'[t] = op[t]
    BY <1>4 DEF Accept, Handler, Authenticate, BuyFreeze, SpendPoints, Decides, StartRefused,
                Start, Resolves, Catalog, ResolveAllowed, ResolveRefused, Server, StartFails,
                Fails, Runs, Returns, TypeOK
  <2> QED
    BY <1>1, <2>1, <2>2, DaysKept
<1> QED
  BY <1>2, <1>3, <1>4

(* The result that is applied is of no earlier day than those before it. *)
LEMMA LevelEndsDays ==
    ASSUME DaysInv, StreakInv, OwnedIInv, LevelEnds
    PROVE  DaysInv' /\ StreakInv'
<1> USE DEF OwnedIInv, IInv
<1> DEFINE d == child[levelFuture].day
<1>1. /\ levelFuture \in LevelIds /\ d \in Days
      /\ child[levelFuture].status \in {"solved", "timedOut"}
      /\ \A c \in CompletionDays : c <= d
      /\ d <= day
  BY DEF LevelEnds, LevelReady, OpenInv, ChildInv, TypeOK, DaysInv
<1>2. /\ levelFuture' = None /\ UNCHANGED <<child, day, pc, op>>
      /\ \A s \in Slots : pc'[s] # "started"
  BY <1>1, LevelParts DEF LevelEnds, handlers, HandlersInv
<1>3. CASE Credit(levelFuture, d)
  <2>1. CompletionDays' = CompletionDays \cup {d}
    BY <1>1, <1>3, CompletionAddsDay DEF Credit
  <2>2. DaysInv'
    BY <1>1, <1>2, <2>1, LevelParts DEF DaysInv
  <2> QED
    BY <1>1, <1>3, <2>2, CreditStreak
<1>4. CASE UNCHANGED <<account, completed>>
  <2>1. CompletionDays' = CompletionDays
    BY <1>4 DEF CompletionDays
  <2>2. DaysInv'
    BY <1>2, <2>1, LevelParts DEF DaysInv
  <2>3. StreakInv'
    BY <1>4, <2>1 DEF StreakInv, Paid, Ready, Missed
  <2> QED
    BY <2>2, <2>3
<1> QED
  BY <1>3, <1>4 DEF LevelEnds, TimeOut, player

(* A level that ends does so today. *)
LEMMA EnvironmentDays ==
    ASSUME DaysInv, OwnedIInv, Environment, ~Restart
    PROVE  DaysInv'
<1> USE DEF OwnedIInv, IInv, player, handlers, loop
<1>1. ASSUME NEW level \in LevelIds,
             ChildSolved(level) \/ ChildTimesOut(level) \/ ChildFails(level)
      PROVE  DaysInv'
  <2>1. /\ UNCHANGED <<completed, day, levelFuture, pc, op>>
        /\ child'[level].day = day
        /\ \A other \in LevelIds : other # level => child'[other] = child[other]
    BY <1>1 DEF ChildSolved, ChildTimesOut, ChildFails, ChildEnds, TypeOK
  <2> QED
    BY <2>1, DaysKept
<1>2. ASSUME NEW version \in publishing, Publish(version)
      PROVE  DaysInv'
  BY <1>2, DaysKept DEF Publish
<1>3. CASE RequestUpgrade \/ Tick
  BY <1>3, DaysKept DEF RequestUpgrade, Tick
<1> QED
  BY <1>1, <1>2, <1>3 DEF Environment

(* What the loop does besides applying results, and the end of a run. *)
LEMMA LoopDays ==
    ASSUME DaysInv, OwnedIInv, Main, ~LevelEnds
    PROVE  DaysInv'
<1> USE DEF OwnedIInv, IInv, player, handlers
<1>1. TypeOK /\ UNCHANGED <<completed, day>>
  BY DEF Main, LevelFailed, BoardPublished, Wake, ReceiveUpgrade, ContinueAsNew
<1>2. CASE BoardPublished \/ Wake \/ ReceiveUpgrade
  <2>1. UNCHANGED <<child, levelFuture, pc, op>>
    BY <1>2 DEF BoardPublished, Wake, ReceiveUpgrade
  <2> QED
    BY <1>1, <2>1, DaysKept
<1>3. CASE LevelFailed \/ ContinueAsNew
  <2>1. \A level \in LevelIds :
          /\ child'[level].day = child[level].day
          /\ child'[level].status \in {"solved", "timedOut"} => child'[level] = child[level]
    BY <1>3 DEF LevelFailed, ContinueAsNew, TerminateChildren, TypeOK
  <2>2. \A s \in Slots : pc'[s] # "started"
    BY <1>3 DEF LevelFailed, ContinueAsNew
  <2>3. levelFuture' = levelFuture \/ levelFuture' = None
    BY <1>3 DEF LevelFailed, ContinueAsNew
  <2> QED
    BY <1>1, <2>1, <2>2, <2>3, LevelParts, DaysKept
<1> QED
  BY <1>2, <1>3 DEF Main

-----------------------------------------------------------------------------
(* Whatever the order of completions, logins, purchases and debits, also when *)
(* a result is applied days after its level ended: the streak counts days of  *)
(* completions, and every day that is missing in it was paid for.             *)
THEOREM StreakIsPaid == Spec => []StreakGapsArePaid
<1> DEFINE Inv == DaysInv /\ StreakInv
<1>1. Init => Inv
  <2> SUFFICES ASSUME Init PROVE Inv
    OBVIOUS
  <2>1. CompletionDays = {}
    BY DEF Init, CompletionDays
  <2>2. Cardinality(CompletionDays) = 0
    BY <2>1, FS_EmptySet
  <2>3. DaysInv
    BY <2>1 DEF Init, DaysInv, NoChild, NoDay
  <2>4. StreakInv
    BY <2>1, <2>2 DEF Init, StreakInv, Paid, Ready, NewAccount
  <2> QED
    BY <2>3, <2>4
<1>2. OwnedIInv /\ Inv /\ [Next]_vars => Inv'
  <2> SUFFICES ASSUME OwnedIInv, Inv, [Next]_vars PROVE Inv'
    OBVIOUS
  <2>1. ASSUME NEW s \in Slots, Accept(s) \/ Handler(s) \/ Catalog(s) \/ Server(s)
        PROVE  Inv'
    <3>1. StreakInv'
      <4>1. CASE Authenticate(s) \/ BuyFreeze(s) \/ SpendPoints(s)
        BY <4>1, AuthenticateStreak, DebitStreak
      <4>2. CASE UNCHANGED <<account, completed>>
        BY <4>2 DEF StreakInv, Paid, Ready, Missed, CompletionDays
      <4> QED
        BY <2>1, <4>1, <4>2
           DEF Accept, Handler, StartRefused, Start, Resolves, FinishStart, Opens, Catalog,
               ResolveAllowed, ResolveRefused, Server, ChildStarts, StartFails, Fails, player
    <3> QED
      BY <2>1, <3>1, HandlerDays
  <2>2. CASE LevelEnds
    BY <2>2, LevelEndsDays
  <2>3. CASE Restart
    <3>1. CompletionDays' = {}
      BY <2>3 DEF Restart, CompletionDays
    <3>2. Cardinality(CompletionDays') = 0
      BY <3>1, FS_EmptySet
    <3>3. DaysInv'
      BY <2>3, <3>1, LevelParts DEF DaysInv, Restart, handlers
    <3>4. StreakInv'
      BY <2>3, <3>1, <3>2 DEF Restart, StreakInv, Paid, Ready, NewAccount
    <3> QED
      BY <3>3, <3>4
  <2>4. CASE (Main /\ ~LevelEnds) \/ (Environment /\ ~Restart)
    <3>1. UNCHANGED <<account, completed>>
      BY <2>4 DEF Main, Environment, LevelFailed, BoardPublished, Wake, ReceiveUpgrade,
                  ContinueAsNew, RequestUpgrade, Tick, ChildSolved, ChildTimesOut,
                  ChildFails, ChildEnds, Publish, player
    <3>2. StreakInv'
      BY <3>1 DEF StreakInv, Paid, Ready, Missed, CompletionDays
    <3> QED
      BY <2>4, <3>2, LoopDays, EnvironmentDays
  <2>5. CASE UNCHANGED vars
    BY <2>5 DEF vars, DaysInv, StreakInv, Paid, Ready, Missed, CompletionDays
  <2> QED
    BY <2>1, <2>2, <2>3, <2>4, <2>5 DEF Next
<1>3. TypeOK /\ StreakInv => StreakGapsArePaid
  <2> SUFFICES ASSUME TypeOK, StreakInv PROVE StreakGapsArePaid
    OBVIOUS
  <2>1. ASSUME NEW first \in CompletionDays,
               Cardinality({d \in CompletionDays : d >= first}) = account.currentStreak
        PROVE  LET run     == {d \in CompletionDays : d >= first}
                   covered == {d \in first..MaxDay : \E e \in run : d <= e}
               IN  FreezeCost * (Cardinality(covered) - Cardinality(run))
                     <= account.lifetimePoints - account.points
    <3> DEFINE run     == {d \in CompletionDays : d >= first}
               covered == {d \in first..MaxDay : \E e \in run : d <= e}
               last    == account.lastCompletionDay
    <3>1. /\ account \in Account /\ first \in Int /\ last \in Int /\ first <= last
          /\ \A e \in run : e \in Int /\ e <= last
      <4>1. \A e \in CompletionDays : e \in Int /\ e <= last
        <5>1. CompletionDays \subseteq 1..MaxDay
          BY CompletionDaysFinite DEF Days
        <5>2. \A e \in CompletionDays : e <= last
          BY DEF StreakInv
        <5> QED
          BY <5>1, <5>2
      <4> QED
        BY <4>1 DEF TypeOK, Account, Days, NoDay
    <3>2. Cardinality(first..last) = last - first + 1 /\ IsFiniteSet(first..last)
      <4> HIDE DEF last
      <4> QED
        BY <3>1, FS_Interval
    <3>3. covered \subseteq first..last
      BY <3>1
    <3>4. Cardinality(covered) \in Nat /\ Cardinality(covered) <= last - first + 1
      <4> HIDE DEF covered, last
      <4>1. IsFiniteSet(covered) /\ Cardinality(covered) <= Cardinality(first..last)
        BY <3>2, <3>3, FS_Subset
      <4>2. Cardinality(covered) \in Nat
        BY <4>1, FS_CardinalityType
      <4> QED
        BY <3>2, <4>1, <4>2
    <3>5. Paid(Missed(first) + Ready)
      BY <2>1 DEF StreakInv, TypeOK, Account
    <3>6. /\ Missed(first) + Ready \in Int
          /\ Cardinality(covered) - Cardinality(run) \in Int
          /\ Cardinality(covered) - Cardinality(run) <= Missed(first) + Ready
      <4>1. account.currentStreak \in Nat /\ Ready \in {0, 1}
        BY <3>1 DEF Account, Ready
      <4> HIDE DEF covered, last
      <4> QED
        BY <2>1, <3>1, <3>4, <4>1 DEF Missed, last
    <3> HIDE DEF covered, run
    <3>7. Paid(Cardinality(covered) - Cardinality(run))
      BY <3>1, <3>5, <3>6, PaidForLess
    <3> QED
      BY <3>7 DEF Paid, covered, run
  <2> QED
    BY <2>1 DEF StreakGapsArePaid, StreakInv
<1>4. OwnedIInv => TypeOK
  BY DEF OwnedIInv, IInv
<1> QED
  BY <1>1, <1>2, <1>3, <1>4, InductiveOwned, PTL DEF Spec

-----------------------------------------------------------------------------
(* PlayerLevel: the composition plays a Player, which keeps what was proved   *)
(* of it; a paid hint is debited once; and the completion that a page is told *)
(* counts the level whose end it saw.                                         *)

USE RequestsAssumption

(* A spend is a level and a request. *)
LEMMA SpendParts ==
    ASSUME NEW m \in Spends
    PROVE  m = <<m[1], m[2]>> /\ m[1] \in LevelIds /\ m[2] \in Requests /\ m # None
BY DEF Spends

-----------------------------------------------------------------------------
(* The player of the composition is a Player. *)

LEMMA PlayerStep ==
    ASSUME [PLNext]_allVars
    PROVE  [Next]_vars
<1>1. ASSUME NEW s \in Slots,
             \/ s \notin SpendSlots /\ AcceptOther(s)
             \/ HandleOther(s) \/ Spend(s) \/ CatalogAnswers(s) \/ LevelStarts(s)
      PROVE  Next
  BY <1>1 DEF AcceptOther, HandleOther, Spend, CatalogAnswers, LevelStarts, Next, Handler
<1>2. ASSUME NEW l \in LevelIds,
             BeginPaidHint(l) \/ LevelReturns(l) \/ LevelTerminated(l) \/ AskCompletion(l)
      PROVE  [Next]_vars
  BY <1>2 DEF BeginPaidHint, LevelReturns, LevelTerminated, AskCompletion, Next, Environment
<1>3. ASSUME NEW m \in Spends, Send(m) \/ Attach(m) \/ Reject(m) \/ RejectStray(m) \/ Answer(m)
      PROVE  UNCHANGED vars
  BY <1>3 DEF Send, Attach, Reject, RejectStray, Rejected, Answer
<1>4. ASSUME NEW m \in Spends, NEW s \in SpendSlots, Admit(m, s)
      PROVE  Next
  BY <1>4 DEF Admit, Admits, Next
<1>5. CASE RunEnds \/ Loop
  BY <1>5 DEF RunEnds, Loop, Next, Main
<1>6. CASE Outside
  BY <1>6 DEF Outside, Next, Environment
<1>7. CASE AnswerCompletion
  BY <1>7 DEF AnswerCompletion, AnswersCompletion
<1>8. CASE UNCHANGED allVars
  BY <1>8 DEF allVars
<1> QED
  BY <1>1, <1>2, <1>3, <1>4, <1>5, <1>6, <1>7, <1>8 DEF PLNext

(* Whatever the levels, the network and the page do, the player behaves as    *)
(* module Player says: what holds of every Player holds here.                 *)
THEOREM PlayerIsPlayer == PLSpec => Spec
<1>1. PLInit => Init
  BY DEF PLInit
<1>2. [PLNext]_allVars => [Next]_vars
  BY PlayerStep
<1> QED
  BY <1>1, <1>2, PTL DEF PLSpec, Spec

-----------------------------------------------------------------------------
(* What a paid hint costs. *)

(* Besides TypeOK, which the player keeps. *)
MoneyTypes ==
    /\ paying \in [LevelIds -> Requests \cup {None}]
    /\ hint \in [Spends -> {"none", "paid", "refused", "over"}]
    /\ inFlight \subseteq Spends /\ strayed \subseteq Spends
    /\ executed \in [Spends -> {"none", "running", "paid", "refused"}]
    /\ handling \in [Slots -> Spends \cup {None}]
    /\ debits \in [Spends -> Nat]

MoneyInv == MoneyTypes /\ HandlingInv /\ HintInv /\ DebitInv

(* A step that leaves hints, requests and debits alone, starts no level, and  *)
(* touches no handler of a spend.                                             *)
LEMMA MoneyKept ==
    ASSUME IInv, MoneyInv, UNCHANGED <<hints, wire, money>>,
           \A l \in LevelIds : paying[l] # None => child'[l].status = child[l].status,
           \A l \in LevelIds : child'[l].status = "running" => child[l].status = "running",
           \A s \in Slots :
             \/ pc'[s] = pc[s] /\ op'[s] = op[s]
             \/ /\ ~(pc[s] = "accepted" /\ op[s].kind = "spend")
                /\ ~(pc'[s] = "accepted" /\ op'[s].kind = "spend")
    PROVE  MoneyInv'
<1> USE DEF MoneyInv, hints, wire, money
<1>1. MoneyTypes'
  BY DEF MoneyTypes
<1>2. HandlingInv'
  BY DEF HandlingInv
<1>3. HintInv'
  BY SpendParts, RequestsAssumption DEF HintInv, Awaits
<1>4. DebitInv'
  BY SpendParts DEF DebitInv, Awaits
<1> QED
  BY <1>1, <1>2, <1>3, <1>4

LEMMA BeginMoney ==
    ASSUME IInv, MoneyInv, NEW l \in LevelIds, BeginPaidHint(l)
    PROVE  MoneyInv'
<1> USE DEF MoneyInv, wire, money
<1>1. PICK r \in Requests :
        /\ hint[<<l, r>>] # "over"
        /\ paying' = [paying EXCEPT ![l] = r]
        /\ hint' = [hint EXCEPT ![<<l, r>>] = "none"]
  BY DEF BeginPaidHint
<1>2. /\ <<l, r>> \in Spends /\ paying[l] = None /\ child[l].status = "running"
      /\ UNCHANGED <<vars, inFlight, executed, handling, debits, strayed>>
  BY DEF BeginPaidHint, Spends
<1>3. UNCHANGED <<pc, op, child>>
  BY <1>2 DEF vars
<1>4. MoneyTypes'
  BY <1>1, <1>2 DEF MoneyTypes
<1>5. HandlingInv'
  BY <1>2, <1>3 DEF HandlingInv
<1>6. \A m \in Spends :
        /\ Awaits(m)' <=> Awaits(m) \/ m = <<l, r>>
        /\ m # <<l, r>> => hint'[m] = hint[m]
        /\ hint'[<<l, r>>] = "none"
        /\ m = <<l, r>> => ~Awaits(m)
  BY <1>1, <1>2, SpendParts DEF Awaits, MoneyTypes
<1>7. HintInv'
  BY <1>2, <1>3, <1>6, SpendParts DEF HintInv
<1>8. DebitInv'
  BY <1>1, <1>2, <1>3, <1>6, SpendParts DEF DebitInv, HintInv
<1> QED
  BY <1>4, <1>5, <1>7, <1>8

LEMMA SendMoney ==
    ASSUME IInv, MoneyInv, NEW m \in Spends, Send(m) \/ Attach(m)
    PROVE  MoneyInv'
<1> USE DEF MoneyInv, hints, money
<1>1. /\ \/ inFlight' = inFlight \cup {m} /\ Awaits(m)
         \/ inFlight' = inFlight \ {m}
      /\ UNCHANGED <<vars, paying, hint, executed, handling, debits, strayed>>
  BY DEF Send, Attach
<1>2. UNCHANGED <<pc, op, child>>
  BY <1>1 DEF vars
<1>3. MoneyTypes'
  BY <1>1 DEF MoneyTypes
<1>4. HandlingInv'
  BY <1>1, <1>2 DEF HandlingInv
<1>5. HintInv'
  BY <1>1, <1>2 DEF HintInv, Awaits
<1>6. DebitInv'
  BY <1>1, <1>2 DEF DebitInv, Awaits
<1> QED
  BY <1>3, <1>4, <1>5, <1>6

(* An Update that is admitted is new to the run: it was not debited, unless *)
(* it strayed.                                                              *)
LEMMA AdmitMoney ==
    ASSUME IInv, MoneyInv, NEW m \in Spends, NEW s \in SpendSlots, Admit(m, s)
    PROVE  MoneyInv'
<1> USE DEF MoneyInv, hints, money
<1>1. /\ s \in Slots /\ m \in inFlight /\ executed[m] = "none"
      /\ pc[s] = "idle" /\ op'[s].kind = "spend" /\ op'[s].level = m[1]
      /\ pc' = [pc EXCEPT ![s] = "accepted"]
      /\ \A t \in Slots : t # s => op'[t] = op[t]
      /\ inFlight' = inFlight \ {m}
      /\ executed' = [executed EXCEPT ![m] = "running"]
      /\ handling' = [handling EXCEPT ![s] = m]
      /\ UNCHANGED <<child, paying, hint, debits, strayed>>
  BY DEF Admit, Admits, Accept, IInv, TypeOK
<1>2. MoneyTypes'
  BY <1>1 DEF MoneyTypes
<1>3. /\ \A t \in Slots : t # s => handling'[t] = handling[t] /\ pc'[t] = pc[t]
      /\ handling'[s] = m /\ pc'[s] = "accepted"
      /\ \A n \in Spends : n # m => executed'[n] = executed[n]
      /\ executed'[m] = "running"
  BY <1>1 DEF MoneyTypes, IInv, TypeOK
<1>4. \A t \in Slots : handling[t] # m
  BY <1>1, SpendParts DEF HandlingInv
<1>5. HandlingInv'
  BY <1>1, <1>3, <1>4, SpendParts DEF HandlingInv, MoneyTypes
<1>6. HintInv'
  BY <1>1, <1>3 DEF HintInv, Awaits
<1>7. DebitInv'
  <2>1. ASSUME m \notin strayed
        PROVE  debits[m] = 0 /\ hint[m] = "none" /\ child[m[1]].status = "running"
    BY <1>1, <2>1 DEF DebitInv, HintInv
  <2> QED
    BY <1>1, <1>3, <2>1 DEF DebitInv, Awaits
<1> QED
  BY <1>2, <1>5, <1>6, <1>7

LEMMA RejectStrayMoney ==
    ASSUME IInv, MoneyInv, NEW m \in Spends, RejectStray(m)
    PROVE  MoneyInv'
<1> USE DEF MoneyInv, hints
<1>1. /\ inFlight' = inFlight \ {m}
      /\ UNCHANGED <<pc, op, child, paying, hint, executed, handling, debits, strayed>>
  BY DEF RejectStray, Rejected, vars
<1>2. MoneyTypes' /\ HandlingInv' /\ HintInv' /\ DebitInv'
  BY <1>1 DEF MoneyTypes, HandlingInv, HintInv, DebitInv, Awaits
<1> QED
  BY <1>2

(* The answer is what the run knows of the spend; a rejected one was never *)
(* debited.                                                                *)
LEMMA ResumeMoney ==
    ASSUME IInv, MoneyInv, NEW m \in Spends, Reject(m) \/ Answer(m)
    PROVE  MoneyInv'
<1> USE DEF MoneyInv
<1>1. PICK answer \in {"paid", "refused"} :
        /\ paying' = [paying EXCEPT ![m[1]] = None]
        /\ hint' = [hint EXCEPT ![m] = answer]
        /\ answer = executed[m] \/ (answer = "refused" /\ executed[m] = "none")
  BY DEF Reject, Answer, Rejected, Resumes
<1>2. /\ Awaits(m)
      /\ strayed' = strayed \cup (inFlight' \cap {m})
      /\ inFlight' \in {inFlight, inFlight \ {m}}
      /\ UNCHANGED <<pc, op, child, executed, handling, debits>>
  BY DEF Reject, Answer, Rejected, Resumes, vars
<1>3. /\ hint[m] = "none" /\ child[m[1]].status = "running"
      /\ \A n \in Spends : n # m => hint'[n] = hint[n]
      /\ hint'[m] = answer
  BY <1>1, <1>2 DEF HintInv, MoneyTypes
<1>4. \A n \in Spends : Awaits(n)' <=> Awaits(n) /\ n # m
  BY <1>1, <1>2, SpendParts DEF Awaits, MoneyTypes
<1>5. MoneyTypes'
  BY <1>1, <1>2 DEF MoneyTypes
<1>6. HandlingInv'
  BY <1>2 DEF HandlingInv
<1>7. HintInv'
  BY <1>1, <1>2, <1>3, <1>4 DEF HintInv
<1>8. DebitInv'
  BY <1>1, <1>2, <1>3, <1>4 DEF DebitInv
<1> QED
  BY <1>5, <1>6, <1>7, <1>8

(* The handler debits an Update that was not debited before. *)
LEMMA SpendMoney ==
    ASSUME IInv, MoneyInv, NEW s \in Slots, Spend(s)
    PROVE  MoneyInv'
<1> USE DEF MoneyInv, hints
<1> DEFINE m == handling[s]
<1>1. pc[s] = "accepted" /\ op[s].kind = "spend"
  BY DEF Spend, SpendPoints, Decides, Runs
<1>2. m \in Spends /\ executed[m] = "running" /\ op[s].level = m[1] /\ m # None
  BY <1>1 DEF HandlingInv, MoneyTypes
<1>3. ValidateSpendPoints(op[s]) <=> account' # account
  <2>1. op[s].amount \in Nat \ {0} /\ account.points \in Int
    BY <1>1, UpdateFields DEF IInv, TypeOK, Account
  <2>2. Charged(s).points = account.points - op[s].amount
    BY <2>1 DEF Charged, IInv, TypeOK, Account
  <2>3. Charged(s) # account
    BY <2>1, <2>2
  <2>4. IF ValidateSpendPoints(op[s]) THEN account' = Charged(s) ELSE account' = account
    BY DEF Spend, SpendPoints, Decides
  <2> QED
    BY <2>3, <2>4
<1>4. PICK known \in {"paid", "refused"} :
        /\ executed' = [executed EXCEPT ![m] = known]
        /\ debits' = [debits EXCEPT ![m] = IF known = "paid" THEN debits[m] + 1 ELSE debits[m]]
  BY <1>3 DEF Spend
<1>5. /\ handling' = [handling EXCEPT ![s] = None]
      /\ UNCHANGED <<child, paying, hint, inFlight, strayed>>
      /\ pc' = [pc EXCEPT ![s] = "idle"] /\ op' = [op EXCEPT ![s] = NoUpdate]
  BY DEF Spend, SpendPoints, Decides, Returns
<1> HIDE DEF m
<1>6. MoneyTypes'
  BY <1>2, <1>4, <1>5 DEF MoneyTypes
<1>7. /\ \A n \in Spends : n # m => executed'[n] = executed[n] /\ debits'[n] = debits[n]
      /\ executed'[m] = known
      /\ debits'[m] = IF known = "paid" THEN debits[m] + 1 ELSE debits[m]
      /\ debits[m] \in Nat
  BY <1>2, <1>4 DEF MoneyTypes
<1>8. HandlingInv'
  <2>1. \A t \in Slots : t # s => /\ pc'[t] = pc[t] /\ op'[t] = op[t]
                                 /\ handling'[t] = handling[t] /\ handling[t] # m
    BY <1>2, <1>5 DEF HandlingInv, MoneyTypes, IInv, TypeOK, m
  <2>2. pc'[s] = "idle" /\ handling'[s] = None
    BY <1>5 DEF IInv, TypeOK, MoneyTypes
  <2> QED
    BY <1>7, <2>1, <2>2, SpendParts DEF HandlingInv, MoneyTypes
<1>9. HintInv'
  BY <1>2, <1>5, <1>7 DEF HintInv, Awaits
<1>10. DebitInv'
  BY <1>2, <1>5, <1>7 DEF DebitInv, Awaits
<1> QED
  BY <1>6, <1>8, <1>9, <1>10

(* A level starts as a new Workflow: its old hints are over, and the others *)
(* left no trace.                                                           *)
LEMMA LevelStartsMoney ==
    ASSUME IInv, MoneyInv, NEW s \in Slots, LevelStarts(s)
    PROVE  MoneyInv'
<1> USE DEF MoneyInv, wire, money
<1>1. /\ UNCHANGED <<paying, inFlight, executed, handling, debits, strayed>>
      /\ hint' = [m \in Spends |->
                    IF m[1] = op[s].level /\ child' # child /\ hint[m] # "none"
                    THEN "over" ELSE hint[m]]
  BY DEF LevelStarts
<1>2. \A t \in Slots :
        \/ pc'[t] = pc[t] /\ op'[t] = op[t]
        \/ pc[t] # "accepted" /\ pc'[t] # "accepted"
  BY DEF LevelStarts, Server, ChildStarts, StartFails, Fails, Returns, IInv, TypeOK
<1>3. \A l \in LevelIds : child'[l] # child[l] =>
        /\ l = op[s].level /\ child' # child
        /\ child[l].status # "running" /\ child'[l].status = "running"
  BY DEF LevelStarts, Server, ChildStarts, StartFails, Fails, IInv, TypeOK
<1>4. MoneyTypes'
  BY <1>1 DEF MoneyTypes
<1>5. HandlingInv'
  BY <1>1, <1>2 DEF HandlingInv
<1>6. \A m \in Spends :
        /\ hint'[m] \in {hint[m], "over"}
        /\ hint[m] = "none" => hint'[m] = "none"
        /\ Awaits(m)' <=> Awaits(m)
        /\ child'[m[1]] # child[m[1]] => hint'[m] \in {"none", "over"} /\ ~Awaits(m)
  BY <1>1, <1>3, SpendParts DEF HintInv, Awaits, MoneyTypes
<1>7. HintInv'
  BY <1>1, <1>3, <1>6, SpendParts DEF HintInv, MoneyTypes
<1>8. DebitInv'
  <2>1. ASSUME NEW m \in Spends, child'[m[1]].status = "running", hint'[m] # "over", m \notin strayed
        PROVE  debits[m] = 1 <=> executed[m] = "paid"
    <3>1. CASE child'[m[1]] = child[m[1]]
      BY <1>6, <2>1, <3>1 DEF DebitInv
    <3>2. CASE child'[m[1]] # child[m[1]]
      BY <1>6, <2>1, <3>2 DEF HintInv
    <3> QED
      BY <3>1, <3>2
  <2> QED
    BY <1>1, <1>6, <2>1 DEF DebitInv
<1> QED
  BY <1>4, <1>5, <1>7, <1>8

(* What stops with its level is over, and strays if it is on its way. *)
LEMMA StoppedHints ==
    ASSUME MoneyInv, StopLevels
    PROVE  \A m \in Spends :
            /\ Awaits(m)' <=> Awaits(m) /\ child'[m[1]].status = "running"
            /\ hint'[m] = IF Awaits(m) /\ child'[m[1]].status # "running" THEN "over" ELSE hint[m]
            /\ m \in strayed => m \in strayed'
            /\ Awaits(m) /\ ~Awaits(m)' /\ m \in inFlight => m \in strayed'
            /\ m \in strayed' => m \in strayed \/ (m \in inFlight)
<1> TAKE m \in Spends
<1>1. m[1] \in LevelIds /\ m[2] \in Requests /\ m[2] # None
  BY SpendParts
<1>2. Awaits(m) => child[m[1]].status = "running"
  BY DEF MoneyInv, HintInv
<1>3. /\ paying'[m[1]] = IF child[m[1]].status = "running" /\ child'[m[1]].status # "running"
                         THEN None ELSE paying[m[1]]
      /\ hint'[m] = IF child[m[1]].status = "running" /\ child'[m[1]].status # "running" /\ Awaits(m)
                    THEN "over" ELSE hint[m]
      /\ strayed' = strayed \cup {n \in inFlight : child[n[1]].status = "running"
                                                   /\ child'[n[1]].status # "running"}
  <2>1. strayed' = strayed \cup {n \in inFlight : child[n[1]].status = "running"
                                                 /\ child'[n[1]].status # "running"}
    BY SpendParts DEF StopLevels, MoneyInv, MoneyTypes
  <2> QED
    BY <1>1, <2>1 DEF StopLevels
<1> QED
  BY <1>1, <1>2, <1>3 DEF Awaits

LEMMA LevelTerminatedMoney ==
    ASSUME IInv, MoneyInv, NEW l \in LevelIds, LevelTerminated(l)
    PROVE  MoneyInv'
<1>1. /\ UNCHANGED <<inFlight, executed, handling, debits, pc, op>>
      /\ StopLevels
      /\ \A k \in LevelIds : child'[k].status = "running" => child[k].status = "running"
  BY DEF LevelTerminated, wire, ChildFails, ChildEnds, handlers, IInv, TypeOK
<1>2. MoneyTypes'
  BY <1>1, SpendParts DEF MoneyInv, MoneyTypes, StopLevels
<1>3. HandlingInv'
  BY <1>1 DEF MoneyInv, HandlingInv
<1>4. HintInv'
  BY <1>1, StoppedHints, SpendParts DEF MoneyInv, HintInv
<1>5. DebitInv'
  BY <1>1, StoppedHints, SpendParts DEF MoneyInv, DebitInv, HintInv
<1> QED
  BY <1>2, <1>3, <1>4, <1>5 DEF MoneyInv

(* The next run knows of no spend, and all levels of the last one are over. *)
LEMMA RunEndsMoney ==
    ASSUME IInv, MoneyInv, RunEnds
    PROVE  MoneyInv'
<1>1. /\ UNCHANGED <<inFlight, debits>> /\ StopLevels
      /\ executed' = [m \in Spends |-> "none"]
      /\ handling' = [s \in Slots |-> None]
      /\ \A s \in Slots : pc'[s] # "accepted"
      /\ \A k \in LevelIds : child'[k].status # "running"
  <2>1. \A s \in Slots : pc'[s] # "accepted"
    BY DEF RunEnds, ContinueAsNew, LevelFailed, handlers
  <2>2. \A k \in LevelIds : child'[k].status # "running"
    BY DEF RunEnds, ContinueAsNew, LevelFailed, TerminateChildren, IInv, TypeOK
  <2> QED
    BY <2>1, <2>2 DEF RunEnds, NothingExecuted
<1>2. MoneyTypes'
  BY <1>1, SpendParts DEF MoneyInv, MoneyTypes, StopLevels
<1>3. HandlingInv'
  BY <1>1 DEF HandlingInv
<1>4. HintInv'
  BY <1>1, StoppedHints, SpendParts DEF MoneyInv, HintInv
<1>5. DebitInv'
  BY <1>1, StoppedHints, SpendParts DEF MoneyInv, DebitInv, HintInv
<1> QED
  BY <1>2, <1>3, <1>4, <1>5 DEF MoneyInv

(* Every other step leaves the hints and the handlers of spends alone. *)
LEMMA OtherMoney ==
    ASSUME IInv, MoneyInv,
           \/ \E s \in Slots : AcceptOther(s) \/ HandleOther(s) \/ CatalogAnswers(s)
           \/ \E l \in LevelIds : LevelReturns(l) \/ AskCompletion(l)
           \/ Loop \/ Outside \/ AnswerCompletion \/ UNCHANGED allVars
    PROVE  MoneyInv'
<1>1. ASSUME NEW s \in Slots, AcceptOther(s) \/ HandleOther(s) \/ CatalogAnswers(s)
      PROVE  MoneyInv'
  <2>1. UNCHANGED <<hints, wire, money, child>>
    BY <1>1 DEF AcceptOther, HandleOther, CatalogAnswers, Accept, Authenticate, BuyFreeze,
                Decides, StartRefused, Start, Resolves, FinishStart, Opens, Catalog,
                ResolveAllowed, ResolveRefused, Fails
  <2>2. \A t \in Slots : t # s => pc'[t] = pc[t] /\ op'[t] = op[t]
    BY <1>1 DEF AcceptOther, HandleOther, CatalogAnswers, Accept, Authenticate, BuyFreeze,
                Decides, Runs, Returns, StartRefused, Start, Resolves, FinishStart, Opens,
                Catalog, ResolveAllowed, ResolveRefused, Fails, IInv, TypeOK
  <2>3. /\ ~(pc[s] = "accepted" /\ op[s].kind = "spend")
        /\ ~(pc'[s] = "accepted" /\ op'[s].kind = "spend")
    BY <1>1 DEF AcceptOther, HandleOther, CatalogAnswers, Accept, Authenticate, BuyFreeze,
                Decides, Runs, Returns, StartRefused, Start, Resolves, FinishStart, Opens,
                Catalog, ResolveAllowed, ResolveRefused, Fails, IInv, TypeOK
  <2> QED
    BY <2>1, <2>2, <2>3, MoneyKept
<1>2. ASSUME NEW l \in LevelIds, LevelReturns(l)
      PROVE  MoneyInv'
  <2>1. /\ UNCHANGED <<hints, wire, money, pc, op>> /\ paying[l] = None
        /\ \A k \in LevelIds : k # l => child'[k] = child[k]
        /\ child[l].status = "running"
    BY <1>2 DEF LevelReturns, ChildSolved, ChildTimesOut, ChildEnds, handlers, IInv, TypeOK
  <2> QED
    BY <2>1, MoneyKept
<1>3. ASSUME NEW l \in LevelIds, AskCompletion(l)
      PROVE  MoneyInv'
  BY <1>3, MoneyKept DEF AskCompletion, vars
<1>4. CASE Loop \/ Outside \/ AnswerCompletion \/ UNCHANGED allVars
  <2>1. UNCHANGED <<hints, wire, money, pc, op, child>>
    BY <1>4 DEF Loop, LevelEnds, BoardPublished, Wake, Outside, Tick, Publish,
                AnswerCompletion, AnswersCompletion, allVars, vars, handlers, hints, wire, money
  <2> QED
    BY <2>1, MoneyKept
<1> QED
  BY <1>1, <1>2, <1>3, <1>4

LEMMA MoneyStep ==
    ASSUME IInv, MoneyInv, [PLNext]_allVars
    PROVE  MoneyInv'
<1>1. SpendSlots \subseteq Slots
  OBVIOUS
<1> QED
  BY <1>1, BeginMoney, SendMoney, AdmitMoney, RejectStrayMoney, ResumeMoney, SpendMoney,
     LevelStartsMoney, LevelTerminatedMoney, RunEndsMoney, OtherMoney DEF PLNext

LEMMA InitMoney == PLInit => MoneyInv
BY SpendParts DEF PLInit, Init, NothingExecuted, MoneyInv, MoneyTypes, HandlingInv, HintInv,
                  DebitInv, Awaits

(* Whatever the Activity retries and the network delays: an answer of "paid" *)
(* was debited, and without a stray request it was so once.                  *)
THEOREM HintsPaidOnce == PLSpec => []HintsArePaidOnce
<1>1. IInv /\ MoneyInv /\ [PLNext]_allVars => MoneyInv'
  BY MoneyStep
<1>2. MoneyInv => HintsArePaidOnce
  BY DEF MoneyInv, DebitInv, HintsArePaidOnce
<1> QED
  BY <1>1, <1>2, InitMoney, PlayerIsPlayer, Inductive, PTL DEF PLSpec

-----------------------------------------------------------------------------
(* What the page is told. *)

PageTypes == page # None => page \in Completions

PageIInv == PageTypes /\ PageInv

(* A completion has the level and the end that were seen. *)
LEMMA CompletionParts ==
    ASSUME NEW seenEnd \in Completions
    PROVE  /\ seenEnd.level \in LevelIds /\ seenEnd.level # None
           /\ seenEnd.level[1] \in Campaigns
           /\ seenEnd.how \in {"solved", "timedOut"}
BY LevelParts DEF Completions

(* Nothing in the composition takes a completion back, or a lost attempt. *)
LEMMA CountsGrow ==
    ASSUME IInv, [PLNext]_allVars
    PROVE  /\ \/ completed' = completed
              \/ \E e \in [level: LevelIds, day: Days] : completed' = Append(completed, e)
           /\ \A c \in Campaigns : progress[c].failed => progress'[c].failed
<1>1. CASE LevelEnds
  <2>1. CASE ~Applies(levelFuture)
    BY <1>1, <2>1 DEF LevelEnds, player
  <2>2. CASE Applies(levelFuture)
    <3>1. levelFuture[1] \in Campaigns
      BY <1>1, LevelParts DEF LevelEnds, LevelReady, IInv, TypeOK, OpenInv
    <3>2. CASE Credit(levelFuture, child[levelFuture].day)
      <4>1. progress' = [progress EXCEPT ![levelFuture[1]] = Advance(progress[levelFuture[1]])]
        BY <3>2 DEF Credit
      <4>2. Advance(progress[levelFuture[1]]).failed = progress[levelFuture[1]].failed
        BY <3>1 DEF Advance, Advances, IInv, TypeOK, Progress
      <4>3. levelFuture \in LevelIds /\ child[levelFuture].day \in Days
        BY <1>1, LevelParts DEF LevelEnds, LevelReady, IInv, TypeOK, OpenInv, ChildInv
      <4>4. [level |-> levelFuture, day |-> child[levelFuture].day] \in [level: LevelIds, day: Days]
        BY <4>3
      <4> QED
        BY <3>1, <3>2, <4>1, <4>2, <4>4 DEF Credit, IInv, TypeOK
    <3>3. CASE TimeOut(levelFuture)
      BY <3>1, <3>3 DEF TimeOut, IInv, TypeOK, Progress
    <3> QED
      BY <1>1, <2>2, <3>2, <3>3 DEF LevelEnds
  <2> QED
    BY <2>1, <2>2
<1>2. ASSUME NEW s \in Slots, FinishStart(s)
      PROVE  /\ completed' = completed
             /\ \A c \in Campaigns : progress'[c].failed = progress[c].failed
  <2>1. completed' = completed
    BY <1>2 DEF FinishStart, Opens
  <2>2. progress' = [progress EXCEPT ![op[s].level[1]] = Join(@, op[s].level[1])]
    BY <1>2 DEF FinishStart, Opens
  <2>3. progress \in [Campaigns -> Progress]
    BY DEF IInv, TypeOK
  <2>4. ASSUME NEW c \in Campaigns, NEW joined
        PROVE  Join(progress[c], joined).failed = progress[c].failed
    BY <2>3 DEF Join, Progress
  <2> QED
    BY ONLY <2>1, <2>2, <2>3, <2>4
<1>3. \/ LevelEnds \/ \E s \in Slots : FinishStart(s)
      \/ UNCHANGED <<completed, progress>>
  <2>1. ASSUME NEW s \in Slots,
               AcceptOther(s) \/ HandleOther(s) \/ Spend(s) \/ CatalogAnswers(s) \/ LevelStarts(s),
               ~FinishStart(s)
        PROVE  UNCHANGED <<completed, progress>>
    BY <2>1 DEF AcceptOther, HandleOther, Spend, CatalogAnswers, LevelStarts, Accept, player,
                Authenticate, BuyFreeze, SpendPoints, Decides, StartRefused, Start, Resolves,
                Catalog, ResolveAllowed, ResolveRefused, Server, ChildStarts, StartFails, Fails
  <2>2. ASSUME NEW l \in LevelIds,
               BeginPaidHint(l) \/ LevelReturns(l) \/ LevelTerminated(l) \/ AskCompletion(l)
        PROVE  UNCHANGED <<completed, progress>>
    BY <2>2 DEF BeginPaidHint, LevelReturns, LevelTerminated, AskCompletion, ChildSolved,
                ChildTimesOut, ChildFails, ChildEnds, vars, player
  <2>3. ASSUME NEW m \in Spends, Send(m) \/ Attach(m) \/ Reject(m) \/ RejectStray(m) \/ Answer(m)
        PROVE  UNCHANGED <<completed, progress>>
    BY <2>3 DEF Send, Attach, Reject, RejectStray, Rejected, Answer, vars
  <2>4. ASSUME NEW m \in Spends, NEW s \in SpendSlots, Admit(m, s)
        PROVE  UNCHANGED <<completed, progress>>
    BY <2>4 DEF Admit, Admits, Accept, player
  <2>5. CASE RunEnds \/ Loop \/ Outside \/ AnswerCompletion \/ UNCHANGED allVars
    BY <2>5 DEF RunEnds, ContinueAsNew, LevelFailed, Loop, BoardPublished, Wake, Outside, Tick,
                Publish, AnswerCompletion, AnswersCompletion, allVars, vars, player
  <2> QED
    BY <2>1, <2>2, <2>3, <2>4, <2>5 DEF PLNext
<1> QED
  BY <1>1, <1>2, <1>3

LEMMA CountsStay ==
    ASSUME IInv, [PLNext]_allVars, NEW seenEnd \in Completions, Counts(seenEnd)
    PROVE  Counts(seenEnd)'
<1>1. CASE seenEnd.how = "solved"
  <2>1. PICK k \in DOMAIN completed : completed[k].level = seenEnd.level
    BY <1>1 DEF Counts
  <2>2. k \in DOMAIN completed' /\ completed'[k] = completed[k]
    <3>1. completed \in Seq([level: LevelIds, day: Days]) /\ k \in 1..Len(completed)
      BY DEF IInv, TypeOK
    <3>2. CASE completed' = completed
      BY <3>2
    <3>3. ASSUME NEW e \in [level: LevelIds, day: Days], completed' = Append(completed, e)
          PROVE  k \in DOMAIN completed' /\ completed'[k] = completed[k]
      BY ONLY <3>1, <3>3
    <3> QED
      BY <3>2, <3>3, CountsGrow
  <2> QED
    BY <1>1, <2>1, <2>2 DEF Counts
<1>2. CASE seenEnd.how # "solved"
  BY <1>2, CountsGrow, CompletionParts DEF Counts
<1> QED
  BY <1>1, <1>2

(* The result of the open level is applied, never dropped: it counts at once. *)
LEMMA EndCounts ==
    ASSUME IInv, LevelEnds, NEW seenEnd \in Completions,
           active = seenEnd.level, child[seenEnd.level].status = seenEnd.how
    PROVE  Counts(seenEnd)'
<1>1. levelFuture = seenEnd.level /\ Applies(levelFuture)
  BY CompletionParts DEF LevelEnds, LevelReady, IInv, TypeOK, OpenInv, Applies, Resolvable
<1>2. seenEnd.level[1] \in Campaigns
  BY CompletionParts
<1>3. CASE seenEnd.how = "solved"
  <2>1. completed' = Append(completed, [level |-> seenEnd.level, day |-> child[levelFuture].day])
    BY <1>1, <1>3 DEF LevelEnds, Credit
  <2>2. /\ Len(completed) + 1 \in DOMAIN completed'
        /\ completed'[Len(completed) + 1].level = seenEnd.level
    BY <2>1 DEF IInv, TypeOK
  <2> QED
    BY <1>3, <2>2 DEF Counts
<1>4. CASE seenEnd.how # "solved"
  BY <1>1, <1>2, <1>4 DEF LevelEnds, TimeOut, Counts, IInv, TypeOK, Progress
<1> QED
  BY <1>3, <1>4

(* Until then, only the end of the run of the player stops its level, and    *)
(* that level was over before; a level starts only while none is open.       *)
LEMMA EndStays ==
    ASSUME IInv, [PLNext]_allVars, ~LevelEnds,
           NEW l \in LevelIds, active = l, child[l].status \in {"solved", "timedOut"}
    PROVE  active' = l /\ child'[l].status = child[l].status
<1>1. active # None
  BY LevelParts
<1>2. \A s \in Slots : pc[s] \notin {"resolving", "starting", "started"}
  BY <1>1 DEF IInv, HandlersInv
<1>3. ASSUME NEW s \in Slots,
             AcceptOther(s) \/ HandleOther(s) \/ Spend(s) \/ CatalogAnswers(s) \/ LevelStarts(s)
      PROVE  UNCHANGED <<active, child>>
  BY <1>2, <1>3 DEF AcceptOther, HandleOther, Spend, CatalogAnswers, LevelStarts, Accept, player,
              Authenticate, BuyFreeze, SpendPoints, Decides, StartRefused, Start, Resolves,
              FinishStart, Opens,
              Catalog, ResolveAllowed, ResolveRefused, Server, ChildStarts, StartFails, Fails
<1>4. ASSUME NEW k \in LevelIds,
             BeginPaidHint(k) \/ LevelReturns(k) \/ LevelTerminated(k) \/ AskCompletion(k)
      PROVE  active' = active /\ child'[l] = child[l]
  BY <1>4 DEF BeginPaidHint, LevelReturns, LevelTerminated, AskCompletion, ChildSolved,
              ChildTimesOut, ChildFails, ChildEnds, vars, player, IInv, TypeOK
<1>5. ASSUME NEW m \in Spends, Send(m) \/ Attach(m) \/ Reject(m) \/ RejectStray(m) \/ Answer(m)
      PROVE  UNCHANGED <<active, child>>
  BY <1>5 DEF Send, Attach, Reject, RejectStray, Rejected, Answer, vars
<1>6. ASSUME NEW m \in Spends, NEW s \in SpendSlots, Admit(m, s)
      PROVE  UNCHANGED <<active, child>>
  BY <1>6 DEF Admit, Admits, Accept, player
<1>7. CASE RunEnds
  BY <1>7 DEF RunEnds, ContinueAsNew, LevelFailed, TerminateChildren, player
<1>8. CASE Loop \/ Outside \/ AnswerCompletion \/ UNCHANGED allVars
  BY <1>8 DEF Loop, BoardPublished, Wake, Outside, Tick, Publish, AnswerCompletion,
              AnswersCompletion, allVars, vars, player
<1> QED
  BY <1>3, <1>4, <1>5, <1>6, <1>7, <1>8 DEF PLNext

(* The page changes when it asks and when it is answered. *)
LEMMA PageMoves ==
    ASSUME [PLNext]_allVars
    PROVE  (\E l \in LevelIds : AskCompletion(l)) \/ AnswerCompletion \/ page' = page
BY DEF PLNext, AcceptOther, HandleOther, Spend, CatalogAnswers, LevelStarts, BeginPaidHint,
       LevelReturns, LevelTerminated, Send, Attach, Admit, Admits, Reject, RejectStray, Rejected,
       Answer, RunEnds, Loop, Outside, allVars

LEMMA PageStep ==
    ASSUME IInv, PageIInv, [PLNext]_allVars
    PROVE  PageIInv'
<1>1. CASE \E l \in LevelIds : AskCompletion(l)
  BY <1>1 DEF AskCompletion, PageIInv, PageTypes, PageInv, Completions, vars
<1>2. CASE AnswerCompletion
  BY <1>2 DEF AnswerCompletion, AnswersCompletion, PageIInv, PageTypes, PageInv
<1>3. CASE page' = page /\ page # None
  <2>1. page \in Completions
    BY <1>3 DEF PageIInv, PageTypes
  <2>2. CASE Counts(page)
    <3>1. Counts(page)'
      BY <1>3, <2>1, <2>2, CountsStay DEF Counts
    <3> QED
      BY <1>3, <2>1, <3>1 DEF PageIInv, PageTypes, PageInv
  <2>3. CASE ~Counts(page)
    <3>1. active = page.level /\ child[page.level].status = page.how
      BY <1>3, <2>3 DEF PageIInv, PageInv
    <3>2. CASE LevelEnds
      <4>1. Counts(page)'
        BY <1>3, <2>1, <3>1, <3>2, EndCounts DEF Counts
      <4> QED
        BY <1>3, <2>1, <4>1 DEF PageIInv, PageTypes, PageInv
    <3>3. CASE ~LevelEnds
      BY <1>3, <2>1, <3>1, <3>3, EndStays, CompletionParts DEF PageIInv, PageTypes, PageInv
    <3> QED
      BY <3>2, <3>3
  <2> QED
    BY <2>2, <2>3
<1>4. CASE page' = page /\ page = None
  BY <1>4 DEF PageIInv, PageTypes, PageInv
<1> QED
  BY <1>1, <1>2, <1>3, <1>4, PageMoves

(* An answer that is no conflict is given while no level is open. *)
LEMMA AnswerCounts ==
    ASSUME PageIInv, [PLNext]_allVars
    PROVE  page # None /\ page' = None => Counts(page)
<1> SUFFICES ASSUME page # None, page' = None
             PROVE  Counts(page)
  OBVIOUS
<1>1. AnswerCompletion
  BY PageMoves DEF AskCompletion
<1>2. active = None
  BY <1>1 DEF AnswerCompletion, AnswersCompletion
<1> QED
  BY <1>2, CompletionParts DEF PageIInv, PageTypes, PageInv

LEMMA InitPage == PLInit => PageIInv
BY DEF PLInit, PageIInv, PageTypes, PageInv

(* Whatever the player does between the end of a level and the request of the *)
(* page: the completion that the page is told is counted.                     *)
THEOREM CompletionCounts == PLSpec => CompletionsCount
<1>1. IInv /\ PageIInv /\ [PLNext]_allVars => PageIInv'
  BY PageStep
<1>2. PageIInv /\ [PLNext]_allVars => [page # None /\ page' = None => Counts(page)]_allVars
  BY AnswerCounts
<1> QED
  BY <1>1, <1>2, InitPage, PlayerIsPlayer, Inductive, PTL DEF PLSpec, CompletionsCount

(* The invariant that the runs were tried with holds of every instance. *)
THEOREM PlayerLevelInductive == PLSpec => []PLInv
<1>1. IInv /\ MoneyInv /\ [PLNext]_allVars => MoneyInv'
  BY MoneyStep
<1>2. IInv /\ PageIInv /\ [PLNext]_allVars => PageIInv'
  BY PageStep
<1>3. IInv /\ MoneyInv /\ PageIInv => PLInv
  BY DEF IInv, MoneyInv, MoneyTypes, PageIInv, PageTypes, PLInv, PLTypeOK
<1> QED
  BY <1>1, <1>2, <1>3, InitMoney, InitPage, PlayerIsPlayer, Inductive, PTL DEF PLSpec

=============================================================================
