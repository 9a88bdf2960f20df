------------------------- MODULE CampaignPlayProofs -------------------------
(***************************************************************************)
(* Proofs about Catalog and CampaignPlay.  The safety properties of the    *)
(* catalog hold of any set of campaigns, ends and games, however often it  *)
(* is terminated; the composition with a player keeps them.  Unlock times, *)
(* prerequisites and what the page offered hold for any campaigns and any  *)
(* pace.                                                                   *)
(***************************************************************************)
EXTENDS CampaignPlay, TLAPS

-----------------------------------------------------------------------------
(* The catalog and the campaigns that publish themselves in it. *)

\* The initial state satisfies the invariant.
LEMMA InitHolds == Init => IInv
<1> SUFFICES ASSUME Init PROVE IInv
  OBVIOUS
<1>1. TypeOK
  <2>1. 0 \in 0..MaxTime
    BY CatalogAssumption
  <2> QED
    BY <2>1 DEF Init, TypeOK, Stages, Running
<1>2. DefaultInv /\ OpenCampaignsAreListed /\ ListedCampaignsRun /\ GamesAgree
  BY CatalogAssumption
  DEF Init, DefaultInv, OpenCampaignsAreListed, ListedCampaignsRun, GamesAgree
<1> QED
  BY <1>1, <1>2 DEF IInv

\* Every step preserves the types.
LEMMA TypeStep == IInv /\ [Next]_vars => TypeOK'
<1> SUFFICES ASSUME IInv, [Next]_vars PROVE TypeOK'
  OBVIOUS
<1> USE CatalogAssumption DEF IInv, TypeOK, Stages, Running, catalogVars
<1>1. ASSUME NEW c \in Campaigns, StartCampaign(c) PROVE TypeOK'
  BY <1>1 DEF StartCampaign, Starts
<1>2. ASSUME NEW c \in Campaigns, RequestUpgrade(c) PROVE TypeOK'
  BY <1>2 DEF RequestUpgrade
<1>3. ASSUME NEW c \in Campaigns, Expire(c) PROVE TypeOK'
  BY <1>3 DEF Expire, ContinueAsNew, ContinuesAt, MoveTo
<1>4. ASSUME NEW c \in Campaigns, ReceiveUpgrade(c) PROVE TypeOK'
  BY <1>4 DEF ReceiveUpgrade, ContinueAsNew, ContinuesAt, MoveTo
<1>5. ASSUME NEW c \in Campaigns, NEW answered \in BOOLEAN, RegisterCampaign(c, answered)
      PROVE TypeOK'
  <2>1. Open({}) \subseteq Campaigns
    BY DEF Open
  <2>2. AfterRegistering(c) \in Stages
    BY DEF AfterRegistering
  <2> QED
    BY <1>5, <2>1, <2>2
    DEF RegisterCampaign, Registers, AddCampaign, SetListed, MoveTo
<1>6. ASSUME NEW c \in Campaigns, NEW answered \in BOOLEAN, UnregisterCampaign(c, answered)
      PROVE TypeOK'
  BY <1>6 DEF UnregisterCampaign, Unregisters, SetListed, MoveTo
<1>7. CASE CatalogIteration
  BY <1>7 DEF CatalogIteration
<1>8. CASE TerminateCatalog
  BY <1>8 DEF TerminateCatalog
<1>9. CASE RequestCatalogUpgrade
  BY <1>9 DEF RequestCatalogUpgrade
<1>10. CASE FindNoCatalog
  BY <1>10 DEF FindNoCatalog, Starts
<1>11. CASE OpenCatalog
  BY <1>11 DEF OpenCatalog, Opens, SetListed, Open
<1>12. CASE GiveUpOpening
  BY <1>12 DEF GiveUpOpening
<1>13. CASE Tick
  BY <1>13 DEF Tick
<1>14. CASE UNCHANGED vars
  BY <1>14 DEF vars
<1> QED
  BY <1>1, <1>2, <1>3, <1>4, <1>5, <1>6, <1>7, <1>8, <1>9, <1>10, <1>11, <1>12, <1>13, <1>14
  DEF Next, CampaignStep

-----------------------------------------------------------------------------
(* The list and the campaigns it lists. *)

\* Registered campaigns agree on their games, and adding one that agrees keeps it so.
LEMMA AddAgrees ==
  ASSUME NEW registered, NEW c, ValidateRegistration(c, registered),
         \A d, e \in registered : GameId[d] = GameId[e] => GameDetails[d] = GameDetails[e]
  PROVE  \A d, e \in registered \cup {c} :
            GameId[d] = GameId[e] => GameDetails[d] = GameDetails[e]
  BY DEF ValidateRegistration, Agrees

\* Every step keeps listed campaigns of one game in agreement.
LEMMA GamesStep == IInv /\ [Next]_vars => GamesAgree'
<1> SUFFICES ASSUME IInv, [Next]_vars PROVE GamesAgree'
  OBVIOUS
<1> USE DEF catalogVars
<1>0. \A d, e \in listed : GameId[d] = GameId[e] => GameDetails[d] = GameDetails[e]
  BY DEF IInv, GamesAgree
<1>u. ASSUME listed' \subseteq listed PROVE GamesAgree'
  BY <1>0, <1>u DEF GamesAgree
<1>1. ASSUME NEW c \in Campaigns, StartCampaign(c) \/ RequestUpgrade(c) \/ Expire(c) \/ ReceiveUpgrade(c)
      PROVE GamesAgree'
  BY <1>1, <1>u DEF StartCampaign, RequestUpgrade, Expire, ReceiveUpgrade
<1>2. ASSUME NEW c \in Campaigns, NEW answered \in BOOLEAN, RegisterCampaign(c, answered)
      PROVE GamesAgree'
  <2>1. \A d, e \in Open({}) : GameId[d] = GameId[e] => GameDetails[d] = GameDetails[e]
    BY <1>0 DEF Open
  <2>2. CASE ValidateRegistration(c, Open({}))
    <3>1. listed' = Open({}) \cup {c}
      BY <1>2, <2>2 DEF RegisterCampaign, Registers, AddCampaign, SetListed
    <3> QED
      BY <2>1, <2>2, <3>1, AddAgrees DEF GamesAgree
  <2>3. CASE ~ValidateRegistration(c, Open({}))
    <3>1. listed' = Open({})
      BY <1>2, <2>3 DEF RegisterCampaign, Registers, SetListed
    <3> QED
      BY <2>1, <3>1 DEF GamesAgree
  <2> QED
    BY <2>2, <2>3
<1>3. ASSUME NEW c \in Campaigns, NEW answered \in BOOLEAN, UnregisterCampaign(c, answered)
      PROVE GamesAgree'
  BY <1>3, <1>u DEF UnregisterCampaign, Unregisters, SetListed
<1>4. CASE OpenCatalog
  <2>1. \A d, e \in Open({Default}) : GameId[d] = GameId[e] => GameDetails[d] = GameDetails[e]
    BY <1>0 DEF Open
  <2>2. CASE ValidateRegistration(Default, Open({Default}))
    <3>1. listed' = Open({Default}) \cup {Default}
      BY <1>4, <2>2 DEF OpenCatalog, Opens, SetListed
    <3> QED
      BY <2>1, <2>2, <3>1, AddAgrees DEF GamesAgree
  <2>3. CASE ~ValidateRegistration(Default, Open({Default}))
    BY <1>4, <2>3, <1>u DEF OpenCatalog, Opens
  <2> QED
    BY <2>2, <2>3
<1>5. CASE CatalogIteration \/ TerminateCatalog \/ RequestCatalogUpgrade
  BY <1>5, <1>u DEF CatalogIteration, TerminateCatalog, RequestCatalogUpgrade
<1>6. CASE FindNoCatalog \/ GiveUpOpening \/ Tick \/ UNCHANGED vars
  BY <1>6, <1>u DEF FindNoCatalog, GiveUpOpening, Tick, vars
<1> QED
  BY <1>1, <1>2, <1>3, <1>4, <1>5, <1>6 DEF Next, CampaignStep

\* Every step keeps the default campaign alive and every listed one running.
LEMMA ListedStep == IInv /\ [Next]_vars => DefaultInv' /\ OpenCampaignsAreListed' /\ ListedCampaignsRun'
<1> DEFINE Goal == DefaultInv /\ OpenCampaignsAreListed /\ ListedCampaignsRun
<1> SUFFICES ASSUME IInv, [Next]_vars PROVE Goal'
  OBVIOUS
<1> USE CatalogAssumption
    DEF IInv, TypeOK, DefaultInv, OpenCampaignsAreListed, ListedCampaignsRun, Stages, Running, catalogVars
<1>1. ASSUME NEW c \in Campaigns, StartCampaign(c) PROVE Goal'
  BY <1>1 DEF StartCampaign, Starts
<1>2. ASSUME NEW c \in Campaigns, RequestUpgrade(c) PROVE Goal'
  BY <1>2 DEF RequestUpgrade
<1>3. ASSUME NEW c \in Campaigns, Expire(c) PROVE Goal'
  BY <1>3 DEF Expire, ContinueAsNew, ContinuesAt, MoveTo, Ended
<1>4. ASSUME NEW c \in Campaigns, ReceiveUpgrade(c) PROVE Goal'
  BY <1>4 DEF ReceiveUpgrade, ContinueAsNew, ContinuesAt, MoveTo
<1>5. ASSUME NEW c \in Campaigns, NEW answered \in BOOLEAN, RegisterCampaign(c, answered)
      PROVE Goal'
  <2>1. CASE ValidateRegistration(c, Open({}))
    <3>1. /\ listed' = Open({}) \cup {c} /\ catalog' = "open" /\ lost' = lost \ {c}
          /\ opening' = opening /\ campaign[c] = "registering"
          /\ campaign' = [campaign EXCEPT ![c] = IF answered THEN AfterRegistering(c) ELSE "registering"]
      BY <1>5, <2>1 DEF RegisterCampaign, Registers, AddCampaign, SetListed, MoveTo
    <3>2. AfterRegistering(c) \in {"waiting", "unregistering"}
      BY DEF AfterRegistering
    <3>3. c = Default => AfterRegistering(c) = "waiting"
      BY DEF AfterRegistering, Ended
    <3> QED
      BY <3>1, <3>2, <3>3 DEF Open
  <2>2. CASE ~ValidateRegistration(c, Open({}))
    <3>1. /\ listed' = Open({}) /\ catalog' = "open" /\ lost' = lost
          /\ opening' = opening /\ campaign[c] = "registering"
          /\ campaign' = [campaign EXCEPT ![c] = IF answered THEN "failed" ELSE "registering"]
      BY <1>5, <2>2 DEF RegisterCampaign, Registers, SetListed, MoveTo
    <3>2. c \notin Open({})
      BY <2>2 DEF ValidateRegistration, Agrees
    <3> QED
      BY <3>1, <3>2 DEF Open
  <2> QED
    BY <2>1, <2>2
<1>6. ASSUME NEW c \in Campaigns, NEW answered \in BOOLEAN, UnregisterCampaign(c, answered)
      PROVE Goal'
  BY <1>6 DEF UnregisterCampaign, Unregisters, SetListed, MoveTo
<1>7. CASE CatalogIteration
  BY <1>7 DEF CatalogIteration
<1>8. CASE TerminateCatalog
  BY <1>8 DEF TerminateCatalog
<1>9. CASE RequestCatalogUpgrade
  BY <1>9 DEF RequestCatalogUpgrade
<1>10. CASE FindNoCatalog
  BY <1>10 DEF FindNoCatalog, Starts
<1>11. CASE OpenCatalog
  <2>1. CASE ValidateRegistration(Default, Open({Default}))
    <3>1. /\ listed' = Open({Default}) \cup {Default} /\ catalog' = "open"
          /\ lost' = lost \ {Default} /\ opening /\ ~opening' /\ campaign' = campaign
      BY <1>11, <2>1 DEF OpenCatalog, Opens, SetListed
    <3> QED
      BY <3>1 DEF Open
  <2>2. CASE ~ValidateRegistration(Default, Open({Default}))
    BY <1>11, <2>2 DEF OpenCatalog, Opens
  <2> QED
    BY <2>1, <2>2
<1>12. CASE GiveUpOpening
  BY <1>12 DEF GiveUpOpening
<1>13. CASE Tick
  BY <1>13 DEF Tick
<1>14. CASE UNCHANGED vars
  BY <1>14 DEF vars
<1> QED
  BY <1>1, <1>2, <1>3, <1>4, <1>5, <1>6, <1>7, <1>8, <1>9, <1>10, <1>11, <1>12, <1>13, <1>14
  DEF Next, CampaignStep

-----------------------------------------------------------------------------
(* The theorems about the catalog. *)

\* The invariant holds in every reachable state.
THEOREM Inductive == Spec => []IInv
<1>1. IInv /\ [Next]_vars => IInv'
  BY TypeStep, GamesStep, ListedStep DEF IInv
<1> QED
  BY InitHolds, <1>1, PTL DEF Spec

\* Every variable of the catalog and its campaigns keeps its type.
THEOREM TypeCorrect == Spec => []TypeOK
<1>1. IInv => TypeOK
  BY DEF IInv
<1> QED
  BY Inductive, <1>1, PTL

\* A campaign that waits for its end is in the open catalog, unless the catalog
\* that listed it was terminated (catalog.go, register and unregister).
THEOREM Listed == Spec => []OpenCampaignsAreListed
<1>1. IInv => OpenCampaignsAreListed
  BY DEF IInv
<1> QED
  BY Inductive, <1>1, PTL

\* A campaign that has completed is not listed any more, nor is one whose
\* registration was refused (wordflow_campaign.go, expiry and removal).
THEOREM NothingElseListed == Spec => []ListedCampaignsRun
<1>1. IInv => ListedCampaignsRun
  BY DEF IInv
<1> QED
  BY Inductive, <1>1, PTL

\* Listed campaigns of one game describe it alike, across fresh catalogs too
\* (validateCampaignRegistration).
THEOREM GamesConsistent == Spec => []GamesAgree
<1>1. IInv => GamesAgree
  BY DEF IInv
<1> QED
  BY Inductive, <1>1, PTL


-----------------------------------------------------------------------------
(* The arithmetic of the unlock schedule. *)

\* What integer division returns.
LEMMA DivisionBounds ==
  ASSUME NEW a \in Nat, NEW b \in Nat \ {0}
  PROVE  /\ a \div b \in Nat
         /\ (a \div b) * b <= a
         /\ a < (a \div b) * b + b
  BY Z3T(30)

\* Multiplication by a natural number keeps the order.
LEMMA TimesMonotone ==
  ASSUME NEW a \in Nat, NEW b \in Nat, NEW m \in Nat, a <= b
  PROVE  a * m <= b * m
  BY Z3T(30)

\* The number of intervals that pass until a level unlocks fits in the
\* intervals that have passed exactly when the level is among those unlocked.
LEMMA IntervalsAgree ==
  ASSUME NEW over \in Nat \ {0}, NEW pace \in Nat \ {0}, NEW interval \in Nat \ {0}, NEW passed \in Nat
  PROVE  (over <= (passed \div interval) * pace)
            <=> (((over + pace - 1) \div pace) * interval <= passed)
<1> DEFINE q == passed \div interval
           k == (over + pace - 1) \div pace
<1>1. q \in Nat /\ q * interval <= passed /\ passed < q * interval + interval
  BY DivisionBounds
<1>2. k \in Nat /\ k * pace <= over + pace - 1 /\ over + pace - 1 < k * pace + pace
  <2>1. over + pace - 1 \in Nat
    OBVIOUS
  <2> QED
    BY <2>1, DivisionBounds
<1> HIDE DEF q, k
<1>3. ASSUME over <= q * pace PROVE k * interval <= passed
  <2>1. k <= q
    <3> SUFFICES ASSUME q + 1 <= k PROVE FALSE
      BY <1>1, <1>2
    <3>1. (q + 1) * pace <= k * pace
      BY <1>1, <1>2, TimesMonotone
    <3>2. (q + 1) * pace = q * pace + pace
      BY <1>1
    <3> QED
      BY <1>1, <1>2, <1>3, <3>1, <3>2
  <2>2. k * interval <= q * interval
    BY <1>1, <1>2, <2>1, TimesMonotone
  <2> QED
    BY <1>1, <1>2, <2>2
<1>4. ASSUME k * interval <= passed PROVE over <= q * pace
  <2>1. k <= q
    <3> SUFFICES ASSUME q + 1 <= k PROVE FALSE
      BY <1>1, <1>2
    <3>1. (q + 1) * interval <= k * interval
      BY <1>1, <1>2, TimesMonotone
    <3>2. (q + 1) * interval = q * interval + interval
      BY <1>1
    <3> QED
      BY <1>1, <1>2, <1>4, <3>1, <3>2
  <2>2. k * pace <= q * pace
    BY <1>1, <1>2, <2>1, TimesMonotone
  <2> QED
    BY <1>1, <1>2, <2>2
<1> QED
  BY <1>3, <1>4 DEF q, k

\* The page's unlock time of a scheduled level is when the level unlocks.
LEMMA UnlockAgrees ==
  ASSUME NEW c \in Campaigns, NEW joinedAt \in Nat, NEW time \in Nat, joinedAt <= time,
         NEW level \in 1..TotalLevels[c], Scheduled(c, level)
  PROVE  level <= Unlocked(c, joinedAt, time) <=> UnlockTime(c, joinedAt, level) <= time
<1> DEFINE pace == LevelsPerInterval[c]
           interval == Interval[c]
           passed == IF Paced(c) /\ time > joinedAt THEN (time - joinedAt) \div interval ELSE 0
<1>1. /\ InitialLevels[c] \in Nat /\ pace \in Nat /\ interval \in Nat
      /\ TotalLevels[c] \in Nat /\ level \in Nat \ {0}
  BY RulesAssumption
<1>2. passed \in Nat
  BY <1>1, DivisionBounds DEF Paced
<1>3. passed * pace \in Nat
  BY <1>1, <1>2
<1>4. level <= Unlocked(c, joinedAt, time) <=> level <= InitialLevels[c] + passed * pace
  BY <1>1, <1>3 DEF Unlocked, Smaller
<1> HIDE DEF passed
<1>5. CASE level <= InitialLevels[c]
  BY <1>1, <1>3, <1>4, <1>5 DEF UnlockTime
<1>6. CASE level > InitialLevels[c]
  <2> DEFINE over == level - InitialLevels[c]
             k == (over + pace - 1) \div pace
  <2>1. over \in Nat \ {0} /\ pace \in Nat \ {0} /\ interval \in Nat \ {0}
    BY <1>1, <1>6 DEF Scheduled, Paced
  <2>2. passed = (time - joinedAt) \div interval
    <3>1. CASE time > joinedAt
      BY <2>1, <3>1 DEF passed, Paced
    <3>2. CASE time = joinedAt
      <4>1. 0 \div interval = 0
        BY <2>1, Z3T(30)
      <4> QED
        BY <3>2, <4>1 DEF passed
    <3> QED
      BY <3>1, <3>2
  <2>3. (over <= passed * pace) <=> (k * interval <= time - joinedAt)
    <3>1. time - joinedAt \in Nat
      OBVIOUS
    <3> HIDE DEF over
    <3> QED
      BY <2>1, <2>2, <3>1, IntervalsAgree
  <2>4. UnlockTime(c, joinedAt, level) = joinedAt + k * interval
    BY <1>1, <1>6, <2>1 DEF UnlockTime, Paced
  <2>5. k * interval \in Nat
    <3>1. over + pace - 1 \in Nat
      BY <2>1
    <3>2. k \in Nat
      BY <2>1, <3>1, DivisionBounds
    <3> HIDE DEF k
    <3> QED
      BY <2>1, <3>2
  <2> HIDE DEF k
  <2> QED
    BY <1>1, <1>3, <1>4, <2>1, <2>3, <2>4, <2>5
<1> QED
  BY <1>1, <1>5, <1>6

\* Unlock times are times.
LEMMA UnlockTimeType ==
  ASSUME NEW c \in Campaigns, NEW joinedAt \in Nat, NEW level \in Nat
  PROVE  UnlockTime(c, joinedAt, level) \in Nat
<1>1. InitialLevels[c] \in Nat /\ LevelsPerInterval[c] \in Nat /\ Interval[c] \in Nat
  BY RulesAssumption
<1>2. CASE level <= InitialLevels[c] \/ ~Paced(c)
  BY <1>2 DEF UnlockTime
<1>3. CASE level > InitialLevels[c] /\ Paced(c)
  <2> DEFINE k == (level - InitialLevels[c] + LevelsPerInterval[c] - 1) \div LevelsPerInterval[c]
  <2>1. LevelsPerInterval[c] \in Nat \ {0}
    BY <1>1, <1>3 DEF Paced
  <2>2. level - InitialLevels[c] + LevelsPerInterval[c] - 1 \in Nat
    BY <1>1, <1>3, <2>1
  <2>3. k \in Nat
    BY <2>1, <2>2, DivisionBounds
  <2>4. UnlockTime(c, joinedAt, level) = joinedAt + k * Interval[c]
    BY <1>1, <1>3 DEF UnlockTime
  <2> HIDE DEF k
  <2> QED
    BY <1>1, <2>3, <2>4
<1> QED
  BY <1>1, <1>2, <1>3

-----------------------------------------------------------------------------
(* The inductive invariant. *)

\* The initial state satisfies the invariant.
LEMMA InitPlay == PlayInit => PlayIInv
<1> SUFFICES ASSUME PlayInit PROVE PlayIInv
  OBVIOUS
<1> USE DEF PlayInit, Init
<1>1. now \in Nat /\ PlayTypeOK
  BY DEF PlayTypeOK
<1>2. ProgressInv /\ AllowedInv
  BY DEF ProgressInv, AllowedInv
<1>3. StartedLevelsWereUnlocked /\ PrerequisitesAreMet
  BY DEF StartedLevelsWereUnlocked, Started, PrerequisitesAreMet
<1> QED
  BY <1>1, <1>2, <1>3 DEF PlayIInv

\* Time does not run backwards.
LEMMA ClockStep == now \in Nat /\ [Next]_vars => now' \in Nat /\ now <= now'
<1> SUFFICES ASSUME now \in Nat, [Next]_vars PROVE now' \in Nat /\ now <= now'
  OBVIOUS
<1>1. ASSUME NEW c \in Campaigns, CampaignStep(c) PROVE now' = now
  BY <1>1 DEF CampaignStep, StartCampaign, RequestUpgrade, Expire, ReceiveUpgrade,
              RegisterCampaign, Registers, UnregisterCampaign, Unregisters
<1>2. CASE CatalogIteration \/ TerminateCatalog \/ RequestCatalogUpgrade
  BY <1>2 DEF CatalogIteration, TerminateCatalog, RequestCatalogUpgrade
<1>3. CASE FindNoCatalog \/ OpenCatalog \/ GiveUpOpening
  BY <1>3 DEF FindNoCatalog, OpenCatalog, Opens, SetListed, GiveUpOpening, catalogVars
<1>4. CASE Tick
  BY <1>4 DEF Tick
<1>5. CASE UNCHANGED vars
  BY <1>5 DEF vars
<1> QED
  BY <1>1, <1>2, <1>3, <1>4, <1>5 DEF Next

\* Whatever time passes, a player who does nothing loses no level.
LEMMA IdleStep ==
  ASSUME PlayIInv, now' \in Nat, now <= now', UNCHANGED playerVars
  PROVE  PlayIInv'
<1> USE DEF PlayIInv, playerVars
<1>1. PlayTypeOK'
  BY DEF PlayTypeOK, CampaignProgress, Questions
<1>2. ProgressInv'
  BY DEF ProgressInv, PlayTypeOK, CampaignProgress
<1>3. StartedLevelsWereUnlocked'
  <2> SUFFICES ASSUME NEW c \in Campaigns, NEW level \in 1..TotalLevels[c],
                      Started(c, level), Scheduled(c, level)
               PROVE  UnlockTime(c, progress[c].joinedAt, level) <= now'
    BY DEF StartedLevelsWereUnlocked, Started, Scheduled, Paced, UnlockTime
  <2>1. progress[c].joinedAt \in Nat /\ level \in Nat
    BY RulesAssumption DEF Started, PlayTypeOK, CampaignProgress
  <2>2. UnlockTime(c, progress[c].joinedAt, level) <= now
    BY DEF StartedLevelsWereUnlocked
  <2>3. UnlockTime(c, progress[c].joinedAt, level) \in Nat
    BY <2>1, UnlockTimeType
  <2> QED
    BY <2>2, <2>3
<1>4. PrerequisitesAreMet'
  BY DEF PrerequisitesAreMet, Met
<1>5. AllowedInv'
  <2> SUFFICES ASSUME asking # None PROVE AllowedInv'
    BY DEF AllowedInv
  <2> DEFINE c == asking.campaign
             joined == JoinedProgress(c, asking.at)
  <2>1. asking.at <= now' /\ asking.at \in Nat /\ c \in Campaigns /\ asking.level \in Nat
    BY DEF AllowedInv, PlayTypeOK, Questions
  <2>2. JoinedProgress(c, asking.at)' = joined
    BY DEF JoinedProgress
  <2>3. joined[c].joinedAt \in Nat
    BY <2>1 DEF JoinedProgress, Joined, PlayTypeOK, CampaignProgress
  <2>4. UnlockTime(c, joined[c].joinedAt, asking.level) \in Nat
    BY <2>1, <2>3, UnlockTimeType
  <2> HIDE DEF joined
  <2> QED
    BY <2>1, <2>2, <2>4 DEF AllowedInv, Met, joined
<1> QED
  BY <1>1, <1>2, <1>3, <1>4, <1>5

\* Asking copies the progress, and no level is allowed yet.
LEMMA AskStep ==
  ASSUME PlayIInv, NEW c \in Campaigns, NEW level \in 1..TotalLevels[c], AskForLevel(c, level)
  PROVE  PlayIInv'
<1> USE DEF PlayIInv, AskForLevel, Asks, vars
<1>1. asking' \in Questions /\ ~asking'.allowed /\ asking'.at <= now'
  <2>1. level \in Nat
    BY RulesAssumption
  <2>2. (c \in listed /\ Allowed(c, level, player, now)) \in BOOLEAN
    OBVIOUS
  <2> QED
    BY <2>1, <2>2 DEF Questions
<1>2. PlayTypeOK' /\ AllowedInv' /\ ProgressInv'
  BY <1>1 DEF PlayTypeOK, AllowedInv, ProgressInv
<1>3. StartedLevelsWereUnlocked' /\ PrerequisitesAreMet'
  BY DEF StartedLevelsWereUnlocked, Started, PrerequisitesAreMet, Met
<1> QED
  BY <1>2, <1>3

\* What an available level means: it is the next one, it has unlocked, and the
\* prerequisites of its campaign are met.
LEMMA AllowedMeans ==
  ASSUME NEW c \in Campaigns, NEW level \in Nat, NEW time \in Nat, NEW someone,
         someone.progress[c] # NotJoined, someone.progress[c].nextLevel \in Nat,
         Allowed(c, level, someone, time)
  PROVE  /\ level \in 1..TotalLevels[c]
         /\ level = someone.progress[c].nextLevel
         /\ Met(c, someone.progress)
         /\ level <= Unlocked(c, someone.progress[c].joinedAt, time)
  BY DEF Allowed, LevelStatus, NextLevel, JoinedAt, Eligible, Met

\* Joining a campaign changes the progress of no other.
LEMMA JoinedFacts ==
  ASSUME PlayTypeOK, NEW c \in Campaigns, NEW at \in Nat
  PROVE  /\ JoinedProgress(c, at) \in [Campaigns -> {NotJoined} \cup CampaignProgress]
         /\ JoinedProgress(c, at)[c] \in CampaignProgress
         /\ JoinedProgress(c, at)[c] # NotJoined
         /\ \A d \in Campaigns \ {c} : JoinedProgress(c, at)[d] = progress[d]
         /\ progress[c] # NotJoined => JoinedProgress(c, at) = progress
         /\ progress[c] = NotJoined => JoinedProgress(c, at)[c] = Joined(at)
<1>1. Joined(at) \in CampaignProgress
  BY DEF Joined, CampaignProgress
<1> QED
  BY <1>1, NobodyAssumption DEF JoinedProgress, PlayTypeOK

\* A level that the catalog allows is the next one, unlocked and earned.
LEMMA ResolveStep == PlayIInv /\ ResolveLevel => PlayIInv'
<1> SUFFICES ASSUME PlayIInv, ResolveLevel PROVE PlayIInv'
  OBVIOUS
<1> USE DEF PlayIInv, ResolveLevel, vars
<1>1. StartedLevelsWereUnlocked' /\ PrerequisitesAreMet'
  BY DEF StartedLevelsWereUnlocked, Started, PrerequisitesAreMet, Met
<1>2. ProgressInv'
  BY DEF ProgressInv
<1>3. CASE asking' = None
  BY <1>1, <1>2, <1>3 DEF PlayTypeOK, AllowedInv
<1>4. CASE asking' # None
  <2> DEFINE c == asking.campaign
             joined == JoinedProgress(c, asking.at)
  <2>1. /\ asking' = [asking EXCEPT !.allowed = TRUE]
        /\ Allowed(c, asking.level, ProgressForStart(asking), now)
    BY <1>4
  <2>2. asking \in Questions /\ c \in Campaigns /\ asking.at \in Nat /\ asking.at <= now
    BY DEF PlayTypeOK, AllowedInv, Questions
  <2>3. /\ asking' \in Questions
        /\ asking'.campaign = c /\ asking'.level = asking.level /\ asking'.at = asking.at
    BY <2>1, <2>2 DEF Questions
  <2>4. joined[c] \in CampaignProgress /\ joined[c] # NotJoined /\ joined[c].joinedAt <= now
    <3>1. Joined(asking.at).joinedAt <= now
      BY <2>2 DEF Joined
    <3>2. progress[c] # NotJoined => progress[c].joinedAt <= now
      BY <2>2 DEF ProgressInv
    <3> QED
      BY <2>2, <3>1, <3>2, JoinedFacts
  <2>5. ProgressForStart(asking).progress = joined
    BY DEF ProgressForStart
  <2>6. /\ asking.level \in 1..TotalLevels[c] /\ asking.level = joined[c].nextLevel
        /\ Met(c, joined) /\ asking.level <= Unlocked(c, joined[c].joinedAt, now)
    <3>1. asking.level \in Nat /\ joined[c].nextLevel \in Nat
      BY <2>2, <2>4 DEF Questions, CampaignProgress
    <3> HIDE DEF joined
    <3> QED
      BY <2>1, <2>2, <2>4, <2>5, <3>1, AllowedMeans
  <2>7. Scheduled(c, asking.level) => UnlockTime(c, joined[c].joinedAt, asking.level) <= now
    <3>1. joined[c].joinedAt \in Nat
      BY <2>4 DEF CampaignProgress
    <3> HIDE DEF joined
    <3> QED
      BY <2>2, <2>4, <2>6, <3>1, UnlockAgrees
  <2>8. AllowedInv'
    <3>1. progress' = progress /\ now' = now
      OBVIOUS
    <3> QED
      BY ONLY <2>2, <2>3, <2>6, <2>7, <3>1 DEF AllowedInv, Met, JoinedProgress
  <2>9. PlayTypeOK'
    BY <2>3 DEF PlayTypeOK
  <2> QED
    BY <1>1, <1>2, <2>8, <2>9
<1> QED
  BY <1>3, <1>4

\* Prerequisites stay met while the progress only grows.
LEMMA MetMonotone ==
  ASSUME NEW c \in Campaigns, NEW before, NEW after, Met(c, before),
         before \in [Campaigns -> {NotJoined} \cup CampaignProgress],
         after \in [Campaigns -> {NotJoined} \cup CampaignProgress],
         \A d \in Campaigns : before[d] # NotJoined =>
            /\ after[d] # NotJoined
            /\ before[d].completed => after[d].completed
            /\ before[d].completedLevels <= after[d].completedLevels
  PROVE  Met(c, after)
<1>1. \A d \in RequiredCampaigns[c] : after[d] # NotJoined /\ after[d].completed
  <2>1. RequiredCampaigns[c] \subseteq Campaigns
    BY RulesAssumption
  <2> QED
    BY <2>1 DEF Met
<1>2. ASSUME NEW r \in RequiredLevels[c]
      PROVE  after[r[1]] # NotJoined /\ after[r[1]].completedLevels >= r[2]
  <2>1. r[1] \in Campaigns /\ r[2] \in Nat
    BY RulesAssumption
  <2>2. before[r[1]] # NotJoined /\ before[r[1]].completedLevels >= r[2]
    BY DEF Met
  <2>3. /\ after[r[1]] # NotJoined
        /\ before[r[1]].completedLevels \in Nat /\ after[r[1]].completedLevels \in Nat
        /\ before[r[1]].completedLevels <= after[r[1]].completedLevels
    BY <2>1, <2>2 DEF CampaignProgress
  <2> QED
    BY <2>1, <2>2, <2>3
<1> QED
  BY <1>1, <1>2 DEF Met

\* A start that fails leaves nothing behind.
LEMMA FailStep == PlayIInv /\ StartFails => PlayIInv'
<1> SUFFICES ASSUME PlayIInv, StartFails PROVE PlayIInv'
  OBVIOUS
<1>1. asking' = None /\ progress' = progress /\ active' = active /\ now' = now
  BY DEF StartFails, vars
<1>2. PlayTypeOK' /\ ProgressInv' /\ AllowedInv'
  BY <1>1 DEF PlayIInv, PlayTypeOK, ProgressInv, AllowedInv
<1>3. StartedLevelsWereUnlocked' /\ PrerequisitesAreMet'
  BY <1>1 DEF PlayIInv, StartedLevelsWereUnlocked, Started, Scheduled, Paced, UnlockTime,
              PrerequisitesAreMet, Met
<1> QED
  BY <1>1, <1>2, <1>3 DEF PlayIInv

\* The level that begins is the allowed one.
LEMMA BeginStep == PlayIInv /\ BeginLevel => PlayIInv'
<1> SUFFICES ASSUME PlayIInv, BeginLevel PROVE PlayIInv'
  OBVIOUS
<1> DEFINE c == asking.campaign
           joined == JoinedProgress(c, asking.at)
<1>1. /\ asking \in Questions /\ c \in Campaigns /\ asking.at \in Nat /\ asking.at <= now
      /\ asking.level \in Nat /\ now \in Nat /\ active = None
  BY DEF PlayIInv, BeginLevel, PlayTypeOK, AllowedInv, Questions
<1>2. /\ progress' = joined /\ active' = <<c, asking.level>> /\ asking' = None /\ now' = now
  BY DEF BeginLevel, JoinCampaign, vars
<1>3. /\ joined \in [Campaigns -> {NotJoined} \cup CampaignProgress]
      /\ joined[c] \in CampaignProgress /\ joined[c] # NotJoined
      /\ \A d \in Campaigns \ {c} : joined[d] = progress[d]
      /\ progress[c] # NotJoined => joined = progress
      /\ progress[c] = NotJoined => joined[c] = Joined(asking.at)
  BY <1>1, JoinedFacts DEF PlayIInv
<1>4. /\ asking.level = joined[c].nextLevel /\ Met(c, joined)
      /\ Scheduled(c, asking.level) => UnlockTime(c, joined[c].joinedAt, asking.level) <= now
  BY DEF PlayIInv, AllowedInv, BeginLevel
<1> HIDE DEF joined
<1>5. PlayTypeOK'
  BY <1>1, <1>2, <1>3, NobodyAssumption DEF PlayTypeOK
<1>6. ProgressInv'
  <2>1. ASSUME NEW d \in Campaigns, joined[d] # NotJoined
        PROVE  joined[d].joinedAt <= now /\ (joined[d].completed => joined[d].completedLevels >= TotalLevels[d])
    <3>1. CASE progress[d] # NotJoined
      BY <1>3, <3>1 DEF PlayIInv, ProgressInv
    <3>2. CASE progress[d] = NotJoined
      BY <1>1, <1>3, <2>1, <3>2 DEF Joined
    <3> QED
      BY <3>1, <3>2
  <2> QED
    BY <1>2, <1>4, <2>1 DEF ProgressInv
<1>7. AllowedInv'
  BY <1>2 DEF AllowedInv
<1>8. StartedLevelsWereUnlocked'
  <2> SUFFICES ASSUME NEW d \in Campaigns, NEW level \in 1..TotalLevels[d],
                      joined[d] # NotJoined,
                      level < joined[d].nextLevel \/ active' = <<d, level>>,
                      Scheduled(d, level)
               PROVE  UnlockTime(d, joined[d].joinedAt, level) <= now
    BY <1>2 DEF StartedLevelsWereUnlocked, Started, Scheduled, Paced, UnlockTime
  <2>1. CASE active' = <<d, level>>
    BY <1>2, <1>4, <2>1
  <2>2. CASE active' # <<d, level>> /\ progress[d] # NotJoined
    <3>1. joined[d] = progress[d]
      BY <1>3, <2>2
    <3> QED
      BY <2>2, <3>1 DEF PlayIInv, StartedLevelsWereUnlocked, Started
  <2>3. CASE active' # <<d, level>> /\ progress[d] = NotJoined
    <3>1. joined[d].nextLevel = 1 /\ level \in Nat \ {0}
      BY <1>3, <2>3, RulesAssumption DEF Joined
    <3> QED
      BY <2>3, <3>1
  <2> QED
    BY <2>1, <2>2, <2>3
<1>9. PrerequisitesAreMet'
  <2>1. ASSUME NEW d \in Campaigns, joined[d] # NotJoined PROVE Met(d, joined)
    <3>1. CASE d = c
      BY <1>4, <3>1
    <3>2. CASE d # c
      <4>1. Met(d, progress)
        BY <1>3, <2>1, <3>2 DEF PlayIInv, PrerequisitesAreMet
      <4>2. \A e \in Campaigns : progress[e] # NotJoined => joined[e] = progress[e]
        BY <1>3
      <4>3. \A e \in Campaigns : progress[e] # NotJoined =>
              progress[e].completedLevels <= progress[e].completedLevels
        BY DEF PlayIInv, PlayTypeOK, CampaignProgress
      <4>4. progress \in [Campaigns -> {NotJoined} \cup CampaignProgress]
        BY DEF PlayIInv, PlayTypeOK
      <4> QED
        BY <1>3, <4>1, <4>2, <4>3, <4>4, MetMonotone
    <3> QED
      BY <3>1, <3>2
  <2> QED
    BY <1>2, <2>1 DEF PrerequisitesAreMet, Met
<1> QED
  BY <1>1, <1>2, <1>5, <1>6, <1>7, <1>8, <1>9 DEF PlayIInv

\* What a solved level does to the progress in its campaign.
LEMMA AdvanceFacts ==
  ASSUME NEW solved \in CampaignProgress, NEW total \in Nat
  PROVE  LET new == Advance(solved, total)
         IN  /\ new \in CampaignProgress
             /\ new.joinedAt = solved.joinedAt /\ new.nextLevel = solved.nextLevel + 1
             /\ solved.completedLevels <= new.completedLevels
             /\ new.completed => new.completedLevels >= total
             /\ solved.completedLevels >= total => new.completed
<1> DEFINE new == Advance(solved, total)
           full == solved.completedLevels + 1 >= total
<1>1. solved.nextLevel \in Nat \ {0} /\ solved.completedLevels \in Nat /\ full \in BOOLEAN
  BY DEF CampaignProgress
<1>2. solved.completedLevels >= total => full
  BY <1>1
<1>3. new = [solved EXCEPT !.nextLevel = solved.nextLevel + 1,
                           !.completedLevels = solved.completedLevels + 1,
                           !.completed = full]
  BY DEF Advance
<1> HIDE DEF new
<1>4. full => solved.completedLevels + 1 >= total
  OBVIOUS
<1> HIDE DEF full
<1>5. /\ new \in CampaignProgress
      /\ new.joinedAt = solved.joinedAt /\ new.nextLevel = solved.nextLevel + 1
      /\ new.completedLevels = solved.completedLevels + 1
      /\ new.completed = full
  <2> DEFINE levels == solved.completedLevels + 1
             next == solved.nextLevel + 1
  <2>1. levels \in Nat /\ next \in Nat \ {0}
    BY <1>1
  <2>2. new = [solved EXCEPT !.nextLevel = next, !.completedLevels = levels, !.completed = full]
    BY <1>3
  <2> HIDE DEF levels, next
  <2>3. new.completed = full
    BY <2>2, Zenon DEF CampaignProgress
  <2>4. new \in CampaignProgress /\ new.joinedAt = solved.joinedAt
    BY <1>1, <2>1, <2>2 DEF CampaignProgress
  <2>5. new.nextLevel = next /\ new.completedLevels = levels
    BY <2>2 DEF CampaignProgress
  <2> QED
    BY <2>3, <2>4, <2>5 DEF levels, next
<1>6. solved.completedLevels <= solved.completedLevels + 1
  BY <1>1
<1> QED
  BY <1>2, <1>4, <1>5, <1>6 DEF new

\* A result changes the active campaign only; what was unlocked stays so.
LEMMA ResultStep == PlayIInv /\ (SolveLevel \/ TimeOutLevel) => PlayIInv'
<1> SUFFICES ASSUME PlayIInv, SolveLevel \/ TimeOutLevel PROVE PlayIInv'
  OBVIOUS
<1> DEFINE c == active[1]
<1>1. /\ c \in Campaigns /\ active = <<c, active[2]>> /\ active[2] \in Nat
      /\ active[2] = progress[c].nextLevel
      /\ progress[c] \in CampaignProgress /\ progress[c] # NotJoined
      /\ progress[c].joinedAt <= now /\ TotalLevels[c] \in Nat /\ asking = None
  BY RulesAssumption DEF PlayIInv, SolveLevel, TimeOutLevel, PlayTypeOK, ProgressInv
<1>2. /\ active' = None /\ asking' = None /\ now' = now /\ now \in Nat
  BY <1>1 DEF SolveLevel, TimeOutLevel, vars, PlayIInv
<1> DEFINE after == progress'[c]
<1>3. /\ after \in CampaignProgress
      /\ after.joinedAt = progress[c].joinedAt
      /\ after.nextLevel \in {progress[c].nextLevel, progress[c].nextLevel + 1}
      /\ progress[c].completedLevels <= after.completedLevels
      /\ after.completed => after.completedLevels >= TotalLevels[c]
      /\ progress[c].completed => after.completed
  <2>1. progress \in [Campaigns -> {NotJoined} \cup CampaignProgress]
    BY DEF PlayIInv, PlayTypeOK
  <2>2. progress[c].completed => progress[c].completedLevels >= TotalLevels[c]
    BY <1>1 DEF PlayIInv, ProgressInv
  <2>3. CASE SolveLevel
    <3> DEFINE new == Advance(progress[c], TotalLevels[c])
    <3>1. progress' = [progress EXCEPT ![c] = new]
      BY <2>3 DEF SolveLevel
    <3>2. progress[c] \in CampaignProgress /\ TotalLevels[c] \in Nat
      BY <1>1
    <3>3. /\ new \in CampaignProgress
          /\ new.joinedAt = progress[c].joinedAt /\ new.nextLevel = progress[c].nextLevel + 1
          /\ progress[c].completedLevels <= new.completedLevels
          /\ new.completed => new.completedLevels >= TotalLevels[c]
          /\ progress[c].completedLevels >= TotalLevels[c] => new.completed
      BY <3>2, AdvanceFacts
    <3> HIDE DEF new
    <3>4. after = new
      BY <1>1, <2>1, <3>1
    <3> HIDE DEF after
    <3> QED
      BY <2>2, <3>3, <3>4
  <2>4. CASE TimeOutLevel
    <3> DEFINE new == [progress[c] EXCEPT !.failed = TRUE]
    <3>1. progress' = [progress EXCEPT ![c] = new]
      BY <2>4 DEF TimeOutLevel
    <3>2. /\ new \in CampaignProgress
          /\ new.joinedAt = progress[c].joinedAt /\ new.nextLevel = progress[c].nextLevel
          /\ new.completedLevels = progress[c].completedLevels
          /\ new.completed = progress[c].completed
      BY <1>1 DEF CampaignProgress
    <3> HIDE DEF new
    <3>3. after = new
      BY <1>1, <2>1, <3>1
    <3>4. progress[c].completedLevels \in Nat
      BY <1>1 DEF CampaignProgress
    <3> HIDE DEF after
    <3> QED
      BY <2>2, <3>2, <3>3, <3>4
  <2> QED
    BY <2>3, <2>4
<1>4. /\ progress' \in [Campaigns -> {NotJoined} \cup CampaignProgress]
      /\ \A d \in Campaigns \ {c} : progress'[d] = progress[d]
  <2>1. progress \in [Campaigns -> {NotJoined} \cup CampaignProgress]
    BY DEF PlayIInv, PlayTypeOK
  <2> QED
    BY <1>1, <1>3, <2>1 DEF SolveLevel, TimeOutLevel
<1>5. after # NotJoined
  BY <1>3, NobodyAssumption
<1> HIDE DEF after
<1>6. PlayTypeOK' /\ AllowedInv'
  BY <1>2, <1>4 DEF PlayTypeOK, AllowedInv
<1>7. ProgressInv'
  BY <1>1, <1>2, <1>3, <1>4, <1>5 DEF PlayIInv, ProgressInv, after
<1>8. StartedLevelsWereUnlocked'
  <2> SUFFICES ASSUME NEW d \in Campaigns, NEW level \in 1..TotalLevels[d],
                      progress'[d] # NotJoined, level < progress'[d].nextLevel, Scheduled(d, level)
               PROVE  UnlockTime(d, progress'[d].joinedAt, level) <= now
    BY <1>2, NobodyAssumption DEF StartedLevelsWereUnlocked, Started, Scheduled, Paced, UnlockTime
  <2>1. progress[d] # NotJoined /\ progress'[d].joinedAt = progress[d].joinedAt
    BY <1>1, <1>3, <1>4 DEF after
  <2>2. level < progress[d].nextLevel \/ active = <<d, level>>
    <3>1. level \in Nat /\ progress[d].nextLevel \in Nat
      BY <2>1, RulesAssumption DEF PlayIInv, PlayTypeOK, CampaignProgress
    <3> QED
      BY <1>1, <1>3, <1>4, <3>1 DEF after
  <2> QED
    BY <2>1, <2>2 DEF PlayIInv, StartedLevelsWereUnlocked, Started
<1>9. PrerequisitesAreMet'
  <2>1. ASSUME NEW d \in Campaigns, progress'[d] # NotJoined PROVE Met(d, progress')
    <3>1. Met(d, progress)
      BY <1>1, <1>4, <2>1 DEF PlayIInv, PrerequisitesAreMet
    <3>2. \A e \in Campaigns : progress[e] # NotJoined =>
            /\ progress'[e] # NotJoined
            /\ progress[e].completed => progress'[e].completed
            /\ progress[e].completedLevels <= progress'[e].completedLevels
      <4>1. \A e \in Campaigns : progress[e] # NotJoined =>
              progress[e].completedLevels <= progress[e].completedLevels
        BY DEF PlayIInv, PlayTypeOK, CampaignProgress
      <4> QED
        BY <1>3, <1>4, <1>5, <4>1 DEF after
    <3>3. progress \in [Campaigns -> {NotJoined} \cup CampaignProgress]
      BY DEF PlayIInv, PlayTypeOK
    <3> QED
      BY <1>4, <3>1, <3>2, <3>3, MetMonotone
  <2> QED
    BY <2>1 DEF PrerequisitesAreMet, Met
<1> QED
  BY <1>2, <1>6, <1>7, <1>8, <1>9 DEF PlayIInv

-----------------------------------------------------------------------------
(* The theorems about the composition. *)

\* The invariant holds in every reachable state.
THEOREM PlayInductive == PlaySpec => []PlayIInv
<1>1. PlayIInv /\ [PlayNext]_playVars => PlayIInv'
  <2> SUFFICES ASSUME PlayIInv, [PlayNext]_playVars PROVE PlayIInv'
    OBVIOUS
  <2>1. CASE Next /\ UNCHANGED playerVars
    <3>1. now' \in Nat /\ now <= now'
      BY <2>1, ClockStep DEF PlayIInv
    <3> QED
      BY <2>1, <3>1, IdleStep
  <2>2. ASSUME NEW c \in Campaigns, NEW level \in 1..TotalLevels[c], AskForLevel(c, level)
        PROVE  PlayIInv'
    BY <2>2, AskStep
  <2>3. CASE ResolveLevel \/ StartFails \/ BeginLevel \/ SolveLevel \/ TimeOutLevel
    BY <2>3, ResolveStep, FailStep, BeginStep, ResultStep
  <2>4. CASE UNCHANGED playVars
    <3>1. now' = now /\ now \in Nat /\ UNCHANGED playerVars
      BY <2>4 DEF playVars, playerVars, vars, PlayIInv
    <3>2. now <= now'
      BY <3>1
    <3> QED
      BY <3>1, <3>2, IdleStep
  <2> QED
    BY <2>1, <2>2, <2>3, <2>4 DEF PlayNext
<1> QED
  BY InitPlay, <1>1, PTL DEF PlaySpec

\* No level starts before the unlock time its page shows, for any campaigns and
\* paces (unlockedWordflowLevels against wordflowLevelUnlockTime).
THEOREM NoEarlyStart == PlaySpec => []StartedLevelsWereUnlocked
<1>1. PlayIInv => StartedLevelsWereUnlocked
  BY DEF PlayIInv
<1> QED
  BY PlayInductive, <1>1, PTL

\* Nobody plays a campaign before its prerequisites (campaignEligibility).
THEOREM PrerequisitesHold == PlaySpec => []PrerequisitesAreMet
<1>1. PlayIInv => PrerequisitesAreMet
  BY DEF PlayIInv
<1> QED
  BY PlayInductive, <1>1, PTL

\* The page offers a level from the unlock time it shows and not before, for any
\* pace, interval and time of joining (wordflowCampaignView).
THEOREM PageTellsTheTime == PlaySpec => []ShownTimesHold
<1>1. PlayIInv => ShownTimesHold
  <2> SUFFICES ASSUME PlayIInv, NEW c \in Campaigns,
                      NEW level \in NextLevel(c, player)..TotalLevels[c],
                      Scheduled(c, level), active = None
               PROVE  LevelStatus(c, level, player, now) # "locked"
                        <=> /\ Eligible(c, player, now)
                            /\ UnlockTime(c, JoinedAt(c, player, now), level) <= now
    BY DEF ShownTimesHold
  <2>1. now \in Nat /\ TotalLevels[c] \in Nat
    BY RulesAssumption DEF PlayIInv
  <2>2. player.progress = progress /\ player.active = active
    BY DEF player
  <2>3. NextLevel(c, player) \in Nat \ {0}
    BY <2>2 DEF NextLevel, PlayIInv, PlayTypeOK, CampaignProgress
  <2>4. level \in 1..TotalLevels[c] /\ ~(level < NextLevel(c, player))
    BY <2>1, <2>3
  <2>5. JoinedAt(c, player, now) \in Nat /\ JoinedAt(c, player, now) <= now
    BY <2>1, <2>2 DEF JoinedAt, PlayIInv, PlayTypeOK, ProgressInv, CampaignProgress
  <2>6. level <= Unlocked(c, JoinedAt(c, player, now), now)
            <=> UnlockTime(c, JoinedAt(c, player, now), level) <= now
    BY <2>1, <2>4, <2>5, UnlockAgrees
  <2>7. player.active # <<c, level>>
    BY <2>1, <2>2, <2>4, NobodyAssumption
  <2>8. LevelStatus(c, level, player, now) # "locked"
            <=> Eligible(c, player, now) /\ level <= Unlocked(c, JoinedAt(c, player, now), now)
    BY <2>2, <2>4, <2>7 DEF LevelStatus
  <2> QED
    BY <2>6, <2>8
<1> QED
  BY PlayInductive, <1>1, PTL

-----------------------------------------------------------------------------
(* The composition keeps what was proved of the catalog. *)

\* Whatever the player asks, the catalog and its campaigns behave as module
\* Catalog says.
THEOREM CatalogIsCatalog == PlaySpec => Spec
<1>1. PlayInit => Init
  BY DEF PlayInit
<1>2. [PlayNext]_playVars => [Next]_vars
  BY DEF PlayNext, playVars, AskForLevel, Asks, ResolveLevel, StartFails, BeginLevel, SolveLevel,
         TimeOutLevel
<1> QED
  BY <1>1, <1>2, PTL DEF PlaySpec, Spec

-----------------------------------------------------------------------------
(* What the page offered is granted. *)

\* Integer division keeps the order.
LEMMA DivisionMonotone ==
  ASSUME NEW a \in Nat, NEW b \in Nat, NEW m \in Nat \ {0}, a <= b
  PROVE  a \div m <= b \div m
<1> DEFINE p == a \div m
           q == b \div m
<1>1. p \in Nat /\ p * m <= a
  BY DivisionBounds
<1>2. q \in Nat /\ b < q * m + m
  BY DivisionBounds
<1> HIDE DEF p, q
<1> SUFFICES ASSUME q + 1 <= p PROVE FALSE
  BY <1>1, <1>2 DEF p, q
<1>3. (q + 1) * m <= p * m
  BY <1>1, <1>2, TimesMonotone
<1>4. (q + 1) * m = q * m + m
  BY <1>2
<1>5. p * m \in Nat /\ q * m \in Nat
  BY <1>1, <1>2
<1> QED
  BY <1>1, <1>2, <1>3, <1>4, <1>5

\* A level that has unlocked does not lock again.
LEMMA UnlockedGrows ==
  ASSUME NEW c \in Campaigns, NEW joinedAt \in Nat, NEW at \in Nat, NEW time \in Nat, at <= time
  PROVE  Unlocked(c, joinedAt, at) <= Unlocked(c, joinedAt, time)
<1> DEFINE pace == LevelsPerInterval[c]
           passed(t) == IF Paced(c) /\ t > joinedAt THEN (t - joinedAt) \div Interval[c] ELSE 0
<1>1. /\ InitialLevels[c] \in Nat /\ pace \in Nat /\ TotalLevels[c] \in Nat
      /\ Paced(c) => Interval[c] \in Nat \ {0}
  BY RulesAssumption DEF Paced
<1>2. passed(at) \in Nat /\ passed(time) \in Nat
  BY <1>1, DivisionBounds
<1>3. passed(at) <= passed(time)
  <2>1. CASE Paced(c) /\ at > joinedAt
    <3>1. at - joinedAt \in Nat /\ time - joinedAt \in Nat /\ at - joinedAt <= time - joinedAt
      BY <2>1
    <3>2. (at - joinedAt) \div Interval[c] <= (time - joinedAt) \div Interval[c]
      BY <1>1, <2>1, <3>1, DivisionMonotone
    <3> QED
      BY <2>1, <3>2
  <2>2. CASE ~(Paced(c) /\ at > joinedAt)
    BY <1>2, <2>2
  <2> QED
    BY <2>1, <2>2
<1>4. /\ Unlocked(c, joinedAt, at) = Smaller(InitialLevels[c] + passed(at) * pace, TotalLevels[c])
      /\ Unlocked(c, joinedAt, time) = Smaller(InitialLevels[c] + passed(time) * pace, TotalLevels[c])
  BY DEF Unlocked
<1> HIDE DEF passed, pace
<1>5. /\ passed(at) * pace \in Nat /\ passed(time) * pace \in Nat
      /\ passed(at) * pace <= passed(time) * pace
  BY <1>1, <1>2, <1>3, TimesMonotone DEF pace
<1> QED
  BY <1>1, <1>4, <1>5 DEF Smaller

\* The number of levels that are unlocked is a number.
LEMMA UnlockedType ==
  ASSUME NEW c \in Campaigns, NEW joinedAt \in Nat, NEW time \in Nat
  PROVE  Unlocked(c, joinedAt, time) \in Nat
<1> DEFINE passed == IF Paced(c) /\ time > joinedAt THEN (time - joinedAt) \div Interval[c] ELSE 0
<1>1. /\ InitialLevels[c] \in Nat /\ LevelsPerInterval[c] \in Nat /\ TotalLevels[c] \in Nat
      /\ Paced(c) => Interval[c] \in Nat \ {0}
  BY RulesAssumption DEF Paced
<1>2. passed \in Nat
  BY <1>1, DivisionBounds
<1>3. Unlocked(c, joinedAt, time)
        = Smaller(InitialLevels[c] + passed * LevelsPerInterval[c], TotalLevels[c])
  BY DEF Unlocked
<1> HIDE DEF passed
<1>4. passed * LevelsPerInterval[c] \in Nat
  BY <1>1, <1>2
<1> QED
  BY <1>1, <1>3, <1>4 DEF Smaller

\* What was available at one time is available later, with the campaign joined
\* as of that time, unless the campaign has ended.
LEMMA StillAllowed ==
  ASSUME PlayTypeOK, active = None,
         NEW ask \in Questions, NEW time \in Nat, ask.at <= time,
         Allowed(ask.campaign, ask.level, player, ask.at),
         Status(ask.campaign, time) # "ended"
  PROVE  Allowed(ask.campaign, ask.level, ProgressForStart(ask), time)
<1> DEFINE c == ask.campaign
           after == JoinedProgress(c, ask.at)
<1>1. c \in Campaigns /\ ask.level \in Nat /\ ask.at \in Nat
  BY DEF Questions
<1>2. /\ ProgressForStart(ask).progress = after /\ ProgressForStart(ask).active = None
      /\ player.progress = progress /\ player.active = None
  BY DEF ProgressForStart, player
<1>3. /\ ask.level \in 1..TotalLevels[c]
      /\ Eligible(c, player, ask.at)
      /\ ask.level <= Unlocked(c, JoinedAt(c, player, ask.at), ask.at)
      /\ ask.level = NextLevel(c, player)
  BY <1>2 DEF Allowed, LevelStatus
<1>4. /\ \A d \in Campaigns : progress[d] # NotJoined => after[d] = progress[d]
      /\ after[c] # NotJoined /\ after[c].joinedAt = JoinedAt(c, player, ask.at)
      /\ after[c].nextLevel = NextLevel(c, player)
      /\ progress[c] = NotJoined => ~after[c].failed
  <2>1. CASE progress[c] = NotJoined
    <3>1. after = [progress EXCEPT ![c] = Joined(ask.at)]
      BY <2>1 DEF JoinedProgress
    <3>2. after[c] = Joined(ask.at) /\ \A d \in Campaigns : d # c => after[d] = progress[d]
      BY <1>1, <3>1 DEF PlayTypeOK
    <3>3. Joined(ask.at) # NotJoined
      <4>1. Joined(ask.at) \in CampaignProgress
        BY <1>1 DEF Joined, CampaignProgress
      <4> QED
        BY <4>1, NobodyAssumption
    <3> HIDE DEF after
    <3> QED
      BY <1>2, <2>1, <3>2, <3>3 DEF JoinedAt, NextLevel, Joined
  <2>2. CASE progress[c] # NotJoined
    BY <1>2, <2>2 DEF JoinedProgress, JoinedAt, NextLevel
  <2> QED
    BY <2>1, <2>2
<1>5. JoinedAt(c, player, ask.at) \in Nat
  BY <1>1, <1>2 DEF JoinedAt, PlayTypeOK, CampaignProgress
<1> HIDE DEF after
<1>6. Status(c, time) = "active"
  BY <1>1, <1>3, RulesAssumption DEF Eligible, Status
<1>7. Eligible(c, ProgressForStart(ask), time)
  <2>1. RequiredCampaigns[c] \subseteq Campaigns /\ RequiredLevels[c] \subseteq Campaigns \X Nat
    BY <1>1, RulesAssumption
  <2>2. \A d \in RequiredCampaigns[c] : progress[d] # NotJoined /\ progress[d].completed
    BY <1>2, <1>3 DEF Eligible
  <2>3. \A r \in RequiredLevels[c] : /\ progress[r[1]] # NotJoined
                                    /\ progress[r[1]].completedLevels >= r[2]
    BY <1>2, <1>3 DEF Eligible
  <2>4. c \in SingleAttempt => ~after[c].failed
    BY <1>1, <1>2, <1>3, <1>4 DEF Eligible
  <2>5. \A d \in RequiredCampaigns[c] : after[d] # NotJoined /\ after[d].completed
    BY <1>4, <2>1, <2>2
  <2>6. \A r \in RequiredLevels[c] : after[r[1]] # NotJoined /\ after[r[1]].completedLevels >= r[2]
    BY <1>4, <2>1, <2>3
  <2> QED
    BY <1>2, <1>6, <2>4, <2>5, <2>6 DEF Eligible
<1>8. ask.level <= Unlocked(c, after[c].joinedAt, time)
  <2> DEFINE joinedAt == JoinedAt(c, player, ask.at)
             before == Unlocked(c, joinedAt, ask.at)
             later == Unlocked(c, joinedAt, time)
  <2>1. joinedAt \in Nat /\ c \in Campaigns /\ after[c].joinedAt = joinedAt
    BY <1>1, <1>4, <1>5
  <2>2. ask.level <= before
    BY <1>3
  <2> HIDE DEF joinedAt, c
  <2>3. before \in Nat /\ later \in Nat /\ before <= later
    BY <1>1, <2>1, UnlockedGrows, UnlockedType
  <2> QED
    BY <1>1, <2>1, <2>2, <2>3
<1>9. /\ JoinedAt(c, ProgressForStart(ask), time) = after[c].joinedAt
      /\ NextLevel(c, ProgressForStart(ask)) = ask.level
  BY <1>2, <1>3, <1>4 DEF JoinedAt, NextLevel
<1>10. LevelStatus(c, ask.level, ProgressForStart(ask), time) = "available"
  <2>1. ProgressForStart(ask).active # <<c, ask.level>>
    BY <1>1, <1>2, NobodyAssumption
  <2>2. ~(ask.level < NextLevel(c, ProgressForStart(ask)))
    BY <1>1, <1>9
  <2>3. ask.level <= Unlocked(c, JoinedAt(c, ProgressForStart(ask), time), time)
    BY <1>8, <1>9
  <2> QED
    BY <1>2, <1>7, <1>9, <2>1, <2>2, <2>3 DEF LevelStatus
<1> QED
  BY <1>3, <1>10 DEF Allowed

\* The progress and the time of a request do not change while it waits.
LEMMA ShownStep ==
  ASSUME PlayTypeOK, ShownInv, [PlayNext]_playVars
  PROVE  ShownInv'
<1> USE DEF ShownInv
<1>1. ASSUME NEW k \in Campaigns, NEW level \in 1..TotalLevels[k], AskForLevel(k, level)
      PROVE  ShownInv'
  <2>1. /\ asking'.shown => Allowed(asking'.campaign, asking'.level, player, asking'.at)
        /\ player' = player
    BY <1>1 DEF AskForLevel, Asks, player
  <2> QED
    BY <2>1 DEF Allowed, LevelStatus, Eligible, Status, Unlocked, JoinedAt, NextLevel, Paced, Smaller
<1>2. ASSUME player' = player,
             \/ asking' = asking
             \/ asking' = None
             \/ asking # None /\ asking' = [asking EXCEPT !.allowed = TRUE]
      PROVE  ShownInv'
  <2>1. asking' # None => /\ asking # None /\ asking'.shown = asking.shown /\ asking'.at = asking.at
                         /\ asking'.campaign = asking.campaign /\ asking'.level = asking.level
    BY <1>2 DEF PlayTypeOK, Questions
  <2> QED
    BY <1>2, <2>1
    DEF Allowed, LevelStatus, Eligible, Status, Unlocked, JoinedAt, NextLevel, Paced, Smaller
<1>3. CASE Next /\ UNCHANGED playerVars
  BY <1>2, <1>3 DEF playerVars, player
<1>4. CASE ResolveLevel
  BY <1>2, <1>4 DEF ResolveLevel, player
<1>5. CASE BeginLevel \/ StartFails
  BY <1>5 DEF BeginLevel, StartFails
<1>6. CASE SolveLevel \/ TimeOutLevel
  BY <1>6 DEF SolveLevel, TimeOutLevel, PlayTypeOK
<1>7. CASE UNCHANGED playVars
  BY <1>2, <1>7 DEF playVars, player
<1> QED
  BY <1>1, <1>3, <1>4, <1>5, <1>6, <1>7 DEF PlayNext

\* A refusal of what was shown.
LEMMA RefusalMeans ==
  ASSUME PlayIInv, ShownInv, PlayNext,
         asking # None, asking' = None, active' = None, asking.shown
  PROVE  \/ Status(asking.campaign, now) = "ended"
         \/ asking.campaign \notin listed
         \/ asking.allowed
<1> SUFFICES ASSUME ~asking.allowed
             PROVE  Status(asking.campaign, now) = "ended" \/ asking.campaign \notin listed
  OBVIOUS
<1>1. asking \in Questions /\ asking.at <= now /\ now \in Nat
  BY DEF PlayIInv, PlayTypeOK, AllowedInv
<1>2. ResolveLevel
  <2>1. ~(BeginLevel \/ StartFails)
    BY DEF BeginLevel, StartFails
  <2>2. ~(SolveLevel \/ TimeOutLevel)
    BY DEF SolveLevel, TimeOutLevel, PlayIInv, PlayTypeOK
  <2> QED
    BY <2>1, <2>2 DEF PlayNext, playerVars, AskForLevel, Asks
<1>3. [asking EXCEPT !.allowed = TRUE] # None
  BY <1>1, NobodyAssumption DEF Questions
<1>4. \/ asking.campaign \notin listed
      \/ ~Allowed(asking.campaign, asking.level, ProgressForStart(asking), now)
  BY <1>2, <1>3 DEF ResolveLevel
<1>5. active = None
  BY DEF PlayIInv, PlayTypeOK
<1> QED
  BY <1>1, <1>4, <1>5, StillAllowed DEF PlayIInv, ShownInv

\* A level that the page offered when it was asked for is refused by the query
\* only when its campaign has ended or has left the catalog, however late it is
\* answered (ResolveWordflowLevel with the progress that StartLevel copied); an
\* allowed one is lost only to a failing start of its child.
THEOREM OffersAreKept == PlaySpec => GrantedAsShown
<1>1. PlayInit => ShownInv
  BY DEF PlayInit, ShownInv
<1>2. PlayIInv /\ ShownInv /\ [PlayNext]_playVars => ShownInv'
  BY ShownStep DEF PlayIInv
<1>3. PlayIInv /\ ShownInv /\ [PlayNext]_playVars
        => [asking # None /\ asking' = None /\ active' = None /\ asking.shown =>
              \/ Status(asking.campaign, now) = "ended"
              \/ asking.campaign \notin listed
              \/ asking.allowed]_playVars
  BY RefusalMeans
<1> QED
  BY <1>1, <1>2, <1>3, PlayInductive, PTL DEF PlaySpec, GrantedAsShown

=============================================================================
