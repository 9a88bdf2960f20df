----------------------------- MODULE CampaignRules -----------------------------
(***************************************************************************)
(* When a player may start a level: wordflowCampaignView and               *)
(* resolveWordflowLevel of internal/workflows/wordflow_campaign.go, pure   *)
(* functions of a campaign's definition, of a player's progress and of the *)
(* time.  A player here is a record                                        *)
(*   [progress: campaign -> its PlayerCampaignProgress, or NotJoined,      *)
(*    active: the campaign and level of the active level, or None].        *)
(***************************************************************************)
EXTENDS Integers

CONSTANTS
    StartsAt,          \* Definition.StartsAt; 0 stands for nil
    EndsAt,            \* Definition.EndsAt, or Never
    SingleAttempt,     \* the campaigns whose attempt ends with a time-out
    RequiredCampaigns, \* Requirements.Campaigns
    RequiredLevels,    \* Requirements.Levels, pairs of a campaign and a level
    InitialLevels, LevelsPerInterval, Interval, \* Definition.Unlock
    TotalLevels,       \* number of levels
    Never, NotJoined, None

Smaller(a, b) == IF a <= b THEN a ELSE b

\* wordflowCampaignStatus
Status(c, time) ==
    IF time < StartsAt[c] THEN "upcoming"
    ELSE IF EndsAt[c] # Never /\ time >= EndsAt[c] THEN "ended"
    ELSE "active"

\* Fault: any level of the required campaign will do.
EligibleByJoining(c, player, time) ==
    /\ Status(c, time) = "active"
    /\ \A required \in RequiredLevels[c] : player.progress[required[1]] # NotJoined

\* campaignEligibility
Eligible(c, player, time) ==
    /\ Status(c, time) = "active"
    /\ c \in SingleAttempt /\ player.progress[c] # NotJoined => ~player.progress[c].failed
    /\ \A required \in RequiredCampaigns[c] :
        player.progress[required] # NotJoined /\ player.progress[required].completed
    /\ \A required \in RequiredLevels[c] :
        /\ player.progress[required[1]] # NotJoined
        /\ player.progress[required[1]].completedLevels >= required[2]

\* Whoever has not joined joins now.
JoinedAt(c, player, time) ==
    IF player.progress[c] = NotJoined THEN time ELSE player.progress[c].joinedAt

NextLevel(c, player) ==
    IF player.progress[c] = NotJoined THEN 1 ELSE player.progress[c].nextLevel

Paced(c) == LevelsPerInterval[c] > 0 /\ Interval[c] > 0

\* Fault: an interval that has begun counts.
UnlockedEarly(c, joinedAt, time) ==
    LET begun == IF Paced(c) /\ time > joinedAt
                 THEN (time - joinedAt + Interval[c] - 1) \div Interval[c] ELSE 0
    IN  Smaller(InitialLevels[c] + begun * LevelsPerInterval[c], TotalLevels[c])

\* unlockedWordflowLevels
Unlocked(c, joinedAt, time) ==
    LET passed == IF Paced(c) /\ time > joinedAt
                  THEN (time - joinedAt) \div Interval[c] ELSE 0
    IN  Smaller(InitialLevels[c] + passed * LevelsPerInterval[c], TotalLevels[c])

\* wordflowLevelUnlockTime, which the campaign's page shows.
UnlockTime(c, joinedAt, level) ==
    IF level <= InitialLevels[c] \/ ~Paced(c) THEN joinedAt
    ELSE LET intervals == (level - InitialLevels[c] + LevelsPerInterval[c] - 1)
                              \div LevelsPerInterval[c]
         IN  joinedAt + intervals * Interval[c]

\* The status of a level on the page of its campaign (wordflowCampaignView).
LevelStatus(c, level, player, time) ==
    LET eligible == Eligible(c, player, time) /\ (player.active # None => player.active[1] = c)
        unlocked == level <= Unlocked(c, JoinedAt(c, player, time), time)
    IN  IF level < NextLevel(c, player) THEN "complete"
        ELSE IF player.active = <<c, level>> THEN "active"
        ELSE IF ~eligible \/ ~unlocked THEN "locked"
        ELSE IF level = NextLevel(c, player) THEN "available" ELSE "unlocked"

\* resolveWordflowLevel
Allowed(c, level, player, time) ==
    level \in 1..TotalLevels[c] /\ LevelStatus(c, level, player, time) = "available"

=============================================================================
