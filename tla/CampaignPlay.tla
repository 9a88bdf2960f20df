---------------------------- MODULE CampaignPlay ----------------------------
(***************************************************************************)
(* A player (the StartLevel handler and the level results of               *)
(* internal/workflows/player.go) against the catalog and its campaigns.    *)
(* The handler copies its progress into the ResolveWordflowLevel Activity, *)
(* which queries the catalog at some later time; the level starts later    *)
(* still.  The mutex keeps the progress unchanged meanwhile, as Player     *)
(* shows.  The query's wall clock and Workflow time are one clock here.    *)
(***************************************************************************)
EXTENDS Catalog

CONSTANTS
    StartsAt, SingleAttempt, RequiredCampaigns, RequiredLevels,
    InitialLevels, LevelsPerInterval, Interval, TotalLevels,
    NotJoined, None

ASSUME RulesAssumption ==
    /\ StartsAt \in [Campaigns -> Nat]
    /\ SingleAttempt \subseteq Campaigns
    /\ RequiredCampaigns \in [Campaigns -> SUBSET Campaigns]
    /\ RequiredLevels \in [Campaigns -> SUBSET (Campaigns \X Nat)]
    /\ InitialLevels \in [Campaigns -> Nat] /\ LevelsPerInterval \in [Campaigns -> Nat]
    /\ Interval \in [Campaigns -> Nat] /\ TotalLevels \in [Campaigns -> Nat]

INSTANCE CampaignRules

CampaignProgress == [joinedAt: Nat, nextLevel: Nat \ {0}, completedLevels: Nat,
                     completed: BOOLEAN, failed: BOOLEAN]

Questions == [campaign: Campaigns, level: Nat, at: Nat, allowed: BOOLEAN, shown: BOOLEAN]

ASSUME NobodyAssumption ==
    /\ NotJoined \notin CampaignProgress
    /\ None \notin Questions /\ None \notin Campaigns \X Nat

VARIABLES
    progress, \* PlayerState.Campaigns
    active,   \* PlayerState.ActiveGame
    asking    \* the StartLevel handler that waits for its Activity or child

playerVars == <<progress, active, asking>>
playVars   == <<vars, progress, active, asking>>

player == [progress |-> progress, active |-> active]

Joined(time) == [joinedAt |-> time, nextLevel |-> 1, completedLevels |-> 0,
                 completed |-> FALSE, failed |-> FALSE]

PlayInit ==
    /\ Init
    /\ progress = [c \in Campaigns |-> NotJoined]
    /\ active = None /\ asking = None

-----------------------------------------------------------------------------

Asks(c, level) ==
    /\ asking = None
    /\ asking' = [campaign |-> c, level |-> level, at |-> now, allowed |-> FALSE,
                  shown |-> c \in listed /\ Allowed(c, level, player, now)]
    /\ UNCHANGED <<vars, progress, active>>

\* The handler has the mutex; `shown` is what the page shows at this moment.
AskForLevel(c, level) == active = None /\ Asks(c, level)

\* The progress with the campaign that is asked for joined.
JoinedProgress(c, at) ==
    IF progress[c] = NotJoined THEN [progress EXCEPT ![c] = Joined(at)] ELSE progress

\* Fault: the level counts as active before it is resolved.
ProgressWithLevel(ask) ==
    [progress |-> JoinedProgress(ask.campaign, ask.at),
     active |-> <<ask.campaign, ask.level>>]

\* campaignProgressForStart
ProgressForStart(ask) == [progress |-> JoinedProgress(ask.campaign, ask.at), active |-> active]

\* The Activity's query is answered; a refusal ends the handler.
ResolveLevel ==
    /\ asking # None /\ ~asking.allowed
    /\ catalog # "none"
    /\ asking' = IF /\ asking.campaign \in listed
                    /\ Allowed(asking.campaign, asking.level, ProgressForStart(asking), now)
                 THEN [asking EXCEPT !.allowed = TRUE] ELSE None
    /\ UNCHANGED <<vars, progress, active>>

\* Fault: every level joins the campaign anew.
Rejoin(c, at) ==
    [progress EXCEPT ![c] = IF @ = NotJoined THEN Joined(at) ELSE [@ EXCEPT !.joinedAt = at]]

\* joinPlayerCampaign
JoinCampaign(c, at) == JoinedProgress(c, at)

\* The start of the child fails, and the handler with it.
StartFails ==
    /\ asking # None /\ asking.allowed
    /\ asking' = None
    /\ UNCHANGED <<vars, progress, active>>

\* The start of the child is recorded.
BeginLevel ==
    /\ asking # None /\ asking.allowed
    /\ progress' = JoinCampaign(asking.campaign, asking.at)
    /\ active' = <<asking.campaign, asking.level>>
    /\ asking' = None
    /\ UNCHANGED vars

\* applyLevelResult
Advance(solved, total) ==
    [solved EXCEPT !.nextLevel = solved.nextLevel + 1,
                   !.completedLevels = solved.completedLevels + 1,
                   !.completed = solved.completedLevels + 1 >= total]

SolveLevel ==
    /\ active # None
    /\ progress' = [progress EXCEPT ![active[1]] = Advance(@, TotalLevels[active[1]])]
    /\ active' = None
    /\ UNCHANGED <<vars, asking>>

TimeOutLevel ==
    /\ active # None
    /\ progress' = [progress EXCEPT ![active[1]].failed = TRUE]
    /\ active' = None
    /\ UNCHANGED <<vars, asking>>

PlayNext ==
    \/ Next /\ UNCHANGED playerVars
    \/ \E c \in Campaigns : \E level \in 1..TotalLevels[c] : AskForLevel(c, level)
    \/ ResolveLevel \/ StartFails \/ BeginLevel
    \/ SolveLevel \/ TimeOutLevel

PlaySpec == PlayInit /\ [][PlayNext]_playVars

-----------------------------------------------------------------------------
(* Properties. *)

\* The levels whose unlock time the page shows is the time they unlock: a level
\* beyond the initial ones of a campaign without a pace never unlocks.
Scheduled(c, level) == level <= InitialLevels[c] \/ Paced(c)

Started(c, level) ==
    progress[c] # NotJoined /\ (level < progress[c].nextLevel \/ active = <<c, level>>)

\* Every variable has its type, and no question is asked during a level.
PlayTypeOK ==
    /\ progress \in [Campaigns -> {NotJoined} \cup CampaignProgress]
    /\ active \in {None} \cup (Campaigns \X Nat)
    /\ asking \in {None} \cup Questions
    /\ active # None => asking = None /\ progress[active[1]] # NotJoined

\* No level starts before the time its page showed, however long ago the player
\* asked and whenever the campaign was joined.
StartedLevelsWereUnlocked ==
    \A c \in Campaigns : \A level \in 1..TotalLevels[c] :
        Started(c, level) /\ Scheduled(c, level)
            => UnlockTime(c, progress[c].joinedAt, level) <= now

\* The page offers a level exactly from the unlock time it shows.
ShownTimesHold ==
    \A c \in Campaigns : \A level \in NextLevel(c, player)..TotalLevels[c] :
        Scheduled(c, level) /\ active = None =>
            (LevelStatus(c, level, player, now) # "locked"
                <=> /\ Eligible(c, player, now)
                    /\ UnlockTime(c, JoinedAt(c, player, now), level) <= now)

\* campaignEligibility, of a player's prerequisites.
Met(c, byCampaign) ==
    /\ \A d \in RequiredCampaigns[c] : byCampaign[d] # NotJoined /\ byCampaign[d].completed
    /\ \A r \in RequiredLevels[c] :
          byCampaign[r[1]] # NotJoined /\ byCampaign[r[1]].completedLevels >= r[2]

\* Nobody is in a campaign whose prerequisites they have not met.
PrerequisitesAreMet == \A c \in Campaigns : progress[c] # NotJoined => Met(c, progress)

\* A level that was available when the player asked is not granted only if its
\* campaign has ended, is not in the catalog any more, or if the query allowed the
\* level and the start of its child failed.
GrantedAsShown ==
    [][asking # None /\ asking' = None /\ active' = None /\ asking.shown =>
          \/ Status(asking.campaign, now) = "ended"
          \/ asking.campaign \notin listed
          \/ asking.allowed]_playVars

-----------------------------------------------------------------------------
(* The inductive invariant behind them. *)

\* Campaigns were joined in the past, and the active level is the next one.
ProgressInv ==
    /\ \A c \in Campaigns : progress[c] # NotJoined =>
          /\ progress[c].joinedAt <= now
          /\ progress[c].completed => progress[c].completedLevels >= TotalLevels[c]
    /\ active # None => active[2] = progress[active[1]].nextLevel

\* An allowed level stays allowed by the clock and by the prerequisites.
AllowedInv ==
    asking # None =>
        /\ asking.at <= now
        /\ asking.allowed =>
              LET joined == JoinedProgress(asking.campaign, asking.at)
              IN  /\ asking.level = joined[asking.campaign].nextLevel
                  /\ Met(asking.campaign, joined)
                  /\ Scheduled(asking.campaign, asking.level) =>
                        UnlockTime(asking.campaign, joined[asking.campaign].joinedAt, asking.level) <= now

\* What the page showed still holds of the progress and the time of the request.
ShownInv ==
    asking # None /\ asking.shown =>
        Allowed(asking.campaign, asking.level, player, asking.at)

PlayIInv ==
    /\ now \in Nat /\ PlayTypeOK /\ ProgressInv /\ AllowedInv
    /\ StartedLevelsWereUnlocked /\ PrerequisitesAreMet

=============================================================================
