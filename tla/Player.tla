------------------------------- MODULE Player -------------------------------
(***************************************************************************)
(* The PlayerWorkflow entity of internal/workflows/player.go: one account, *)
(* its campaign progress, its one open level, and the event loop that      *)
(* applies level results, publishes scores and Continues-As-New.           *)
(*                                                                         *)
(* A workflow is a set of cooperative coroutines.  A step of this module   *)
(* is what one coroutine does between two blocking calls:                  *)
(*   - an Update is first validated, without the mutex (Accept), and its   *)
(*     handler then runs as a coroutine of its own (a slot);               *)
(*   - only the StartLevel handler blocks while it holds the mutex, on the *)
(*     resolve Activity and on the recorded start of the child Workflow;   *)
(*   - the main coroutine blocks in selector.Select, then in the Await for *)
(*     the handlers that precedes Continue-As-New.                         *)
(* The level child, the publish Activity, the clock and the requests are   *)
(* the environment.  Times are calendar days of the player's time zone;    *)
(* names, titles and LastSeenAt are left out.                              *)
(***************************************************************************)
EXTENDS Integers, Sequences, FiniteSets

CONSTANTS
    Campaigns,      \* campaign IDs the catalog knows
    MaxLevel,       \* bound: requests name levels 1..MaxLevel
    TotalLevels,    \* number of levels of each campaign
    SingleAttempt,  \* the campaigns a time-out closes for good
    Awards,         \* points a solved level can be worth
    Prices,         \* points a paid hint can cost
    FreezeCost,     \* streakFreezePointCost
    Hashes,         \* password hashes that callers present
    Slots,          \* bound: Updates being handled at one time
    MaxDay,         \* bound: last day of the run
    ChildMayFail,   \* whether a level child can fail (be terminated)
    NoHash, None    \* model values: the empty hash, no level / nobody

ASSUME CampaignsAssumption ==
    /\ MaxLevel \in Nat \ {0}
    /\ TotalLevels \in [Campaigns -> 1..MaxLevel]
    /\ SingleAttempt \subseteq Campaigns

ASSUME PointsAssumption ==
    /\ Awards \subseteq Nat
    /\ Prices \subseteq Nat \ {0}
    /\ FreezeCost \in Nat \ {0}

ASSUME BoundsAssumption ==
    /\ MaxDay \in Nat \ {0}
    /\ ChildMayFail \in BOOLEAN
    /\ NoHash \notin Hashes
    /\ None \notin Slots
    /\ None \notin Campaigns \X (1..MaxLevel)

LevelIds == Campaigns \X (1..MaxLevel)   \* wordflow-level/{player}/{campaign}/{level}
NoDay    == -1                           \* LastCompletionDay == ""
Days     == 1..MaxDay

VARIABLES
    account,     \* PlayerState: credentials, points and streak
    progress,    \* PlayerState.Campaigns
    completed,   \* PlayerState.CompletedLevels
    active,      \* PlayerState.ActiveGame
    pc, op, seen,\* per slot: where the handler is, its Update, its snapshot
    lock,        \* workflow.NewMutex: the slot that holds it
    changed,     \* the buffered channel of capacity 1 that wakes the loop
    upgrade,     \* a request-version-upgrade signal is in its channel
    continueRequested,
    mainPc,      \* "select", "await" (for the handlers) or "failed"
    armed,       \* the selector being waited on includes levelFuture
    levelFuture, \* the level whose result the loop waits for
    boardFuture, \* the score version whose publication it waits for, or 0
    publishing, published, \* score versions in PublishLeaderboard, delivered
    child,       \* the level Workflows
    day          \* workflow.Now

player    == <<account, progress, completed, active>>
handlers  == <<pc, op, seen, lock>>
loop      == <<upgrade, continueRequested, mainPc, armed, levelFuture, boardFuture>>
board     == <<publishing, published>>
vars == <<account, progress, completed, active, pc, op, seen, lock, changed,
          upgrade, continueRequested, mainPc, armed, levelFuture, boardFuture,
          publishing, published, child, day>>

-----------------------------------------------------------------------------
(* Values. *)

Account == [hash: Hashes \cup {NoHash}, points: Int, lifetimePoints: Nat,
            streakFreeze: BOOLEAN, currentStreak: Nat, bestStreak: Nat,
            lastCompletionDay: Days \cup {NoDay}]

Progress == [joined: BOOLEAN, nextLevel: 1..(MaxLevel + 1), totalLevels: 0..MaxLevel,
             completedLevels: 0..MaxLevel, completed: BOOLEAN, failed: BOOLEAN]

Updates ==
    [kind: {"authenticate"}, hash: Hashes, register: BOOLEAN]
        \cup [kind: {"start"}, level: LevelIds]
        \cup [kind: {"spend"}, level: LevelIds, amount: Prices]
        \cup [kind: {"freeze"}]

NoUpdate    == [kind |-> "none"]
NewAccount  == [hash |-> NoHash, points |-> 0, lifetimePoints |-> 0,
                streakFreeze |-> FALSE, currentStreak |-> 0, bestStreak |-> 0,
                lastCompletionDay |-> NoDay]
NotJoined   == [joined |-> FALSE, nextLevel |-> 1, totalLevels |-> 0,
                completedLevels |-> 0, completed |-> FALSE, failed |-> FALSE]
NoChild     == [status |-> "none", day |-> NoDay]

ChildStatus == {"none", "running", "solved", "timedOut", "failed"}

-----------------------------------------------------------------------------
(* The streak. *)

MaxOf(a, b) == IF a >= b THEN a ELSE b

\* A level completed on day `today` starts, extends or keeps the streak, whose
\* previous day may be at most `gap` days back.
StreakAfter(acct, today, gap) ==
    IF acct.lastCompletionDay = today THEN acct
    ELSE LET streak == IF acct.lastCompletionDay \in (today - gap)..(today - 1)
                       THEN acct.currentStreak + 1 ELSE 1
         IN [acct EXCEPT !.currentStreak = streak,
                         !.bestStreak = MaxOf(@, streak),
                         !.lastCompletionDay = today]

\* Fault: a missed day does not end the streak.
UpdateStreakAcrossGap(acct, today) == StreakAfter(acct, today, 2)

UpdateStreak(acct, today) == StreakAfter(acct, today, 1)

\* Authenticating on day `today` spends a ready freeze on exactly one missed
\* day, or resets the streak after a missed day.
ExpireStreak(acct, today) ==
    LET missed  == acct.lastCompletionDay \notin {NoDay, today, today - 1}
        covered == acct.streakFreeze /\ acct.lastCompletionDay = today - 2
    IN  IF ~missed THEN acct
        ELSE IF covered
             THEN [acct EXCEPT !.streakFreeze = FALSE, !.lastCompletionDay = today - 1]
             ELSE [acct EXCEPT !.currentStreak = 0]

-----------------------------------------------------------------------------
(* Validation, run by the Update validators and again by the handlers. *)

ValidateCredentials(u) ==
    IF account.hash = NoHash THEN u.register ELSE account.hash = u.hash

ValidateSpendPoints(u) == active = u.level /\ account.points >= u.amount

ValidateStreakFreezePurchase == ~account.streakFreeze /\ account.points >= FreezeCost

\* Fault: the catalog offers any level the player has not finished yet.
AnyUnfinished(p, level) ==
    /\ p.nextLevel <= level[2] /\ level[2] <= TotalLevels[level[1]]
    /\ ~(level[1] \in SingleAttempt /\ p.failed)

\* Fault: a timed-out single attempt may be started again.
AnyAttempt(p, level) ==
    level[2] = p.nextLevel /\ level[2] <= TotalLevels[level[1]]

\* What the catalog's answer requires of the progress it was sent; it can
\* also refuse for reasons outside the player (see ResolveRefused).
Resolvable(p, level) ==
    /\ level[2] = p.nextLevel
    /\ level[2] <= TotalLevels[level[1]]
    /\ ~(level[1] \in SingleAttempt /\ p.failed)

-----------------------------------------------------------------------------
Init ==
    /\ account = NewAccount
    /\ progress = [c \in Campaigns |-> NotJoined]
    /\ completed = <<>>
    /\ active = None
    /\ pc = [s \in Slots |-> "idle"]
    /\ op = [s \in Slots |-> NoUpdate]
    /\ seen = [s \in Slots |-> NotJoined]
    /\ lock = None
    /\ changed = FALSE /\ upgrade = FALSE /\ continueRequested = FALSE
    /\ mainPc = "select" /\ armed = FALSE
    /\ levelFuture = None /\ boardFuture = 0
    /\ publishing = {} /\ published = {}
    /\ child = [level \in LevelIds |-> NoChild]
    /\ day = 1

-----------------------------------------------------------------------------
(* Update handlers. *)

\* An Update passes its validator and its handler is scheduled.  The API sends
\* StartLevel and BuyStreakFreeze for a session, hence for a claimed name; a
\* level, or a late retry of its Activity, sends SpendPoints.
Accept(s) ==
    /\ mainPc # "failed" /\ pc[s] = "idle"
    /\ \E u \in Updates :
        /\ \/ u.kind = "authenticate" /\ ValidateCredentials(u)
           \/ u.kind = "start" /\ account.hash # NoHash /\ active = None
           \/ /\ u.kind = "spend" /\ child[u.level].status # "none"
              /\ ValidateSpendPoints(u)
           \/ u.kind = "freeze" /\ account.hash # NoHash /\ ValidateStreakFreezePurchase
        /\ op' = [op EXCEPT ![s] = u]
    /\ pc' = [pc EXCEPT ![s] = "accepted"]
    /\ UNCHANGED <<player, seen, lock, changed, loop, board, child, day>>

\* The handler of slot s, which waits for the mutex, runs to its end.
Runs(s, kind) ==
    /\ mainPc # "failed"
    /\ pc[s] = "accepted" /\ op[s].kind = kind /\ lock = None

Returns(s) ==
    /\ pc' = [pc EXCEPT ![s] = "idle"]
    /\ op' = [op EXCEPT ![s] = NoUpdate]
    /\ seen' = [seen EXCEPT ![s] = NotJoined]

\* A handler that does not block: it updates the account and wakes the loop,
\* or returns an error.
Decides(s, kind, valid, acct) ==
    /\ Runs(s, kind) /\ Returns(s)
    /\ IF valid THEN account' = acct /\ changed' = TRUE
                ELSE UNCHANGED <<account, changed>>
    /\ UNCHANGED <<progress, completed, active, lock, loop, board, child, day>>

Authenticated(s) == ExpireStreak([account EXCEPT !.hash = op[s].hash], day)
Frozen           == [account EXCEPT !.points = @ - FreezeCost, !.streakFreeze = TRUE]
Charged(s)       == [account EXCEPT !.points = @ - op[s].amount]

\* Fault: the handler trusts its validator, which ran before it had the mutex.
BuyFreezeUnchecked(s) == Decides(s, "freeze", TRUE, Frozen)

Authenticate(s) == Decides(s, "authenticate", ValidateCredentials(op[s]), Authenticated(s))
BuyFreeze(s)    == Decides(s, "freeze", ValidateStreakFreezePurchase, Frozen)
SpendPoints(s)  == Decides(s, "spend", ValidateSpendPoints(op[s]), Charged(s))

\* StartLevel finds a level open that was not open when it was validated.
StartRefused(s) ==
    /\ Runs(s, "start") /\ Returns(s)
    /\ active # None
    /\ UNCHANGED <<player, lock, changed, loop, board, child, day>>

\* Otherwise it copies the progress into the resolve Activity, and blocks
\* with the mutex.
Resolves(s, free) ==
    /\ Runs(s, "start") /\ free
    /\ lock' = s
    /\ seen' = [seen EXCEPT ![s] = progress[op[s].level[1]]]
    /\ pc' = [pc EXCEPT ![s] = "resolving"]
    /\ UNCHANGED <<player, op, changed, loop, board, child, day>>

\* Fault: the handler does not look at ActiveGame again.
StartUnchecked(s) == Resolves(s, TRUE)

Start(s) == Resolves(s, active = None)

\* The resolution allows the level: ExecuteChildWorkflow.
ResolveAllowed(s) ==
    /\ pc[s] = "resolving" /\ Resolvable(seen[s], op[s].level)
    /\ pc' = [pc EXCEPT ![s] = "starting"]
    /\ UNCHANGED <<player, op, seen, lock, changed, loop, board, child, day>>

\* An error return, which unlocks: the catalog refuses (prerequisites, dates,
\* unlock schedule, order), or the server cannot start the child.
Fails(s, state) ==
    /\ pc[s] = state /\ Returns(s)
    /\ lock' = None
    /\ UNCHANGED <<player, changed, loop, board, child, day>>

ResolveRefused(s) == Fails(s, "resolving")
StartFails(s)     == Fails(s, "starting")

\* The server starts the child and records it in the player's history.
ChildStarts(s) ==
    /\ pc[s] = "starting" /\ child[op[s].level].status # "running"
    /\ child' = [child EXCEPT ![op[s].level] = [status |-> "running", day |-> NoDay]]
    /\ pc' = [pc EXCEPT ![s] = "started"]
    /\ UNCHANGED <<player, op, seen, lock, changed, loop, board, day>>

\* joinPlayerCampaign: the first start joins, every start refreshes the total.
Join(p, c) == [p EXCEPT !.joined = TRUE, !.totalLevels = TotalLevels[c]]

\* The recorded start unblocks the handler, which opens the level.
Opens(s, wakes) ==
    /\ pc[s] = "started" /\ Returns(s)
    /\ lock' = None
    /\ levelFuture' = op[s].level
    /\ active' = op[s].level
    /\ progress' = [progress EXCEPT ![op[s].level[1]] = Join(@, op[s].level[1])]
    /\ changed' = (changed \/ wakes)
    /\ UNCHANGED <<account, completed, upgrade, continueRequested,
                   mainPc, armed, boardFuture, board, child, day>>

\* Fault: the handler does not wake the event loop.
FinishStartSilently(s) == Opens(s, FALSE)

FinishStart(s) == Opens(s, TRUE)

-----------------------------------------------------------------------------
(* The event loop.  Each case ends with the tail of the loop body. *)

\* Continue-As-New is due (requested by signal, or suggested by the server or
\* by a new worker version), or a new selector is built.
Iterates(settled, captured) ==
    \E suggested \in BOOLEAN :
        IF settled /\ active' = None /\ (continueRequested' \/ suggested)
        THEN mainPc' = "await" /\ UNCHANGED armed
        ELSE mainPc' = "select" /\ armed' = captured

\* Faults: a publication is not waited for; a new future is not selected on.
NextIterationEager == Iterates(TRUE, levelFuture' # None)
NextIterationStale == Iterates(boardFuture' = 0, armed)

NextIteration == Iterates(boardFuture' = 0, levelFuture' # None)

LevelReady(status) ==
    /\ mainPc = "select" /\ armed
    /\ child[levelFuture].status \in status

\* applyLevelResult drops a result that is not for the open level.
Applies(level) == active = level /\ progress[level[1]].joined
                  /\ progress[level[1]].nextLevel = level[2]

Advances(p, by) ==
    [p EXCEPT !.nextLevel = @ + by, !.completedLevels = @ + 1,
              !.completed = p.completedLevels + 1 >= p.totalLevels]

\* Fault: the level stays next.
AdvanceNot(p) == Advances(p, 0)

Advance(p) == Advances(p, 1)

\* A solved level pays, advances the campaign and publishes the new score.
Credit(level, completedDay) ==
    /\ \E award \in Awards :
        account' = [UpdateStreak(account, completedDay) EXCEPT
                        !.points = @ + award, !.lifetimePoints = @ + award]
    /\ progress' = [progress EXCEPT ![level[1]] = Advance(@)]
    /\ completed' = Append(completed, [level |-> level, day |-> completedDay])
    /\ boardFuture' = Len(completed) + 1
    /\ publishing' = publishing \cup {Len(completed) + 1}

\* A timed-out level closes the attempt.
TimeOut(level) ==
    /\ progress' = [progress EXCEPT ![level[1]].failed = TRUE]
    /\ UNCHANGED <<account, completed, boardFuture, publishing>>

\* The result of the level is read and applied, or dropped if it is for no
\* open level.
LevelEnds ==
    /\ LevelReady({"solved", "timedOut"})
    /\ IF Applies(levelFuture)
       THEN /\ active' = None
            /\ IF child[levelFuture].status = "solved"
               THEN Credit(levelFuture, child[levelFuture].day)
               ELSE TimeOut(levelFuture)
       ELSE UNCHANGED <<player, boardFuture, publishing>>
    /\ levelFuture' = None
    /\ UNCHANGED <<handlers, changed, upgrade, continueRequested, published, child, day>>
    /\ NextIteration

\* The publication that was waited for has been delivered.
BoardPublished ==
    /\ mainPc = "select" /\ boardFuture # 0 /\ boardFuture \notin publishing
    /\ boardFuture' = 0
    /\ UNCHANGED <<player, handlers, changed, upgrade, continueRequested,
                   levelFuture, board, child, day>>
    /\ NextIteration

Wake ==
    /\ mainPc = "select" /\ changed
    /\ changed' = FALSE
    /\ UNCHANGED <<player, handlers, upgrade, continueRequested,
                   levelFuture, boardFuture, board, child, day>>
    /\ NextIteration

ReceiveUpgrade ==
    /\ mainPc = "select" /\ upgrade
    /\ upgrade' = FALSE /\ continueRequested' = TRUE
    /\ UNCHANGED <<player, handlers, changed, levelFuture, boardFuture, board, child, day>>
    /\ NextIteration

\* A closed run terminates its children (the default ParentClosePolicy).
TerminateChildren ==
    child' = [level \in LevelIds |->
                IF child[level].status = "running"
                THEN [child[level] EXCEPT !.status = "failed"] ELSE child[level]]

\* The handlers have finished: the new run starts from PlayerState.  A publish
\* Activity of the old run may or may not complete.
ContinueAsNew ==
    /\ mainPc = "await"
    /\ \A s \in Slots : pc[s] = "idle"
    /\ mainPc' = "select" /\ armed' = FALSE
    /\ changed' = FALSE /\ upgrade' = FALSE /\ continueRequested' = FALSE
    /\ levelFuture' = None /\ boardFuture' = 0
    /\ \E kept \in SUBSET publishing : publishing' = kept
    /\ TerminateChildren
    /\ UNCHANGED <<player, handlers, published, day>>

\* The level child failed: so does the player, with the handlers it runs.
LevelFailed ==
    /\ LevelReady({"failed"})
    /\ mainPc' = "failed"
    /\ pc' = [s \in Slots |-> "idle"]
    /\ op' = [s \in Slots |-> NoUpdate]
    /\ seen' = [s \in Slots |-> NotJoined]
    /\ lock' = None
    /\ TerminateChildren
    /\ UNCHANGED <<player, changed, upgrade, continueRequested, armed,
                   levelFuture, boardFuture, board, day>>

\* A registration starts the failed workflow ID again, from nothing
\* (ALLOW_DUPLICATE_FAILED_ONLY).
Restart ==
    /\ mainPc = "failed"
    /\ account' = NewAccount
    /\ progress' = [c \in Campaigns |-> NotJoined]
    /\ completed' = <<>> /\ active' = None
    /\ changed' = FALSE /\ upgrade' = FALSE /\ continueRequested' = FALSE
    /\ mainPc' = "select" /\ armed' = FALSE
    /\ levelFuture' = None /\ boardFuture' = 0
    /\ \E kept \in SUBSET publishing : publishing' = kept
    /\ UNCHANGED <<handlers, published, child, day>>

-----------------------------------------------------------------------------
(* The environment. *)

\* The player solves the level, or its deadline passes first.
ChildEnds(level, status) ==
    /\ child[level].status = "running"
    /\ child' = [child EXCEPT ![level] = [status |-> status, day |-> day]]
    /\ UNCHANGED <<player, handlers, changed, loop, board, day>>

ChildSolved(level)   == ChildEnds(level, "solved")
ChildTimesOut(level) == ChildEnds(level, "timedOut")
ChildFails(level)    == ChildMayFail /\ ChildEnds(level, "failed")

\* PublishLeaderboard signals the leaderboard; it is retried until it has.
Publish(version) ==
    /\ version \in publishing
    /\ publishing' = publishing \ {version}
    /\ published' = published \cup {version}
    /\ UNCHANGED <<player, handlers, changed, loop, child, day>>

RequestUpgrade ==
    /\ ~upgrade /\ mainPc # "failed"
    /\ upgrade' = TRUE
    /\ UNCHANGED <<player, handlers, changed, continueRequested, mainPc, armed,
                   levelFuture, boardFuture, board, child, day>>

\* Code that can run does so within one workflow task, at one workflow.Now.
Tick ==
    /\ day < MaxDay
    /\ lock = None => \A s \in Slots : pc[s] # "accepted"
    /\ day' = day + 1
    /\ UNCHANGED <<player, handlers, changed, loop, board, child>>

-----------------------------------------------------------------------------
Handler(s) ==
    \/ Authenticate(s) \/ BuyFreeze(s) \/ SpendPoints(s)
    \/ StartRefused(s) \/ Start(s) \/ FinishStart(s)

Catalog(s) == ResolveAllowed(s) \/ ResolveRefused(s)
Server(s)  == ChildStarts(s) \/ StartFails(s)

Main ==
    \/ LevelEnds \/ LevelFailed \/ BoardPublished
    \/ Wake \/ ReceiveUpgrade \/ ContinueAsNew

Environment ==
    \/ Restart \/ RequestUpgrade \/ Tick
    \/ \E level \in LevelIds :
        ChildSolved(level) \/ ChildTimesOut(level) \/ ChildFails(level)
    \/ \E version \in publishing : Publish(version)

Next ==
    \/ \E s \in Slots : Accept(s) \/ Handler(s) \/ Catalog(s) \/ Server(s)
    \/ Main
    \/ Environment

Spec == Init /\ [][Next]_vars

-----------------------------------------------------------------------------
(* Safety. *)

\* Every variable has its type.
TypeOK ==
    /\ account \in Account
    /\ progress \in [Campaigns -> Progress]
    /\ completed \in Seq([level: LevelIds, day: Days])
    /\ active \in LevelIds \cup {None}
    /\ pc \in [Slots -> {"idle", "accepted", "resolving", "starting", "started"}]
    /\ op \in [Slots -> Updates \cup {NoUpdate}]
    /\ seen \in [Slots -> Progress]
    /\ lock \in Slots \cup {None}
    /\ changed \in BOOLEAN /\ upgrade \in BOOLEAN /\ continueRequested \in BOOLEAN
    /\ mainPc \in {"select", "await", "failed"} /\ armed \in BOOLEAN
    /\ levelFuture \in LevelIds \cup {None}
    /\ boardFuture \in Nat
    /\ publishing \subseteq Nat \ {0} /\ published \subseteq Nat \ {0}
    /\ child \in [LevelIds -> [status: ChildStatus, day: Days \cup {NoDay}]]
    /\ day \in Days

\* At most one level Workflow of the player runs, although Updates that start
\* one are validated before and executed while another may be starting.
OneOpenLevel ==
    \A a, b \in LevelIds :
        child[a].status = "running" /\ child[b].status = "running" => a = b

\* The result the loop waits for is for the open level, which is still the
\* next one of a joined campaign: applyLevelResult never drops it.
NoResultIsDropped == levelFuture # None => Applies(levelFuture)

\* A selector that was built before the level started is sure to be rebuilt:
\* the StartLevel handler left a message in the channel that wakes the loop.
NoLostWakeup ==
    mainPc = "select" /\ levelFuture # None /\ ~armed => changed

\* Debits that were validated before others were executed never overdraw.
NeverOverdrawn == 0 <= account.points /\ account.points <= account.lifetimePoints

CompletedOf(c, n) == {i \in 1..n : completed[i].level[1] = c}

\* The levels of a campaign are completed in order and once each, whatever
\* the interleaving of starts, results and retries.
LevelsCompletedInOrder ==
    /\ \A i \in DOMAIN completed :
        completed[i].level[2] = Cardinality(CompletedOf(completed[i].level[1], i))
    /\ \A c \in Campaigns :
        progress[c].nextLevel = Cardinality(CompletedOf(c, Len(completed))) + 1

\* A timed-out single attempt is over: none of its levels is open, starting
\* with a snapshot of the progress from before the time-out, or running.
LostAttemptStaysLost ==
    \A c \in SingleAttempt : progress[c].failed =>
        /\ active = None \/ active[1] # c
        /\ \A s \in Slots : pc[s] \in {"starting", "started"} => op[s].level[1] # c
        /\ \A level \in LevelIds : level[1] = c => child[level].status # "running"

\* The score after the last completion is delivered or being delivered: a
\* newer publication or Continue-As-New never loses it.
LatestScoreIsInFlight ==
    completed # <<>> => Len(completed) \in publishing \cup published

CompletionDays == {completed[i].day : i \in DOMAIN completed}

\* The streak counts days on which a level was completed, and each calendar
\* day missing between them was paid for with a streak freeze.
StreakGapsArePaid ==
    /\ account.currentStreak <= account.bestStreak
    /\ account.bestStreak <= Cardinality(CompletionDays)
    /\ \A first \in CompletionDays :
        LET run     == {d \in CompletionDays : d >= first}
            covered == {d \in first..MaxDay : \E e \in run : d <= e}
        IN  Cardinality(run) = account.currentStreak =>
              FreezeCost * (Cardinality(covered) - Cardinality(run))
                <= account.lifetimePoints - account.points

-----------------------------------------------------------------------------
(* The inductive invariant behind the safety properties. *)

\* Whoever has the mutex is a StartLevel handler that still sees the progress
\* it copied, with no level open; every other handler is idle or queued.
HandlersInv ==
    /\ \A s \in Slots : pc[s] \in {"resolving", "starting", "started"} <=> lock = s
    /\ \A s \in Slots : lock = s =>
        /\ op[s].kind = "start"
        /\ active = None /\ levelFuture = None
        /\ seen[s] = progress[op[s].level[1]]
        /\ pc[s] # "resolving" => Resolvable(seen[s], op[s].level)
    /\ mainPc = "failed" => \A s \in Slots : pc[s] = "idle"

\* The open level is still the one the catalog would resolve.
OpenInv ==
    /\ active # None =>
        progress[active[1]].joined /\ Resolvable(progress[active[1]], active)
    /\ levelFuture # None => active = levelFuture
    /\ armed /\ mainPc # "await" => levelFuture # None
    /\ \A c \in Campaigns : progress[c].completedLevels = progress[c].nextLevel - 1

\* A level runs only while the loop, or a handler, waits for it.
ChildInv ==
    /\ \A level \in LevelIds : child[level].status = "running" =>
        /\ mainPc # "failed"
        /\ levelFuture = level \/ \E s \in Slots : pc[s] = "started" /\ op[s].level = level
    /\ \A level \in LevelIds :
        child[level].status \in {"solved", "timedOut"} => child[level].day \in Days

\* The loop lets go of a publication only when it has been delivered.
ScoreInv ==
    /\ boardFuture # 0 => boardFuture = Len(completed)
    /\ boardFuture = 0 /\ completed # <<>> => Len(completed) \in published
    /\ mainPc = "await" => boardFuture = 0

\* Only the owner of the name opens levels and spends; only a child that may
\* fail makes the player fail.
OwnerInv ==
    /\ active # None => account.hash # NoHash
    /\ \A s \in Slots :
        pc[s] # "idle" /\ op[s].kind # "authenticate" => account.hash # NoHash
    /\ \A level \in LevelIds :
        /\ child[level].status = "failed"
        /\ levelFuture = level \/ \E s \in Slots : pc[s] = "started" /\ op[s].level = level
        => ChildMayFail
    /\ mainPc = "failed" => ChildMayFail /\ active # None

IInv ==
    /\ TypeOK /\ HandlersInv /\ OpenInv /\ ChildInv /\ ScoreInv
    /\ NoLostWakeup /\ NeverOverdrawn /\ LatestScoreIsInFlight

OwnedIInv == IInv /\ OwnerInv

\* Days go by in order: the result that is applied next is of no earlier day
\* than those before it.
DaysInv ==
    /\ \A d \in CompletionDays : d <= day
    /\ \A level \in LevelIds : child[level].day <= day
    /\ \A level \in LevelIds :
        /\ child[level].status \in {"solved", "timedOut"}
        /\ levelFuture = level \/ \E s \in Slots : pc[s] = "started" /\ op[s].level = level
        => \A d \in CompletionDays : d <= child[level].day

\* Days that a freeze can still cover, and those that were covered from day
\* `first` to the last one of the streak.
Ready        == IF account.streakFreeze THEN 1 ELSE 0
Missed(first) == account.lastCompletionDay - first + 1 - account.currentStreak

Paid(days) == FreezeCost * days <= account.lifetimePoints - account.points

\* The streak ends on or after the last completion, and as many days as it
\* lacks completions have been paid for, counted from any day since which there
\* were no more completions than it is long.
StreakInv ==
    /\ account.currentStreak <= account.bestStreak
    /\ account.bestStreak <= Cardinality(CompletionDays)
    /\ Paid(Ready)
    /\ \A first \in CompletionDays :
        /\ first <= account.lastCompletionDay
        /\ Cardinality({d \in CompletionDays : d >= first}) <= account.currentStreak
            => Paid(Missed(first) + Ready)

-----------------------------------------------------------------------------
(* Action properties and refinement. *)

\* Once claimed, a name keeps its password until the player Workflow fails.
ClaimedNameIsKept ==
    [][account.hash # NoHash /\ mainPc # "failed" => account'.hash = account.hash]_vars

\* The entity implements the atomic account.
AtomicAccount == INSTANCE PlayerAccount WITH
    hash    <- account.hash,
    balance <- account.points,
    earned  <- account.lifetimePoints,
    next    <- [c \in Campaigns |-> progress[c].nextLevel],
    lost    <- [c \in Campaigns |-> progress[c].failed],
    open    <- active

ImplementsAccount == AtomicAccount!Spec

-----------------------------------------------------------------------------
(* Liveness. *)

\* Activities and child starts are retried until they are answered; a blocked
\* coroutine is resumed, those that wait for the mutex in their order; a ready
\* case of the selector is chosen, the level result and the publication first.
\* Nothing is assumed of players, of requests and of the clock.
Fairness ==
    /\ \A s \in Slots : WF_vars(Catalog(s)) /\ WF_vars(Server(s)) /\ SF_vars(Handler(s))
    /\ \A version \in 1..Cardinality(LevelIds) : WF_vars(Publish(version))
    /\ WF_vars(LevelEnds) /\ WF_vars(BoardPublished) /\ WF_vars(Wake)

LiveSpec == Spec /\ Fairness

\* Every accepted Update returns, although StartLevel blocks with the mutex.
UpdatesReturn == \A s \in Slots : (pc[s] # "idle") ~> (pc[s] = "idle")

\* The result of the open level reaches the account.
ResultsAreApplied ==
    (/\ mainPc = "select" /\ levelFuture # None
     /\ child[levelFuture].status \in {"solved", "timedOut"}) ~> (active = None)

\* Every completion is followed by a score that counts it, unless the player
\* fails first.
ScoresArePublished ==
    \A n \in 1..Cardinality(LevelIds) :
        (Len(completed) = n) ~>
            (mainPc = "failed" \/ \E version \in published : version >= n)

-----------------------------------------------------------------------------
(* What the documentation says and the code does not do. *)

\* README: "The Player does not Continue-As-New while that child is open."
ActiveGameIsWatched == active # None /\ mainPc = "select" => levelFuture = active

=============================================================================
