-------------------------------- MODULE Daily --------------------------------
(***************************************************************************)
(* The DailyWordflowChallengeWorkflow of                                   *)
(* internal/workflows/daily_wordflow_challenge.go, the generator Activity  *)
(* of internal/activities/daily_challenges.go and the command that starts  *)
(* the singleton (cmd/daily-challenge).                                    *)
(*                                                                         *)
(* Date d is the instants from d * DayLength on, and one day long.  A step *)
(* is what the workflow does between two blocking calls; workers may be    *)
(* down, so a step may come at any later time.  A Continue-As-New may be   *)
(* suggested whenever the code asks.  A level is the list of its answers:  *)
(* letters, titles and the fixed rules of a daily challenge are left out.  *)
(***************************************************************************)
EXTENDS Integers, Sequences, SequencesExt

CONSTANTS
    Answers,
    Sound,        \* the levels that pass every check but those of reuse
    LevelCount,   \* how many levels a challenge has (three)
    History,      \* dailyChallengeHistoryDays
    ToolCalls,    \* dailyChallengeToolAttempts
    Attempts,     \* MaximumAttempts of the generator Activity
    DayLength,
    MaxTime       \* bound: last instant of the clock

ASSUME DailyAssumption ==
    /\ Sound \subseteq Seq(Answers)
    /\ LevelCount \in Nat \ {0} /\ History \in Nat \ {0}
    /\ ToolCalls \in Nat \ {0} /\ Attempts \in Nat \ {0}
    /\ DayLength \in Nat \ {0} /\ MaxTime \in Nat

Dates == 0 .. MaxTime \div DayLength
Challenges == [1 .. LevelCount -> Sound]
Archived == [date: Nat, answers: SUBSET Answers]

VARIABLES
    pc,        \* "closed", "begins" (a run), "waitStart", "generating", "starting",
               \* "waitEnd" or "failed"
    nextDate, recentPuzzles,  \* DailyWordflowChallengeState
    attempt, calls,           \* of the Activity: this attempt, its rejected tool calls
    generated, \* the answers of the challenge the Activity returned
    upgrade,   \* a request-version-upgrade signal is pending
    taken,     \* the dates whose campaign is running or has completed
    chain,     \* what the singleton started since it was itself started
    now

state    == <<nextDate, recentPuzzles>>
activity == <<attempt, calls, generated>>
vars == <<pc, nextDate, recentPuzzles, attempt, calls, generated, upgrade, taken, chain, now>>

-----------------------------------------------------------------------------
(* Dates. *)

Today == now \div DayLength
StartsAt(date) == date * DayLength
EndsAt(date)   == StartsAt(date + 1)

\* nextDailyChallengeWindow: a date that is over is replaced by today.
NextWindow(date) == IF now >= EndsAt(date) THEN Today ELSE date

Afresh == attempt' = 1 /\ calls' = 0 /\ generated' = {}

\* The top of the loop, up to its first blocking call.
NextIteration(date) ==
    /\ nextDate' = NextWindow(date)
    /\ pc' = IF now < StartsAt(NextWindow(date)) THEN "waitStart" ELSE "generating"
    /\ Afresh

-----------------------------------------------------------------------------
(* Generation. *)

AnswersOf(challenge, n) == UNION {Range(challenge[i]) : i \in 1 .. n}

\* recentDailyChallengeWords
RecentWords == UNION {puzzle.answers : puzzle \in Range(recentPuzzles)}

\* Fault: reuse is only looked for within a challenge.
ValidAlone(level, used) == IsInjective(level)

\* validateGeneratedWordflowLevel and the crossword builder.
ValidLevel(level, used) == IsInjective(level) /\ Range(level) \cap used = {}

\* buildDailyChallengeCampaign
ValidChallenge(challenge) ==
    \A i \in 1 .. LevelCount :
        ValidLevel(challenge[i], RecentWords \cup AnswersOf(challenge, i - 1))

\* An attempt fails; the server retries the Activity.
AttemptFails ==
    IF attempt < Attempts
    THEN attempt' = attempt + 1 /\ calls' = 0 /\ UNCHANGED pc
    ELSE pc' = "failed" /\ UNCHANGED <<attempt, calls>>

\* The tool call is accepted.
Generate(challenge) ==
    /\ pc = "generating" /\ ValidChallenge(challenge)
    /\ generated' = AnswersOf(challenge, LevelCount) /\ pc' = "starting"
    /\ UNCHANGED <<state, attempt, calls, upgrade, taken, chain, now>>

\* The tool is told what is wrong and called again.
RejectChallenge ==
    /\ pc = "generating"
    /\ IF calls + 1 < ToolCalls THEN calls' = calls + 1 /\ UNCHANGED <<pc, attempt>>
       ELSE AttemptFails
    /\ UNCHANGED <<state, generated, upgrade, taken, chain, now>>

\* No tool call can be read from the response, or there is none.
LoseResponse ==
    /\ pc = "generating" /\ AttemptFails
    /\ UNCHANGED <<state, generated, upgrade, taken, chain, now>>

\* The Activity runs out of time, or has no key.
GiveUpGeneration ==
    /\ pc = "generating" /\ pc' = "failed"
    /\ UNCHANGED <<state, activity, upgrade, taken, chain, now>>

-----------------------------------------------------------------------------
(* The workflow. *)

\* Fault: the newest puzzle is dropped from a full archive.
KeepOldest(puzzles) == SubSeq(puzzles, 1, History)

\* The last puzzles of a full archive are kept.
KeepNewest(puzzles) == SubSeq(puzzles, Len(puzzles) - History + 1, Len(puzzles))

\* archiveDailyChallenge
Archive(puzzle) ==
    LET puzzles == Append(recentPuzzles, puzzle)
    IN  recentPuzzles' = IF Len(puzzles) > History THEN KeepNewest(puzzles) ELSE puzzles

\* The next run has the state, and no signal.
ContinueAsNewFor(date) ==
    /\ pc' = "begins" /\ nextDate' = date
    /\ Afresh /\ upgrade' = FALSE

Closed == pc \in {"closed", "failed"}
Waits  == pc \in {"waitStart", "waitEnd"}
Due    == now >= StartsAt(nextDate)

Init ==
    /\ pc = "closed" /\ nextDate = 0 /\ recentPuzzles = <<>>
    /\ attempt = 1 /\ calls = 0 /\ generated = {}
    /\ upgrade = FALSE /\ taken = {} /\ chain = <<>> /\ now = 0

\* The command: a singleton that runs is used, one that failed is started anew.
StartSingleton(date) ==
    /\ Closed
    /\ ContinueAsNewFor(date)
    /\ recentPuzzles' = <<>> /\ chain' = <<>>
    /\ UNCHANGED <<taken, now>>

\* A run does its first step, at the time of its first task.
Begin ==
    /\ pc = "begins"
    /\ NextIteration(nextDate)
    /\ UNCHANGED <<recentPuzzles, upgrade, taken, chain, now>>

\* The wait for the first instant of the date is over.
WindowOpens ==
    /\ pc = "waitStart" /\ Due
    /\ \/ pc' = "generating" /\ UNCHANGED <<nextDate, activity, upgrade>>
       \/ ContinueAsNewFor(nextDate)
    /\ UNCHANGED <<recentPuzzles, taken, chain, now>>

\* The wait for the end of the date is over.
WindowCloses ==
    /\ pc = "waitEnd" /\ Due
    /\ \/ NextIteration(nextDate) /\ UNCHANGED upgrade
       \/ ContinueAsNewFor(nextDate)
    /\ UNCHANGED <<recentPuzzles, taken, chain, now>>

ReceiveUpgrade ==
    /\ Waits /\ upgrade
    /\ ContinueAsNewFor(nextDate)
    /\ UNCHANGED <<recentPuzzles, taken, chain, now>>

\* Signals that came meanwhile are drained; the run ends, waits for the end of
\* the date, or goes on at once.
GoesOn(date) ==
    \/ ContinueAsNewFor(date)
    \/ /\ ~upgrade /\ now < StartsAt(date)
       /\ pc' = "waitEnd" /\ nextDate' = date /\ UNCHANGED <<activity, upgrade>>
    \/ ~upgrade /\ now >= StartsAt(date) /\ NextIteration(date) /\ UNCHANGED upgrade

\* The campaign is started as an abandoned child, and archived.
StartsCampaign(next) ==
    /\ pc = "starting" /\ nextDate \notin taken
    /\ taken' = taken \cup {nextDate}
    /\ Archive([date |-> nextDate, answers |-> generated])
    /\ chain' = Append(chain, [date |-> nextDate, answers |-> generated])
    /\ GoesOn(next)
    /\ UNCHANGED now

\* Faults: the next date is left to the end of the wait, or is tomorrow's.
StartWithoutAdvancing == StartsCampaign(nextDate)
StartForTomorrow      == StartsCampaign(Today + 1)

StartCampaign == StartsCampaign(nextDate + 1)

\* A campaign of this ID runs or has completed: the singleton fails.
StartConflict ==
    /\ pc = "starting" /\ nextDate \in taken
    /\ pc' = "failed"
    /\ UNCHANGED <<state, activity, upgrade, taken, chain, now>>

-----------------------------------------------------------------------------
(* The environment. *)

\* An operator starts the campaign of a date from a file.
StartByHand(date) ==
    /\ date \notin taken /\ taken' = taken \cup {date}
    /\ UNCHANGED <<pc, state, activity, upgrade, chain, now>>

\* A campaign fails or is terminated: its ID may be used again.
CampaignFails(date) ==
    /\ date \in taken /\ taken' = taken \ {date}
    /\ UNCHANGED <<pc, state, activity, upgrade, chain, now>>

RequestUpgrade ==
    /\ ~Closed /\ ~upgrade /\ upgrade' = TRUE
    /\ UNCHANGED <<pc, state, activity, taken, chain, now>>

Tick ==
    /\ now < MaxTime /\ now' = now + 1
    /\ UNCHANGED <<pc, state, activity, upgrade, taken, chain>>

Next ==
    \/ \E date \in Dates : StartSingleton(date) \/ StartByHand(date) \/ CampaignFails(date)
    \/ Begin \/ WindowOpens \/ WindowCloses \/ ReceiveUpgrade
    \/ \E challenge \in Challenges : Generate(challenge)
    \/ RejectChallenge \/ LoseResponse \/ GiveUpGeneration
    \/ StartCampaign \/ StartConflict
    \/ RequestUpgrade \/ Tick

Spec == Init /\ [][Next]_vars

-----------------------------------------------------------------------------
(* Properties. *)

\* Every variable has its type.
TypeOK ==
    /\ pc \in {"closed", "begins", "waitStart", "generating", "starting", "waitEnd", "failed"}
    /\ nextDate \in Nat /\ recentPuzzles \in Seq(Archived)
    /\ attempt \in 1 .. Attempts /\ calls \in 0 .. ToolCalls - 1 /\ generated \subseteq Answers
    /\ upgrade \in BOOLEAN /\ taken \subseteq Nat
    /\ chain \in Seq(Archived) /\ now \in 0 .. MaxTime

\* No answer comes back within the days of the archive, whatever days were
\* skipped and however often the run was changed.
NoAnswerComesBack ==
    \A i, j \in DOMAIN chain :
        i < j /\ chain[j].date - chain[i].date <= History =>
            chain[i].answers \cap chain[j].answers = {}

\* A challenge is generated and started for a date after all those before, so
\* that only the campaigns of others can be in its way.
NoDateComesBack ==
    ~Closed => \A i \in DOMAIN chain : chain[i].date < nextDate

\* While the singleton sleeps, what it started last is today's challenge.
TodayIsStarted ==
    Waits /\ ~Due /\ chain # <<>> => Last(chain).date = Today

-----------------------------------------------------------------------------
(* The inductive invariant behind them. *)

\* The archive is the end of the chain.
ArchiveIsRecent ==
    /\ Len(recentPuzzles) = IF Len(chain) < History THEN Len(chain) ELSE History
    /\ \A i \in DOMAIN recentPuzzles :
        recentPuzzles[i] = chain[Len(chain) - Len(recentPuzzles) + i]

\* Dates advance by a day at least, and are not those of days to come.
DatesAdvance ==
    /\ \A i, j \in DOMAIN chain : i <= j => chain[j].date - chain[i].date >= j - i
    /\ \A i \in DOMAIN chain : StartsAt(chain[i].date) <= now

\* Challenges as close as the archive is long share no answer.
NeighboursDiffer ==
    \A i, j \in DOMAIN chain : i < j /\ j - i <= History =>
        chain[i].answers \cap chain[j].answers = {}

\* Where the singleton is in its day.
PlaceInDay ==
    /\ pc \in {"generating", "starting"} =>
        /\ StartsAt(nextDate) <= now
        /\ chain # <<>> => Last(chain).date < nextDate
    /\ (Waits \/ pc = "begins") /\ chain # <<>> => nextDate = Last(chain).date + 1
    /\ pc = "starting" => generated \cap RecentWords = {}

IInv == TypeOK /\ ArchiveIsRecent /\ DatesAdvance /\ NeighboursDiffer /\ PlaceInDay

=============================================================================
