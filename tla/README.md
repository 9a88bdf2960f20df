# Wordflow on Temporal: specifications, model checks and proofs

The program is a word game whose whole state lives in Temporal Workflows
(`internal/workflows`), changed by Updates and Signals that an HTTP API and a
few Activities send (`internal/api`, `internal/activities`). There is no
database and no lock outside the Workflows. What makes the game correct is the
order in which the coroutines of a Workflow run, what they check again after
they blocked, what a Continue-As-New carries over, and which deliveries are safe
to repeat. That is what these modules specify.

Paths below are relative to the repository's root; `tlc -config X.cfg M` runs a
configuration, `tlapm M.tla` checks the proofs of a module.

## 1. Inventory

| Part | State it keeps | Operations | Hard behaviour | What makes it correct |
| --- | --- | --- | --- | --- |
| `PlayerWorkflow` (`workflows/player.go`) | credentials, points, streak, campaign progress, completed levels, the open level; a mutex; the futures of the level child and of the score publication | Updates `authenticate`, `start level`, `spend points`, `buy streak freeze`; level result; score published; upgrade signal; Continue-As-New; failure | validators run without the mutex; `start level` blocks twice while it holds it; a selector can be stale; Continue-As-New waits for handlers; a failed child fails the player | one open level; results applied once, in order; no overdraft; no lost wake-up; a claimed name stays claimed; a streak never spans an unpaid missed day; every score is published |
| `WordflowLevelWorkflow` (`workflows/wordflow_level.go`) | found words, revealed cells, hints, attempts, deadline, score | Updates `submit guess`, `use hint`; deadline timer; Continue-As-New; result | a paid hint blocks on an Activity while the deadline timer, which takes no mutex, may fire; Updates arrive after the end; retries after Continue-As-New | solved exactly when all words are found, never after the deadline; the end is final; a charge is shown; the result is returned |
| `LeaderboardWorkflow` (`workflows/leaderboard.go`) | the best 100 score snapshots | score signal (upsert, sort, truncate); Continue-As-New that drains the channel | at-least-once, unordered signals; truncation | the board is the top of the newest scores, whatever the deliveries |
| `CatalogWorkflow` (`workflows/catalog.go`) | registered campaigns | open, register, unregister, queries; Continue-As-New; termination by an operator | campaigns register and unregister with retries; anyone may start the catalog | what is open is listed, what is over is not; one description per game |
| `WordflowCampaignWorkflow` (`workflows/wordflow_campaign.go`) | definition, levels, registered flag | register, expiry timer, unregister, Continue-As-New; eligibility and unlock rules | registration is repeated by each run; expiry races with both | registered while open, removed at its end; levels start in order, when they are unlocked and as they were shown |
| `DailyWordflowChallengeWorkflow` (`workflows/daily_wordflow_challenge.go`, `activities/daily_challenges.go`) | next date, ten days of puzzles | generate (Activity), start the dated child, archive, wait for midnight | workers or generation miss a midnight; generation repeats a word; the dated child already exists | dates only advance, no answer comes back while it is remembered, and a sleeping singleton has started today's challenge |
| Crossword builder (`game/catalog.go`) | none | layout of a list of answers | backtracking | words cross on equal letters, never run into each other, and are connected |
| Activities (`internal/activities`) | none | spend points, publish score, register/unregister/resolve campaign, generate a day | retried until they are answered, hence delivered at least once; an attempt that timed out may still arrive | safe to repeat through Update IDs and versions: a hint is paid once |
| HTTP API (`internal/api/server.go`) | none | translation to Updates and Queries, bootstrap of the catalog, polling of completions | retries with the same request ID; with-start of a failed Workflow; a level is over before its player knows it | a completion counts the level that ended |
| Response compression (`internal/api/compression.go`) | a buffer, the status, the decision | WriteHeader, Write, Flush, close; negotiation | the decision comes after the first writes; flushes and second statuses in between | the client decodes what was written, the header fits the body |
| Explorer (`internal/explorer`) | on the server none; on the page the list, the selected run, its events, two page tokens, a request number | list, describe and page through histories; clicks, buttons for more, a refresh every five seconds | answers in any order; runs close between two steps of a handler | the timeline is one run's history; no event and no link reaches the page of a run that was not visible when the server looked |
| Game page (`internal/api/web`), commands, deployment | the page: player, catalog, game | presentation and wiring | | |

A player is the parent of its level; a level sends `spend points` to its player
through an Activity; a player asks the catalog to resolve a level through an
Activity, and sends its scores to the leaderboard through another; campaigns
register with the catalog through Activities; the daily singleton starts
campaigns as abandoned children. The page plays a level directly, learns from it
that it is over, and asks the API for the completion, which reads the player. The
explorer reads what the Temporal server shows of all of them.

## 2. How Temporal is modelled

A Workflow is a set of cooperative coroutines: one runs until it blocks on a
future, a channel, a mutex or a condition. A step of a module is therefore what
one coroutine does between two blocking calls, all the calls it makes included.
The rest of Temporal is the environment:

- An Update is accepted (its validator runs, without the mutex) and executed
  later by a coroutine of its own, a *slot* of `Player` and `Level`. The models
  let other coroutines run in between whether or not the mutex is free, which
  includes all that the dispatcher may do.
- An Activity is retried until it is answered. Its effect on another Workflow is
  an Update, which a run executes once for an Update ID, or a signal, which may
  arrive again. An Activity may outlive the run that scheduled it.
- Continue-As-New may be suggested at any point at which the code asks. The new
  run has what the code puts into its input and nothing else: no channel, no
  future, no executed Update ID, no child.
- A closed run terminates its children unless they are abandoned.
- Time only passes; runnable code runs within one workflow task at one
  `workflow.Now`, but a task may come at any later time. Time is counted in days
  (`Player`), in instants (`Level`, `Catalog`, `CampaignPlay`) or in both (`Daily`).

## 3. Modules

`Player` follows `player.go` function by function. The state is `PlayerState`
(`account`, `progress`, `completed`, `active`), the handlers (`pc`, `op`, `seen`
per slot, and `lock`, the mutex), and the locals of the event loop (`changed`,
`upgrade`, `continueRequested`, `levelFuture`, `boardFuture`). `armed` says
whether the selector the loop sleeps in was built with the level's future.
`mainPc` is `select`, `await` (for the handlers, before Continue-As-New) or
`failed`. The three short handlers are `Authenticate`, `BuyFreeze` and
`SpendPoints`; `start level` is `Start` or `StartRefused`, then
`ResolveAllowed`/`ResolveRefused`, `ChildStarts`/`StartFails` and `FinishStart`.
The cases of the selector are `LevelEnds`, `LevelFailed`, `BoardPublished`,
`Wake` and `ReceiveUpgrade`, each ending with the tail of the loop body
(`NextIteration`). Left out: display names, titles, `LastSeenAt`.

`PlayerAccount` is what a player can rely on, without handlers, loop or
Activities: claims, opens, results, debits, each one atomic step.

`PlayerLevel` EXTENDS `Player` and composes it with its levels and the page. Of a
level there is the paid hint (`paying`, `hint`), the mutex that admits one at a
time, and that a level returns no result before its handlers have. Between them is
the `SpendPoints` Activity: `Send` is an attempt or a retry, `inFlight` what may
still arrive, `executed` what the run of the player knows of an Update ID
(`Admit`, `Attach`, `Reject`, `Answer`), `RunEnds` the run that forgets it.
`debits` and `strayed` are history. `page` is the completion that the page asks
the API for, and `AnswerCompletion` the end of the API's polling of the player.

`Level` is one level Workflow: its play (`found`, `revealed`, `hints` …), its
ending (`complete`, `timedOut`, `endedAt`, `score`), the slots, and the main
coroutine (`select`, `await`, `drain`, `returned`). A handler ends in one of
`TimesOut`, `FindsComplete`, `GuessEmpty`, `Guess`, `HintRefused`, `FreeHint`;
only a paid hint blocks (`BeginPaidHint`, `Charge`/`ChargeRefused`,
`FinishPaidHint`). A request keeps its ID when it is sent again; `seen` holds
those this run has executed. A puzzle is a sequence of words and a word a
sequence of cells. `LevelGame` is the abstract game: words are solved one or
more at a time, the last one before the deadline, and an outcome is final.

`Leaderboard` is the Workflow, the publications of its players and the channel
between them. The sorted list is a set, because `sortLeaderboard` is a total
order. `Catalog` is the singleton, every campaign Workflow, the two Activities
between them and the API's bootstrap (`FindNoCatalog`, `OpenCatalog`); `lost`
remembers which campaigns a termination of the catalog removed. Registrations
and removals are idempotent, so their Update IDs are left out. A terminated
catalog still answers queries.

`CampaignRules` holds the pure functions of `wordflow_campaign.go` (status,
eligibility, number of unlocked levels, unlock time, level status). `CampaignPlay`
EXTENDS `Catalog` and adds one player: the progress it copies into the
resolve Activity, the query's answer some time later, the start of the level later
still or fails to, and its result. The mutex, which keeps the progress unchanged meanwhile,
is `Player`'s subject.

`Daily` is the singleton: the window of dates, both waits, generation (rejected
tool calls, lost responses, retried attempts), the start of the dated child,
the archive, Continue-As-New. `begins` is a run that has been asked for but has
not executed its first task, which may come days later. `chain` is history: what
the singleton started since it was itself started. A level is the list of its
answers; `Sound` holds the lists that pass every check but those of reuse.

`Crossword` is the depth-first search of `BuildPuzzle`. A frame is one call of
`placeRemaining`: its layout and the placements it has not tried. In which order
candidates are tried is left open, so the properties do not rest on their
ranking. Upper-casing, the limit on letters and byte indices (answers are ASCII
letters) are left out.

`Explorer` is the two handlers of the explorer, its page and as much of the
Temporal server as they see: runs with a status and a growing history, listed by
start. `asked` and `listAsked` are the requests on their way; one of
`getWorkflow` is answered in two steps (`Describe`, then `Show`), since the
handler describes the run first and reads the history of what it described. A
request that was overtaken (`state.detailRequest`) leaves only the end of its
button's pause. The page's list and detail are `AsksList`/`ShowList` and
`Asks`/`Show`; `AutoRefresh` is the timer. A list is shown at the moment it was
made: what is done with a row, a click, asks the server again. `lookedAt` is history:
the runs that the viewer might see when the server last described one for what
is shown. It is computed from `Visible`, the rule as one would tell it, and not
from the handlers' checks (`CanViewWorkflowID`, `CanViewWorkflow`).

`Compression` is the writer between any handler and the client. Bytes are units
of half the least compressible size, and a unit is its place in what the handler
wrote, so that order and loss can be told; `zipped` is what the gzip writer holds
back. `wanted` is the status that the plain writer would send.

The `*Proofs` modules hold the proofs, the `MC*` modules the values of constants
that a configuration cannot write down. Operators whose comment begins with
*Fault* are not used by a specification: each is a plausible mistake in the
definition that follows it, and shows that a property would notice it.

## 4. Runs

| Run | What it shows | Instance |
| --- | --- | --- |
| `player_interleaving` | one open level, no result dropped, levels completed in order, lost attempts stay lost | two slots, two campaigns (two levels, and a single attempt of one), debits of 1, one day |
| `player_failure` | the invariant behind those, which also says that nobody overdraws, that no wake-up is lost and that the newest score is on its way, under failing children and restarts; streak gaps are paid; `PlayerAccount` is implemented | two slots, two passwords, one campaign of two levels, three days |
| `player_level` | a hint is paid once; a completion counts its level; every request returns; results are applied; scores are published | two slots, one of which serves `SpendPoints`, one request per level, a campaign of two levels of which the first pays for hints in the second, fairness |
| `level` | the end is right and never slept through; charges are shown; `LevelGame` is implemented; Updates return; the level returns | two requests, each executed by up to two runs, two crossing words, a limit of two instants, one free hint |
| `leaderboard` | the board is the top of the newest snapshots received; a quiet board is current; nobody falls back | three players for two places, two versions each, one signal in the channel |
| `catalog` | open campaigns are listed, listed ones run, games agree, registrations end, ended campaigns complete | three campaigns: the default, a dated one, and a dated one that describes the game differently; terminations and upgrades |
| `campaign_play` | levels start unlocked, with prerequisites, at the shown times, and are granted as shown unless the campaign is gone or the start of the child fails | a paced campaign, a dated single attempt, and one that requires both; times 0 to 4 |
| `crossword` | a built puzzle is a crossword; failure means there is none; the search ends | every list of three out of six answers of two or three letters, and some of four |
| `daily` | answers, dates, today's challenge | days 0 to 4 of two instants, an archive of two, two levels, six answers, two tool calls and two attempts |
| `explorer` | the timeline is one history; the events and links on the page are of runs that were visible when the server looked | two runs in all of a public workflow and two of a player (one the child of the other), three events each, pages of one row and of one event, a page opened with or without an address |
| `compression` | the client decodes what was written; the header fits the body | up to five units of which two are worth compressing, two options in `Accept-Encoding` |

One more run is expected to find a violation; see section 6.

Why the bounds are enough. Every race in `Player` and `Level` is between at most
two handlers and the main coroutine: the mutex admits one, and a third only
queues behind the second. Two campaigns tell apart what is per campaign; two
levels of one campaign are the least for which "the next level" and the retry of
the last one differ. A streak needs three days for a gap of one; with four days,
`player_failure` was run once by hand as well (1.8 million states, no error).
Two places for three players are the least that make the board forget someone
who may come back. A request of `Level` that is executed by two runs is the
least for a retry after Continue-As-New; the safety properties were also run by
hand with three requests and a limit of two out of three instants (454,474
states up to symmetry). `daily` reaches a fourth challenge with an archive of two,
and skipped days. In `player_level` one request per level suffices, because its ID
names it and its retries are copies of it; the level that pays must be the second,
because the first has nothing to pay with. The upgrade signal is left to the other
runs of `Player`, since a Continue-As-New may be suggested at any iteration anyway.
Pages of one row and of one event are the least that have a next one; two runs in all, of three workflows, are the least with a
run that is replaced while it is shown, a child, and a list of two pages.
`campaign_play` has a pace of one level per interval; that the rounded number of
unlocked levels and the rounded time agree for every pace is the theorem
`PageTellsTheTime`. Responses of up to five units have room for a flush before, at
and after the limit of two. `SpendSlots`, `MaxRuns`, `MaxEvents`, `MaxUnits`, `MaxOptions`,
`MaxVersion`, `MaxQueue`, `MaxTime`, `MaxDay`, `MaxTries`,
`Slots` and `Reach` are bounds of the models and not of the code.

`CHECK_DEADLOCK FALSE` is given where the modelled part really stops: a level
returns (`level`), a player that failed is not registered again (`player_level`),
versions run out (`leaderboard`), the search ends (`crossword`), a response is
closed (`compression`).

## 5. Fairness

`Player` and `Level` assume weak fairness of Activities and of the server's
answers, because both are retried without limit, and strong fairness of each
handler, because coroutines that wait for the mutex get it in their order while
others keep taking it; and weak fairness of the cases of the selector that are
ready and of the timer. Nothing is assumed of players, of the clock of `Player`,
or of operators. `Level` lets time pass, because a deadline is a timer of the
server. `PlayerLevel` assumes the same of `Player`'s part, and that an attempt of
`SpendPoints` is sent as long as its hint waits, arrives and is answered; nothing
is assumed of the page, whose polling may go on for ever. `Catalog` assumes that timers fire and that `RegisterCampaign`, which can
start the catalog, succeeds; `UnregisterCampaign` cannot start one and is assumed
to succeed if a catalog is open time and again (strong fairness), which
`EndedCampaignsComplete` also has as its premise. `Crossword` is sequential code
and assumes only that it runs.

## 6. Where the code and its documentation differ

One disagreement has a run whose counterexample shows it.

- `continue_with_open_level`. `README.md:59` says a player does not
  Continue-As-New while its level is open. `player.go:275` tests `ActiveGame`
  before it awaits the handlers and not again: a `start level` handler that is
  blocked at that moment opens its level during the await. The new run then has
  an active level that it neither watches nor can end, and refuses every start.

More were met on the way and are part of the models, without a run:

- A level child that fails or is terminated makes the player Workflow fail, and the
  next registration of the name starts it from nothing, with a new password
  (`README.md:61-63`; `player.go:271`, `api/server.go:284-288`).
  `ClaimedNameIsKept` and `PlayerAccount` therefore except failure.
- `README.md:149` says one completed level a day keeps the streak. A login after
  midnight that is handled before the result of the last level of the day before
  (`player.go:379`) resets it. `StreakGapsArePaid` says only that no streak is too long.
- `README.md:34-36` says Update IDs deduplicate retries. They do within a run; a
  level that Continues-As-New executes a request that is sent again a second time
  (`wordflow_level.go:210`): a guess counts as a second attempt, a hint is given
  twice. `Level` lets requests be executed twice, and its properties hold
  nevertheless.
- The same holds of `SpendPoints`: a request that is still on its way when its
  hint has been answered (by a retry) is executed once more by the next run of
  the player, if the same level is open again. `HintsArePaidOnce` excepts it.
- A completion may be asked for when its campaign's next level was already
  started elsewhere; the API then answers "still being processed" although the
  result has been applied (`api/server.go:573`).
- In the explorer, "Load more history" during a quiet refresh has no page token
  any more and appends the first page again (`explorer/web/app.js:116`, `126`);
  `TimelineIsOneHistory` excepts it. Every refresh shows the first page only.
- The leaderboard compares versions only. A player that was started from nothing
  counts them from one, and its scores are ignored until it has passed its old
  count (`leaderboard.go:78`). `Leaderboard` has players that do not fail.
- A streak freeze is spent when the player authenticates, not when the day is
  missed (`README.md:167-168`; `player.go:353`). A session that spans the missed
  day loses the streak although a freeze is ready.
- A daily singleton that failed and is started again has an empty archive
  (`README.md:48-50`): the ten days of `NoAnswerComesBack` count from its start.

## 7. Proofs

Every theorem holds for all values of the constants under the ASSUMEs of its
module, which say no more than what the code validates: positive prices and
costs, known campaigns and levels, a default campaign without an end, a total
number of levels, sets that do not contain the values used for "nothing", run
numbers that are no workflow IDs. The theorems need no fairness. Each rests on an
inductive invariant of its component, stated at the end of the component's module,
checked by TLC on the component's instance and proved action by action.

| Module | Invariant | What it says beyond the properties | Theorems |
| --- | --- | --- | --- |
| `PlayerProofs` | `IInv` of `Player` | whoever holds the mutex is a `start level` handler that still sees the progress it copied, with no level open; the open level is still the one the catalog would resolve; a level runs only while a future or a handler waits for it; a publication is let go of only when delivered | `OneLevel`, `ResultsApply`, `Solvent`, `Awake`, `ScoreSurvives`, `LostIsLost`, `CompletedInOrder` |
| | `OwnedIInv` | adds that only the owner of a name opens levels and spends | `InductiveOwned`, `NameKept`, `AccountRefinement` (`Player` implements `PlayerAccount`) |
| | `StreakInv`, `DaysInv` | no completion is later than a result that is still to be applied; from whichever completed day the streak may have begun, the points spent pay for the days it missed since and for the freeze that is held | `StreakIsPaid` |
| | `PLInv` of `PlayerLevel` | one slot at most executes a spend, whose Update ID the run knows; a hint waits in a level that runs; while it does, the run knows whether the spend was debited; no request is on its way that no hint waits for, but one that strayed; the end that the page has seen counts or is still to be applied | `PlayerIsPlayer` (the composition implements `Player`), `HintsPaidOnce`, `CompletionCounts` |
| `LevelProofs` | `IInv` | the mutex is held by a paid hint that still has something to show and no free hint of its type; which run has a timer; a level is drained only when it has ended; at most one charge is not shown | `EndsAreAlwaysRight`, `LoopNeverSleepsAfterTheEnd`, `ChargesAreAlwaysShown`, `EndIsAlwaysFinal`, `GameRefinement` (`Level` implements `LevelGame`) |
| `LeaderboardProofs` | `IInv` | a later snapshot has no fewer points; no snapshot is newer than its player's score; the newest is on its way until received | `BoardIsAlwaysTop`, `NoCompletionIsLost`, `NobodyEverFallsBack` |
| `CampaignPlayProofs` | `IInv` of `Catalog` | the default campaign runs, or has failed, once it is listed | `Listed`, `NothingElseListed`, `GamesConsistent` |
| | `PlayIInv` of `CampaignPlay` | an allowed level stays allowed by the clock and by its prerequisites until it starts | `NoEarlyStart`, `PrerequisitesHold`, `PageTellsTheTime`, `CatalogIsCatalog` (the composition implements `Catalog`) |
| | `ShownInv` | what the page showed as available is allowed to the player at the time of asking | `OffersAreKept` |
| `CrosswordProofs` | `IInv` | a layout holds a word once; what a frame has not tried still fits its layout | `LayoutsHold`, `PuzzleHolds` |
| | `SearchInv` | until one is found, every crossword of the answers is ahead of the search: a frame holds a part of it and has not tried a next word of it | `FailureIsRight` |
| `DailyProofs` | `IInv` | the archive is the end of the chain; dates advance by a day at least; neighbours in the chain share no answer; which date the singleton is at in each of its phases | `AnswersStayAway`, `DatesStayAway`, `TodayStays` |
| `ExplorerProofs` | `IInv` | one request is the newest; it is for the run that is selected and appends from the page that comes next; a run that was named is the one described; the run described and the events shown are of runs in `lookedAt`; an event says of a child what is so, unless the child has closed since | `OneHistory`, `SentWasVisible` |
| `CompressionProofs` | `IInv` | what was sent, what gzip holds and what the buffer holds are consecutive pieces of what was written (`BytesInv`); nothing is sent before the decision, which was made on the header and status as they were then (`CommitInv`, `StatusInv`, `HeadInv`) | `ResponsesArrive`, `HeadersFit` |

Why the invariants are needed: `OneOpenLevel`, for example, is not inductive. A
state in which a handler is about to start a child while another level runs
satisfies it and leads out of it; that no such state is reachable is the joint
work of the mutex, the second look at `ActiveGame` and the order in which the
handler and the loop set `levelFuture` and `active`. `ChargesAreShown` needs that
the mutex keeps guesses and hints out while a hint is paid for, so that what it
was going to show is still hidden when it is answered, and that the deadline,
which takes no mutex, overtakes at most the one hint that holds it. `LevelsCompletedInOrder`
is inductive beside `IInv`: a result that is applied is for the next level
of its campaign, whose number counts those completed before. The type invariants are
conjuncts of the inductive invariants and proved with them. For `Daily`, the
step from "neighbours in the chain" to "dates within the archive" is that
dates advance by at least one for each challenge.

`HintsArePaidOnce` relates four records of one debit: the hint's answer, the
request on its way, the Update ID that the run of the player knows, and the slot
that executes it. A retry is harmless because a known ID is never admitted again,
and a new run, which knows none, is harmless because it terminates the level whose
hint waits; a request that then still arrives is what `strayed` stands for.
Because the composition implements `Player` (`PlayerIsPlayer`), all theorems
about `Player` hold of it, and `CompletionCounts` uses them: a result that the
loop takes is applied, so the page that waits for the level to be processed finds
it counted.

`TimelineIsOneHistory` rests on the request number: an answer is only used if no
request was made after it, so what it appends to has not changed since the
request was made, but for a refresh, which overtakes it. `SentWasVisible`
rests on the same: what is described is the run that is shown, so a description
for a refresh or for more never leaves events of a run that the server would now
refuse beside new ones, and the history is read from the run that was described,
not from what has become the latest. Of links it needs that the status in an event
is final unless it is "running".

`OffersAreKept` says of a query that what the page showed to be available is
allowed unless the campaign is gone, although the query is answered later and with
the campaign joined. After the answer only the start of the child can fail.

`FailureIsRight` is the converse of `PuzzleHolds`. A crossword of up to three
answers that contains a layout also contains a word that crosses it, and that word
passes `placementFits`: a letter beside it would have to be joined to it by
another word, which would make four. So a call whose layout is a part of a
crossword, and not all of it, has a word of it among its placements; when that is
tried, the next call has the next word; and a frame that runs out had none, so
one of its callers has. The first frame cannot run out.

Only model-checked: everything under fairness (the eight liveness properties
`RequestsReturn`, `ResultsAreApplied`, `ScoresArePublished`, `UpdatesReturn`,
`LimitedLevelsReturn`, `RegistrationEnds`, `EndedCampaignsComplete`, `SearchEnds`),
because the prover has no ENABLED. Every other property of a run is a theorem.

`FailureMeansNoCrossword` is claimed for lists of up to three answers. For four
it would be false: AB, CD, AC and BD form a full square, which the builder
cannot lay out because it keeps a new word clear of parallel neighbours. The
square is one of the lists of the run, as a list the builder may fail on.

## 8. Not modelled

- Password hashing, sessions and JSON: no Workflow state depends on how they work.
- The API's mapping of errors and the deadline of its Updates.
- What is left of an event in the explorer (`explorer/sanitize.go`, but for the
  links to children): a table of the fields that are kept, without state.
- The game page, but for the completion it asks for and the level it starts.
- The prompt of the generator, the letters of a level, titles and descriptions.
- The ranking of crossword candidates, which only decides which crossword is built.
- Worker versions: a changed version is one of the reasons for which
  Continue-As-New may be suggested.

## 9. Plan

Done: the core (`Player`, `PlayerAccount`), `Level`, `Leaderboard`, `Catalog`,
`CampaignRules` and `CampaignPlay`, `Crossword`, `Daily`, the composition
`PlayerLevel`, `Explorer`, `Compression`, and proofs of all their safety
properties and refinements.

1. What the liveness properties rest on and the prover can state: in each state in
   which somebody waits, which action ends the wait, as an invariant (the slot that
   holds the mutex is one the dispatcher or the server moves on; a level that is
   over has a result or a handler that is not done).
2. Abstract specifications of `Leaderboard` (the best snapshots received, as one
   step per signal) and of `Explorer` (a viewer and the histories they may see).
