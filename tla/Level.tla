------------------------------- MODULE Level -------------------------------
(***************************************************************************)
(* The WordflowLevelWorkflow of internal/workflows/wordflow_level.go: one  *)
(* player's attempt at one puzzle, from its start to the result it returns.*)
(*                                                                         *)
(* As in Player, a step is what one coroutine does between two blocking    *)
(* calls.  Only a paid hint blocks while it holds the mutex, on the        *)
(* SpendPoints Activity; the deadline timer is served by the main          *)
(* coroutine, which never takes the mutex.  A request keeps its ID when it *)
(* is sent again, and a run executes an ID once.                           *)
(* A puzzle is a sequence of words and a word a sequence of cells, shared  *)
(* where words cross.  The points that do not depend on play, and what is  *)
(* only shown (rejected words, the reason a guess is wrong), are left out. *)
(***************************************************************************)
EXTENDS Integers, Sequences, FiniteSetsExt

CONSTANTS
    Puzzle,    \* the words of the puzzle
    FreeHints, \* how many hints of each type are free
    Limit,     \* TimeLimitSeconds, 0 when there is none
    Tier,      \* speedBonusTierDuration
    Ids,       \* bound: the requests clients send
    MaxTries,  \* bound: how many runs may execute a request
    Slots,     \* bound: Updates being handled at one time
    MaxTime,   \* bound: last instant of the clock
    Wrong,     \* a guess that is no word of the puzzle
    Empty,     \* a guess of blanks
    None       \* nobody, no request

HintTypes == {"letter", "brush", "word"}
Words     == DOMAIN Puzzle
CellsOf(w) == Range(Puzzle[w])
Cells     == UNION {CellsOf(w) : w \in Words}

ASSUME PuzzleAssumption ==
    /\ Puzzle # <<>> /\ Puzzle \in Seq(Seq(Cells))
    /\ \A w \in Words : Puzzle[w] # <<>> /\ IsInjective(Puzzle[w])

ASSUME LimitsAssumption ==
    /\ FreeHints \in [HintTypes -> Nat]
    /\ Limit \in Nat /\ MaxTime \in Nat /\ MaxTries \in Nat
    /\ Tier \in Nat \ {0}
    /\ None \notin Slots \cup Ids
    /\ Wrong \notin Words /\ Empty \notin Words

Requests == [kind: {"guess"}, word: Words \cup {Wrong, Empty}]
                \cup [kind: {"hint"}, hint: HintTypes]
NoRequest == [kind |-> "none"]

VARIABLES
    found,     \* FoundAnswers, in the order found
    revealed,  \* RevealedCells
    attempts, incorrect,
    hintsUsed, hints,  \* per type: used, and left of the free ones
    startedAt,
    complete, timedOut, endedAt, score,
    pc, op, lock,      \* per slot: where the handler is, its request ID; the mutex
    changed,   \* the buffered channel that wakes the loop
    upgrade, continueRequested,
    mainPc,    \* "select", "await" (to Continue-As-New), "drain" or "returned"
    deadline,  \* the timer of this run is pending
    request,   \* what each request asks for
    tries,     \* how many runs have executed it
    seen,      \* the IDs this run has executed
    charged,   \* the IDs the player Workflow has debited points for
    now

play     == <<found, revealed, attempts, incorrect, hintsUsed, hints, startedAt>>
ending   == <<complete, timedOut, endedAt, score>>
handlers == <<pc, op, lock>>
loop     == <<upgrade, continueRequested, mainPc, deadline>>
clients  == <<request, tries, seen>>
vars == <<found, revealed, attempts, incorrect, hintsUsed, hints, startedAt,
          complete, timedOut, endedAt, score, pc, op, lock, changed, upgrade,
          continueRequested, mainPc, deadline, request, tries, seen, charged, now>>

-----------------------------------------------------------------------------
(* What is shown, and what a hint can still show. *)

Visible  == revealed \cup UNION {CellsOf(w) : w \in Range(found)}
Unsolved == Words \ Range(found)
HiddenIn(w) == {i \in DOMAIN Puzzle[w] : Puzzle[w][i] \notin Visible}

Targets(hint) ==
    IF hint = "word" THEN Unsolved ELSE {w \in Unsolved : HiddenIn(w) # {}}

HasTarget(hint) == Targets(hint) # {}

\* revealLetters: the first n hidden cells of the word.
FirstHidden(w, n) ==
    {Puzzle[w][i] : i \in {j \in HiddenIn(w) :
                            Cardinality({k \in HiddenIn(w) : k <= j}) <= n}}

-----------------------------------------------------------------------------
(* Scoring. *)

AtLeastZero(n) == IF n < 0 THEN 0 ELSE n

SpeedBonus(duration) ==
    IF duration <= Tier THEN 10
    ELSE IF duration <= 2 * Tier THEN 7
    ELSE IF duration <= 3 * Tier THEN 4 ELSE 0

AccuracyBonus(guesses) == AtLeastZero(10 - 2 * guesses)

HintBonus(used) ==
    AtLeastZero(10 - (2 * used["letter"] + 4 * used["brush"] + 8 * used["word"]))

Score(duration, guesses, used) ==
    SpeedBonus(AtLeastZero(duration)) + AccuracyBonus(guesses) + HintBonus(used)

-----------------------------------------------------------------------------
Ended == complete \/ timedOut

\* The deadline has passed by the time t, and the level is not solved.
Overdue(t) == Limit > 0 /\ t - startedAt >= Limit

\* finishLevelIfExpired, and its result.
Late == ~complete /\ (timedOut \/ Overdue(now))

Expires ==
    /\ timedOut' = Late
    /\ endedAt' = IF ~Ended /\ timedOut' THEN now ELSE endedAt
    /\ UNCHANGED <<complete, score>>

\* finishLevelIfSolved, after the rest of the step.
FinishWith(words) ==
    IF ~timedOut /\ Len(found') = words
    THEN /\ complete' = TRUE /\ endedAt' = now
         /\ score' = Score(now - startedAt, incorrect', hintsUsed')
         /\ UNCHANGED timedOut
    ELSE UNCHANGED ending

\* Fault: one word too early.
FinishOneEarly == FinishWith(Len(Puzzle) - 1)

FinishLevelIfSolved == FinishWith(Len(Puzzle))

Init ==
    /\ found = <<>> /\ revealed = {}
    /\ attempts = 0 /\ incorrect = 0
    /\ hintsUsed = [h \in HintTypes |-> 0] /\ hints = FreeHints
    /\ startedAt = 0
    \* The start was read before the level was resolved, which takes time.
    /\ now \in 0..MaxTime
    /\ complete = FALSE /\ score = 0
    /\ timedOut = Overdue(now)
    /\ endedAt = IF timedOut THEN now ELSE 0
    /\ pc = [s \in Slots |-> "idle"] /\ op = [s \in Slots |-> None] /\ lock = None
    /\ changed = FALSE /\ upgrade = FALSE /\ continueRequested = FALSE
    /\ mainPc = IF timedOut THEN "drain" ELSE "select"
    /\ deadline = (Limit > 0 /\ ~timedOut)
    /\ request = [id \in Ids |-> NoRequest] /\ tries = [id \in Ids |-> 0]
    /\ seen = {} /\ charged = {}

-----------------------------------------------------------------------------
(* Update handlers.  They have no validators. *)

\* A request arrives for the first time, or again because its answer was lost;
\* the run executes it unless it has already.
Accept(s) ==
    /\ mainPc # "returned" /\ pc[s] = "idle"
    /\ \E id \in Ids \ seen :
        /\ IF request[id] = NoRequest
           THEN \E asked \in Requests : request' = [request EXCEPT ![id] = asked]
           ELSE UNCHANGED request
        /\ tries[id] < MaxTries
        /\ tries' = [tries EXCEPT ![id] = @ + 1]
        /\ seen' = seen \cup {id}
        /\ op' = [op EXCEPT ![s] = id]
    /\ pc' = [pc EXCEPT ![s] = "accepted"]
    /\ UNCHANGED <<play, ending, lock, changed, loop, charged, now>>

Asked(s) == request[op[s]]

\* The handler of slot s gets the mutex.
Runs(s) == pc[s] = "accepted" /\ lock = None

Returns(s) ==
    /\ pc' = [pc EXCEPT ![s] = "idle"]
    /\ op' = [op EXCEPT ![s] = None]
    /\ lock' = None
    /\ UNCHANGED <<loop, clients, charged, now>>

\* A handler that finds the level over.
TimesOut(s) ==
    /\ Runs(s) /\ Late
    /\ Expires /\ changed' = TRUE
    /\ Returns(s) /\ UNCHANGED play

FindsComplete(s) ==
    /\ Runs(s) /\ complete
    /\ Returns(s) /\ UNCHANGED <<play, ending, changed>>

\* A handler that finds the level open.
Plays(s, kind) ==
    /\ Runs(s) /\ ~Late /\ ~complete /\ Asked(s).kind = kind

GuessEmpty(s) ==
    /\ Plays(s, "guess") /\ Asked(s).word = Empty
    /\ Returns(s) /\ UNCHANGED <<play, ending, changed>>

Guesses(s, wakes) ==
    /\ attempts' = attempts + 1
    /\ IF Asked(s).word \in Unsolved
       THEN found' = Append(found, Asked(s).word) /\ UNCHANGED incorrect
       ELSE incorrect' = incorrect + 1 /\ UNCHANGED found
    /\ UNCHANGED <<revealed, hintsUsed, hints, startedAt>>
    /\ FinishLevelIfSolved
    /\ changed' = (changed \/ wakes)
    /\ Returns(s)

\* Faults: the handler does not wake the loop; it does not take the mutex.
GuessSilently(s) == Plays(s, "guess") /\ Asked(s).word # Empty /\ Guesses(s, FALSE)
GuessUnlocked(s) ==
    /\ pc[s] = "accepted" /\ ~Late /\ ~complete
    /\ Asked(s).kind = "guess" /\ Asked(s).word # Empty
    /\ Guesses(s, TRUE)

Guess(s) == Plays(s, "guess") /\ Asked(s).word # Empty /\ Guesses(s, TRUE)

HintRefused(s) ==
    /\ Plays(s, "hint") /\ ~HasTarget(Asked(s).hint)
    /\ Returns(s) /\ UNCHANGED <<play, ending, changed>>

\* applyHint and recordHintUse.
Shows(hint) ==
    /\ LET w == Min(Targets(hint)) IN
        IF hint = "word"
        THEN found' = Append(found, w) /\ UNCHANGED revealed
        ELSE /\ revealed' = revealed \cup FirstHidden(w, IF hint = "letter" THEN 1 ELSE 2)
             /\ UNCHANGED found
    /\ hints' = [hints EXCEPT ![hint] = AtLeastZero(@ - 1)]
    /\ hintsUsed' = [hintsUsed EXCEPT ![hint] = @ + 1]
    /\ UNCHANGED <<attempts, incorrect, startedAt>>
    /\ FinishLevelIfSolved
    /\ changed' = TRUE

FreeHint(s) ==
    /\ Plays(s, "hint") /\ HasTarget(Asked(s).hint) /\ hints[Asked(s).hint] > 0
    /\ Shows(Asked(s).hint) /\ Returns(s)

\* No free hint of the type is left: SpendPoints, with the mutex.
BeginPaidHint(s) ==
    /\ Plays(s, "hint") /\ HasTarget(Asked(s).hint) /\ hints[Asked(s).hint] = 0
    /\ lock' = s
    /\ pc' = [pc EXCEPT ![s] = "paying"]
    /\ UNCHANGED <<play, ending, op, changed, loop, clients, charged, now>>

\* The player debits the price, once for an Update ID, or refuses.
Charge(s) ==
    /\ pc[s] = "paying"
    /\ pc' = [pc EXCEPT ![s] = "paid"]
    /\ charged' = charged \cup {op[s]}
    /\ UNCHANGED <<play, ending, op, lock, changed, loop, clients, now>>

\* Fault: the error return keeps the mutex.
ChargeRefusedLocked(s) ==
    /\ pc[s] = "paying" /\ op[s] \notin charged
    /\ pc' = [pc EXCEPT ![s] = "idle"] /\ op' = [op EXCEPT ![s] = None]
    /\ UNCHANGED <<play, ending, lock, changed, loop, clients, charged, now>>

ChargeRefused(s) ==
    /\ pc[s] = "paying" /\ op[s] \notin charged
    /\ Returns(s) /\ UNCHANGED <<play, ending, changed>>

\* The points are spent.  The deadline may have passed meanwhile, with or
\* without the timer having been served; a hint without a target is an error.
Resumes(s, late) ==
    /\ pc[s] = "paid"
    /\ IF late THEN Expires /\ changed' = TRUE /\ UNCHANGED play
       ELSE IF HasTarget(Asked(s).hint) THEN Shows(Asked(s).hint)
       ELSE UNCHANGED <<play, ending, changed>>
    /\ Returns(s)

\* Fault: the deadline is not looked at again.
FinishPaidHintLate(s) == Resumes(s, FALSE)

FinishPaidHint(s) == Resumes(s, Late)

-----------------------------------------------------------------------------
(* The main coroutine. *)

\* The tail of the loop body, and the test of the loop.
NextIteration ==
    \E suggested \in BOOLEAN :
        mainPc' = IF continueRequested' \/ suggested THEN "await"
                  ELSE IF complete' \/ timedOut' THEN "drain" ELSE "select"

Wake ==
    /\ mainPc = "select" /\ changed
    /\ changed' = FALSE
    /\ UNCHANGED <<play, ending, handlers, clients, charged,
                   upgrade, continueRequested, deadline, now>>
    /\ NextIteration

ReceiveUpgrade ==
    /\ mainPc = "select" /\ upgrade
    /\ upgrade' = FALSE /\ continueRequested' = TRUE
    /\ UNCHANGED <<play, ending, handlers, changed, clients, charged, deadline, now>>
    /\ NextIteration

\* The timer fires.  This coroutine does not wait for the mutex.
DeadlinePasses ==
    /\ mainPc = "select" /\ deadline /\ Overdue(now)
    /\ Expires /\ deadline' = FALSE
    /\ UNCHANGED <<play, handlers, changed, clients, charged,
                   upgrade, continueRequested, now>>
    /\ NextIteration

\* The new run starts from the level state: it sets the timer for what is left
\* of the limit, or finds it passed, and has executed no request.
Continues(timed) ==
    /\ mainPc = "await" /\ \A s \in Slots : pc[s] = "idle"
    /\ IF Ended THEN UNCHANGED ending ELSE Expires
    /\ deadline' = (timed /\ Limit > 0 /\ ~complete' /\ ~timedOut')
    /\ mainPc' = IF complete' \/ timedOut' THEN "drain" ELSE "select"
    /\ changed' = FALSE /\ upgrade' = FALSE /\ continueRequested' = FALSE
    /\ seen' = {}
    /\ UNCHANGED <<play, handlers, request, tries, charged, now>>

\* Fault: a run that continues another sets no timer.
ContinueWithoutTimer == Continues(FALSE)

ContinueAsNew == Continues(TRUE)

\* The level returns its result to the player.
Return ==
    /\ mainPc = "drain" /\ \A s \in Slots : pc[s] = "idle"
    /\ mainPc' = "returned"
    /\ UNCHANGED <<play, ending, handlers, changed, clients, charged,
                   upgrade, continueRequested, deadline, now>>

-----------------------------------------------------------------------------
(* The environment. *)

RequestUpgrade ==
    /\ ~upgrade /\ mainPc # "returned"
    /\ upgrade' = TRUE
    /\ UNCHANGED <<play, ending, handlers, changed, clients, charged,
                   continueRequested, mainPc, deadline, now>>

\* Code that can run does so within one workflow task, at one workflow.Now.
Tick ==
    /\ now < MaxTime
    /\ lock = None => \A s \in Slots : pc[s] # "accepted"
    /\ now' = now + 1
    /\ UNCHANGED <<play, ending, handlers, changed, loop, clients, charged>>

Handler(s) ==
    \/ TimesOut(s) \/ FindsComplete(s)
    \/ GuessEmpty(s) \/ Guess(s)
    \/ HintRefused(s) \/ FreeHint(s) \/ BeginPaidHint(s) \/ FinishPaidHint(s)

Activity(s) == Charge(s) \/ ChargeRefused(s)

Main == Wake \/ ReceiveUpgrade \/ DeadlinePasses \/ ContinueAsNew \/ Return

Next ==
    \/ \E s \in Slots : Accept(s) \/ Handler(s) \/ Activity(s)
    \/ Main \/ RequestUpgrade \/ Tick

Spec == Init /\ [][Next]_vars

-----------------------------------------------------------------------------
(* Safety. *)

\* Every variable has its type.
TypeOK ==
    /\ found \in Seq(Words) /\ revealed \subseteq Cells
    /\ attempts \in Nat /\ incorrect \in Nat
    /\ hintsUsed \in [HintTypes -> Nat] /\ hints \in [HintTypes -> Nat]
    /\ startedAt \in Nat /\ now \in 0..MaxTime
    /\ complete \in BOOLEAN /\ timedOut \in BOOLEAN /\ endedAt \in 0..MaxTime
    /\ score \in 0..30
    /\ pc \in [Slots -> {"idle", "accepted", "paying", "paid"}]
    /\ op \in [Slots -> Ids \cup {None}] /\ lock \in Slots \cup {None}
    /\ changed \in BOOLEAN /\ upgrade \in BOOLEAN /\ continueRequested \in BOOLEAN
    /\ mainPc \in {"select", "await", "drain", "returned"} /\ deadline \in BOOLEAN
    /\ request \in [Ids -> Requests \cup {NoRequest}]
    /\ tries \in [Ids -> Nat] /\ seen \subseteq Ids /\ charged \subseteq Ids

\* A level is solved exactly when each word has been found once, and before
\* its deadline; it times out at or after the deadline, unsolved.
EndsAreRight ==
    /\ IsInjective(found)
    /\ complete <=> Unsolved = {}
    /\ complete => ~(Limit > 0 /\ endedAt - startedAt >= Limit)
    /\ timedOut => ~complete /\ Unsolved # {} /\ Limit > 0 /\ endedAt - startedAt >= Limit

PaidFor(hint) == hintsUsed[hint] - (FreeHints[hint] - hints[hint])
PaidHints     == PaidFor("letter") + PaidFor("brush") + PaidFor("word")

FreeHintsFirst == \A hint \in HintTypes : hints[hint] > 0 => PaidFor(hint) = 0

\* Nobody pays for a hint that is still free, and whatever was paid for was
\* shown, is about to be, or was overtaken by the deadline, which overtakes one
\* paid hint at most.
ChargesAreShown ==
    /\ FreeHintsFirst
    /\ Cardinality(charged) <= PaidHints
         + Cardinality({s \in Slots : pc[s] = "paid"}) + (IF timedOut THEN 1 ELSE 0)

\* The loop never sleeps on a level that has ended.
NoSleepAfterTheEnd == mainPc = "select" /\ Ended => changed

\* What a handler may still do after the end leaves the result alone.
EndIsFinal == [][Ended => UNCHANGED <<play, ending>>]_vars

-----------------------------------------------------------------------------
(* The inductive invariant behind the safety properties. *)

\* A handler that has not returned has a request.  The mutex is held by a paid
\* hint, which still has something to show and no free hint of its type left.
HandlersInv ==
    /\ \A s \in Slots : pc[s] # "idle" => op[s] \in Ids /\ Asked(s) # NoRequest
    /\ \A s \in Slots : pc[s] \in {"paying", "paid"} <=> lock = s
    /\ \A s \in Slots : lock = s =>
        /\ ~complete /\ Asked(s).kind = "hint"
        /\ HasTarget(Asked(s).hint) /\ hints[Asked(s).hint] = 0
    /\ mainPc = "returned" => \A s \in Slots : pc[s] = "idle"

\* The last word completes the level, and only a level that ended is drained.
EndInv ==
    /\ complete <=> Len(found) = Len(Puzzle)
    /\ mainPc \in {"drain", "returned"} => Ended
    /\ startedAt <= now

\* At most one charge is not shown: the one of the handler that was answered,
\* or of the one that the deadline overtook.
ChargeInv ==
    /\ IsFiniteSet(charged)
    /\ Cardinality(charged) <= PaidHints +
         (IF \/ \E s \in Slots : pc[s] = "paid"
             \/ timedOut /\ \A s \in Slots : pc[s] # "paying" THEN 1 ELSE 0)

IInv ==
    /\ TypeOK /\ HandlersInv /\ EndInv /\ ChargeInv
    /\ EndsAreRight /\ FreeHintsFirst /\ NoSleepAfterTheEnd

-----------------------------------------------------------------------------
(* Refinement. *)

\* The level implements the atomic game.
AtomicGame == INSTANCE LevelGame WITH
    solved  <- Range(found),
    outcome <- IF complete THEN "solved" ELSE IF timedOut THEN "timedOut" ELSE "open",
    reported <- mainPc = "returned",
    elapsed <- now - startedAt

ImplementsGame == AtomicGame!Spec

-----------------------------------------------------------------------------
(* Liveness. *)

\* The Activity is retried until it is answered; a coroutine that can run does,
\* those that wait for the mutex in their order; time passes.  Nothing is
\* assumed of the clients, whose requests the run bounds.
Fairness ==
    /\ \A s \in Slots : WF_vars(Activity(s)) /\ SF_vars(Handler(s))
    /\ WF_vars(Wake) /\ WF_vars(DeadlinePasses)
    /\ WF_vars(ContinueAsNew) /\ WF_vars(Return) /\ WF_vars(Tick)

LiveSpec == Spec /\ Fairness

\* Every accepted Update returns, although a paid hint blocks with the mutex.
UpdatesReturn == \A s \in Slots : (pc[s] # "idle") ~> (pc[s] = "idle")

\* A level with a limit returns a result, whatever its player does, and also
\* when the deadline passes while a run waits to Continue-As-New.
LimitedLevelsReturn == Limit > 0 => <>(mainPc = "returned")

=============================================================================
