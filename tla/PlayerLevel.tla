----------------------------- MODULE PlayerLevel -----------------------------
(***************************************************************************)
(* A player Workflow, its level Workflows and the page that plays them:    *)
(* what a paid hint costs, and what the page learns when a level is over.  *)
(*                                                                         *)
(* The player starts a level and waits for its result; the level, in the   *)
(* middle of a UseHint Update, debits the player through the SpendPoints   *)
(* Activity of internal/activities/points.go, which sends the player an    *)
(* Update and waits for its answer.  The Activity has 30 seconds and is    *)
(* retried; the request of an attempt that timed out is not taken back.    *)
(* Player runs an Update ID at most once; the ID names the level and the   *)
(* HTTP request, and the next run of the player does not know it.          *)
(*                                                                         *)
(* The player is module Player, whose SpendPoints Updates came from an     *)
(* arbitrary environment there.  Of the level (module Level) there is only *)
(* the hint that is being paid for, with the mutex of the level, and that  *)
(* a level returns no result before its handlers have.                     *)
(*                                                                         *)
(* The page learns that its level is over from the level, and then asks    *)
(* the API for the completion; the API polls the player, which may not     *)
(* have seen the result yet (getCompletion of internal/api/server.go).     *)
(***************************************************************************)
EXTENDS Player

CONSTANTS
    Requests,    \* HTTP request IDs of paid hints
    SpendSlots   \* bound: SpendPoints Updates being handled at one time

ASSUME RequestsAssumption ==
    /\ None \notin Requests /\ None \notin LevelIds \X Requests
    /\ SpendSlots \subseteq Slots

VARIABLES
    paying,   \* per level: the request it awaits SpendPoints for, or None
    hint,     \* per spend: what its UseHint Update was answered
    inFlight, \* SpendPoints requests on their way to the player
    executed, \* what the current run of the player knows of each Update ID
    handling, \* per slot: the spend its handler executes, or None
    debits,   \* per spend: how often it was debited
    strayed,  \* spends with a request on its way that no hint waits for
    page      \* the end of a level that the page asks the API to complete, or None

hints == <<paying, hint>>
wire  == <<inFlight, executed, handling>>
money == <<debits, strayed>>
allVars == <<vars, paying, hint, inFlight, executed, handling,
             debits, strayed, page>>

Spends == LevelIds \X Requests   \* Update ID: spend/{levelWorkflowID}/{request}

Completions == [level : LevelIds, how : {"solved", "timedOut"}]

NothingExecuted == [m \in Spends |-> "none"]

PLInit ==
    /\ Init
    /\ paying = [l \in LevelIds |-> None]
    /\ hint = [m \in Spends |-> "none"]
    /\ inFlight = {}
    /\ executed = NothingExecuted
    /\ handling = [s \in Slots |-> None]
    /\ debits = [m \in Spends |-> 0]
    /\ strayed = {}
    /\ page = None

-----------------------------------------------------------------------------
(* The level. *)

\* A UseHint Update has no free hint and calls SpendPoints.  Its request is
\* new, or was sent again to a run that does not know it (see Level).
BeginPaidHint(l) ==
    /\ child[l].status = "running" /\ paying[l] = None
    /\ \E r \in Requests :
        /\ hint[<<l, r>>] # "over"
        /\ paying' = [paying EXCEPT ![l] = r]
        /\ hint' = [hint EXCEPT ![<<l, r>>] = "none"]
    /\ UNCHANGED <<page, vars, wire, money>>

Awaits(m) == paying[m[1]] = m[2]

\* SpendPoints returns, with the player's answer, and the hint goes on; other
\* attempts may still be on their way.
Resumes(m, answer) ==
    /\ paying' = [paying EXCEPT ![m[1]] = None]
    /\ hint' = [hint EXCEPT ![m] = answer]
    /\ strayed' = strayed \cup (inFlight' \cap {m})

\* A level that is no longer running waits for nothing.
StopLevels ==
    LET stopped == {l \in LevelIds :
                      child[l].status = "running" /\ child'[l].status # "running"}
    IN  /\ paying' = [l \in LevelIds |-> IF l \in stopped THEN None ELSE paying[l]]
        /\ hint' = [m \in Spends |-> IF m[1] \in stopped /\ Awaits(m) THEN "over" ELSE hint[m]]
        /\ strayed' = strayed \cup {m \in inFlight : m[1] \in stopped}

\* The level returns its result when its handlers have returned.
LevelReturns(l) ==
    /\ paying[l] = None
    /\ ChildSolved(l) \/ ChildTimesOut(l)
    /\ UNCHANGED <<page, hints, wire, money>>

LevelTerminated(l) ==
    /\ ChildFails(l)
    /\ StopLevels
    /\ UNCHANGED <<page, wire, debits>>

-----------------------------------------------------------------------------
(* The SpendPoints Activity. *)

\* The first attempt, or a retry of one that timed out.  A request stays on its
\* way as long as it takes; one that never arrives is lost.
Send(m) ==
    /\ Awaits(m) /\ m \notin inFlight
    /\ inFlight' = inFlight \cup {m}
    /\ UNCHANGED <<page, vars, hints, executed, handling, money>>

\* The player's run knows the ID: the attempt waits for that Update.
Attach(m) ==
    /\ m \in inFlight /\ executed[m] # "none" /\ mainPc # "failed"
    /\ inFlight' = inFlight \ {m}
    /\ UNCHANGED <<page, vars, hints, executed, handling, money>>

\* The Update is accepted by its validator.
Admits(m, s) ==
    /\ m \in inFlight
    /\ Accept(s) /\ op'[s].kind = "spend" /\ op'[s].level = m[1]
    /\ inFlight' = inFlight \ {m}
    /\ executed' = [executed EXCEPT ![m] = "running"]
    /\ handling' = [handling EXCEPT ![s] = m]
    /\ UNCHANGED <<page, hints, money>>

\* Fault: every attempt is an Update of its own.
AdmitUnnamed(m, s) == Admits(m, s)

Admit(m, s) == executed[m] = "none" /\ Admits(m, s)

\* The Update is rejected by its validator, which leaves no trace in the run.
\* The attempt that the level waits for ends the Activity with an error that
\* is not retried.
Rejected(m) ==
    /\ m \in inFlight /\ executed[m] = "none" /\ mainPc # "failed"
    /\ \A amount \in Prices : ~ValidateSpendPoints([level |-> m[1], amount |-> amount])
    /\ inFlight' = inFlight \ {m}
    /\ UNCHANGED <<page, vars, executed, handling, debits>>

\* Fault: the error is retried like any other.
RejectRetried(m) ==
    Rejected(m) /\ Awaits(m) /\ UNCHANGED <<hints, strayed>>

Reject(m) ==
    Rejected(m) /\ Awaits(m) /\ Resumes(m, "refused")

\* No hint waits for the attempt any more.
RejectStray(m) ==
    Rejected(m) /\ ~Awaits(m) /\ UNCHANGED <<hints, strayed>>

\* The Activity reads the outcome of the Update.
Answer(m) ==
    /\ Awaits(m) /\ mainPc # "failed"
    /\ executed[m] \in {"paid", "refused"}
    /\ UNCHANGED inFlight
    /\ Resumes(m, executed[m])
    /\ UNCHANGED <<page, vars, executed, handling, debits>>

-----------------------------------------------------------------------------
(* The player. *)

\* The SpendPoints handler of slot s.
Spend(s) ==
    /\ SpendPoints(s)
    /\ LET m == handling[s] IN
        /\ executed' = [executed EXCEPT ![m] =
                            IF ValidateSpendPoints(op[s]) THEN "paid" ELSE "refused"]
        /\ debits' = [debits EXCEPT ![m] = IF account' # account THEN @ + 1 ELSE @]
    /\ handling' = [handling EXCEPT ![s] = None]
    /\ UNCHANGED <<page, hints, inFlight, strayed>>

\* Any other Update.  A login to a claimed name is left to module Player.
AcceptOther(s) ==
    /\ Accept(s) /\ op'[s].kind # "spend"
    /\ op'[s].kind = "authenticate" => account.hash = NoHash
    /\ UNCHANGED <<page, hints, wire, money>>

HandleOther(s) ==
    /\ \/ Authenticate(s) \/ BuyFreeze(s)
       \/ StartRefused(s) \/ Start(s) \/ FinishStart(s)
    /\ UNCHANGED <<page, hints, wire, money>>

CatalogAnswers(s) == Catalog(s) /\ UNCHANGED <<page, hints, wire, money>>

\* A level that starts again is a new Workflow, with requests of its own.
LevelStarts(s) ==
    /\ Server(s)
    /\ hint' = [m \in Spends |->
                  IF m[1] = op[s].level /\ child' # child /\ hint[m] # "none"
                  THEN "over" ELSE hint[m]]
    /\ UNCHANGED <<page, paying, wire, money>>

\* A new run of the player does not know the Update IDs of the last one.  What
\* follows a player that failed is left to module Player.
RunEnds ==
    /\ ContinueAsNew \/ LevelFailed
    /\ executed' = NothingExecuted
    /\ handling' = [s \in Slots |-> None]
    /\ StopLevels
    /\ UNCHANGED <<page, inFlight, debits>>

\* An upgrade signal, one more reason for a Continue-As-New that the server may
\* suggest at any time, is left to module Player.
Loop ==
    /\ LevelEnds \/ BoardPublished \/ Wake
    /\ UNCHANGED <<page, hints, wire, money>>

Outside ==
    /\ Tick \/ \E version \in publishing : Publish(version)
    /\ UNCHANGED <<page, hints, wire, money>>

-----------------------------------------------------------------------------
(* The page, through the API. *)

\* The open level answers that it is over: the page asks for its completion.
AskCompletion(l) ==
    /\ page = None /\ active = l /\ child[l].status \in {"solved", "timedOut"}
    /\ page' = [level |-> l, how |-> child[l].status]
    /\ UNCHANGED <<vars, hints, wire, money>>

\* The API has read that the player is free.  If another level is open, or the
\* same for five seconds, its answer is a conflict, and the page asks again.
AnswersCompletion(free) ==
    /\ page # None /\ mainPc # "failed"
    /\ free
    /\ page' = None
    /\ UNCHANGED <<vars, hints, wire, money>>

\* Fault: it answers whatever it reads first.
AnswerCompletionAtOnce == AnswersCompletion(TRUE)

AnswerCompletion == AnswersCompletion(active = None)

-----------------------------------------------------------------------------
PLNext ==
    \/ \E s \in Slots :
        \/ s \notin SpendSlots /\ AcceptOther(s)
        \/ HandleOther(s) \/ Spend(s) \/ CatalogAnswers(s) \/ LevelStarts(s)
    \/ \E l \in LevelIds :
        BeginPaidHint(l) \/ LevelReturns(l) \/ LevelTerminated(l) \/ AskCompletion(l)
    \/ \E m \in Spends :
        \/ Send(m) \/ Attach(m) \/ \E s \in SpendSlots : Admit(m, s)
        \/ Reject(m) \/ RejectStray(m) \/ Answer(m)
    \/ RunEnds \/ Loop \/ Outside
    \/ AnswerCompletion

\* As for Player; an Activity is retried until the player answers.
PLFairness ==
    /\ \A s \in Slots :
        /\ WF_allVars(CatalogAnswers(s)) /\ WF_allVars(LevelStarts(s))
        /\ SF_allVars(HandleOther(s) \/ Spend(s))
    /\ \A version \in 1..Cardinality(LevelIds) : WF_allVars(Publish(version) /\ Outside)
    /\ WF_allVars(LevelEnds /\ Loop) /\ WF_allVars(BoardPublished /\ Loop)
    /\ WF_allVars(Wake /\ Loop)
    /\ \A m \in Spends :
        /\ WF_allVars(Send(m)) /\ WF_allVars(Answer(m)) /\ WF_allVars(Reject(m))
        /\ WF_allVars(\E s \in SpendSlots : Admit(m, s))

PLSpec == PLInit /\ [][PLNext]_allVars /\ PLFairness

-----------------------------------------------------------------------------
(* Properties. *)

\* Every variable has its type.
PLTypeOK ==
    /\ TypeOK
    /\ paying \in [LevelIds -> Requests \cup {None}]
    /\ hint \in [Spends -> {"none", "paid", "refused", "over"}]
    /\ inFlight \subseteq Spends /\ strayed \subseteq Spends
    /\ executed \in [Spends -> {"none", "running", "paid", "refused"}]
    /\ handling \in [Slots -> Spends \cup {None}]
    /\ debits \in [Spends -> Nat]
    /\ page \in Completions \cup {None}

\* A hint that was answered as paid was debited, one that was refused was not,
\* and none is debited twice, however often its Activity is retried and its
\* request sent again.  The exception is a request that was still on its way
\* when its hint was answered: a later run of the player executes it once more,
\* if the same level is open again.
HintsArePaidOnce ==
    \A m \in Spends :
        /\ hint[m] = "paid" => debits[m] > 0
        /\ m \notin strayed => debits[m] <= 1 /\ (hint[m] = "refused" => debits[m] = 0)

\* The player counts the end of a level that the page has seen.
Counts(seenEnd) ==
    IF seenEnd.how = "solved"
    THEN \E k \in DOMAIN completed : completed[k].level = seenEnd.level
    ELSE progress[seenEnd.level[1]].failed

\* The completion that the page is told counts the level that it saw end: the
\* level is over before the player knows it, and the answer waits for the
\* player, whatever it does in between.
CompletionsCount ==
    [][page # None /\ page' = None => Counts(page)]_allVars

\* A hint that waits for the player returns, and so does every Update of the
\* player, although its handlers wait for each other, for the catalog and for
\* the start of levels.
RequestsReturn ==
    /\ UpdatesReturn
    /\ \A l \in LevelIds : paying[l] # None ~> paying[l] = None

-----------------------------------------------------------------------------
(* The inductive invariant behind the safety properties. *)

\* Each spend that is admitted is executed by one handler, of its level.
HandlingInv ==
    /\ \A s \in Slots :
        /\ pc[s] = "accepted" /\ op[s].kind = "spend" => handling[s] # None
        /\ handling[s] # None =>
            /\ pc[s] = "accepted" /\ op[s].kind = "spend"
            /\ op[s].level = handling[s][1]
            /\ executed[handling[s]] = "running"
    /\ \A s, t \in Slots : handling[s] # None /\ handling[s] = handling[t] => s = t

\* A hint waits in a level that runs; one that never waited left no trace.
HintInv ==
    \A m \in Spends :
        /\ Awaits(m) => hint[m] = "none" /\ child[m[1]].status = "running"
        /\ hint[m] = "none" /\ ~Awaits(m) =>
            /\ debits[m] = 0 /\ executed[m] = "none"
            /\ m \notin inFlight /\ m \notin strayed

\* While its level runs, the player's run knows whether the spend was debited;
\* no request of it is on its way when no hint waits for it.
DebitInv ==
    \A m \in Spends :
        /\ hint[m] = "paid" \/ executed[m] = "paid" => debits[m] > 0
        /\ m \notin strayed =>
            /\ debits[m] \in {0, 1}
            /\ m \in inFlight => Awaits(m)
            /\ child[m[1]].status = "running" /\ hint[m] # "over" =>
                  (debits[m] = 1 <=> executed[m] = "paid")
            /\ hint[m] = "refused" => debits[m] = 0
            /\ executed[m] = "running" => debits[m] = 0 /\ hint[m] \in {"none", "over"}

\* The end that the page has seen is still to be applied, or counts.
PageInv ==
    page # None =>
        \/ active = page.level /\ child[page.level].status = page.how
        \/ Counts(page)

PLInv == PLTypeOK /\ HandlingInv /\ HintInv /\ DebitInv /\ PageInv

=============================================================================
