------------------------------- MODULE Explorer -------------------------------
(***************************************************************************)
(* The read-only Workflow Explorer: the two handlers of                    *)
(* internal/explorer/server.go, which list the workflow runs a viewer may  *)
(* see and page through the history of one of them, and the page           *)
(* internal/explorer/web/app.js that shows them.                           *)
(*                                                                         *)
(* The page keeps its state in one object and has any number of requests   *)
(* out: each click sends one, a timer sends two every five seconds, and    *)
(* the answers return in any order while the workflows go on.  A request   *)
(* of getWorkflow is answered in two steps, because the handler describes  *)
(* the run first and reads the history of what it described afterwards.    *)
(*                                                                         *)
(* The Temporal server is external: its runs, its list, sorted by start    *)
(* with a token that is the last row, and histories that only grow.  A run *)
(* is the number of its start; a workflow ID names its latest run.  Of an  *)
(* event there is its number and the child it is about; runs that failed,  *)
(* timed out or were canceled are shown like those that were continued.    *)
(***************************************************************************)
EXTENDS Integers, Sequences, FiniteSets, SequencesExt

CONSTANTS
    Public,          \* workflow IDs of the catalog, campaigns, generator, leaderboard
    Owned,           \* IDs of the player and level workflows of one player
    Children,        \* the workflows that a workflow starts
    Addressed,       \* the workflow IDs that the page is opened with, or None
    ListPageSize, HistoryPageSize,
    MaxRuns, MaxEvents,   \* bounds
    None

Workflows == Public \cup Owned
Runs      == 1..MaxRuns

ASSUME WorkflowsAssumption ==
    /\ Public \cap Owned = {} /\ Workflows \cap Nat = {} /\ None \notin Workflows \cup Nat
    /\ Addressed \subseteq Workflows \cup {None}
    /\ Children \in [Workflows -> SUBSET Workflows]

ASSUME SizesAssumption ==
    /\ ListPageSize \in Nat \ {0} /\ HistoryPageSize \in Nat \ {0}
    /\ MaxRuns \in Nat \ {0} /\ MaxEvents \in Nat \ {0}

Statuses == {"running", "continued", "completed", "terminated"}
Viewers  == {"anonymous", "owner"}   \* "" and the player ID of the session

VARIABLES
    viewer,    \* whose session the requests carry
    runs,      \* external: all runs, in the order of their start
    rows,      \* state.workflows
    listPage,  \* state.nextWorkflowPage: the last row shown, or 0
    rowsLeft,  \* the "Load more executions" button is not hidden
    listAsked, \* requests of the list on their way
    initial,   \* state.initialSelection, from the address of the page
    selected,  \* state.selected: a run, or a workflow ID that stands for its latest
    events,    \* state.events
    page,      \* state.nextHistoryPage: the last event shown, or 0
    moreShown, \* the "Load more history" button is not hidden
    asked,     \* requests of one workflow on their way
    reloaded,  \* history: the first page was appended as if it were the next
    lookedAt   \* history: the runs that the viewer might see when the server last
               \* described one for what is shown

list  == <<rows, listPage, rowsLeft, listAsked, initial>>
shown == <<selected, events, page, moreShown, reloaded, lookedAt>>
vars  == <<viewer, runs, rows, listPage, rowsLeft, listAsked, initial,
           selected, events, page, moreShown, asked, reloaded, lookedAt>>

-----------------------------------------------------------------------------
(* Who may see what. *)

\* The query that the list is filtered with.
ListFilter(w, status) ==
    /\ status # "terminated"
    /\ \/ status # "completed" /\ w \in Public
       \/ viewer = "owner" /\ w \in Owned

PlayerOwnsWorkflow(who, w) == who = "owner" /\ w \in Owned

CanViewWorkflowID(who, w) == w \in Public \/ PlayerOwnsWorkflow(who, w)

CanViewWorkflow(w, status) ==
    /\ status # "terminated"
    /\ IF status = "completed" THEN PlayerOwnsWorkflow(viewer, w)
       ELSE PlayerOwnsWorkflow(viewer, w) \/ CanViewWorkflowID("anonymous", w)

CanViewRun(i) == CanViewWorkflow(runs[i].workflow, runs[i].status)

\* The rule these functions are to keep: nothing that was terminated is shown,
\* what is completed or private to its owner only.
VisibleAs(w, status) ==
    /\ status # "terminated"
    /\ \/ viewer = "owner" /\ w \in Owned
       \/ w \in Public /\ status # "completed"

Visible(i) == VisibleAs(runs[i].workflow, runs[i].status)

-----------------------------------------------------------------------------
(* The Temporal server. *)

RunsOf(w)    == {i \in DOMAIN runs : runs[i].workflow = w}
Latest(w)    == Max(RunsOf(w))
IsRunning(w) == \E i \in RunsOf(w) : runs[i].status = "running"

Started(w) == [workflow |-> w, status |-> "running", history |-> <<None>>]

\* A workflow is started, also again after it closed.
Begin(w) ==
    /\ ~IsRunning(w) /\ Len(runs) < MaxRuns
    /\ runs' = Append(runs, Started(w))
    /\ UNCHANGED <<viewer, list, shown, asked>>

\* A run writes an event; one about a child names its run and its new status.
Happen(i) ==
    /\ runs[i].status = "running" /\ Len(runs[i].history) < MaxEvents
    /\ \E child \in {None} \cup {c \in Children[runs[i].workflow] : RunsOf(c) # {}} :
        runs' = [runs EXCEPT ![i].history =
                    Append(@, IF child = None THEN None
                              ELSE [run |-> Latest(child),
                                    status |-> runs[Latest(child)].status])]
    /\ UNCHANGED <<viewer, list, shown, asked>>

Close(i, reason) ==
    /\ runs[i].status = "running"
    /\ runs' = [runs EXCEPT ![i].status = reason]
    /\ UNCHANGED <<viewer, list, shown, asked>>

ContinueAsNew(i) ==
    /\ runs[i].status = "running" /\ Len(runs) < MaxRuns
    /\ runs' = Append([runs EXCEPT ![i].status = "continued"], Started(runs[i].workflow))
    /\ UNCHANGED <<viewer, list, shown, asked>>

-----------------------------------------------------------------------------
(* The answers of listWorkflows and getWorkflow. *)

\* The place of run i in a list of S, the newest first, and that list.
Rank(i, S) == Cardinality({j \in S : j >= i})

NewestFirst(S) == [k \in 1..Cardinality(S) |-> CHOOSE i \in S : Rank(i, S) = k]

\* The page of the list after row `from`, without the rows the viewer may not see.
ListWorkflows(from) ==
    LET found == {i \in DOMAIN runs :
                     /\ ListFilter(runs[i].workflow, runs[i].status)
                     /\ from = 0 \/ i < from}
        first == {i \in found : Rank(i, found) <= ListPageSize}
    IN  [rows |-> {i \in first : CanViewRun(i)},
         next |-> IF first = found THEN 0 ELSE Min(first)]

\* The page of the history of run i after event `from`.
History(i, from) ==
    LET upTo == Min({from + HistoryPageSize, Len(runs[i].history)}) IN
    [events |-> [k \in 1..(upTo - from) |-> [run |-> i, id |-> from + k]],
     next   |-> IF upTo < Len(runs[i].history) THEN upTo ELSE 0]

\* Fault: whatever the event says of the child, its workflow ID decides.
ChildByID(e) ==
    LET child == runs[e.run].history[e.id] IN
    IF child # None /\ CanViewWorkflowID(viewer, runs[child.run].workflow)
    THEN {child} ELSE {}

\* An event links to the child it is about, if the viewer may see that.
ChildWorkflow(e) ==
    LET child == runs[e.run].history[e.id] IN
    IF child # None /\ CanViewWorkflow(runs[child.run].workflow, child.status)
    THEN {child} ELSE {}

WorkflowOf(target) == IF target \in Workflows THEN target ELSE runs[target].workflow

\* DescribeWorkflowExecution finds the run that is named, or the latest.
Found(target) == IF target \in Workflows THEN Latest(target) ELSE target

Describes(q, allowed) ==
    /\ q.current /\ q.found = 0 /\ CanViewWorkflowID(viewer, WorkflowOf(q.target))
    /\ RunsOf(WorkflowOf(q.target)) # {}
    /\ Found(q.target) \in allowed
    /\ asked' = (asked \ {q}) \cup {[q EXCEPT !.found = Found(q.target)]}
    /\ lookedAt' = {i \in DOMAIN runs : Visible(i)}
    /\ UNCHANGED <<viewer, runs, list, selected, events, page, moreShown, reloaded>>

\* Fault: only the workflow ID is checked, not the status that was described.
DescribeByID(q) == Describes(q, DOMAIN runs)

Describe(q) == Describes(q, {i \in DOMAIN runs : CanViewRun(i)})

-----------------------------------------------------------------------------
(* The page: one workflow. *)

Request(target, append, quiet) ==
    [target |-> target, append |-> append, quiet |-> quiet, current |-> TRUE,
     page |-> IF append THEN page ELSE 0, found |-> 0]

\* Of a request that was overtaken nothing matters but that the button for more
\* waits for its end.
Overtaken == [append |-> TRUE, current |-> FALSE]

\* Fault: a request does not overtake those before it.
AsksUnnumbered(target, append, quiet) ==
    asked' = asked \cup {Request(target, append, quiet)}

\* loadWorkflowDetail, up to its fetch.
Asks(target, append, quiet) ==
    asked' = {Request(target, append, quiet)}
             \cup (IF \E q \in asked : q.append THEN {Overtaken} ELSE {})

Opens(target) ==
    /\ Asks(target, FALSE, FALSE)
    /\ selected' = target /\ events' = <<>> /\ page' = 0 /\ lookedAt' = {}
    /\ UNCHANGED <<moreShown, reloaded>>

Links == UNION {ChildWorkflow(events[k]) : k \in DOMAIN events}

\* A card of the list, the link of an event, or the button that reloads.
Click ==
    /\ \E i \in ToSet(rows) \cup {child.run : child \in Links} \cup ({selected} \ {None}) :
        Opens(i)
    /\ UNCHANGED <<viewer, runs, list>>

\* "Load more history", whose button is disabled until its answer.  Bound: no
\* further after the first page was appended once more.
LoadMore ==
    /\ moreShown /\ ~reloaded /\ \A q \in asked : ~q.append
    /\ Asks(selected, TRUE, FALSE)
    /\ UNCHANGED <<viewer, runs, list, shown>>

\* The answer, with the history of run i as it is by then.
Shows(q, i) ==
    /\ q.current /\ q.found # 0
    /\ asked' = asked \ {q}
    /\ LET answer == History(i, q.page) IN
        /\ selected' = q.found
        /\ events' = IF q.append THEN events \o answer.events ELSE answer.events
        /\ page' = answer.next /\ moreShown' = (answer.next # 0)
        /\ reloaded' = (q.append /\ (reloaded \/ (q.page = 0 /\ events # <<>>)))
    /\ UNCHANGED <<viewer, runs, list, lookedAt>>

\* Fault: the history is read from the run that the request names, or from what
\* is the latest by then.
ShowNamed(q) == q.current /\ Shows(q, Found(q.target))

\* The history is read from the run that was described.
Show(q) == Shows(q, q.found)

\* An answer to a request that was overtaken is dropped; an error replaces what
\* is drawn but not the state.
Drop(q) ==
    /\ asked' = asked \ {q}
    /\ UNCHANGED <<viewer, runs, list, shown>>

-----------------------------------------------------------------------------
(* The page: the list. *)

\* loadWorkflows, up to its fetch.
AsksList(append) ==
    /\ listAsked' = listAsked \cup
            {[append |-> append, page |-> IF append THEN listPage ELSE 0]}
    /\ listPage' = IF append THEN listPage ELSE 0
    /\ UNCHANGED <<viewer, runs, rows, rowsLeft, initial>>

\* "Load more executions", whose button is disabled until its answer; it stays
\* while a refresh has forgotten the next page.
MoreRows ==
    /\ rowsLeft /\ \A q \in listAsked : ~q.append
    /\ AsksList(TRUE)
    /\ UNCHANGED <<shown, asked>>

\* A run that is listed already is left out; the rows of one answer differ.
Deduplicated(listed, more) == listed \o NewestFirst(more \ ToSet(listed))

\* The run to open first: the one in the address of the page, or the newest.
First(found) ==
    LET named == {k \in DOMAIN found : runs[found[k]].workflow = initial}
    IN  IF initial = None THEN found[1]
        ELSE IF named = {} THEN initial ELSE found[Min(named)]

ShowList(q) ==
    LET answer == ListWorkflows(q.page) IN
    /\ listAsked' = listAsked \ {q}
    /\ rows' = IF q.append THEN Deduplicated(rows, answer.rows) ELSE NewestFirst(answer.rows)
    /\ listPage' = answer.next /\ rowsLeft' = (answer.next # 0)
    /\ IF selected = None /\ (initial # None \/ rows' # <<>>)
       THEN Opens(First(rows')) /\ initial' = None
       ELSE UNCHANGED <<shown, asked, initial>>
    /\ UNCHANGED <<viewer, runs>>

FailList(q) ==
    /\ listAsked' = listAsked \ {q}
    /\ UNCHANGED <<viewer, runs, rows, listPage, rowsLeft, initial, shown, asked>>

RefreshList == AsksList(FALSE) /\ UNCHANGED <<shown, asked>>

\* Every five seconds, unless the last refresh is still out.
AutoRefresh ==
    /\ \A q \in asked : q.current => ~q.quiet
    /\ AsksList(FALSE)
    /\ selected # None /\ Asks(selected, FALSE, TRUE)
    /\ page' = 0
    /\ UNCHANGED <<selected, events, moreShown, reloaded, lookedAt>>

-----------------------------------------------------------------------------
Init ==
    /\ viewer \in Viewers
    /\ runs = <<>>
    /\ rows = <<>> /\ listPage = 0 /\ rowsLeft = FALSE
    /\ listAsked = {[append |-> FALSE, page |-> 0]}
    /\ initial \in Addressed
    /\ selected = None /\ events = <<>> /\ page = 0
    /\ moreShown = FALSE /\ asked = {} /\ reloaded = FALSE /\ lookedAt = {}

Temporal ==
    \/ \E w \in Workflows : Begin(w)
    \/ \E i \in DOMAIN runs :
        \/ Happen(i) \/ ContinueAsNew(i)
        \/ Close(i, "completed") \/ Close(i, "terminated")

Page == Click \/ LoadMore \/ RefreshList \/ MoreRows \/ AutoRefresh

Answers ==
    \/ \E q \in asked : Describe(q) \/ Show(q) \/ Drop(q)
    \/ \E q \in listAsked : ShowList(q) \/ FailList(q)

Next == Temporal \/ Page \/ Answers

Spec == Init /\ [][Next]_vars

-----------------------------------------------------------------------------
(* Properties. *)

\* Every variable has its type.
TypeOK ==
    /\ viewer \in Viewers
    /\ runs \in Seq([workflow : Workflows, status : Statuses,
                     history : Seq([run : Runs, status : Statuses] \cup {None})])
    /\ rows \in Seq(Runs)
    /\ listPage \in 0..MaxRuns /\ initial \in Workflows \cup {None}
    /\ listAsked \subseteq [append : BOOLEAN, page : 0..MaxRuns]
    /\ selected \in Runs \cup Workflows \cup {None}
    /\ events \in Seq([run : Runs, id : 1..MaxEvents])
    /\ page \in 0..MaxEvents
    /\ moreShown \in BOOLEAN /\ rowsLeft \in BOOLEAN /\ reloaded \in BOOLEAN
    /\ lookedAt \subseteq Runs
    /\ asked \subseteq {Overtaken} \cup
            [target : Runs \cup Workflows, append : BOOLEAN, quiet : BOOLEAN,
             current : {TRUE}, page : 0..MaxEvents, found : 0..MaxRuns]

\* The timeline shows events of the selected run and of no other, whatever was
\* clicked and answered in between, and they are its history from the start
\* without a gap.  The exception is "Load more" while a refresh has forgotten
\* the next page: the first page is then appended once more.
TimelineIsOneHistory ==
    \A k \in DOMAIN events :
        /\ events[k].run = selected
        /\ ~reloaded => events[k].id = k

\* What reached the page is what the viewer might see when the server looked:
\* every event is of a run that was visible when it was described for the page,
\* although by the time its history was read it may have closed or have been
\* replaced.  A link leads nowhere the viewer may never go, and to a child that
\* is out of sight only if it was still running when the event was written.
ShownWasVisible ==
    /\ \A k \in DOMAIN events : events[k].run \in lookedAt
    /\ \A child \in Links :
          /\ runs[child.run].workflow \in Public \/ viewer = "owner"
          /\ \/ Visible(child.run)
             \/ child.status = "running" /\ runs[child.run].status # "running"

-----------------------------------------------------------------------------
(* The inductive invariant behind them. *)

\* Bounds of the external server.
BoundsInv ==
    /\ Len(runs) <= MaxRuns
    /\ \A i \in DOMAIN runs : Len(runs[i].history) <= MaxEvents

\* What an event says of a child is so, unless the child has closed since.
Told(e) ==
    e # None => e.run \in DOMAIN runs /\ e.status \in {"running", runs[e.run].status}

EventsInv ==
    \A i \in DOMAIN runs : \A k \in DOMAIN runs[i].history : Told(runs[i].history[k])

\* One request is the newest.  It is for what is selected, for the next page only
\* if it is to append; the run that is described was visible, and the named one.
RequestsInv ==
    \A q \in asked : q.current =>
        /\ \A p \in asked : p.current => p = q
        /\ q.page = IF q.append THEN page ELSE 0
        /\ q.target = selected
        /\ q.found \in {0} \cup (lookedAt \cap DOMAIN runs)
        /\ q.found = 0 \/ q.target \in Workflows \/ q.found = q.target

\* What is shown are events of histories that exist, of runs that were visible, and as
\* many as the next page begins after.
ShownInv ==
    /\ \A k \in DOMAIN events : /\ events[k].run \in lookedAt \cap DOMAIN runs
                                /\ events[k].id \in DOMAIN runs[events[k].run].history
    /\ events # <<>> => selected \in Runs
    /\ moreShown => selected # None
    /\ page = 0 \/ reloaded \/ page = Len(events)

IInv ==
    /\ TypeOK /\ BoundsInv /\ EventsInv /\ RequestsInv /\ ShownInv
    /\ TimelineIsOneHistory

=============================================================================
