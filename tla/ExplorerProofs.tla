--------------------------- MODULE ExplorerProofs ---------------------------
(***************************************************************************)
(* Proofs about Explorer, for any workflows, page sizes and bounds: the    *)
(* timeline shows the history of one run, and what reached the page is     *)
(* what the viewer might see when the server looked.                       *)
(***************************************************************************)
EXTENDS Explorer, FunctionTheorems, SequenceTheorems, FiniteSetTheorems, TLAPS

USE WorkflowsAssumption, SizesAssumption

(* What TypeOK says a run and a request are. *)
Run == [workflow : Workflows, status : Statuses,
        history : Seq([run : Runs, status : Statuses] \cup {None})]

Asked == {Overtaken} \cup
            [target : Runs \cup Workflows, append : BOOLEAN, quiet : BOOLEAN,
             current : {TRUE}, page : 0..MaxEvents, found : 0..MaxRuns]

-----------------------------------------------------------------------------
(* Lists of runs. *)

(* Every place of a list is taken: ranks are different, and as many as runs. *)
LEMMA RankOnto ==
    ASSUME NEW S \in SUBSET Nat, IsFiniteSet(S), NEW k \in 1..Cardinality(S)
    PROVE  \E i \in S : Rank(i, S) = k
<1> DEFINE n == Cardinality(S)
           from(i) == {j \in S : j >= i}
           rank == [i \in S |-> Rank(i, S)]
<1>1. n \in Nat /\ IsFiniteSet(1..n) /\ Cardinality(1..n) = n
  BY FS_CardinalityType, FS_Interval
<1>2. ASSUME NEW i \in S
      PROVE  IsFiniteSet(from(i)) /\ Cardinality(from(i)) \in 1..n
  <2>1. from(i) \in SUBSET S /\ i \in from(i)
    OBVIOUS
  <2>2. IsFiniteSet(from(i)) /\ Cardinality(from(i)) <= n
    BY <2>1, FS_Subset
  <2>3. Cardinality(from(i)) \in Nat /\ Cardinality(from(i)) # 0
    BY <2>1, <2>2, FS_CardinalityType, FS_EmptySet
  <2> QED
    BY <1>1, <2>2, <2>3
<1>3. ASSUME NEW i \in S, NEW j \in S, i < j
      PROVE  Cardinality(from(i)) # Cardinality(from(j))
  <2>1. \A x \in S : x >= j => x >= i
    BY <1>3
  <2>2. from(j) \in SUBSET from(i)
    BY <2>1
  <2>3. i \in from(i) /\ i \notin from(j)
    BY <1>3
  <2> QED
    BY <1>2, <2>2, <2>3, FS_Subset
<1>4. ASSUME NEW i \in S, NEW j \in S, rank[i] = rank[j]
      PROVE  i = j
  BY <1>3, <1>4 DEF Rank
<1>5. rank \in Injection(S, 1..n)
  <2>1. rank \in [S -> 1..n]
    BY <1>2 DEF Rank
  <2> QED
    BY <1>4, <2>1 DEF Injection, IsInjective
<1>6. rank \in Surjection(S, 1..n)
  BY <1>1, <1>5, FS_Injection
<1> QED
  BY <1>6 DEF Surjection

LEMMA NewestFirstList ==
    ASSUME NEW S \in SUBSET Nat, IsFiniteSet(S)
    PROVE  NewestFirst(S) \in Seq(S)
<1>1. Cardinality(S) \in Nat
  BY FS_CardinalityType
<1>2. ASSUME NEW k \in 1..Cardinality(S)
      PROVE  (CHOOSE i \in S : Rank(i, S) = k) \in S
  BY RankOnto
<1> QED
  BY <1>1, <1>2 DEF NewestFirst

(* The first and the last of a list. *)
LEMMA Extremes ==
    ASSUME NEW S \in SUBSET Nat, IsFiniteSet(S), S # {}
    PROVE  Max(S) \in S /\ Min(S) \in S
<1>1. Cardinality(S) \in Nat \ {0}
  BY FS_CardinalityType, FS_EmptySet
<1>2. PICK newest \in S : Rank(newest, S) = 1
  BY <1>1, RankOnto
<1>3. \A j \in S : newest >= j
  <2> DEFINE after == {j \in S : j >= newest}
  <2>1. IsFiniteSet(after) /\ Cardinality(after) = 1 /\ newest \in after
    BY <1>2, FS_Subset DEF Rank
  <2>2. after = {newest}
    BY <2>1, FS_Singleton
  <2> QED
    BY <2>2
<1>4. PICK oldest \in S : Rank(oldest, S) = Cardinality(S)
  BY <1>1, RankOnto
<1>5. \A j \in S : oldest <= j
  <2> DEFINE after == {j \in S : j >= oldest}
  <2>1. after = S
    BY <1>4, FS_Subset DEF Rank
  <2> QED
    BY <2>1
<1> QED
  BY <1>3, <1>5 DEF Max, Min

LEMMA Smaller ==
    ASSUME NEW a \in Int, NEW b \in Int
    PROVE  Min({a, b}) = IF a <= b THEN a ELSE b
BY DEF Min

LEMMA InList ==
    ASSUME NEW T, NEW s \in Seq(T)
    PROVE  ToSet(s) \subseteq T
BY DEF ToSet

-----------------------------------------------------------------------------
(* What a viewer may see. *)

(* What canViewWorkflow lets pass keeps the rule. *)
LEMMA ViewIsVisible ==
    ASSUME NEW w, NEW status, CanViewWorkflow(w, status)
    PROVE  VisibleAs(w, status)
BY DEF CanViewWorkflow, CanViewWorkflowID, PlayerOwnsWorkflow, VisibleAs

(* A page of the list is a set of runs. *)
LEMMA ListPage ==
    ASSUME runs \in Seq(Run), Len(runs) <= MaxRuns, NEW from \in Nat
    PROVE  LET answer == ListWorkflows(from) IN
           /\ answer.rows \in SUBSET Runs /\ IsFiniteSet(answer.rows)
           /\ answer.rows \in SUBSET Nat
           /\ answer.next \in 0..MaxRuns
<1> DEFINE found == {i \in DOMAIN runs : /\ ListFilter(runs[i].workflow, runs[i].status)
                                         /\ from = 0 \/ i < from}
           first == {i \in found : Rank(i, found) <= ListPageSize}
<1>1. Len(runs) \in Nat /\ DOMAIN runs = 1..Len(runs)
  OBVIOUS
<1>2. found \in SUBSET Runs /\ found \in SUBSET Nat /\ IsFiniteSet(found)
  <2>1. IsFiniteSet(Runs)
    BY FS_Interval DEF Runs
  <2>2. found \in SUBSET Runs
    BY <1>1 DEF Runs
  <2> QED
    BY <2>1, <2>2, FS_Subset DEF Runs
<1>3. first \in SUBSET found /\ IsFiniteSet(first)
  BY <1>2, FS_Subset
<1> HIDE DEF found
<1>4. first # found => first # {}
  <2>1. SUFFICES ASSUME found # {}
                 PROVE  first # {}
    OBVIOUS
  <2>2. Cardinality(found) \in Nat \ {0}
    BY <1>2, <2>1, FS_CardinalityType, FS_EmptySet
  <2>3. PICK i \in found : Rank(i, found) = 1
    BY <1>2, <2>2, RankOnto
  <2> QED
    BY <2>3
<1>5. first # found => Min(first) \in Runs
  BY <1>2, <1>3, <1>4, Extremes
<1>6. {i \in first : CanViewRun(i)} \in SUBSET first
  OBVIOUS
<1>7. IsFiniteSet({i \in first : CanViewRun(i)})
  BY <1>3, <1>6, FS_Subset
<1>8. ListWorkflows(from) = [rows |-> {i \in first : CanViewRun(i)},
                             next |-> IF first = found THEN 0 ELSE Min(first)]
  BY DEF ListWorkflows, found
<1> HIDE DEF first
<1>9. ListWorkflows(from).next \in 0..MaxRuns
  BY <1>5, <1>8 DEF Runs
<1>10. ListWorkflows(from).rows = {i \in first : CanViewRun(i)}
  BY <1>8
<1>11. ListWorkflows(from).rows \in SUBSET Runs /\ ListWorkflows(from).rows \in SUBSET Nat
  BY <1>2, <1>3, <1>10
<1> QED
  BY <1>7, <1>9, <1>10, <1>11

(* The rows after an answer. *)
LEMMA RowsShown ==
    ASSUME runs \in Seq(Run), Len(runs) <= MaxRuns, rows \in Seq(Runs),
           listAsked \subseteq [append : BOOLEAN, page : 0..MaxRuns],
           NEW q \in listAsked, ShowList(q)
    PROVE  rows' \in Seq(Runs)
<1> DEFINE answer == ListWorkflows(q.page)
           more == answer.rows \ ToSet(rows)
<1>1. /\ answer.rows \in SUBSET Runs /\ IsFiniteSet(answer.rows)
      /\ answer.rows \in SUBSET Nat
  BY ListPage
<1>2. more \in SUBSET answer.rows /\ IsFiniteSet(more)
  BY <1>1, FS_Subset
<1>3. NewestFirst(more) \in Seq(more) /\ NewestFirst(answer.rows) \in Seq(answer.rows)
  BY <1>1, <1>2, NewestFirstList
<1>4. rows' = IF q.append THEN rows \o NewestFirst(more) ELSE NewestFirst(answer.rows)
  BY DEF ShowList, Deduplicated
<1> HIDE DEF answer, more
<1> QED
  BY <1>1, <1>2, <1>3, <1>4

-----------------------------------------------------------------------------
(* The Temporal server: runs are added and histories grow. *)

LEMMA Parts ==
    ASSUME TypeOK
    PROVE  /\ runs \in Seq(Run) /\ DOMAIN runs = 1..Len(runs) /\ Len(runs) \in Nat
           /\ \A i \in DOMAIN runs : /\ runs[i] \in Run /\ runs[i].workflow \in Workflows
                                     /\ Len(runs[i].history) \in Nat
           /\ asked \subseteq Asked
<1>1. runs \in Seq(Run) /\ asked \subseteq Asked
  BY DEF TypeOK, Run, Asked
<1>2. \A r \in Run : r.workflow \in Workflows /\ Len(r.history) \in Nat
  BY DEF Run
<1> QED
  BY <1>1, <1>2

LEMMA CurrentParts ==
    ASSUME TypeOK, NEW q \in asked, q.current
    PROVE  /\ q.target \in Runs \cup Workflows /\ q.append \in BOOLEAN /\ q.quiet \in BOOLEAN
           /\ q.page \in 0..MaxEvents /\ q.found \in 0..MaxRuns /\ q # Overtaken
<1>1. Overtaken.current = FALSE
  BY DEF Overtaken
<1> QED
  BY <1>1, Parts DEF Asked

(* What a step of the server leaves of the runs that the page has seen. *)
Grows ==
    /\ runs' \in Seq(Run) /\ BoundsInv'
    /\ DOMAIN runs \subseteq DOMAIN runs'
    /\ \A i \in DOMAIN runs :
          /\ \A k \in DOMAIN runs[i].history :
                k \in DOMAIN runs'[i].history /\ runs'[i].history[k] = runs[i].history[k]
          /\ runs[i].status \in {"running", runs'[i].status}
          /\ runs'[i].workflow = runs[i].workflow
    /\ \A i \in DOMAIN runs' : \A k \in DOMAIN runs'[i].history : Told(runs'[i].history[k])

LEMMA StartedRun ==
    ASSUME NEW w \in Workflows
    PROVE  /\ Started(w) \in Run /\ Len(Started(w).history) = 1
           /\ \A k \in DOMAIN Started(w).history : Told(Started(w).history[k])
BY DEF Started, Run, Statuses, Told

LEMMA BeginGrows ==
    ASSUME TypeOK, BoundsInv, EventsInv, NEW w \in Workflows, Begin(w)
    PROVE  Grows
<1>1. runs' = Append(runs, Started(w)) /\ Len(runs) < MaxRuns
  BY DEF Begin
<1> QED
  <2>1. /\ runs' \in Seq(Run) /\ Len(runs') = Len(runs) + 1
        /\ \A i \in DOMAIN runs : i \in DOMAIN runs' /\ runs'[i] = runs[i]
        /\ runs'[Len(runs) + 1] = Started(w)
        /\ Len(runs'[Len(runs) + 1].history) = 1
    BY <1>1, Parts, StartedRun
  <2>2. BoundsInv'
    <3>1. \A i \in DOMAIN runs' : i \in DOMAIN runs \/ i = Len(runs) + 1
      BY <2>1, Parts
    <3>2. \A i \in DOMAIN runs' : Len(runs'[i].history) <= MaxEvents
      <4>1. ASSUME NEW i \in DOMAIN runs
            PROVE  Len(runs'[i].history) <= MaxEvents
        BY <2>1 DEF BoundsInv
      <4>2. Len(runs'[Len(runs) + 1].history) <= MaxEvents
        BY <2>1
      <4> QED
        BY <3>1, <4>1, <4>2
    <3> QED
      BY <1>1, <2>1, <3>2, Parts DEF BoundsInv
  <2>3. \A i \in DOMAIN runs' : \A k \in DOMAIN runs'[i].history : Told(runs'[i].history[k])
    <3>1. \A i \in DOMAIN runs' : i \in DOMAIN runs \/ i = Len(runs) + 1
      BY <2>1, Parts
    <3> QED
      BY <2>1, <3>1, StartedRun DEF EventsInv
  <2> QED
    BY <2>1, <2>2, <2>3 DEF Grows

LEMMA HappenGrows ==
    ASSUME TypeOK, BoundsInv, EventsInv, NEW i \in DOMAIN runs, Happen(i)
    PROVE  Grows
<1> DEFINE Events == [run : Runs, status : Statuses] \cup {None}
<1>1. PICK child \in {None} \cup {c \in Children[runs[i].workflow] : RunsOf(c) # {}} :
        runs' = [runs EXCEPT ![i].history =
                    Append(@, IF child = None THEN None
                              ELSE [run |-> Latest(child),
                                    status |-> runs[Latest(child)].status])]
  BY DEF Happen
<1>2. ASSUME child # None
      PROVE  Latest(child) \in DOMAIN runs
  <2>1. RunsOf(child) # {} /\ RunsOf(child) \in SUBSET (1..Len(runs))
    BY <1>1, <1>2, Parts DEF RunsOf
  <2>2. IsFiniteSet(RunsOf(child)) /\ RunsOf(child) \in SUBSET Nat
    <3>1. IsFiniteSet(1..Len(runs)) /\ 1..Len(runs) \in SUBSET Nat
      BY Parts, FS_Interval
    <3> QED
      BY <2>1, <3>1, FS_Subset
  <2> QED
    BY <2>1, <2>2, Extremes, Parts DEF Latest
<1> DEFINE event == IF child = None THEN None
                    ELSE [run |-> Latest(child), status |-> runs[Latest(child)].status]
<1>3. event \in Events /\ Told(event)
  <2>1. CASE child # None
    <3>1. Latest(child) \in Runs
      BY <1>2, <2>1, Parts DEF Runs, BoundsInv
    <3>2. runs[Latest(child)].status \in Statuses
      BY <1>2, <2>1, Parts DEF Run
    <3>3. event = [run |-> Latest(child), status |-> runs[Latest(child)].status]
      BY <2>1
    <3>4. event \in Events
      BY <3>1, <3>2, <3>3
    <3>5. Told(event)
      BY <1>2, <2>1, <3>3 DEF Told
    <3> QED
      BY <3>4, <3>5
  <2> QED
    BY <2>1 DEF Told
<1>4. runs[i] \in Run /\ Len(runs[i].history) < MaxEvents
  BY Parts DEF Happen
<1> DEFINE longer == [runs[i] EXCEPT !.history = Append(@, event)]
<1>5. runs' = [runs EXCEPT ![i] = longer]
  BY <1>1, <1>4 DEF Run
<1> HIDE DEF event
<1>6. /\ longer \in Run /\ Len(longer.history) = Len(runs[i].history) + 1
      /\ longer.status = runs[i].status /\ longer.workflow = runs[i].workflow
      /\ longer.history = Append(runs[i].history, event)
  BY <1>3, <1>4 DEF Run
<1> HIDE DEF longer
<1>7. runs' \in Seq(Run) /\ DOMAIN runs' = DOMAIN runs /\ Len(runs') = Len(runs)
  BY <1>5, <1>6, Parts
<1>8. BoundsInv'
  BY <1>4, <1>5, <1>6, <1>7, Parts DEF BoundsInv, Run
<1>9. /\ \A k \in DOMAIN runs[i].history :
            k \in DOMAIN longer.history /\ longer.history[k] = runs[i].history[k]
      /\ \A k \in DOMAIN longer.history : Told(longer.history[k])
  <2>1. runs[i].history \in Seq(Events)
    BY <1>4 DEF Run
  <2>2. \A k \in DOMAIN longer.history :
            \/ k \in DOMAIN runs[i].history /\ longer.history[k] = runs[i].history[k]
            \/ longer.history[k] = event
    BY <1>3, <1>6, <2>1
  <2> QED
    BY <1>3, <1>6, <2>1, <2>2 DEF EventsInv
<1>10. \A j \in DOMAIN runs : runs'[j] = IF j = i THEN longer ELSE runs[j]
  BY <1>5, Parts
<1>11. /\ \A j \in DOMAIN runs :
            /\ \A k \in DOMAIN runs[j].history :
                  k \in DOMAIN runs'[j].history /\ runs'[j].history[k] = runs[j].history[k]
            /\ runs[j].status \in {"running", runs'[j].status}
            /\ runs'[j].workflow = runs[j].workflow
      /\ \A j \in DOMAIN runs' : \A k \in DOMAIN runs'[j].history : Told(runs'[j].history[k])
  BY <1>6, <1>7, <1>9, <1>10 DEF EventsInv
<1> QED
  BY <1>7, <1>8, <1>11 DEF Grows

LEMMA CloseGrows ==
    ASSUME TypeOK, BoundsInv, EventsInv, NEW i \in DOMAIN runs, NEW reason \in Statuses,
           runs[i].status = "running",
           runs' = [runs EXCEPT ![i].status = reason]
    PROVE  Grows
<1> DEFINE closed == [runs[i] EXCEPT !.status = reason]
<1>1. runs[i] \in Run
  BY Parts
<1>2. closed \in Run /\ closed.history = runs[i].history /\ closed.workflow = runs[i].workflow
  BY <1>1 DEF Run
<1>3. runs' = [runs EXCEPT ![i] = closed]
  BY <1>1 DEF Run
<1> HIDE DEF closed
<1>4. /\ runs' \in Seq(Run) /\ Len(runs') = Len(runs) /\ DOMAIN runs' = DOMAIN runs
      /\ \A j \in DOMAIN runs : /\ runs'[j].history = runs[j].history
                                /\ runs'[j].workflow = runs[j].workflow
                                /\ runs[j].status \in {"running", runs'[j].status}
  <2>1. runs' \in Seq(Run) /\ Len(runs') = Len(runs) /\ DOMAIN runs' = DOMAIN runs
    BY <1>2, <1>3, Parts
  <2>2. \A j \in DOMAIN runs : runs'[j] = IF j = i THEN closed ELSE runs[j]
    BY <1>3, Parts
  <2> QED
    BY <1>2, <2>1, <2>2
<1> QED
  BY <1>4, Parts DEF Grows, BoundsInv, EventsInv

LEMMA ContinueGrows ==
    ASSUME TypeOK, BoundsInv, EventsInv, NEW i \in DOMAIN runs, ContinueAsNew(i)
    PROVE  Grows
<1> DEFINE closed == [runs[i] EXCEPT !.status = "continued"]
           before == [runs EXCEPT ![i] = closed]
<1>1. runs[i] \in Run /\ runs[i].workflow \in Workflows
  BY Parts
<1>2. closed \in Run /\ closed.history = runs[i].history /\ closed.workflow = runs[i].workflow
  BY <1>1 DEF Run, Statuses
<1>3. /\ runs' = Append(before, Started(runs[i].workflow)) /\ Len(runs) < MaxRuns
      /\ runs[i].status = "running"
  BY <1>1 DEF ContinueAsNew, Run
<1> HIDE DEF closed
<1>4. /\ before \in Seq(Run) /\ Len(before) = Len(runs) /\ DOMAIN before = DOMAIN runs
      /\ \A j \in DOMAIN runs : /\ before[j].history = runs[j].history
                                /\ before[j].workflow = runs[j].workflow
                                /\ runs[j].status \in {"running", before[j].status}
  BY <1>2, <1>3, Parts
<1> HIDE DEF before
<1> QED
  <2>1. /\ runs' \in Seq(Run) /\ Len(runs') = Len(runs) + 1
        /\ \A j \in DOMAIN runs : j \in DOMAIN runs' /\ runs'[j] = before[j]
        /\ runs'[Len(runs) + 1] = Started(runs[i].workflow)
        /\ Len(runs'[Len(runs) + 1].history) = 1
    <3> DEFINE new == Started(runs[i].workflow)
    <3>1. new \in Run /\ Len(new.history) = 1
      BY <1>1, StartedRun
    <3>2. Len(before) = Len(runs) /\ before \in Seq(Run) /\ Len(runs) \in Nat
      BY <1>4, Parts
    <3>3. runs' = Append(before, new) /\ DOMAIN before = DOMAIN runs
      BY <1>3, <1>4
    <3> HIDE DEF new
    <3>4. runs' \in Seq(Run) /\ Len(runs') = Len(runs) + 1
      BY <3>1, <3>2, <3>3
    <3>6. runs'[Len(runs) + 1] = new
      BY <3>2, <3>3
    <3>5. \A j \in DOMAIN runs : j \in DOMAIN runs' /\ runs'[j] = before[j]
      BY <3>1, <3>2, <3>3
    <3> QED
      BY <3>1, <3>4, <3>5, <3>6 DEF new
  <2>2. BoundsInv'
    <3>1. \A j \in DOMAIN runs' : j \in DOMAIN runs \/ j = Len(runs) + 1
      BY <2>1, Parts
    <3>2. \A j \in DOMAIN runs' : Len(runs'[j].history) <= MaxEvents
      <4>1. ASSUME NEW j \in DOMAIN runs
            PROVE  Len(runs'[j].history) <= MaxEvents
        BY <1>4, <2>1 DEF BoundsInv
      <4>2. Len(runs'[Len(runs) + 1].history) <= MaxEvents
        BY <2>1
      <4> QED
        BY <3>1, <4>1, <4>2
    <3> QED
      BY <1>3, <2>1, <3>2, Parts DEF BoundsInv
  <2>3. \A j \in DOMAIN runs' : \A k \in DOMAIN runs'[j].history : Told(runs'[j].history[k])
    <3>1. \A j \in DOMAIN runs' : j \in DOMAIN runs \/ j = Len(runs) + 1
      BY <2>1, Parts
    <3> QED
      BY <1>1, <1>4, <2>1, <3>1, StartedRun DEF EventsInv
  <2> QED
    BY <1>4, <2>1, <2>2, <2>3 DEF Grows

LEMMA TemporalStep ==
    ASSUME IInv, Temporal
    PROVE  IInv'
<1>1. UNCHANGED <<viewer, rows, listPage, rowsLeft, listAsked, initial,
                  selected, events, page, moreShown, asked, reloaded, lookedAt>>
  BY DEF Temporal, Begin, Happen, ContinueAsNew, Close, list, shown
<1>2. Grows
  BY BeginGrows, HappenGrows, CloseGrows, ContinueGrows
     DEF Temporal, Close, Statuses, IInv
<1>3. TypeOK'
  BY <1>1, <1>2 DEF Grows, Run, TypeOK, IInv
<1>4. RequestsInv' /\ TimelineIsOneHistory'
  BY <1>1, <1>2 DEF IInv, RequestsInv, TimelineIsOneHistory, Grows
<1>5. ShownInv'
  BY <1>1, <1>2 DEF IInv, ShownInv, Grows
<1>6. EventsInv'
  <2>1. ASSUME NEW e, Told(e)
        PROVE  e # None => e.run \in DOMAIN runs' /\ e.status \in {"running", runs'[e.run].status}
    BY <1>2, <2>1 DEF Told, Grows
  <2> QED
    BY <1>2, <2>1 DEF EventsInv, Grows, Told
<1> QED
  BY <1>2, <1>3, <1>4, <1>5, <1>6 DEF IInv, Grows

-----------------------------------------------------------------------------
(* The page asks. *)

(* A request overtakes all before it. *)
LEMMA OneAsked ==
    ASSUME TypeOK, NEW target \in Runs \cup Workflows, NEW append \in BOOLEAN,
           NEW quiet \in BOOLEAN, Asks(target, append, quiet)
    PROVE  /\ asked' \subseteq Asked
           /\ \A q \in asked' : q.current => q = Request(target, append, quiet)
<1>1. Request(target, append, quiet) \in Asked
  BY DEF Request, Asked, TypeOK
<1>2. Overtaken \in Asked /\ Overtaken.current = FALSE
  BY DEF Overtaken, Asked
<1>3. asked' \subseteq {Request(target, append, quiet), Overtaken}
  BY DEF Asks
<1> QED
  BY <1>1, <1>2, <1>3

LEMMA RequestsAfter ==
    ASSUME NEW target, NEW append \in BOOLEAN, NEW quiet,
           \A q \in asked' : q.current => q = Request(target, append, quiet),
           page' = IF append THEN page ELSE 0, selected' = target
    PROVE  RequestsInv'
<1> DEFINE new == Request(target, append, quiet)
<1>1. /\ new.target = target /\ new.append = append /\ new.found = 0
      /\ new.page = page'
  BY DEF Request
<1> HIDE DEF new
<1>2. SUFFICES ASSUME NEW q \in asked', q.current
               PROVE  /\ \A p \in asked' : p.current => p = q
                      /\ q.page = IF q.append THEN page' ELSE 0
                      /\ q.target = selected'
                      /\ q.found \in {0} \cup (lookedAt' \cap DOMAIN runs')
                      /\ q.found = 0 \/ q.target \in Workflows \/ q.found = q.target
  BY DEF RequestsInv
<1>3. q = new /\ \A p \in asked' : p.current => p = new
  BY <1>2 DEF new
<1> QED
  BY <1>1, <1>3

LEMMA OpensStep ==
    ASSUME IInv, NEW target \in Runs \cup Workflows, Opens(target), UNCHANGED <<viewer, runs>>,
           rows' \in Seq(Runs), listPage' \in 0..MaxRuns, initial' \in Workflows \cup {None},
           listAsked' \subseteq [append : BOOLEAN, page : 0..MaxRuns], rowsLeft' \in BOOLEAN
    PROVE  IInv'
<1>1. /\ asked' \subseteq Asked
      /\ \A q \in asked' : q.current => q = Request(target, FALSE, FALSE)
  BY OneAsked DEF Opens, IInv
<1>2. /\ selected' = target /\ events' = <<>> /\ page' = 0 /\ lookedAt' = {}
      /\ UNCHANGED <<moreShown, reloaded>>
  BY DEF Opens
<1>3. TypeOK'
  <2>1. page' \in 0..MaxEvents /\ events' \in Seq([run : Runs, id : 1..MaxEvents])
    BY <1>2
  <2> QED
    BY <1>1, <1>2, <2>1 DEF TypeOK, IInv, Asked
<1>4. RequestsInv'
  BY <1>1, <1>2, RequestsAfter
<1>5. ShownInv' /\ TimelineIsOneHistory'
  BY <1>2 DEF ShownInv, TimelineIsOneHistory, Runs
<1> QED
  BY <1>3, <1>4, <1>5 DEF IInv, BoundsInv, EventsInv, Told

LEMMA ClickStep ==
    ASSUME IInv, Click
    PROVE  IInv'
<1>1. PICK target \in ToSet(rows) \cup {child.run : child \in Links} \cup ({selected} \ {None}) :
        Opens(target)
  BY DEF Click
<1>2. target \in Runs \cup Workflows
  <2>1. CASE target \in ToSet(rows)
    BY <2>1, InList DEF IInv, TypeOK
  <2>2. CASE target \in {child.run : child \in Links}
    <3>1. PICK k \in DOMAIN events : \E child \in ChildWorkflow(events[k]) : target = child.run
      BY <2>2 DEF Links
    <3> DEFINE child == runs[events[k].run].history[events[k].id]
    <3>2. child # None /\ target = child.run
      BY <3>1 DEF ChildWorkflow
    <3>3. runs[events[k].run] \in Run /\ events[k].id \in DOMAIN runs[events[k].run].history
      BY Parts DEF IInv, ShownInv
    <3>4. child \in [run : Runs, status : Statuses] \cup {None}
      BY <3>3 DEF Run
    <3> QED
      BY <3>2, <3>4
  <2>3. CASE target \in {selected} \ {None}
    BY <2>3 DEF IInv, TypeOK
  <2> QED
    BY <2>1, <2>2, <2>3
<1>3. UNCHANGED <<viewer, runs, rows, listPage, rowsLeft, listAsked, initial>>
  BY DEF Click, list
<1> QED
  BY <1>1, <1>2, <1>3, OpensStep DEF IInv, TypeOK

LEMMA LoadMoreStep ==
    ASSUME IInv, LoadMore
    PROVE  IInv'
<1>1. selected \in Runs \cup Workflows
  BY DEF LoadMore, IInv, TypeOK, ShownInv
<1>2. /\ asked' \subseteq Asked
      /\ \A q \in asked' : q.current => q = Request(selected, TRUE, FALSE)
  BY <1>1, OneAsked DEF LoadMore, IInv
<1>3. UNCHANGED <<viewer, runs, rows, listPage, rowsLeft, listAsked, initial,
                  selected, events, page, moreShown, reloaded, lookedAt>>
  BY DEF LoadMore, list, shown
<1>4. TypeOK'
  BY <1>2, <1>3 DEF TypeOK, IInv, Asked
<1>5. RequestsInv'
  BY <1>2, <1>3, RequestsAfter
<1>6. ShownInv' /\ TimelineIsOneHistory' /\ BoundsInv' /\ EventsInv'
  BY <1>3 DEF ShownInv, TimelineIsOneHistory, BoundsInv, EventsInv, Told, IInv
<1> QED
  BY <1>4, <1>5, <1>6 DEF IInv

(* The list is asked for; nothing is said of it but its type. *)
LEMMA AsksListTypes ==
    ASSUME TypeOK, NEW append \in BOOLEAN, AsksList(append)
    PROVE  /\ listPage' \in 0..MaxRuns
           /\ listAsked' \subseteq [append : BOOLEAN, page : 0..MaxRuns]
           /\ UNCHANGED <<viewer, runs, rows, rowsLeft, initial>>
BY DEF AsksList, TypeOK

LEMMA ListStep ==
    ASSUME IInv, RefreshList \/ MoreRows \/ \E q \in listAsked : FailList(q)
    PROVE  IInv'
<1>1. UNCHANGED <<viewer, runs, rows, initial, selected, events, page, moreShown, asked,
                  reloaded, lookedAt>>
  BY DEF RefreshList, MoreRows, FailList, AsksList, shown
<1>2. /\ listPage' \in 0..MaxRuns /\ rowsLeft' \in BOOLEAN
      /\ listAsked' \subseteq [append : BOOLEAN, page : 0..MaxRuns]
  BY AsksListTypes DEF RefreshList, MoreRows, FailList, IInv, TypeOK
<1> QED
  BY <1>1, <1>2
     DEF IInv, TypeOK, BoundsInv, EventsInv, Told, RequestsInv, ShownInv, TimelineIsOneHistory

LEMMA AutoRefreshStep ==
    ASSUME IInv, AutoRefresh
    PROVE  IInv'
<1>1. selected \in Runs \cup Workflows
  BY DEF AutoRefresh, IInv, TypeOK
<1>2. /\ asked' \subseteq Asked
      /\ \A q \in asked' : q.current => q = Request(selected, FALSE, TRUE)
  BY <1>1, OneAsked DEF AutoRefresh, IInv
<1>3. /\ UNCHANGED <<viewer, runs, rows, rowsLeft, initial, selected, events, moreShown,
                     reloaded, lookedAt>>
      /\ page' = 0 /\ listPage' \in 0..MaxRuns
      /\ listAsked' \subseteq [append : BOOLEAN, page : 0..MaxRuns]
  BY AsksListTypes DEF AutoRefresh, IInv
<1>4. TypeOK'
  <2>1. page' \in 0..MaxEvents
    BY <1>3
  <2> QED
    BY <1>2, <1>3, <2>1 DEF TypeOK, IInv, Asked
<1>5. RequestsInv'
  BY <1>2, <1>3, RequestsAfter
<1>6. ShownInv' /\ TimelineIsOneHistory' /\ BoundsInv' /\ EventsInv'
  BY <1>3 DEF ShownInv, TimelineIsOneHistory, BoundsInv, EventsInv, Told, IInv
<1> QED
  BY <1>4, <1>5, <1>6 DEF IInv

-----------------------------------------------------------------------------
(* The answers. *)

(* A page of a history continues it after `from`, and says where it ends if it *)
(* does not end the history.                                                   *)
LEMMA HistoryPage ==
    ASSUME IInv, NEW i \in DOMAIN runs, NEW from \in 0..MaxEvents
    PROVE  /\ History(i, from).next \in 0..MaxEvents
           /\ History(i, from).events \in Seq([run : Runs, id : 1..MaxEvents])
           /\ History(i, from).next # 0 =>
                Len(History(i, from).events) = History(i, from).next - from
           /\ \A k \in DOMAIN History(i, from).events :
                /\ History(i, from).events[k] = [run |-> i, id |-> from + k]
                /\ from + k \in DOMAIN runs[i].history
<1> DEFINE length == Len(runs[i].history)
           upTo == Min({from + HistoryPageSize, length})
<1>1. length \in Nat /\ length <= MaxEvents /\ DOMAIN runs[i].history = 1..length
  BY Parts DEF IInv, BoundsInv, Run
<1>2. i \in Runs
  BY Parts DEF IInv, BoundsInv, Runs
<1>3. upTo \in Nat /\ upTo <= length /\ upTo <= from + HistoryPageSize
      /\ (upTo < length => upTo = from + HistoryPageSize)
  BY <1>1, Smaller
<1>4. /\ History(i, from).events = [k \in 1..(upTo - from) |-> [run |-> i, id |-> from + k]]
      /\ History(i, from).next = IF upTo < length THEN upTo ELSE 0
  BY DEF History
<1> HIDE DEF length, upTo
<1> DEFINE n == IF upTo > from THEN upTo - from ELSE 0
<1>5. n \in Nat /\ 1..(upTo - from) = 1..n
  BY <1>3
<1>6. ASSUME NEW k \in 1..n
      PROVE  from + k \in 1..length /\ from + k \in 1..MaxEvents
  BY <1>1, <1>3, <1>5
<1>7. History(i, from).events = [k \in 1..n |-> [run |-> i, id |-> from + k]]
  BY <1>4, <1>5
<1>8. upTo < length => n = upTo - from
  BY <1>1, <1>3
<1> HIDE DEF n
<1>9. /\ History(i, from).events \in Seq([run : Runs, id : 1..MaxEvents])
      /\ Len(History(i, from).events) = n /\ DOMAIN History(i, from).events = 1..n
  <2>1. \A k \in 1..n : [run |-> i, id |-> from + k] \in [run : Runs, id : 1..MaxEvents]
    BY <1>2, <1>6
  <2> QED
    BY <1>5, <1>7, <2>1
<1>10. History(i, from).next \in 0..MaxEvents
  BY <1>1, <1>3, <1>4
<1> QED
  BY <1>1, <1>4, <1>6, <1>7, <1>8, <1>9, <1>10

LEMMA DescribeStep ==
    ASSUME IInv, NEW q \in asked, Describe(q)
    PROVE  IInv'
<1> DEFINE named == Found(q.target)
           new == [q EXCEPT !.found = named]
<1>1. /\ q.current /\ q.found = 0 /\ named \in DOMAIN runs /\ CanViewRun(named)
      /\ asked' = (asked \ {q}) \cup {new}
      /\ lookedAt' = {i \in DOMAIN runs : Visible(i)}
      /\ UNCHANGED <<viewer, runs, rows, listPage, rowsLeft, listAsked, initial,
                     selected, events, page, moreShown, reloaded>>
  BY DEF Describe, Describes, list, shown
<1>2. q.target \in Workflows \/ named = q.target
  BY DEF Found
<1> HIDE DEF named
<1>3. q \in Asked \ {Overtaken}
  BY <1>1, Parts, CurrentParts DEF IInv
<1>4. named \in 1..MaxRuns
  BY <1>1, Parts DEF IInv, BoundsInv
<1>5. /\ new \in Asked /\ new.current /\ new.found = named
      /\ new.target = q.target /\ new.append = q.append /\ new.page = q.page
  <2>1. q \in [target : Runs \cup Workflows, append : BOOLEAN, quiet : BOOLEAN,
                current : {TRUE}, page : 0..MaxEvents, found : 0..MaxRuns]
    BY <1>3 DEF Asked
  <2>2. named \in 0..MaxRuns
    BY <1>4
  <2> QED
    BY <2>1, <2>2 DEF Asked
<1> HIDE DEF new
<1>6. \A p \in asked' : p.current => p = new
  BY <1>1 DEF IInv, RequestsInv
<1>7. TypeOK'
  <2>1. asked' \subseteq Asked
    BY <1>1, <1>5, Parts DEF IInv
  <2>2. lookedAt' \subseteq Runs
    BY <1>1, Parts DEF IInv, BoundsInv, Runs
  <2> QED
    BY <1>1, <2>1, <2>2 DEF IInv, TypeOK, Asked
<1>8. RequestsInv'
  <2>1. SUFFICES ASSUME NEW p \in asked', p.current
                 PROVE  /\ p = new
                        /\ new.page = IF new.append THEN page' ELSE 0
                        /\ new.target = selected'
                        /\ new.found \in {0} \cup (lookedAt' \cap DOMAIN runs')
                        /\ new.found = 0 \/ new.target \in Workflows \/ new.found = new.target
    BY <1>6 DEF RequestsInv
  <2>2. /\ q.page = IF q.append THEN page ELSE 0
        /\ q.target = selected
    BY <1>1 DEF IInv, RequestsInv
  <2>3. named \in lookedAt'
    BY <1>1, ViewIsVisible DEF CanViewRun, Visible
  <2> QED
    BY <1>1, <1>2, <1>5, <1>6, <2>1, <2>2, <2>3
<1>9. TimelineIsOneHistory' /\ BoundsInv' /\ EventsInv'
  BY <1>1 DEF TimelineIsOneHistory, BoundsInv, EventsInv, Told, IInv
(* What is shown already is of the selected run, and that was found again. *)
<1>10. ASSUME NEW k \in DOMAIN events'
       PROVE  events'[k].run \in lookedAt'
  <2>1. /\ events'[k].run = selected /\ selected \in Runs /\ q.target = selected
    BY <1>1, <1>10 DEF IInv, TimelineIsOneHistory, ShownInv, RequestsInv
  <2>2. named = selected
    BY <1>2, <2>1 DEF Runs
  <2> QED
    BY <1>1, <2>1, <2>2, ViewIsVisible DEF CanViewRun, Visible
<1>11. ShownInv'
  BY <1>1, <1>10 DEF ShownInv, IInv
<1> QED
  BY <1>7, <1>8, <1>9, <1>11 DEF IInv

LEMMA ShowStep ==
    ASSUME IInv, NEW q \in asked, Show(q)
    PROVE  IInv'
<1> DEFINE answer == History(q.found, q.page)
<1>1. /\ q.current /\ q.found # 0
      /\ asked' = asked \ {q} /\ selected' = q.found
      /\ events' = IF q.append THEN events \o answer.events ELSE answer.events
      /\ page' = answer.next /\ moreShown' = (answer.next # 0)
      /\ reloaded' = (q.append /\ (reloaded \/ (q.page = 0 /\ events # <<>>)))
      /\ UNCHANGED <<viewer, runs, rows, listPage, rowsLeft, listAsked, initial, lookedAt>>
  BY DEF Show, Shows, list
<1>2. /\ q.page \in 0..MaxEvents /\ q.append \in BOOLEAN
      /\ q.found \in lookedAt \cap DOMAIN runs /\ q.found \in Runs
  BY <1>1, CurrentParts, Parts DEF IInv, RequestsInv, BoundsInv, Runs
<1>3. /\ answer.next \in 0..MaxEvents
      /\ answer.events \in Seq([run : Runs, id : 1..MaxEvents])
      /\ answer.next # 0 => Len(answer.events) = answer.next - q.page
      /\ \A k \in DOMAIN answer.events :
            /\ answer.events[k] = [run |-> q.found, id |-> q.page + k]
            /\ q.page + k \in DOMAIN runs[q.found].history
  BY <1>2, HistoryPage
<1> HIDE DEF answer
<1>4. /\ q.page = IF q.append THEN page ELSE 0
      /\ q.append /\ events # <<>> => q.found = selected
  <2>1. events # <<>> => selected \notin Workflows
    BY DEF IInv, ShownInv, Runs
  <2> QED
    BY <1>1, <1>2, <2>1 DEF IInv, RequestsInv
<1>5. events \in Seq([run : Runs, id : 1..MaxEvents])
  BY DEF IInv, TypeOK
<1>6. /\ events' \in Seq([run : Runs, id : 1..MaxEvents])
      /\ Len(events') = IF q.append THEN Len(events) + Len(answer.events) ELSE Len(answer.events)
  BY <1>1, <1>2, <1>3, <1>5
(* Where an event of the new timeline comes from. *)
<1>7. ASSUME NEW k \in DOMAIN events'
      PROVE  \/ /\ q.append /\ k \in DOMAIN events /\ events'[k] = events[k]
                /\ events # <<>>
             \/ LET before == IF q.append THEN Len(events) ELSE 0 IN
                /\ k - before \in DOMAIN answer.events
                /\ events'[k] = answer.events[k - before]
  <2>1. CASE ~q.append
    BY <1>1, <1>3, <2>1
  <2>2. CASE q.append /\ k <= Len(events)
    BY <1>1, <1>3, <1>5, <2>2
  <2>3. CASE q.append /\ k > Len(events)
    BY <1>1, <1>3, <1>5, <1>6, <2>3
  <2> QED
    BY <1>2, <1>5, <1>6, <2>1, <2>2, <2>3
(* The next page begins after what was shown, unless it was the first again. *)
<1>8. ~reloaded' => q.page = IF q.append THEN Len(events) ELSE 0
  BY <1>1, <1>2, <1>4, <1>5 DEF IInv, TypeOK, ShownInv
<1>9. ASSUME NEW k \in DOMAIN events'
      PROVE  /\ events'[k].run = q.found
             /\ events'[k].id \in DOMAIN runs[q.found].history
             /\ ~reloaded' => events'[k].id = k
  <2>1. CASE /\ q.append /\ k \in DOMAIN events /\ events'[k] = events[k]
             /\ events # <<>>
    <3>1. q.found = selected /\ (~reloaded' => ~reloaded)
      BY <1>1, <1>4, <2>1
    <3> QED
      BY <2>1, <3>1 DEF IInv, ShownInv, TimelineIsOneHistory
  <2>2. ASSUME NEW before \in Nat, before = IF q.append THEN Len(events) ELSE 0,
               k - before \in DOMAIN answer.events, events'[k] = answer.events[k - before]
        PROVE  /\ events'[k].run = q.found
               /\ events'[k].id \in DOMAIN runs[q.found].history
               /\ ~reloaded' => events'[k].id = k
    <3>1. k \in Nat
      BY <1>6
    <3>2. events'[k] = [run |-> q.found, id |-> q.page + (k - before)]
          /\ q.page + (k - before) \in DOMAIN runs[q.found].history
      BY <1>3, <2>2
    <3> QED
      BY <1>2, <1>8, <2>2, <3>1, <3>2
  <2> QED
    BY <1>5, <1>7, <2>1, <2>2
<1>10. TypeOK'
  <2>1. asked' \subseteq Asked
    BY <1>1, Parts DEF IInv
  <2>2. page' \in 0..MaxEvents /\ moreShown' \in BOOLEAN /\ reloaded' \in BOOLEAN
    BY <1>1, <1>2, <1>3 DEF IInv, TypeOK
  <2> QED
    BY <1>1, <1>2, <1>6, <2>1, <2>2 DEF IInv, TypeOK, Asked
<1>11. RequestsInv'
  <2>1. \A p \in asked' : ~p.current
    BY <1>1 DEF IInv, RequestsInv
  <2> QED
    BY <2>1 DEF RequestsInv
<1>12. TimelineIsOneHistory'
  BY <1>1, <1>9 DEF TimelineIsOneHistory
<1>13. ShownInv'
  <2>1. page' = 0 \/ reloaded' \/ page' = Len(events')
    <3>1. Len(answer.events) \in Nat /\ Len(events) \in Nat
      BY <1>3, <1>5
    <3>2. SUFFICES ASSUME answer.next # 0, ~reloaded'
                   PROVE  answer.next = Len(events')
      BY <1>1
    <3> DEFINE before == IF q.append THEN Len(events) ELSE 0
    <3>3. /\ q.page = before /\ Len(answer.events) = answer.next - q.page
          /\ Len(events') = before + Len(answer.events)
      <4>1. q.page = before
        BY <1>8, <3>2
      <4>2. Len(answer.events) = answer.next - q.page
        BY <1>3, <3>2
      <4>3. CASE q.append
        BY <1>6, <4>1, <4>2, <4>3
      <4>4. CASE ~q.append
        <5>1. before = 0 /\ Len(events') = Len(answer.events)
          BY <1>6, <4>4
        <5> QED
          BY <3>1, <4>1, <4>2, <5>1
      <4> QED
        BY <4>3, <4>4
    <3>4. before \in Nat /\ answer.next \in Nat
      BY <1>3, <3>1
    <3> QED
      BY <3>1, <3>3, <3>4
  <2>2. \A k \in DOMAIN events' : /\ events'[k].run \in lookedAt' \cap DOMAIN runs'
                                 /\ events'[k].id \in DOMAIN runs'[events'[k].run].history
    BY <1>1, <1>2, <1>9
  <2>3. selected' \in Runs /\ selected' # None
    BY <1>1, <1>2 DEF Runs
  <2> QED
    BY <2>1, <2>2, <2>3 DEF ShownInv
<1> QED
  BY <1>1, <1>10, <1>11, <1>12, <1>13 DEF IInv, BoundsInv, EventsInv, Told

LEMMA DropStep ==
    ASSUME IInv, NEW q \in asked, Drop(q)
    PROVE  IInv'
<1>1. /\ asked' = asked \ {q}
      /\ UNCHANGED <<viewer, runs, rows, listPage, rowsLeft, listAsked, initial,
                     selected, events, page, moreShown, reloaded, lookedAt>>
  BY DEF Drop, list, shown
<1>2. TypeOK' /\ RequestsInv'
  BY <1>1 DEF IInv, TypeOK, RequestsInv
<1> QED
  BY <1>1, <1>2 DEF IInv, BoundsInv, EventsInv, Told, ShownInv, TimelineIsOneHistory

LEMMA ShowListStep ==
    ASSUME IInv, NEW q \in listAsked, ShowList(q)
    PROVE  IInv'
<1>1. /\ rows' \in Seq(Runs) /\ listPage' \in 0..MaxRuns /\ rowsLeft' \in BOOLEAN
      /\ listAsked' \subseteq [append : BOOLEAN, page : 0..MaxRuns]
      /\ UNCHANGED <<viewer, runs>>
  <2>1. rows' \in Seq(Runs)
    BY RowsShown, Parts DEF IInv, TypeOK, BoundsInv
  <2>2. q.page \in Nat
    BY DEF IInv, TypeOK
  <2>3. ListWorkflows(q.page).next \in 0..MaxRuns
    BY <2>2, ListPage, Parts DEF IInv, BoundsInv
  <2> QED
    BY <2>1, <2>3 DEF ShowList, IInv, TypeOK
<1>2. CASE selected = None /\ (initial # None \/ rows' # <<>>)
  <2>1. Opens(First(rows')) /\ initial' = None
    BY <1>2 DEF ShowList
  <2>2. First(rows') \in Runs \cup Workflows
    <3> DEFINE named == {k \in DOMAIN rows' : runs[rows'[k]].workflow = initial}
    <3>1. CASE initial = None
      BY <1>1, <1>2, <3>1 DEF First
    <3>2. CASE initial # None /\ named = {}
      BY <3>2 DEF First, IInv, TypeOK
    <3>3. CASE initial # None /\ named # {}
      <4>1. Len(rows') \in Nat /\ named \in SUBSET (1..Len(rows'))
        BY <1>1
      <4>2. IsFiniteSet(named) /\ named \in SUBSET Nat
        <5>1. IsFiniteSet(1..Len(rows'))
          BY <4>1, FS_Interval
        <5> QED
          BY <4>1, <5>1, FS_Subset
      <4>3. Min(named) \in DOMAIN rows'
        BY <3>3, <4>2, Extremes
      <4>4. First(rows') = rows'[Min(named)]
        BY <3>3 DEF First
      <4> QED
        BY <1>1, <4>3, <4>4
    <3> QED
      BY <3>1, <3>2, <3>3
  <2> QED
    BY <1>1, <2>1, <2>2, OpensStep
<1>3. CASE ~(selected = None /\ (initial # None \/ rows' # <<>>))
  <2>1. UNCHANGED <<selected, events, page, moreShown, reloaded, lookedAt, asked, initial>>
    BY <1>3 DEF ShowList, shown
  <2> QED
    BY <1>1, <2>1
       DEF IInv, TypeOK, BoundsInv, EventsInv, Told, RequestsInv, ShownInv, TimelineIsOneHistory
<1> QED
  BY <1>2, <1>3

-----------------------------------------------------------------------------
(* The invariant, and what follows. *)

LEMMA InitInv == Init => IInv
<1> SUFFICES ASSUME Init
             PROVE  IInv
  OBVIOUS
<1>1. TypeOK
  <2>1. runs \in Seq(Run) /\ rows \in Seq(Runs) /\ events \in Seq([run : Runs, id : 1..MaxEvents])
    BY DEF Init
  <2>2. listAsked \subseteq [append : BOOLEAN, page : 0..MaxRuns] /\ listPage \in 0..MaxRuns
    BY DEF Init
  <2>3. page \in 0..MaxEvents /\ initial \in Workflows \cup {None} /\ asked = {}
    BY DEF Init
  <2> QED
    BY <2>1, <2>2, <2>3 DEF Init, TypeOK, Run
<1> QED
  BY <1>1 DEF Init, IInv, BoundsInv, EventsInv, RequestsInv, ShownInv, TimelineIsOneHistory

LEMMA Step ==
    ASSUME IInv, [Next]_vars
    PROVE  IInv'
<1>1. CASE Temporal
  BY <1>1, TemporalStep
<1>2. CASE Page
  BY <1>2, ClickStep, LoadMoreStep, ListStep, AutoRefreshStep DEF Page
<1>3. CASE Answers
  BY <1>3, DescribeStep, ShowStep, DropStep, ShowListStep, ListStep DEF Answers
<1>4. CASE UNCHANGED vars
  BY <1>4
     DEF vars, IInv, TypeOK, BoundsInv, EventsInv, Told, RequestsInv, ShownInv, TimelineIsOneHistory
<1> QED
  BY <1>1, <1>2, <1>3, <1>4 DEF Next

(* The inductive invariant of the explorer holds in every reachable state. *)
THEOREM Inductive == Spec => []IInv
<1>1. IInv /\ [Next]_vars => IInv'
  BY Step
<1> QED
  BY InitInv, <1>1, PTL DEF Spec

(* Every variable has its type. *)
THEOREM TypeCorrect == Spec => []TypeOK
<1>1. IInv => TypeOK
  BY DEF IInv
<1> QED
  BY <1>1, Inductive, PTL

(* However requests and answers cross, the timeline shows the history of the *)
(* selected run from its start and without a gap (loadWorkflowDetail).       *)
THEOREM OneHistory == Spec => []TimelineIsOneHistory
<1>1. IInv => TimelineIsOneHistory
  BY DEF IInv
<1> QED
  BY <1>1, Inductive, PTL

(* Where the links of the timeline lead. *)
LEMMA LinksKeepTheRule ==
    ASSUME IInv, NEW child \in Links
    PROVE  /\ runs[child.run].workflow \in Public \/ viewer = "owner"
           /\ \/ Visible(child.run)
              \/ child.status = "running" /\ runs[child.run].status # "running"
<1>1. PICK k \in DOMAIN events : child \in ChildWorkflow(events[k])
  BY DEF Links
<1> DEFINE e == runs[events[k].run].history[events[k].id]
<1>2. /\ events[k].run \in DOMAIN runs
      /\ events[k].id \in DOMAIN runs[events[k].run].history
  BY DEF IInv, ShownInv
<1>3. child = e /\ e # None /\ CanViewWorkflow(runs[child.run].workflow, child.status)
  BY <1>1 DEF ChildWorkflow
<1>4. child.status \in {"running", runs[child.run].status}
  BY <1>2, <1>3 DEF IInv, EventsInv, Told
<1>5. VisibleAs(runs[child.run].workflow, child.status)
  BY <1>3, ViewIsVisible
<1> QED
  BY <1>4, <1>5 DEF Visible, VisibleAs

(* Whatever closes, is terminated or is replaced between the description of a *)
(* run and the reading of its history, and between the writing of an event    *)
(* and its showing, the page has events only of runs that were visible when   *)
(* they were described, and links only to children that were visible when the *)
(* event was written (getWorkflow).                                           *)
THEOREM SentWasVisible == Spec => []ShownWasVisible
<1>1. IInv => ShownWasVisible
  BY LinksKeepTheRule DEF IInv, ShownInv, ShownWasVisible
<1> QED
  BY <1>1, Inductive, PTL

=============================================================================
