----------------------------- MODULE LevelGame -----------------------------
(***************************************************************************)
(* What WordflowLevelWorkflow promises its player and its parent, with no  *)
(* handlers, mutex, timer or runs: words are solved one by one before the  *)
(* deadline, the last one solves the level, the deadline ends it unsolved, *)
(* and the result that is returned is the one it ended with.               *)
(* Level.tla is shown to implement this specification.                     *)
(***************************************************************************)
EXTENDS Integers

CONSTANTS Puzzle, Limit

VARIABLES
    solved,   \* the words found
    outcome,  \* "open", "solved" or "timedOut"
    reported, \* the result has been returned
    elapsed   \* time since the start

vars == <<solved, outcome, reported, elapsed>>

Words   == DOMAIN Puzzle
Overdue == Limit > 0 /\ elapsed >= Limit

Init ==
    /\ solved = {} /\ reported = FALSE /\ elapsed \in Nat
    /\ outcome = IF Overdue THEN "timedOut" ELSE "open"

Solve(word) ==
    /\ outcome = "open" /\ ~Overdue /\ word \notin solved
    /\ solved' = solved \cup {word}
    /\ outcome' = IF solved' = Words THEN "solved" ELSE "open"
    /\ UNCHANGED <<reported, elapsed>>

TimeOut ==
    /\ outcome = "open" /\ Overdue
    /\ outcome' = "timedOut"
    /\ UNCHANGED <<solved, reported, elapsed>>

Report ==
    /\ outcome # "open" /\ ~reported
    /\ reported' = TRUE
    /\ UNCHANGED <<solved, outcome, elapsed>>

TimePasses ==
    /\ elapsed' > elapsed
    /\ UNCHANGED <<solved, outcome, reported>>

Next ==
    \/ \E word \in Words : Solve(word)
    \/ TimeOut \/ Report \/ TimePasses

Spec == Init /\ [][Next]_vars

=============================================================================
