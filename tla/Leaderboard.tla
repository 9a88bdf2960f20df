----------------------------- MODULE Leaderboard -----------------------------
(***************************************************************************)
(* The LeaderboardWorkflow of internal/workflows/leaderboard.go and the    *)
(* PublishLeaderboard Activities that feed it.                             *)
(*                                                                         *)
(* A player publishes an absolute snapshot after each completed level; its *)
(* version is the number of completed levels.  The Activity signals the    *)
(* leaderboard and is retried until it has succeeded, so that a snapshot   *)
(* arrives at least once, in any order.  The leaderboard keeps the best    *)
(* Size snapshots, one per player, and drains its channel before it        *)
(* Continues-As-New.  Its list is always sorted by a total order: it is    *)
(* modelled as a set.  Players here do not fail: one that did would count  *)
(* its versions from 1 again.                                              *)
(***************************************************************************)
EXTENDS Integers, Sequences, FiniteSets

CONSTANTS
    Players,    \* player IDs, numbers in their order as strings
    Gains,      \* points a completed level adds
    Size,       \* leaderboardSize
    MaxVersion, \* bound: levels a player completes
    MaxQueue    \* bound: signals in the channel

ASSUME LeaderboardAssumption ==
    /\ Players \subseteq Nat
    /\ Gains \subseteq Nat
    /\ Size \in Nat \ {0} /\ MaxVersion \in Nat /\ MaxQueue \in Nat

Entries == [player: Players, points: Nat, version: Nat \ {0}]

VARIABLES
    score,     \* per player: its newest snapshot, version 0 before the first
    sending,   \* snapshots whose Activity has not succeeded
    channel,   \* signals the leaderboard has not received
    entries,   \* LeaderboardState.Entries
    latest,    \* history: per player, the newest snapshot received
    upgrade, continueRequested,
    mainPc     \* "select" or "drain"

vars == <<score, sending, channel, entries, latest, upgrade, continueRequested, mainPc>>

NoScore(p) == [player |-> p, points |-> 0, version |-> 0]

\* sortLeaderboard, where an entry's version is its number of completed levels.
Better(a, b) ==
    \/ a.points > b.points
    \/ a.points = b.points /\ a.version > b.version
    \/ a.points = b.points /\ a.version = b.version /\ a.player < b.player

Init ==
    /\ score = [p \in Players |-> NoScore(p)]
    /\ sending = {} /\ channel = <<>> /\ entries = {}
    /\ latest = [p \in Players |-> NoScore(p)]
    /\ upgrade = FALSE /\ continueRequested = FALSE
    /\ mainPc = "select"

-----------------------------------------------------------------------------
(* Players and their Activities. *)

\* A player completes a level and publishes its new totals.
CompleteLevel(p) ==
    /\ score[p].version < MaxVersion
    /\ \E gain \in Gains :
        score' = [score EXCEPT ![p].points = @ + gain, ![p].version = @ + 1]
    /\ sending' = sending \cup {score'[p]}
    /\ UNCHANGED <<channel, entries, latest, upgrade, continueRequested, mainPc>>

\* The Activity signals; if its answer is lost it will signal again.
Signal(entry) ==
    /\ Len(channel) < MaxQueue
    /\ channel' = Append(channel, entry)
    /\ \E answered \in BOOLEAN :
        sending' = IF answered THEN sending \ {entry} ELSE sending
    /\ UNCHANGED <<score, entries, latest, upgrade, continueRequested, mainPc>>

\* An Activity ends with the run of its player, which waits for the newest only.
Abandon(entry) ==
    /\ entry.version < score[entry.player].version
    /\ sending' = sending \ {entry}
    /\ UNCHANGED <<score, channel, entries, latest, upgrade, continueRequested, mainPc>>

RequestUpgrade ==
    /\ ~upgrade /\ upgrade' = TRUE
    /\ UNCHANGED <<score, sending, channel, entries, latest, continueRequested, mainPc>>

-----------------------------------------------------------------------------
(* The leaderboard. *)

\* Append, sort and truncate: the last of too many entries is dropped.
KeepsBest(candidates, board) ==
    IF Cardinality(candidates) <= Size THEN board = candidates
    ELSE \E last \in candidates :
            /\ \A other \in candidates \ {last} : Better(other, last)
            /\ board = candidates \ {last}

EntryOf(p) == {e \in entries : e.player = p}

IsNewer(entry) == \A listed \in EntryOf(entry.player) : entry.version > listed.version

\* upsertLeaderboardEntry, where a listed entry may be replaced.
Upserts(entry, replaces) ==
    IF EntryOf(entry.player) = {} THEN KeepsBest(entries \cup {entry}, entries')
    ELSE entries' = IF replaces THEN (entries \ EntryOf(entry.player)) \cup {entry}
                    ELSE entries

\* Fault: a snapshot replaces whatever is listed.
UpsertAnything(entry) == Upserts(entry, TRUE)

UpsertLeaderboardEntry(entry) == Upserts(entry, IsNewer(entry))

\* The next signal of the channel.
TakeScore ==
    /\ channel # <<>>
    /\ UpsertLeaderboardEntry(Head(channel))
    /\ channel' = Tail(channel)
    /\ latest' = IF Head(channel).version > latest[Head(channel).player].version
                 THEN [latest EXCEPT ![Head(channel).player] = Head(channel)] ELSE latest
    /\ UNCHANGED <<score, sending>>

\* The tail of the loop body.
NextIteration ==
    \E suggested \in BOOLEAN :
        mainPc' = IF continueRequested' \/ suggested THEN "drain" ELSE "select"

ReceiveScore ==
    /\ mainPc = "select" /\ TakeScore
    /\ UNCHANGED <<upgrade, continueRequested>>
    /\ NextIteration

ReceiveUpgrade ==
    /\ mainPc = "select" /\ upgrade
    /\ upgrade' = FALSE /\ continueRequested' = TRUE
    /\ UNCHANGED <<score, sending, channel, entries, latest>>
    /\ NextIteration

\* The loop of ReceiveAsync.  A signal that reaches the server meanwhile makes
\* it refuse the Continue-As-New, and the loop finds that signal too.
DrainScore ==
    /\ mainPc = "drain" /\ TakeScore
    /\ UNCHANGED <<upgrade, continueRequested, mainPc>>

\* The new run starts from the entries; what was left in the channel is gone.
Continues(drained) ==
    /\ mainPc = "drain" /\ drained
    /\ channel' = <<>>
    /\ upgrade' = FALSE /\ continueRequested' = FALSE
    /\ mainPc' = "select"
    /\ UNCHANGED <<score, sending, entries, latest>>

\* Fault: the channel is not drained.
ContinueUndrained == Continues(TRUE)

ContinueAsNew == Continues(channel = <<>>)

Next ==
    \/ \E p \in Players : CompleteLevel(p)
    \/ \E entry \in sending : Signal(entry) \/ Abandon(entry)
    \/ RequestUpgrade
    \/ ReceiveScore \/ ReceiveUpgrade \/ DrainScore \/ ContinueAsNew

Spec == Init /\ [][Next]_vars

-----------------------------------------------------------------------------
(* Properties. *)

\* Every variable has its type, and the board lists a player once.
TypeOK ==
    /\ score \in [Players -> [player: Players, points: Nat, version: Nat]]
    /\ latest \in [Players -> [player: Players, points: Nat, version: Nat]]
    /\ sending \subseteq Entries
    /\ channel \in Seq(Entries)
    /\ entries \subseteq Entries
    /\ \A a, b \in entries : a.player = b.player => a = b
    /\ upgrade \in BOOLEAN /\ continueRequested \in BOOLEAN
    /\ mainPc \in {"select", "drain"}

Known == {latest[p] : p \in {q \in Players : latest[q].version > 0}}

\* Whatever was delivered, twice, late or out of order, the board holds the
\* newest snapshots received: as many as fit, and whoever is left off is
\* outranked by a full board.  Entries that were cut off never come back stale.
BoardIsTop ==
    /\ entries \subseteq Known
    /\ Cardinality(entries) <= Size
    /\ \A off \in Known \ entries :
        Cardinality(entries) = Size /\ \A on \in entries : Better(on, off)

\* When nothing is on its way, every player's own score is the one it has, or
\* is outranked by a full board: no completion is lost.
QuietBoardIsCurrent ==
    sending = {} /\ channel = <<>> =>
        \A p \in Players : score[p].version > 0 =>
            \/ score[p] \in entries
            \/ Cardinality(entries) = Size /\ \A on \in entries : Better(on, score[p])

\* A player leaves the board only for a better full board, and never falls back
\* to older totals.
NobodyFallsBack ==
    [][\A e \in entries :
        \/ \E f \in entries' : f.player = e.player /\ f.version >= e.version
        \/ Cardinality(entries') = Size /\ \A f \in entries' : Better(f, e)]_vars

-----------------------------------------------------------------------------
(* The inductive invariant behind them. *)

InChannel == {channel[i] : i \in DOMAIN channel}
Scored    == {score[p] : p \in {q \in Players : score[q].version > 0}}
Snapshots == sending \cup InChannel \cup Known \cup Scored

\* The later of two snapshots of a player has no fewer points.
Ordered(S) ==
    \A a, b \in S : a.player = b.player /\ a.version <= b.version =>
        a.points <= b.points /\ (a.version = b.version => a = b)

OwnersInv == \A p \in Players : score[p].player = p /\ latest[p].player = p

\* No snapshot is newer than the score it was taken from.
SnapshotsInv ==
    /\ Ordered(Snapshots)
    /\ \A e \in Snapshots : e.version <= score[e.player].version

\* The newest snapshot is on its way until it has been received.
DeliveryInv ==
    \A p \in Players : score[p].version > 0 =>
        score[p] \in sending \cup InChannel \cup {latest[p]}

IInv ==
    /\ TypeOK /\ IsFiniteSet(entries) /\ OwnersInv
    /\ SnapshotsInv /\ DeliveryInv /\ BoardIsTop

=============================================================================
