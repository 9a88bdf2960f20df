-------------------------- MODULE LeaderboardProofs --------------------------
(***************************************************************************)
(* Proofs about Leaderboard, for any set of players and any board size.    *)
(*                                                                         *)
(* The inductive invariant adds to BoardIsTop that the snapshots of one    *)
(* player are ordered by their versions (SnapshotsInv), so that a snapshot *)
(* which was cut off can only come back as the worst of all, and that the  *)
(* newest snapshot is on its way or received (DeliveryInv).                *)
(***************************************************************************)
EXTENDS Leaderboard, FiniteSetTheorems, TLAPS

(* Better orders the entries of different players. *)
LEMMA BetterIsTotal ==
    ASSUME NEW a \in Entries, NEW b \in Entries, a.player # b.player
    PROVE  Better(a, b) <=> ~Better(b, a)
<1>1. /\ a.points \in Nat /\ b.points \in Nat /\ a.version \in Nat /\ b.version \in Nat
      /\ a.player \in Nat /\ b.player \in Nat
  BY LeaderboardAssumption DEF Entries
<1> QED
  BY <1>1 DEF Better

LEMMA BetterIsTransitive ==
    ASSUME NEW a \in Entries, NEW b \in Entries, NEW c \in Entries,
           Better(a, b), Better(b, c)
    PROVE  Better(a, c)
<1>1. /\ a.points \in Nat /\ b.points \in Nat /\ a.version \in Nat /\ b.version \in Nat
      /\ a.player \in Nat /\ b.player \in Nat
      /\ c.points \in Nat /\ c.version \in Nat /\ c.player \in Nat
  BY LeaderboardAssumption DEF Entries
<1> QED
  BY <1>1 DEF Better

(* An older snapshot of a player is outranked by whoever outranks a newer one. *)
LEMMA OlderIsWorse ==
    ASSUME NEW on \in Entries, NEW newer \in Entries, NEW older \in Entries,
           newer.player = older.player, newer.version >= older.version,
           newer.points >= older.points, Better(on, newer)
    PROVE  Better(on, older)
<1>1. /\ on.points \in Nat /\ on.version \in Nat /\ on.player \in Nat
      /\ newer.points \in Nat /\ newer.version \in Nat /\ newer.player \in Nat
      /\ older.points \in Nat /\ older.version \in Nat
  BY LeaderboardAssumption DEF Entries
<1> QED
  BY <1>1 DEF Better

(* A newer snapshot of a player outranks whoever an older one outranked. *)
LEMMA NewerIsBetter ==
    ASSUME NEW off \in Entries, NEW newer \in Entries, NEW older \in Entries,
           newer.player = older.player, newer.version >= older.version,
           newer.points >= older.points, Better(older, off)
    PROVE  Better(newer, off)
<1>1. /\ off.points \in Nat /\ off.version \in Nat /\ off.player \in Nat
      /\ newer.points \in Nat /\ newer.version \in Nat /\ newer.player \in Nat
      /\ older.points \in Nat /\ older.version \in Nat
  BY LeaderboardAssumption DEF Entries
<1> QED
  BY <1>1 DEF Better

-----------------------------------------------------------------------------
(* What a truncation keeps: everything, or everything but the worst. *)
LEMMA KeptBest ==
    ASSUME NEW S, IsFiniteSet(S), Cardinality(S) <= Size + 1,
           NEW T, KeepsBest(S, T)
    PROVE  /\ IsFiniteSet(T) /\ T \subseteq S /\ Cardinality(T) <= Size
           /\ \A off \in S \ T : T = S \ {off} /\ Cardinality(T) = Size
                                /\ \A on \in T : Better(on, off)
           /\ Cardinality(S) > Size => \E off \in S : off \notin T
<1>0. Cardinality(S) \in Nat /\ Size \in Nat
  BY FS_CardinalityType, LeaderboardAssumption
<1>1. CASE Cardinality(S) <= Size
  BY <1>0, <1>1 DEF KeepsBest
<1>2. CASE Cardinality(S) > Size
  <2>1. PICK last \in S : /\ \A other \in S \ {last} : Better(other, last)
                         /\ T = S \ {last}
    BY <1>0, <1>2 DEF KeepsBest
  <2>2. IsFiniteSet(T) /\ Cardinality(T) = Cardinality(S) - 1
    BY <2>1, FS_RemoveElement
  <2>3. Cardinality(T) = Size
    BY <1>0, <1>2, <2>2
  <2>4. last \notin T /\ T \subseteq S
    BY <2>1
  <2>5. ASSUME NEW off \in S \ T
        PROVE  T = S \ {off} /\ \A on \in T : Better(on, off)
    <3>1. off = last
      BY <2>1, <2>5
    <3> QED
      BY <2>1, <3>1
  <2>6. Cardinality(T) <= Size
    BY <1>0, <2>3
  <2> QED
    BY <2>2, <2>3, <2>4, <2>5, <2>6
<1> QED
  BY <1>0, <1>1, <1>2

(* The entry of a player is its newest snapshot received. *)
LEMMA KnownFacts ==
    ASSUME IInv
    PROVE  /\ \A k \in Known : k = latest[k.player] /\ k \in Entries /\ k.player \in Players
           /\ \A p \in Players : latest[p].version > 0 => latest[p] \in Known
           /\ Known \subseteq Snapshots /\ InChannel \subseteq Snapshots
           /\ InChannel \subseteq Entries
<1>1. latest \in [Players -> [player: Players, points: Nat, version: Nat]]
  BY DEF IInv, TypeOK
<1>2. \A p \in Players : latest[p].player = p
  BY DEF IInv, OwnersInv
<1>3. ASSUME NEW k \in Known
      PROVE  k = latest[k.player] /\ k \in Entries /\ k.player \in Players
  <2>1. PICK p \in Players : k = latest[p] /\ latest[p].version > 0
    BY DEF Known
  <2>2. k.player = p
    BY <1>2, <2>1
  <2>3. k \in [player: Players, points: Nat, version: Nat] /\ k.version > 0
    BY <1>1, <2>1
  <2>4. k \in Entries
    BY <2>3 DEF Entries
  <2> QED
    BY <2>1, <2>2, <2>4
<1>4. \A p \in Players : latest[p].version > 0 => latest[p] \in Known
  BY DEF Known
<1>5. InChannel \subseteq Entries
  <2>1. channel \in Seq(Entries)
    BY DEF IInv, TypeOK
  <2>2. \A i \in DOMAIN channel : channel[i] \in Entries
    BY <2>1
  <2> QED
    BY <2>2 DEF InChannel
<1> QED
  BY <1>3, <1>4, <1>5 DEF Snapshots

(* The signal that is taken, and what is known afterwards. *)
LEMMA Taken ==
    ASSUME IInv, TakeScore, NEW e, e = Head(channel)
    PROVE  /\ e \in Entries /\ e \in InChannel /\ e.player \in Players
           /\ e.version > latest[e.player].version =>
                Known' = {k \in Known : k.player # e.player} \cup {e}
           /\ ~(e.version > latest[e.player].version) =>
                /\ Known' = Known /\ latest[e.player] \in Known
                /\ e.points <= latest[e.player].points
                /\ latest[e.player].version >= e.version
           /\ latest[e.player] \in Known /\ e.version > latest[e.player].version =>
                latest[e.player].points <= e.points
<1> DEFINE p == e.player
<1>1. channel \in Seq(Entries) /\ channel # <<>>
  BY DEF IInv, TypeOK, TakeScore
<1>2. 1 \in DOMAIN channel /\ e = channel[1]
  BY <1>1
<1>3. e \in Entries /\ e \in InChannel
  BY <1>1, <1>2 DEF InChannel
<1>4. p \in Players /\ e.version \in Nat \ {0} /\ e.points \in Nat
  BY <1>3 DEF Entries
<1>5. latest \in [Players -> [player: Players, points: Nat, version: Nat]]
  BY DEF IInv, TypeOK
<1>6. \A q \in Players : latest[q].player = q
  BY DEF IInv, OwnersInv
<1>7. CASE e.version > latest[p].version
  <2>1. latest' = [latest EXCEPT ![p] = e]
    BY <1>7 DEF TakeScore
  <2>2. latest'[p] = e /\ \A q \in Players : q # p => latest'[q] = latest[q]
    BY <1>4, <1>5, <2>1
  <2>3. Known' = {k \in Known : k.player # p} \cup {e}
    BY <1>4, <1>6, <2>2 DEF Known
  <2>4. latest[p] \in Known => latest[p].points <= e.points
    BY <1>3, <1>4, <1>5, <1>6, <1>7, KnownFacts DEF IInv, SnapshotsInv, Ordered
  <2> QED
    BY <1>3, <1>4, <1>7, <2>3, <2>4
<1>8. CASE ~(e.version > latest[p].version)
  <2>1. latest' = latest
    BY <1>8 DEF TakeScore
  <2>2. latest[p] \in Known /\ e.version <= latest[p].version
    BY <1>4, <1>5, <1>8, KnownFacts
  <2>3. e.points <= latest[p].points
    BY <1>3, <1>4, <1>6, <2>2, KnownFacts DEF IInv, SnapshotsInv, Ordered
  <2>4. Known' = Known
    BY <2>1 DEF Known
  <2> QED
    BY <1>3, <1>4, <1>5, <1>8, <2>2, <2>3, <2>4
<1> QED
  BY <1>7, <1>8

-----------------------------------------------------------------------------
(* A signal that is taken leaves the board the top of what is known. *)
LEMMA BoardStep ==
    ASSUME IInv, TakeScore
    PROVE  /\ BoardIsTop' /\ IsFiniteSet(entries') /\ entries' \subseteq Entries
           /\ \A a, b \in entries' : a.player = b.player => a = b
           /\ \A e \in entries :
                \/ \E f \in entries' : f.player = e.player /\ f.version >= e.version
                \/ Cardinality(entries') = Size /\ \A f \in entries' : Better(f, e)
<1> DEFINE e == Head(channel)
           p == e.player
           S == entries \cup {e}
<1>1. /\ e \in Entries /\ e \in InChannel /\ p \in Players
      /\ e.version \in Nat /\ e.points \in Nat
  BY Taken DEF Entries
<1>2. /\ IsFiniteSet(entries) /\ entries \subseteq Known /\ entries \subseteq Entries
      /\ Cardinality(entries) \in Nat /\ Cardinality(entries) <= Size /\ Size \in Nat \ {0}
  BY FS_CardinalityType, LeaderboardAssumption DEF IInv, BoardIsTop, TypeOK
<1>3. \A off \in Known \ entries :
        Cardinality(entries) = Size /\ \A on \in entries : Better(on, off)
  BY DEF IInv, BoardIsTop
<1>4. /\ \A k \in Known : k = latest[k.player] /\ k \in Entries /\ k.player \in Players
      /\ \A q \in Players : latest[q].version \in Nat
  BY KnownFacts DEF IInv, TypeOK
<1>5. UpsertLeaderboardEntry(e)
  BY DEF TakeScore
<1>6. CASE EntryOf(p) = {} /\ e.version > latest[p].version
  <2>1. Known' = {k \in Known : k.player # p} \cup {e}
    BY <1>6, Taken
  <2>2. e \notin entries /\ \A k \in entries : k.player # p
    BY <1>6 DEF EntryOf
  <2>3. IsFiniteSet(S) /\ Cardinality(S) = Cardinality(entries) + 1
    BY <1>2, <2>2, FS_AddElement
  <2>4. KeepsBest(S, entries')
    BY <1>5, <1>6 DEF UpsertLeaderboardEntry, Upserts
  <2>5. /\ IsFiniteSet(entries') /\ entries' \subseteq S /\ Cardinality(entries') <= Size
        /\ \A off \in S \ entries' : entries' = S \ {off} /\ Cardinality(entries') = Size
                                      /\ \A on \in entries' : Better(on, off)
        /\ Cardinality(S) > Size => \E off \in S : off \notin entries'
    <3>1. Cardinality(S) <= Size + 1
      BY <1>2, <2>3
    <3> HIDE DEF S
    <3> QED
      BY <2>3, <2>4, <3>1, KeptBest
  <2>6. entries' \subseteq Known' /\ entries' \subseteq Entries
    BY <1>1, <1>2, <2>1, <2>2, <2>5
  <2>7. ASSUME NEW off \in Known' \ entries'
        PROVE  Cardinality(entries') = Size /\ \A on \in entries' : Better(on, off)
    <3>1. CASE off \in S
      BY <2>5, <3>1
    <3>2. CASE off \notin S
      <4>1. off \in Known \ entries /\ off \in Entries
        BY <1>4, <2>1, <3>2
      <4>2. Cardinality(entries) = Size /\ \A on \in entries : Better(on, off)
        BY <1>3, <4>1
      <4>3. PICK out \in S : out \notin entries'
        BY <1>2, <2>3, <2>5, <4>2
      <4>4. /\ entries' = S \ {out} /\ Cardinality(entries') = Size
            /\ \A on \in entries' : Better(on, out)
        BY <2>5, <4>3
      <4>5. CASE out = e
        BY <2>2, <4>2, <4>4, <4>5
      <4>6. CASE out # e
        <5>1. out \in entries /\ Better(out, off) /\ e \in entries' /\ Better(e, out)
          BY <4>2, <4>3, <4>4, <4>6
        <5>2. Better(e, off)
          BY <1>1, <1>2, <4>1, <5>1, BetterIsTransitive
        <5> QED
          BY <4>2, <4>4, <5>2
      <4> QED
        BY <4>5, <4>6
    <3> QED
      BY <3>1, <3>2
  <2>8. \A a, b \in entries' : a.player = b.player => a = b
    BY <2>2, <2>5 DEF IInv, TypeOK
  <2>9. \A k \in entries : k \in Entries /\ k.version >= k.version
    BY <1>2 DEF Entries
  <2>10. ASSUME NEW k \in entries
         PROVE \/ \E f \in entries' : f.player = k.player /\ f.version >= k.version
               \/ Cardinality(entries') = Size /\ \A f \in entries' : Better(f, k)
    BY <2>5, <2>9
  <2> QED
    BY <2>5, <2>6, <2>7, <2>8, <2>10 DEF BoardIsTop
<1>7. CASE EntryOf(p) = {} /\ ~(e.version > latest[p].version)
  <2>1. /\ Known' = Known /\ latest[p] \in Known /\ latest[p].player = p
        /\ e.points <= latest[p].points /\ latest[p].version >= e.version
    BY <1>1, <1>7, Taken DEF IInv, OwnersInv
  <2>2. e \notin entries /\ latest[p] \notin entries
    BY <1>7, <2>1 DEF EntryOf
  <2>3. Cardinality(entries) = Size /\ \A on \in entries : Better(on, latest[p])
    BY <1>3, <2>1, <2>2
  <2>4. \A on \in entries : Better(on, e)
    BY <1>1, <1>2, <1>4, <2>1, <2>3, OlderIsWorse
  <2>5. IsFiniteSet(S) /\ Cardinality(S) = Size + 1
    BY <1>2, <2>2, <2>3, FS_AddElement
  <2>6. KeepsBest(S, entries')
    BY <1>5, <1>7 DEF UpsertLeaderboardEntry, Upserts
  <2>7. PICK last \in S : (\A other \in S \ {last} : Better(other, last)) /\ entries' = S \ {last}
    BY <1>2, <2>5, <2>6 DEF KeepsBest
  <2>8. last = e
    <3> SUFFICES ASSUME last # e PROVE FALSE
      OBVIOUS
    <3>1. last \in entries /\ Better(e, last) /\ Better(last, e)
      BY <2>4, <2>7
    <3>2. last.player # p
      BY <1>7, <3>1 DEF EntryOf
    <3> QED
      BY <1>1, <1>2, <3>1, <3>2, BetterIsTotal
  <2>9. entries' = entries
    BY <2>2, <2>7, <2>8
  <2>10. \A k \in entries : k \in Entries /\ k.version >= k.version
    BY <1>2 DEF Entries
  <2> QED
    BY <1>2, <1>3, <2>1, <2>9, <2>10 DEF BoardIsTop, IInv, TypeOK
<1>8. CASE EntryOf(p) # {}
  <2>1. PICK old \in entries : old.player = p
    BY <1>8 DEF EntryOf
  <2>2. old \in Known /\ old = latest[p] /\ old \in Entries
    BY <1>2, <1>4, <2>1
  <2>3. EntryOf(p) = {old}
    BY <2>1 DEF EntryOf, IInv, TypeOK
  <2>4. \A k \in entries : k \in Entries /\ k.version >= k.version
    BY <1>2 DEF Entries
  <2>5. CASE e.version > latest[p].version
    <3>1. Known' = {k \in Known : k.player # p} \cup {e} /\ old.points <= e.points
      BY <2>2, <2>5, Taken
    <3>2. entries' = (entries \ {old}) \cup {e}
      BY <1>5, <2>2, <2>3, <2>5 DEF UpsertLeaderboardEntry, Upserts, IsNewer
    <3>3. e \notin entries \ {old} /\ \A k \in entries \ {old} : k.player # p
      BY <2>3 DEF EntryOf
    <3>4. /\ IsFiniteSet(entries \ {old})
          /\ Cardinality(entries \ {old}) = Cardinality(entries) - 1
      BY <1>2, <2>1, FS_RemoveElement
    <3>5. IsFiniteSet(entries') /\ Cardinality(entries') = Cardinality(entries)
      <4> DEFINE rest == entries \ {old}
      <4>1. IsFiniteSet(rest) /\ e \notin rest
        BY <3>3, <3>4
      <4> HIDE DEF rest
      <4>2. IsFiniteSet(rest \cup {e}) /\ Cardinality(rest \cup {e}) = Cardinality(rest) + 1
        BY <4>1, FS_AddElement
      <4>3. entries' = rest \cup {e} /\ Cardinality(rest) = Cardinality(entries) - 1
        BY <3>2, <3>4 DEF rest
      <4> QED
        BY <1>2, <4>2, <4>3
    <3>6. entries' \subseteq Known' /\ entries' \subseteq Entries
      BY <1>1, <1>2, <3>1, <3>2, <3>3
    <3>7. ASSUME NEW off \in Known' \ entries'
          PROVE  Cardinality(entries') = Size /\ \A on \in entries' : Better(on, off)
      <4>1. off \in Known \ entries /\ off \in Entries
        BY <1>4, <2>1, <3>1, <3>2, <3>7
      <4>2. Cardinality(entries) = Size /\ \A on \in entries : Better(on, off)
        BY <1>3, <4>1
      <4>3. old.version \in Nat /\ e.version >= old.version
        BY <1>1, <2>2, <2>5 DEF Entries
      <4>4. Better(e, off)
        BY <1>1, <2>1, <2>2, <3>1, <4>1, <4>2, <4>3, NewerIsBetter
      <4> QED
        BY <3>2, <3>5, <4>2, <4>4
    <3>8. \A a, b \in entries' : a.player = b.player => a = b
      BY <3>2, <3>3 DEF IInv, TypeOK
    <3>9. old.version \in Nat /\ e.version >= old.version
      BY <1>1, <2>2, <2>5 DEF Entries
    <3>10. ASSUME NEW k \in entries
           PROVE  \E f \in entries' : f.player = k.player /\ f.version >= k.version
      BY <2>1, <2>4, <3>2, <3>9
    <3> QED
      BY <1>2, <3>5, <3>6, <3>7, <3>8, <3>10 DEF BoardIsTop
  <2>6. CASE ~(e.version > latest[p].version)
    <3>1. Known' = Known
      BY <2>6, Taken
    <3>2. entries' = entries
      BY <1>5, <2>2, <2>3, <2>6 DEF UpsertLeaderboardEntry, Upserts, IsNewer
    <3> QED
      BY <1>2, <1>3, <2>4, <3>1, <3>2 DEF BoardIsTop, IInv, TypeOK
  <2> QED
    BY <2>5, <2>6
<1> QED
  BY <1>6, <1>7, <1>8

-----------------------------------------------------------------------------
(* Actions that leave the board and what it has received alone. *)
LEMMA BoardUnchanged ==
    ASSUME IInv, UNCHANGED <<entries, latest>>
    PROVE  BoardIsTop' /\ IsFiniteSet(entries') /\ Known' = Known
<1>1. Known' = Known
  BY DEF Known
<1> QED
  BY <1>1 DEF IInv, BoardIsTop

(* Taking a signal brings no new snapshot, and loses none that is newest. *)
LEMMA TakeKeepsSnapshots ==
    ASSUME IInv, TakeScore
    PROVE  /\ Snapshots' \subseteq Snapshots /\ DeliveryInv' /\ OwnersInv'
           /\ channel' \in Seq(Entries)
           /\ latest' \in [Players -> [player: Players, points: Nat, version: Nat]]
<1> DEFINE e == Head(channel)
<1>1. channel \in Seq(Entries) /\ channel # <<>> /\ channel' = Tail(channel)
  BY DEF IInv, TypeOK, TakeScore
<1>2. channel' \in Seq(Entries) /\ InChannel \subseteq InChannel' \cup {e}
  <2>1. channel' \in Seq(Entries) /\ Len(channel') = Len(channel) - 1
    BY <1>1
  <2>2. \A i \in 1 .. Len(channel) : i # 1 => i - 1 \in 1 .. Len(channel') /\ channel'[i - 1] = channel[i]
    BY <1>1, <2>1
  <2>3. DOMAIN channel = 1 .. Len(channel) /\ DOMAIN channel' = 1 .. Len(channel') /\ e = channel[1]
    BY <1>1, <2>1
  <2> QED
    BY <2>1, <2>2, <2>3 DEF InChannel
<1>3. InChannel' \subseteq InChannel
  <2>1. \A i \in DOMAIN Tail(channel) : i + 1 \in DOMAIN channel /\ Tail(channel)[i] = channel[i + 1]
    BY <1>1
  <2> QED
    BY <1>1, <2>1 DEF InChannel
<1>4. /\ e \in Entries /\ e \in InChannel /\ e.player \in Players /\ e.version \in Nat
      /\ Known' \subseteq Known \cup {e}
  BY Taken DEF Entries
<1>5. UNCHANGED <<score, sending>>
  BY DEF TakeScore
<1>6. Snapshots' \subseteq Snapshots
  BY <1>3, <1>4, <1>5 DEF Snapshots, Scored
<1>7. /\ latest \in [Players -> [player: Players, points: Nat, version: Nat]]
      /\ score \in [Players -> [player: Players, points: Nat, version: Nat]]
  BY DEF IInv, TypeOK
<1>8. latest' = IF e.version > latest[e.player].version
                THEN [latest EXCEPT ![e.player] = e] ELSE latest
  BY DEF TakeScore
<1>9. latest' \in [Players -> [player: Players, points: Nat, version: Nat]]
  BY <1>4, <1>7, <1>8 DEF Entries
<1>10. OwnersInv'
  BY <1>4, <1>5, <1>7, <1>8 DEF IInv, OwnersInv
<1>11. ASSUME NEW q \in Players, score[q].version > 0
       PROVE  score[q] \in sending \cup InChannel' \cup {latest'[q]}
  <2>1. score[q] \in sending \cup InChannel \cup {latest[q]}
    BY <1>11 DEF IInv, DeliveryInv
  <2>2. score[q].player = q
    BY DEF IInv, OwnersInv
  <2>3. CASE score[q] = e
    <3>1. e.player = q
      BY <2>2, <2>3
    <3>2. CASE e.version > latest[q].version
      BY <1>7, <1>8, <2>3, <3>1, <3>2
    <3>3. CASE ~(e.version > latest[q].version)
      <4>1. latest' = latest /\ latest[q] \in Known /\ latest[q].version >= e.version
        BY <1>8, <3>1, <3>3, Taken
      <4>2. latest[q] \in Snapshots /\ e \in Snapshots /\ latest[q].player = q
        BY <1>4, <4>1, KnownFacts DEF IInv, OwnersInv
      <4>3. latest[q].version <= score[q].version
        BY <4>2 DEF IInv, SnapshotsInv
      <4>4. latest[q].version = e.version
        BY <1>4, <1>7, <2>3, <4>1, <4>3
      <4>5. latest[q] = e
        BY <1>4, <3>1, <4>2, <4>4 DEF IInv, SnapshotsInv, Ordered
      <4> QED
        BY <2>3, <4>1, <4>5
    <3> QED
      BY <3>2, <3>3
  <2>4. CASE score[q] = latest[q] /\ score[q] # e
    <3>1. CASE q = e.player /\ e.version > latest[q].version
      <4>1. e \in Snapshots
        BY <1>4, KnownFacts
      <4>2. e.version <= score[q].version
        BY <3>1, <4>1 DEF IInv, SnapshotsInv
      <4> QED
        BY <1>4, <1>7, <2>4, <3>1, <4>2
    <3>2. CASE ~(q = e.player /\ e.version > latest[q].version)
      BY <1>4, <1>7, <1>8, <2>4, <3>2
    <3> QED
      BY <3>1, <3>2
  <2> QED
    BY <1>2, <2>1, <2>3, <2>4
<1>12. DeliveryInv'
  BY <1>5, <1>11 DEF DeliveryInv
<1> QED
  BY <1>2, <1>6, <1>9, <1>10, <1>12

(* The invariant about snapshots survives whatever brings no new one. *)
LEMMA FewerSnapshots ==
    ASSUME IInv, Snapshots' \subseteq Snapshots, score' = score
    PROVE  SnapshotsInv'
BY DEF IInv, SnapshotsInv, Ordered

LEMMA CompleteKeepsIInv ==
    ASSUME IInv, NEW p \in Players, CompleteLevel(p)
    PROVE  IInv'
<1> DEFINE s == score'[p]
<1>1. /\ score \in [Players -> [player: Players, points: Nat, version: Nat]]
      /\ Gains \subseteq Nat /\ \A q \in Players : score[q].player = q
  BY LeaderboardAssumption DEF IInv, TypeOK, OwnersInv
<1>2. PICK gain \in Gains :
        score' = [score EXCEPT ![p].points = @ + gain, ![p].version = @ + 1]
  BY DEF CompleteLevel
<1>3. /\ UNCHANGED <<channel, entries, latest, upgrade, continueRequested, mainPc>>
      /\ sending' = sending \cup {s}
  BY DEF CompleteLevel
<1>4. /\ score' \in [Players -> [player: Players, points: Nat, version: Nat]]
      /\ \A q \in Players : score'[q].player = q
      /\ \A q \in Players \ {p} : score'[q] = score[q]
      /\ s \in Entries /\ s.player = p /\ s.version = score[p].version + 1
      /\ s.points >= score[p].points
  BY <1>1, <1>2 DEF Entries
<1>5. BoardIsTop' /\ IsFiniteSet(entries') /\ Known' = Known
  BY <1>3, BoardUnchanged
<1>6. TypeOK' /\ OwnersInv'
  BY <1>3, <1>4 DEF IInv, TypeOK, OwnersInv
<1>7. InChannel' = InChannel
  BY <1>3 DEF InChannel
<1>8. Snapshots' \subseteq Snapshots \cup {s}
  BY <1>3, <1>4, <1>5, <1>7 DEF Snapshots, Scored
<1>9. Snapshots \subseteq Entries
  BY <1>1, KnownFacts DEF Snapshots, Scored, Entries, IInv, TypeOK
<1>10. ASSUME NEW e \in Snapshots, e.player = p
       PROVE  e.version <= score[p].version /\ e.points <= score[p].points
  <2>1. e.version <= score[p].version /\ e.version \in Nat \ {0}
    BY <1>9, <1>10 DEF IInv, SnapshotsInv, Entries
  <2>2. score[p] \in Snapshots /\ score[p].player = p
    BY <1>1, <2>1 DEF Snapshots, Scored
  <2> QED
    BY <1>10, <2>1, <2>2 DEF IInv, SnapshotsInv, Ordered
<1>11. \A e \in Snapshots' : e.version <= score'[e.player].version
  <2> SUFFICES ASSUME NEW e \in Snapshots'
               PROVE  e.version <= score'[e.player].version
    OBVIOUS
  <2>1. CASE e = s
    BY <1>4, <2>1
  <2>2. CASE e \in Snapshots /\ e.player = p
    BY <1>1, <1>4, <1>9, <1>10, <2>2 DEF Entries
  <2>3. CASE e \in Snapshots /\ e.player # p
    BY <1>4, <1>9, <2>3 DEF Entries, IInv, SnapshotsInv
  <2> QED
    BY <1>8, <2>1, <2>2, <2>3
<1>12. Ordered(Snapshots')
  <2> SUFFICES ASSUME NEW a \in Snapshots', NEW b \in Snapshots',
                      a.player = b.player, a.version <= b.version
               PROVE  a.points <= b.points /\ (a.version = b.version => a = b)
    BY DEF Ordered
  <2>1. a \in Entries /\ b \in Entries
    BY <1>4, <1>8, <1>9
  <2>2. CASE a \in Snapshots /\ b \in Snapshots
    BY <2>2 DEF IInv, SnapshotsInv, Ordered
  <2>3. CASE a = s /\ b = s
    BY <2>1, <2>3 DEF Entries
  <2>4. CASE a \in Snapshots /\ b = s
    <3>1. a.version <= score[p].version /\ a.points <= score[p].points
      BY <1>4, <1>10, <2>4
    <3> QED
      BY <1>1, <1>4, <2>1, <2>4, <3>1 DEF Entries
  <2>5. CASE a = s /\ b \in Snapshots
    <3>1. b.version <= score[p].version
      BY <1>4, <1>10, <2>5
    <3> QED
      BY <1>1, <1>4, <2>1, <2>5, <3>1 DEF Entries
  <2> QED
    BY <1>8, <2>2, <2>3, <2>4, <2>5
<1>13. DeliveryInv'
  BY <1>3, <1>4, <1>7 DEF IInv, DeliveryInv
<1> QED
  BY <1>5, <1>6, <1>11, <1>12, <1>13 DEF IInv, SnapshotsInv

LEMMA SignalKeepsIInv ==
    ASSUME IInv, NEW entry \in sending, Signal(entry)
    PROVE  IInv'
<1>1. /\ UNCHANGED <<score, entries, latest, upgrade, continueRequested, mainPc>>
      /\ channel' = Append(channel, entry) /\ channel \in Seq(Entries) /\ entry \in Entries
  BY DEF IInv, TypeOK, Signal
<1>2. sending' \subseteq sending /\ sending \subseteq sending' \cup {entry}
  BY DEF Signal
<1>3. BoardIsTop' /\ IsFiniteSet(entries') /\ Known' = Known
  BY <1>1, BoardUnchanged
<1>4. channel' \in Seq(Entries) /\ InChannel' = InChannel \cup {entry}
  <2>1. /\ channel' \in Seq(Entries) /\ DOMAIN channel' = 1 .. Len(channel) + 1
        /\ DOMAIN channel = 1 .. Len(channel) /\ Len(channel) \in Nat
        /\ channel'[Len(channel) + 1] = entry
        /\ \A i \in 1 .. Len(channel) : channel'[i] = channel[i]
    BY <1>1
  <2> QED
    BY <2>1 DEF InChannel
<1>5. Snapshots' \subseteq Snapshots
  BY <1>1, <1>2, <1>3, <1>4 DEF Snapshots, Scored
<1>6. SnapshotsInv'
  BY <1>1, <1>5, FewerSnapshots
<1>7. TypeOK' /\ OwnersInv'
  BY <1>1, <1>2, <1>4 DEF IInv, TypeOK, OwnersInv
<1>8. DeliveryInv'
  BY <1>1, <1>2, <1>4 DEF IInv, DeliveryInv
<1> QED
  BY <1>3, <1>6, <1>7, <1>8 DEF IInv

LEMMA AbandonKeepsIInv ==
    ASSUME IInv, NEW entry \in sending, Abandon(entry)
    PROVE  IInv'
<1>1. /\ UNCHANGED <<score, channel, entries, latest, upgrade, continueRequested, mainPc>>
      /\ sending' = sending \ {entry} /\ entry.version < score[entry.player].version
  BY DEF Abandon
<1>2. BoardIsTop' /\ IsFiniteSet(entries') /\ Known' = Known
  BY <1>1, BoardUnchanged
<1>3. InChannel' = InChannel
  BY <1>1 DEF InChannel
<1>4. Snapshots' \subseteq Snapshots
  BY <1>1, <1>2, <1>3 DEF Snapshots, Scored
<1>5. SnapshotsInv'
  BY <1>1, <1>4, FewerSnapshots
<1>6. TypeOK' /\ OwnersInv'
  BY <1>1 DEF IInv, TypeOK, OwnersInv
<1>7. \A q \in Players : score[q] # entry
  <2> SUFFICES ASSUME NEW q \in Players, score[q] = entry PROVE FALSE
    OBVIOUS
  <2>1. entry.player = q /\ entry.version \in Nat
    BY DEF IInv, OwnersInv, TypeOK, Entries
  <2> QED
    BY <1>1, <2>1
<1>8. DeliveryInv'
  BY <1>1, <1>3, <1>7 DEF IInv, DeliveryInv
<1> QED
  BY <1>2, <1>5, <1>6, <1>8 DEF IInv

LEMMA TakeKeepsIInv ==
    ASSUME IInv, TakeScore, mainPc' \in {"select", "drain"},
           UNCHANGED <<upgrade, continueRequested>>
    PROVE  IInv'
<1>1. UNCHANGED <<score, sending>>
  BY DEF TakeScore
<1>2. Snapshots' \subseteq Snapshots /\ DeliveryInv' /\ OwnersInv'
  BY TakeKeepsSnapshots
<1>3. SnapshotsInv'
  BY <1>1, <1>2, FewerSnapshots
<1>4. TypeOK'
  BY <1>1, TakeKeepsSnapshots, BoardStep DEF IInv, TypeOK
<1> QED
  BY <1>2, <1>3, <1>4, BoardStep DEF IInv

(* The actions that touch neither snapshots nor board, but for an empty channel. *)
LEMMA OthersKeepIInv ==
    ASSUME IInv, RequestUpgrade \/ ReceiveUpgrade \/ ContinueAsNew \/ UNCHANGED vars
    PROVE  IInv'
<1>1. UNCHANGED <<score, sending, channel, entries, latest>>
  BY DEF RequestUpgrade, ReceiveUpgrade, ContinueAsNew, Continues, vars
<1>2. BoardIsTop' /\ IsFiniteSet(entries') /\ Known' = Known
  BY <1>1, BoardUnchanged
<1>3. InChannel' = InChannel
  BY <1>1 DEF InChannel
<1>4. Snapshots' \subseteq Snapshots
  BY <1>1, <1>2, <1>3 DEF Snapshots, Scored
<1>5. SnapshotsInv'
  BY <1>1, <1>4, FewerSnapshots
<1>6. upgrade' \in BOOLEAN /\ continueRequested' \in BOOLEAN /\ mainPc' \in {"select", "drain"}
  <2>1. CASE RequestUpgrade
    BY <2>1 DEF RequestUpgrade, IInv, TypeOK
  <2>2. CASE ReceiveUpgrade
    BY <2>2 DEF ReceiveUpgrade, NextIteration
  <2>3. CASE ContinueAsNew
    BY <2>3 DEF ContinueAsNew, Continues
  <2>4. CASE UNCHANGED vars
    BY <2>4 DEF vars, IInv, TypeOK
  <2> QED
    BY <2>1, <2>2, <2>3, <2>4
<1>7. TypeOK' /\ OwnersInv'
  BY <1>1, <1>6 DEF IInv, TypeOK, OwnersInv
<1>8. DeliveryInv'
  BY <1>1, <1>3 DEF IInv, DeliveryInv
<1> QED
  BY <1>2, <1>5, <1>7, <1>8 DEF IInv

-----------------------------------------------------------------------------
LEMMA InitIInv == Init => IInv
<1> SUFFICES ASSUME Init PROVE IInv
  OBVIOUS
<1>1. /\ score = [p \in Players |-> NoScore(p)] /\ latest = [p \in Players |-> NoScore(p)]
      /\ sending = {} /\ channel = <<>> /\ entries = {}
      /\ upgrade = FALSE /\ continueRequested = FALSE /\ mainPc = "select"
  BY DEF Init
<1>2. TypeOK /\ OwnersInv
  <2>1. \A p \in Players : NoScore(p) \in [player: Players, points: Nat, version: Nat]
    BY DEF NoScore
  <2>2. /\ score \in [Players -> [player: Players, points: Nat, version: Nat]]
        /\ latest \in [Players -> [player: Players, points: Nat, version: Nat]]
    BY <1>1, <2>1
  <2>3. <<>> \in Seq(Entries)
    OBVIOUS
  <2>4. TypeOK
    BY <1>1, <2>2, <2>3 DEF TypeOK
  <2>5. OwnersInv
    BY <1>1 DEF OwnersInv, NoScore
  <2> QED
    BY <2>4, <2>5
<1>3. Known = {} /\ Scored = {} /\ InChannel = {}
  BY <1>1 DEF Known, Scored, InChannel, NoScore
<1>4. Snapshots = {}
  BY <1>1, <1>3 DEF Snapshots
<1>5. SnapshotsInv /\ DeliveryInv
  BY <1>1, <1>4 DEF SnapshotsInv, Ordered, DeliveryInv, NoScore
<1>6. IsFiniteSet(entries) /\ BoardIsTop
  BY <1>1, <1>3, FS_EmptySet, LeaderboardAssumption DEF BoardIsTop
<1> QED
  BY <1>2, <1>5, <1>6 DEF IInv

(* Every step keeps the inductive invariant. *)
LEMMA NextIInv == IInv /\ [Next]_vars => IInv'
<1> SUFFICES ASSUME IInv, [Next]_vars PROVE IInv'
  OBVIOUS
<1>1. ASSUME NEW p \in Players, CompleteLevel(p) PROVE IInv'
  BY <1>1, CompleteKeepsIInv
<1>2. ASSUME NEW entry \in sending, Signal(entry) PROVE IInv'
  BY <1>2, SignalKeepsIInv
<1>3. ASSUME NEW entry \in sending, Abandon(entry) PROVE IInv'
  BY <1>3, AbandonKeepsIInv
<1>4. CASE ReceiveScore
  BY <1>4, TakeKeepsIInv DEF ReceiveScore, NextIteration
<1>5. CASE DrainScore
  BY <1>5, TakeKeepsIInv DEF DrainScore
<1>6. CASE RequestUpgrade \/ ReceiveUpgrade \/ ContinueAsNew \/ UNCHANGED vars
  BY <1>6, OthersKeepIInv
<1> QED
  BY <1>1, <1>2, <1>3, <1>4, <1>5, <1>6 DEF Next

LEMMA Inductive == Spec => []IInv
BY InitIInv, NextIInv, PTL DEF Spec

-----------------------------------------------------------------------------
(* Every variable has its type, and the board lists a player once: an upsert *)
(* replaces the entry of a player that is listed.                            *)
THEOREM TypeCorrect == Spec => []TypeOK
<1>1. IInv => TypeOK
  BY DEF IInv
<1> QED
  BY <1>1, Inductive, PTL

(* Whatever is delivered, twice, late or out of order, the board is the top  *)
(* Size of the newest snapshots received.                                    *)
THEOREM BoardIsAlwaysTop == Spec => []BoardIsTop
<1>1. IInv => BoardIsTop
  BY DEF IInv
<1> QED
  BY <1>1, Inductive, PTL

(* Once nothing is on its way, the board shows the newest score of every     *)
(* player that is not outranked by a full board: retries, abandoned          *)
(* Activities and Continue-As-New lose no completion.                        *)
THEOREM NoCompletionIsLost == Spec => []QuietBoardIsCurrent
<1>1. IInv => QuietBoardIsCurrent
  <2> SUFFICES ASSUME IInv, sending = {}, channel = <<>>,
                      NEW p \in Players, score[p].version > 0
               PROVE  \/ score[p] \in entries
                      \/ /\ Cardinality(entries) = Size
                         /\ \A on \in entries : Better(on, score[p])
    BY DEF QuietBoardIsCurrent
  <2>1. InChannel = {}
    BY DEF InChannel
  <2>2. score[p] = latest[p]
    BY <2>1 DEF IInv, DeliveryInv
  <2>3. score[p] \in Known
    BY <2>2 DEF Known
  <2> QED
    BY <2>3 DEF IInv, BoardIsTop
<1> QED
  BY <1>1, Inductive, PTL

(* A step takes a player off the board only for a full board of better       *)
(* entries, and never shows older totals of a player than before.            *)
THEOREM NobodyEverFallsBack == Spec => NobodyFallsBack
<1> DEFINE Kept ==
        \A e \in entries :
            \/ \E f \in entries' : f.player = e.player /\ f.version >= e.version
            \/ Cardinality(entries') = Size /\ \A f \in entries' : Better(f, e)
<1>1. IInv /\ [Next]_vars => [Kept]_vars
  <2> SUFFICES ASSUME IInv, Next PROVE Kept
    OBVIOUS
  <2>1. CASE TakeScore
    BY <2>1, BoardStep
  <2>2. CASE entries' = entries
    <3>1. \A e \in entries : e.version \in Nat
      BY DEF IInv, TypeOK, Entries
    <3> QED
      BY <2>2, <3>1
  <2>3. TakeScore \/ entries' = entries
    BY DEF Next, CompleteLevel, Signal, Abandon, RequestUpgrade, ReceiveScore,
           ReceiveUpgrade, DrainScore, ContinueAsNew, Continues
  <2> QED
    BY <2>1, <2>2, <2>3
<1> QED
  BY <1>1, Inductive, PTL DEF Spec, NobodyFallsBack

=============================================================================
