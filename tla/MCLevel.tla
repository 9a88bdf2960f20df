------------------------------ MODULE MCLevel ------------------------------
(* Two crossing words, and free hints of one type at most. *)
EXTENDS Level, TLC

CONSTANTS c1, c2, c3, r1, r2, s1, s2

Crossing == <<<<c1, c2>>, <<c2, c3>>>>
NoFreeHints  == [h \in HintTypes |-> 0]
OneFreeBrush == [h \in HintTypes |-> IF h = "brush" THEN 1 ELSE 0]

Symmetry == Permutations(Ids) \cup Permutations(Slots)
IdSymmetry == Permutations(Ids)

=============================================================================
