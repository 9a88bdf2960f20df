------------------------------- MODULE MCDaily -------------------------------
(* An instance of Daily for TLC: two levels of one answer, or of one twice. *)
EXTENDS Daily, TLC

CONSTANTS a, b, c, d, e, f

Levels == {<<x>> : x \in Answers} \cup {<<x, x>> : x \in Answers}
Symmetry == Permutations(Answers)

=============================================================================
