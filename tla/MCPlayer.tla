------------------------------ MODULE MCPlayer ------------------------------
(* Instances of Player for TLC. *)
EXTENDS Player, TLC

CONSTANTS c1, c2, h1, h2, s1, s2

\* Two campaigns, the second a single attempt that is shorter than MaxLevel.
TwoCampaigns == (c1 :> 2) @@ (c2 :> 1)
OneCampaign  == c1 :> MaxLevel

SlotSymmetry == Permutations(Slots)
Symmetry     == Permutations(Slots) \cup Permutations(Hashes)

=============================================================================
