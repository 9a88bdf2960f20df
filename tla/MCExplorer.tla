------------------------------ MODULE MCExplorer ------------------------------
(* Instances of Explorer for TLC. *)
EXTENDS Explorer, TLC

CONSTANTS campaign, player, level

\* A player starts levels.
ChildrenOf == (player :> {level}) @@ (level :> {}) @@ (campaign :> {})

=============================================================================
