------------------------------ MODULE MCCatalog ------------------------------
(* An instance of Catalog for TLC: the permanent default campaign, a dated    *)
(* campaign of the same game, and a dated campaign that describes the game    *)
(* differently.                                                               *)
EXTENDS Catalog, TLC

CONSTANTS foundations, daily, rival

SomeEnds    == (foundations :> Never) @@ (daily :> 1) @@ (rival :> 2)
OneGame     == [c \in Campaigns |-> "wordflow"]
SomeDetails == (foundations :> "title") @@ (daily :> "title") @@ (rival :> "other title")

=============================================================================
