---------------------------- MODULE MCPlayerLevel ----------------------------
(* Instances of PlayerLevel for TLC. *)
EXTENDS PlayerLevel, TLC

CONSTANTS c1, h1, r1, s1, s2

OneCampaign == c1 :> MaxLevel

=============================================================================
