--------------------------- MODULE MCCampaignPlay ---------------------------
(* An instance of CampaignPlay for TLC: the paced default campaign, a dated   *)
(* single attempt that requires its first level, and a campaign that          *)
(* requires the attempt.                                                      *)
EXTENDS CampaignPlay, TLC

CONSTANTS foundations, daily, encore

Per(f, d, e)     == (foundations :> f) @@ (daily :> d) @@ (encore :> e)
SomeEnds         == Per(Never, 3, Never)
OneGame          == Per("wordflow", "wordflow", "wordflow")
OneTitle         == Per("title", "title", "title")
SomeStarts       == Per(0, 1, 0)
SomeCampaigns    == Per({}, {}, {daily})
SomeLevels       == Per({}, {<<foundations, 1>>}, {})
SomeInitial      == Per(1, 1, 0)
SomePerInterval  == Per(1, 0, 1)
SomeIntervals    == Per(2, 0, 1)
SomeTotals       == Per(3, 1, 1)

=============================================================================
