\* Two runs of three workflows, a public one and two of a player, shown one
\* row and one event to the page.
SPECIFICATION Spec
CONSTANTS
    level = level
    campaign = campaign
    player = player
    None = None
    Public = {campaign}
    Owned = {player, level}
    Children <- ChildrenOf
    Addressed = {None, player}
    ListPageSize = 1
    HistoryPageSize = 1
    MaxRuns = 2
    MaxEvents = 3
INVARIANTS
    TimelineIsOneHistory
    ShownWasVisible
