\* Two activity pages one after the other; introductions at both sides of each limit.
SPECIFICATION DetailSpec
CONSTANTS
    MaxVisits = 2
    Heights = {0, 660, 680, 701}
    MaxTaps = 2
    MaxSaves = 1
INVARIANTS
    DetailTypeOK
    CacheIsTrue
    DarkElsewhere
    BarFitsHeader
    CutExplained
    SheetAllowed
    SaveToastIsTrue
CHECK_DEADLOCK FALSE
