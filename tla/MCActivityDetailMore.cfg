\* What the button of a folded introduction says, with one height between the two limits.
SPECIFICATION DetailSpec
CONSTANTS
    MaxVisits = 1
    Heights = {680}
    MaxTaps = 1
    MaxSaves = 1
PROPERTIES
    MoreShowsMore
CHECK_DEADLOCK FALSE
