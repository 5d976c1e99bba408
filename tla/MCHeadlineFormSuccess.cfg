\* What HeadlineSubmitted says of every application that leads to it.
SPECIFICATION Spec
CONSTANTS
    Keys = {"avatar"}
    MaxPicks = 1
    MaxFetches = 1
    MaxAccepted = 1
INVARIANTS
    SuccessMeansAccepted
CHECK_DEADLOCK FALSE
