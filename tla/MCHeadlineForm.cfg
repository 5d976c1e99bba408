\* One picture, as the code handles both alike, picked up to three times.
SPECIFICATION Spec
CONSTANTS
    Keys = {"avatar"}
    MaxPicks = 3
    MaxFetches = 2
    MaxAccepted = 2
INVARIANTS
    TypeOK
    ShownIsSubmitted
    PickerReady
    AppliesOnce
    SuccessExplained
PROPERTIES
    NewestPictureWins
    AreaTapAnswered
CHECK_DEADLOCK FALSE
