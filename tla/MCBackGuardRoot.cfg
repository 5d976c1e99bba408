\* The host opens the app at the form itself.
SPECIFICATION Spec
CONSTANTS
    Roots <- FormRoot
    Types = {"person"}
    Texts = {t1, t2}
    Empty = Empty
    NoDraft = NoDraft
    MaxVisits = 1
    MaxPrompts = 1
INVARIANTS
    PendingInterrupts
CHECK_DEADLOCK FALSE
