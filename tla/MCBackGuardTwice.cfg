\* The headline flow with a second back request while the first is being asked about.
SPECIFICATION Spec
CONSTANTS
    Roots <- HeadlineRoot
    Types = {"person"}
    Texts = {t1, t2}
    Empty = Empty
    NoDraft = NoDraft
    MaxVisits = 2
    MaxPrompts = 2
PROPERTIES
    TextAlwaysKept
CHECK_DEADLOCK FALSE
