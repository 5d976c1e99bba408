\* Every list on both platforms; a server of up to three pages, three requests at once.
SPECIFICATION Spec
CONSTANTS
    MaxLast = 3
    MaxInFlight = 3
    MaxRows = 5
    Null = Null
INVARIANTS
    TypeOK
    PnIsLastShown
    PagesInOrder
    NoGap
    EndIsLastPage
    DeadListExplained
PROPERTIES
    SpinnerStops
    ListKept
CHECK_DEADLOCK FALSE
