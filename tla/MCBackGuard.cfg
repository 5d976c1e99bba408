\* Every page flow that can be guarded, up to two forms or activity pages in a run.
SPECIFICATION Spec
CONSTANTS
    Roots <- MCRoots
    Types = {"person", "organization"}
    Texts = {t1, t2}
    Empty = Empty
    NoDraft = NoDraft
    MaxVisits = 2
    MaxPrompts = 2
INVARIANTS
    TypeOK
    SwipeOnlyAtRoot
    ViewerBlocksSwipe
    StaleOnlyAfterOverlap
    PendingKeepsPage
PROPERTIES
    DraftKept
    DraftSeenFirst
    PromiseKept
    SwipeReturns
CHECK_DEADLOCK FALSE
