\* The field with the source's own countdown from 59.
SPECIFICATION Spec
CONSTANTS
    Count = 59
    Idle = Idle
INVARIANTS
    TypeOK
    OneCodeAtATime
    StuckExplained
PROPERTIES
    SentReenables
