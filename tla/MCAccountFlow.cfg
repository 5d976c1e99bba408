\* Every page the host may open; three pages of BindPhone after VerifyPhone.
SPECIFICATION Spec
CONSTANTS
    MaxPages = 4
    MaxApplied = 2
INVARIANTS
    TypeOK
    VerifierOnTop
    ChangedOnce
    ClosesWhenDone
PROPERTIES
    ButtonReturns
CHECK_DEADLOCK FALSE
