\* What the catch of sendCode says of a failed request, under the same fairness.
SPECIFICATION Spec
CONSTANTS
    Count = 2
    Idle = Idle
PROPERTIES
    FailureReenables
