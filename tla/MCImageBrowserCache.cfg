\* What the catch of saveImageAlbum is there for.
SPECIFICATION Spec
CONSTANTS
    MaxSaves = 2
INVARIANTS
    CacheCleaned
CHECK_DEADLOCK FALSE
