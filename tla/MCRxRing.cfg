CONSTANTS
    a = a
    b = b
    bad = bad
    none = none
    Frames <- MCFrames
    Invalid <- MCInvalid
    Fields <- MCFields
    NoFrame = none
    Slots = 3
    Width = 6

SPECIFICATION FairSpec

INVARIANTS
    Safe

PROPERTIES
    IsQueue
    Drained
