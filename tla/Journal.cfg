CONSTANTS
    Size = 13
    MaxRecord = 3
    Erased = 6
    Magic = 4
    Uses <- UsesChecked
    None = None

SPECIFICATION Spec

INVARIANTS
    Sound
    SeqSound
    NoGhost

PROPERTIES
    IsStableStore
    SaveSticks
