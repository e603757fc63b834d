CONSTANTS
    Size = 16
    MaxRecord = 3
    Erased = 6
    Magic = 4
    Uses <- UsesMagic
    None = None

SPECIFICATION Spec

PROPERTIES
    SaveSticks
