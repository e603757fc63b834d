\* Half duplex and legacy sessions.
SPECIFICATION FairSpec
CONSTANTS
    Callers = {c1, c2}
    Main = main
    Grants = {g1, g2}
    Nobody = Nobody
    Kits <- Sessions
    Batches <- TwoFrames
    MaxFails = 1
    MaxAir = 1
    EventCap = 1
INVARIANTS Consistent InWindow
PROPERTIES CallsReturn RepeatsEnd
CHECK_DEADLOCK FALSE
