SPECIFICATION Spec
CONSTANTS
    Window = 2
    HoldTime = 3
    LongTime = 5
    BootWait = 2
    MaxHold = 6
    Holds = {0, 1, 3, 6}
    MaxUpdate = 2
INVARIANTS HoldReal NextUseful AsMeant
