SPECIFICATION Spec
CONSTANTS
    Sky = {"here", "there"}
    Hand = {"h1"}
    Ahead = {1, 2}
    Kits <- KitsChecked
    MaxNow = 4
    Minute = 2
    CalFor = 2
    Dwell <- DwellTicks
    Hold <- HoldTicks
INVARIANTS HardwareBack CommandHolds Honest
PROPERTIES Steadied
CHECK_DEADLOCK FALSE
