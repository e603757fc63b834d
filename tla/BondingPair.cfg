\* Two nodes next to each other, both with AutoPair as every board has it.
SPECIFICATION RadioSpec
CONSTANTS
    Nodes = {n1, n2}
    Totems = {}
    Strangers = {}
    None = None
    Groups = {}
    Owned <- MCOwned
    AutoPair = {n1, n2}
    MaxBonds = 2
    Window = 2
    Recent = 1
    LoopMin = 1
    LoopMax = 1
    Burst = 2
    BurstGap = 1
    JoinGap = 1
    Lag = 0
    Ops = {"pair"}
    MaxJobs = 3
PROPERTIES Heals
