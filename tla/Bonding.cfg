\* One node, three Totems it owns and a stranger, that may send it anything.
SPECIFICATION Spec
CONSTANTS
    Nodes = {n1}
    Totems = {t1, t2, t3, t4}
    Strangers = {t4}
    None = None
    Groups = {g1}
    Owned <- MCOwned
    AutoPair = {n1}
    MaxBonds = 1
    Window = 2
    Recent = 2
    LoopMin = 1
    LoopMax = 1
    Burst = 2
    BurstGap = 1
    JoinGap = 1
    Lag = 0
    Ops = {"pair", "unbond", "reset", "power", "boot", "restore", "locate"}
    MaxJobs = 4
INVARIANTS HalfBond EndArmed OwnedOnly
PROPERTIES FirmKept RolledBack
SYMMETRY Alike
