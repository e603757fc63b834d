\* Flash whose reads and writes may fail.
SPECIFICATION FairSpec
CONSTANTS
    Prefs = {p1}
    NoPref = p0
    Peers = {t1, t2}
    Scopes = {{t1, t2}, {t1}}
    MaxBonds = 1
    MaxBoots = 3
    Faults = {"read", "write"}
    None = None
    Alien = Alien
PROPERTIES NoSilentLoss BootRecorded ForgetSticks Persisted
