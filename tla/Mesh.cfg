SPECIFICATION Spec
CONSTANTS
    a = a
    b = b
    Nodes = {a, b}
    Stranger = s
    Kits <- KitsChecked
    Yields <- OneYields
    Offsets = {0, 1}
    Clocks <- OneAhead
    MaxUids = 3
    MaxNow = 3
    Lifetime = 1
    DedupeMin = 2
    DedupeMax = 4
    RepeatMax = 2
    ReplyHold = 2
    SyncDelay = 1
    RecentMax = 2
    SendFreq = 2
    StaleHeard = 1
    StaleAfter = 1
    Delivery = 1
    PeerLimit = 1
    AckLimit = 1
    NoAckLimit = 1
    MaxHops = 3
    Bursts = 2
    RelayUnowned = TRUE
INVARIANTS FloodBound OneChain
PROPERTIES Remembered AskPaced
CHECK_DEADLOCK FALSE
