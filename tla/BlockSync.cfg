CONSTANTS
    n1 = n1
    tx1 = tx1
    tx2 = tx2
    Caller = {a}
    Tx = {tx1, tx2}
    Note = {n1}
    Creator <- MCCreator
    Spender <- MCSpender
    SyncChainTip = "proposed"
    HashInHeader = TRUE
    Height0 = 0
    MaxBlocks = 4
    Absent = Absent
SPECIFICATION Spec
INVARIANTS
    TypeOK
    EventsUpToAnchor
PROPERTIES
    SyncEndsOnTip
    NoOrphanEventsIfTame
