CONSTANTS
    n1 = n1
    tx1 = tx1
    tx2 = tx2
    Caller = {a, b}
    Tx = {tx1, tx2}
    Note = {n1}
    Creator <- MCCreator
    Spender <- MCSpender
    SyncChainTip = "proven"
    HashInHeader = TRUE
    Height0 = 1
    MaxBlocks = 4
    Absent = Absent
SPECIFICATION FairSpec
PROPERTIES
    SyncSound
    SyncReleased
