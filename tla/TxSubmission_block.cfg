SPECIFICATION Spec
CONSTANTS
    Timeout = 3
    Grace = 2
    Patience = 2
    MaxBlocks = 2
INVARIANT ConfirmedBeforeTrees
CHECK_DEADLOCK FALSE
