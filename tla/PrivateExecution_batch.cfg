SPECIFICATION Spec
CONSTANTS
    Contract = {"token"}
    DbNote <- OneStored
    MaxEffects = 2
    MaxRare = 2
    MaxOracles = 2
    MaxSize = 4
INVARIANTS NoteHashesKept
CHECK_DEADLOCK FALSE
