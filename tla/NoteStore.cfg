CONSTANTS
    n1 = n1
    n2 = n2
    c1 = c1
    Nullifier = {n1, n2}
    Contract = {c1}
    ContractOf <- SameContract
    Scope = {alice, bob}
    Block = {0, 1, 2}
    Absent = Absent
SPECIFICATION Spec
INVARIANTS
    TypeOK
    ContractIndexSound
    
PROPERTIES
    RollbackComplete
    
SYMMETRY NoteSymmetry
