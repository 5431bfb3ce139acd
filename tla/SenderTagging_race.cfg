SPECIFICATION Spec
CONSTANTS
    Secret = {s1, s2}
    Tx = {x1, x2}
    ZeroTx = zero
    Task = {p, q}
    WindowLen = 2
    MaxIndex = 3
PROPERTY IssuedOnce
SYMMETRY TagSymmetry
