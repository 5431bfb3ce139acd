SPECIFICATION Spec
CONSTANTS
    alice = alice   bob = bob   caller1 = caller1   caller2 = caller2   app = app
    s1 = s1   s2 = s2   x1 = x1   x2 = x2   zero = zero
    e1 = e1   e2 = e2
    Absent = Absent   Torn = Torn   unset = unset
    zeroFr = zeroFr   Denied = Denied   Err = Err   off = off
INVARIANTS
    TypeOK
    
    EventsExact
    
    AccountsServed
    DeployedAsReturned
    ClaimsKept
    IdentitiesAgree
PROPERTIES
    IndexesStable
    ArraySpec
    CopyExactInWord
SYMMETRY ContractSymmetry
CHECK_DEADLOCK FALSE
