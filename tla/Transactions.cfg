SPECIFICATION Spec
INVARIANTS TypeOK  NullifiedNotReturned ProofCoversCalls 
           SignedIsExecuted ReadsMatchBlock   
CHECK_DEADLOCK FALSE
