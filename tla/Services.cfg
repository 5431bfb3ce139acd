SPECIFICATION FairSpec
CONSTANTS
    Torn = Torn
    None = None
INVARIANTS TypeOK MessagesKept OutcomesTrue ProofIsOwn
PROPERTIES FinalizedNeverLowered   CallsReturn
CHECK_DEADLOCK FALSE
