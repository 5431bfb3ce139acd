SPECIFICATION Spec
INVARIANT FeePayloadMergedOnce
CHECK_DEADLOCK FALSE
