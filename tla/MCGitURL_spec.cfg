SPECIFICATION Spec
INVARIANT CommitURLAsSpecified
CHECK_DEADLOCK FALSE
