SPECIFICATION Spec
CONSTANTS
    Nil = Nil
    EmptyMap = EmptyMap
INVARIANTS
    CopiesIndependent
    CopiesFaithful
CHECK_DEADLOCK FALSE
