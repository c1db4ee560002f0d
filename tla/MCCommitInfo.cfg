SPECIFICATION Spec
CONSTANTS
    JNull = JNull
    JAbsent = JAbsent
INVARIANTS
    CommitInfoPerMaterial
CHECK_DEADLOCK FALSE
