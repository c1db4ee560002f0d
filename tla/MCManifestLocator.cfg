SPECIFICATION Spec
CONSTANTS
    PullFailed = PullFailed
    Unparsable = Unparsable
    NullDoc = NullDoc
    NoManifest = NoManifest
    Panicked = Panicked
INVARIANTS
    TypeOK
    NoFalseNotFound
    IdentityPrecedence
CHECK_DEADLOCK FALSE
