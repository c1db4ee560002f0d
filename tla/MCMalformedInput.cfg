SPECIFICATION Spec
CONSTANTS
    PullFailed = PullFailed
    Unparsable = Unparsable
    NullDoc = NullDoc
    NoManifest = NoManifest
    Panicked = Panicked
    JNull = JNull
    JAbsent = JAbsent
INVARIANT
    MalformedInputContained
CHECK_DEADLOCK FALSE
