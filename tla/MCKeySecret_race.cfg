SPECIFICATION Spec
CONSTANTS
    Handlers = {h1, h2}
    KeyNames <- MCKeyNames
    KeyData <- MCKeyData
    Empty = Empty
    Absent = Absent
    NoPath = NoPath
INVARIANT
    ReadsOwnKey
