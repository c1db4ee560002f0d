SPECIFICATION Spec
CONSTANTS
    Resources <- MCResources
    Snapshots <- MCSnapshots
    Replies <- MCReplies
    Truth <- MCTruth
    Workers = 2
    GitToken = "ghp_token"
    Gone = Gone
    NoResult = NoResult
    JNull = JNull
    JAbsent = JAbsent
INVARIANTS
    ExtractionMatchesReference
PROPERTIES
    HistoryRefinement
