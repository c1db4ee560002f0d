SPECIFICATION Spec
CONSTANTS
    Handlers = {h1, h2}
    LogConfigs <- MCLogConfigs
    NoHandler = NoHandler
INVARIANTS
    LoneSetupApplies
