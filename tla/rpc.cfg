CONSTANTS
    Accounts = {"a"}
    Contracts = {"k"}
    Apis = {"init", "step", "dear"}
    Program <- MCProgram
    Gases = {4}
    Plenty = 4
    Lines = {2, 3}
    Slots = {"x", "y"}
    Values = {1, 2}
    Amounts = {2}
    AssetIds = {0, 1}
    MaxTxs = 2
    Loads <- MCLoads
    MaxBlocks = 2
    MaxRuns = 1
    None = None
SPECIFICATION Spec
INVARIANTS StorageFollowsRuns NoBreakpointMissed
PROPERTY RefusedChangesNothing
CHECK_DEADLOCK FALSE
VIEW ButForAnswer
