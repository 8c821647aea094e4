SPECIFICATION Spec
CONSTANTS
    Contracts = {"a", "b", "c"}
    Addresses = {"a", "b", "c", "x"}
    Apis = {"init", "pay", "see"}
    Names = {"first", "other"}
    Named <- MCNamed
    Code <- MCCode
    Stored <- MCStored
    Arguments <- MCArguments
    Specials = {"init"}
    Initial = "init"
    MaxOffline = 2
    MaxFrames = 3
    MaxTables = 4
INVARIANTS HeadsPrivileges RecordedApisRun
CHECK_DEADLOCK FALSE
