CONSTANTS
    Caller = {11, 12}
    Worker = {1, 2, 3}
    DefaultWorkers = 2
    MaxWorkers = 3
    MaxCalls = 3
    Validator = {1, 2}
    Goroutines = 2
    Hash = {"h1", "h2", "none"}
    Key = {"k1", "k2", "unfit", "coinbase"}
    ValidChecks <- MCValidChecks
    Inputs <- MCInputs
    maxEntries = 1
SPECIFICATION MCSpec
INVARIANTS MinerSound ScriptsJudged
PROPERTY NodeProgresses
CHECK_DEADLOCK FALSE
