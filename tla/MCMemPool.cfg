SPECIFICATION MCSpec
CONSTANTS
    Tx <- MCTx
    BaseTx <- MCBaseTx
    Type <- MCType
    Inputs <- MCInputs
    Outputs <- MCOutputs
    StakeBase <- MCStakeBase
    VotesFor <- MCVotesFor
    VotesYes = {"v"}
    Price <- MCPrice
    Expiry <- MCExpiry
    Block <- MCBlock
    Base = "B0"
    Prev <- MCPrev
    KeyBlock = {"B0", "B1", "B2", "C2"}
    Approves = {"B1", "B2", "M2"}
    Regular <- MCRegular
    Stake <- MCStake
    StakeDiff <- MCStakeDiff
    TicketsPerBlock = 1
    MaxOrphanTxs = 2
    maxSSGensDoubleSpends = 1
    heightDiffToPruneTicket = 1
    heightDiffToPruneVotes = 1
    Client = {1}
    Kind = {"blocks", "txs", "winning"}
    Spends <- MCSpends
    Watched = {1}
    MaxClients = 1
    MaxFilters = 1
    MaxEvents = 2
    MaxRequests = 2
INVARIANTS PoolConsistent PoolSpendable OrphansAdopted NtfnSound
CHECK_DEADLOCK FALSE
