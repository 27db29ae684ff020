SPECIFICATION FairSpec
CONSTANTS
    Genesis = 0
    NoBlock = NoBlock
    Block <- MCBlock
    Prev <- MCPrev
    Height <- MCHeight
    Work <- MCWork
    Ancestry <- MCAncestry
    ChainWork <- MCChainWork
    Invalid <- MCInvalid
    MaxForced = 1
    MaxFailures = 1
    MaxRestarts = 1
INVARIANTS
    
    HeaviestByWorkSum
PROPERTY
    ReorgEnds
