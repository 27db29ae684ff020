SPECIFICATION FairSpec
CONSTANTS
    Genesis = 0
    Block <- MCBlock
    Prev <- MCPrev
    PrevKey <- MCPrevKey
    KeyBlock <- MCKeyBlock
    Invalid <- MCInvalid
    MaxOrphanBlocks = 2
    OrphanLifetime = 1
    MaxTime = 4
INVARIANTS
    PoolSound
    OrphansFollow
PROPERTY
    OrphansResolved
