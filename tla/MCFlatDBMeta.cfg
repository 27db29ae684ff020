\* The metadata: a caller key that is put and removed, a block, and a reader.
SPECIFICATION FairSpec
CONSTANTS
    b1 = b1
    b2 = b2
    k = k
    v = v
    w = w
    r = r
    Blocks = {b2}
    BlockLen <- MCBlockLen
    MaxFileSize = 3
    UserKeys = {k}
    Values = {v}
    WriteLoc = w
    Readers = {r}
    MaxFaults = 1
    MaxStops = 1
CHECK_DEADLOCK FALSE
PROPERTIES AtomicUpdates CommitEnds
