CONSTANTS
    p1 = p1
    p2 = p2
    Peer = {p1, p2}
    Nobody = Nobody
    Chain = 4
    KeyBlocks = {1, 3}
    Checkpoints = {2}
    Fresh = 3
    StartHeight = 0
    FirstTip = 4
    Lagging = {p2}
    LaggingTip = 3
    MaxInvPerMsg = 2
    MaxHeaders = 2
    MinInFlight = 1
    MaxRequested = 3
    MaxResend = 1
    MaxUnasked = 1
SPECIFICATION FairSpec
 
PROPERTIES LotteryFollows SyncCompletes
CHECK_DEADLOCK FALSE
