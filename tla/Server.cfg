SPECIFICATION FairSpec
CONSTANTS
    Host = {1}
    GroupSize = 65536
    TargetOutbound = 1
    MaxFailedAttempts = 1
    PermanentPeers = 1
    MaxConnReqs = 2
    MaxDials = 2
    MaxPeers = 1
    MaxServerPeers = 2
    MaxQueries = 1
INVARIANT ServerSound
PROPERTY ConnectionsServed
CHECK_DEADLOCK FALSE
