CONSTANTS
    a1 = a1
    a2 = a2
    a3 = a3
    s1 = s1
    s2 = s2
    Item = {"tx"}
    OutputBuffer = 3
    TrickleSize = 1
    MaxEvents = 2
    TickInterval = 2
    ResponseTimeout = 4
    Requests = {"getdata", "getminingstate"}
    MaxTime = 8
    Addr = {a1, a2, a3}
    Src = {s1, s2}
    NewBucketOf <- MCNewBucketOf
    TriedBucketOf <- MCTriedBucketOf
    newBucketSize = 1
    triedBucketSize = 1
    newBucketsPerAddress = 2
    MaxStamp = 1
    MaxReqs = 1
    SendBuffer = 3
    MaxRead = 2
    MaxNtfns = 2
SPECIFICATION MCSpec
INVARIANTS  StallJudged AddrTablesAgree NotificationsInOrder
PROPERTY ConnectionsEnd
CHECK_DEADLOCK FALSE
