\* The block files: b2 never fits behind b1, so every order of the two needs two files.
SPECIFICATION Spec
CONSTANTS
    b1 = b1
    b2 = b2
    k = k
    v = v
    w = w
    r = r
    Blocks = {b1, b2}
    BlockLen <- MCBlockLen
    MaxFileSize = 2
    UserKeys = {}
    Values = {v}
    WriteLoc = w
    Readers = {}
    MaxFaults = 1
    MaxStops = 2
CHECK_DEADLOCK FALSE
INVARIANTS BlocksReadable FilesSound
PROPERTIES RowsNeverChange
