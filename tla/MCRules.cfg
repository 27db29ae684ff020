CONSTANTS
    BitsPerByte = 3
    NumLen = 2
    LongNumLen = 3
    MaxScriptElementSize = 9
    SizeClass = 2
    MaxStackSize = 8
    MaxOpsPerScript = 4
    MaxPubKeysPerMultiSig = 3
    maxScriptSize = 7
    AltLen = 4
    AltIdx = 3
    MaxSmallInt = 3
    MaxDirect = 2
    HashLen = 1
    KeyLen = 2
    LongKeyLen = 3
    SeqTag = 3
    IntTag = 2
    MinSigLen = 8
    MaxSigLen = 9
    AltSigLen = 2
    AltKeyLen <- MCAltKeyLen
    Tx <- MCTx
    Foci = {"control", "hash", "number", "stack", "sig", "der", "wire", "codec", "deployments",
            "difficulty", "chain", "standard", "mining"}
SPECIFICATION MCSpec
INVARIANTS
    
    FormatsSound
    DeploymentsSound
    ConsensusSound
    OutputsSound
    
CHECK_DEADLOCK FALSE
