SPECIFICATION Spec
CHECK_DEADLOCK FALSE
CONSTANTS
    Block <- Above2
    Genesis = "G"
    First = "P"
    Prev <- MCPrev
    Height <- MCHeight
    Work <- MCWork
    KeyBlock <- MCKeyBlock
    Approves <- MCApproves
    Regular <- MCRegular
    Stake <- MCStake
    Tx <- MCTx
    Inputs <- MCInputs
    Outputs <- MCOutputs
    MaxFailures = 1
    MaxRestarts = 2
    MaxBlockID = 6
  
PROPERTY StartEnds
