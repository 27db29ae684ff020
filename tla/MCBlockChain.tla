---------------------------- MODULE MCBlockChain ----------------------------
(* An instance of BlockChain for TLC, a tree of seven blocks               *)
(*      genesis <- 1 <- 2 <- 3                                             *)
(*                   <- 4 <- 5                                             *)
(*              <- 6 <- 7                                                  *)
(* Genesis, 2 and 4 are micro blocks (no work), 5 and 7 have more work     *)
(* than a key block; 4 is refused by checkConnectBlock.                    *)
EXTENDS BlockChain

MCBlock == 1..7

MCPrev == <<0, 1, 2, 1, 4, 0, 6>>

MCHeight == [h \in 0..7 |-> <<0, 1, 2, 3, 2, 3, 1, 2>>[h + 1]]

MCWork == [h \in 0..7 |-> <<0, 1, 0, 1, 0, 3, 1, 2>>[h + 1]]

MCAncestry[h \in 0..7] == IF h = 0 THEN {0} ELSE {h} \cup MCAncestry[MCPrev[h]]

MCChainWork[h \in 0..7] ==
    MCWork[h] + (IF h = 0 THEN 0 ELSE MCChainWork[MCPrev[h]])

MCInvalid == {4}
=============================================================================
