------------------------------ MODULE MCLedger ------------------------------
(* A small tree of blocks on the first block P.  A2 makes a and b, which   *)
(* spends a; A3 disapproves A2, takes both in again and buys a ticket t;   *)
(* B3 is a micro block that approves A2 and makes c; D3 is a micro block   *)
(* that disapproves A2, and D4 keeps its bit; C2 spends nothing.           *)
EXTENDS IndexManager

Above2 == {"A2", "A3", "A4", "B3", "B4", "D3", "D4", "C2"}

MCPrev ==
    [P |-> "G", A2 |-> "P", A3 |-> "A2", A4 |-> "A3", B3 |-> "A2", B4 |-> "B3",
     D3 |-> "A2", D4 |-> "D3", C2 |-> "P"]

MCHeight ==
    [G |-> 0, P |-> 1, A2 |-> 2, A3 |-> 3, A4 |-> 4, B3 |-> 3, B4 |-> 4,
     D3 |-> 3, D4 |-> 4, C2 |-> 2]

(* One unit for each key block. *)
MCWork ==
    [G |-> 0, P |-> 1, A2 |-> 2, A3 |-> 3, A4 |-> 4, B3 |-> 2, B4 |-> 3,
     D3 |-> 2, D4 |-> 3, C2 |-> 2]

MCKeyBlock == {"G", "P", "A2", "A3", "A4", "B4", "D4", "C2"}

MCApproves == {"P", "A2", "A4", "B3", "B4", "C2"}

MCRegular ==
    [G |-> << >>, P |-> <<"g">>, A2 |-> <<"ca", "a", "b">>,
     A3 |-> <<"cb", "a", "b">>, A4 |-> <<"cc">>, B3 |-> <<"cm", "c">>,
     B4 |-> <<"cc">>, D3 |-> <<"cm", "c">>, D4 |-> <<"cc">>, C2 |-> <<"ce">>]

MCStake ==
    [h \in DOMAIN MCHeight |->
        IF h = "A3" THEN <<"t">> ELSE IF h = "B4" THEN <<"u">> ELSE << >>]

MCTx == {"g", "ca", "cb", "cc", "cm", "ce", "a", "b", "c", "t", "u"}

MCInputs ==
    [x \in MCTx |->
        CASE x = "a" -> <<<<"g", 0>>>>
          [] x = "b" -> <<<<"a", 0>>, <<"a", 1>>>>
          [] x = "c" -> <<<<"g", 2>>>>
          [] x = "t" -> <<<<"g", 1>>>>
          [] x = "u" -> <<<<"g", 1>>, <<"b", 0>>>>
          [] OTHER   -> << >>]

MCOutputs ==
    [x \in MCTx |-> IF x = "g" THEN {0, 1, 2} ELSE IF x = "a" THEN {0, 1} ELSE {0}]
=============================================================================
