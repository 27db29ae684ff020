------------------------------ MODULE UtxoView ------------------------------
(***************************************************************************)
(* The unspent transaction outputs and the spend journal                   *)
(* (blockchain/utxoviewpoint.go, the callers in chain.go and validate.go,  *)
(* the buckets in chainio.go).                                             *)
(*                                                                         *)
(* A block carries a tree of stake transactions, which take effect with    *)
(* the block, and a tree of regular transactions, which take effect with   *)
(* the NEXT block, and only if its vote bit approves them or the block     *)
(* that carries them is a micro block.  A view collects the effect of a    *)
(* block on the entries it touches; the modified entries and the outputs   *)
(* the block spent (its journal entry) are written in the database         *)
(* transaction that makes the block the best one.  A reorganization keeps  *)
(* one view over all its blocks and may stop between any two of them.      *)
(*                                                                         *)
(* An entry is its block height and its outputs; an output is the tag of   *)
(* the amount and script it was made with.  Left out: transaction          *)
(* versions, block indexes, expiry and stake extra data of an entry, and   *)
(* every rule for a transaction other than that its inputs are unspent.    *)
(***************************************************************************)
EXTENDS Integers, Sequences, SequencesExt

CONSTANTS
    Block,          \* the blocks above the first one
    Genesis,        \* the genesis block, without transactions here
    First,          \* the block at height 1, which pays the initial ledger
    Prev,           \* header.PrevBlock
    Height,         \* header.Height
    Work,           \* the work of the chain that ends with a block
    KeyBlock,       \* the blocks whose hash meets header.Bits
    Approves,       \* the blocks with BlockValid in header.VoteBits
    Regular,        \* the regular transactions of a block, in order
    Stake,          \* its stake transactions, in order
    Tx,             \* transactions
    Inputs,         \* the outpoints a transaction spends, in order: <<tx, index>>
    Outputs,        \* the indexes of its outputs
    MaxFailures,    \* bound on failed database updates
    MaxRestarts     \* bound on restarts

Hash == Block \cup {Genesis, First}

Txs(tree) == {tree[i] : i \in DOMAIN tree}

Origins(tree) == UNION {{in[1] : in \in Txs(Inputs[t])} : t \in Txs(tree)}

ASSUME BlocksAssumption ==
    /\ Prev \in [Block \cup {First} -> Hash]
    /\ Height[Genesis] = 0 /\ Prev[First] = Genesis
    /\ \A b \in Block \cup {First} : Height[b] = Height[Prev[b]] + 1
    /\ KeyBlock \subseteq Hash /\ Approves \subseteq Hash
    /\ Regular[Genesis] = << >> /\ Stake[Genesis] = << >>
    /\ \A b \in Hash \ KeyBlock : Stake[b] = << >>

(* checkBlockPositional: a block on a micro block repeats its vote bit. *)
ASSUME InheritedBit ==
    \A b \in Block : Prev[b] \notin KeyBlock =>
        (b \in Approves <=> Prev[b] \in Approves)

VARIABLES
    chain,          \* the main chain, from genesis
    side,           \* the blocks of the side chain cache
    utxo,           \* the utxo set bucket
    journal,        \* the spend journal bucket
    reorg,          \* the blocks still to detach (with their stxos) and to attach
    view,           \* the view of the reorganization in progress
    viewpoint,      \* and its stake viewpoint: "regular" or "stake"
    outcome,        \* the error the last call met, "none" without one
    failures, restarts

ledger == <<chain, side, utxo, journal, reorg, view, viewpoint, outcome,
            failures, restarts>>

Tip == Last(chain)

Main == Txs(chain)

-----------------------------------------------------------------------------
(* Entries and views.  A view maps a transaction to an entry, to a nil     *)
(* entry, or to nothing.  Its stxos are collected in s, and ok says        *)
(* whether the code has returned an error or panicked.                     *)

Absent == [height |-> -1, modified |-> FALSE, outs |-> << >>]

Nil == [height |-> -2, modified |-> FALSE, outs |-> << >>]

(* A transaction without an entry in the bucket. *)
None == [height |-> 0, outs |-> << >>]

HasEntry(v, t) == v.e[t] \notin {Absent, Nil}

NewUtxoViewpoint == [e |-> [t \in Tx |-> Absent], s |-> << >>, ok |-> "ok"]

IsFullySpent(entry) == \A o \in DOMAIN entry.outs : entry.outs[o].spent

SpendOutput(entry, o) ==
    IF o \notin DOMAIN entry.outs \/ entry.outs[o].spent THEN entry
    ELSE [entry EXCEPT !.outs[o].spent = TRUE, !.modified = TRUE]

(* Every output of t becomes unspent, whatever the view held of it. *)
AddTxOuts(v, t, height) ==
    [v EXCEPT !.e[t] =
        [height |-> height, modified |-> TRUE,
         outs |-> [o \in Outputs[t] |-> [tag |-> <<t, o>>, spent |-> FALSE]]]]

(* fetchUtxosMain: what is not in the view comes from the database. *)
fetchUtxosMain(v, txs) ==
    [v EXCEPT !.e = [t \in Tx |->
        IF t \notin txs \/ @[t] # Absent THEN @[t]
        ELSE IF utxo[t] = None THEN Nil
        ELSE [height |-> utxo[t].height, modified |-> FALSE,
              outs |-> [o \in DOMAIN utxo[t].outs |->
                           [tag |-> utxo[t].outs[o], spent |-> FALSE]]]]]

(* Transactions of a tree that a later transaction of it spends from. *)
InFlight(tree) ==
    {tree[i] : i \in {i \in DOMAIN tree :
        \E j \in DOMAIN tree : j > i /\ tree[i] \in Origins(<<tree[j]>>)}}

(* fetchInputUtxos for a regular tree at a height (the parent's or the     *)
(* block's own): transactions in flight are ADDED to the view.             *)
fetchRegular(v, tree, height) ==
    LET add(w, t) == IF t \in InFlight(tree) THEN AddTxOuts(w, t, height) ELSE w
    IN  fetchUtxosMain(FoldLeft(add, v, tree), Origins(tree))

(* fetchInputUtxos at ViewpointCurrentStake. *)
fetchStake(v, b) == fetchUtxosMain(v, Origins(Stake[b]))

fetchInputUtxos(v, b, vp) ==
    IF vp = "regular" THEN fetchRegular(v, Regular[Prev[b]], Height[Prev[b]])
    ELSE fetchStake(v, b)

-----------------------------------------------------------------------------
(* Connecting and disconnecting transactions. *)

(* The details an stxo keeps of the entry it leaves fully spent. *)
Stxo(before, after, o) ==
    [tag    |-> IF o \in DOMAIN before.outs THEN before.outs[o].tag ELSE << >>,
     full   |-> IsFullySpent(after),
     height |-> IF IsFullySpent(after) THEN before.height ELSE 0]

connectInput(v, in) ==
    IF v.ok # "ok" THEN v
    ELSE IF ~ HasEntry(v, in[1]) THEN [v EXCEPT !.ok = "assert"]
    ELSE LET after == SpendOutput(v.e[in[1]], in[2])
         IN  [v EXCEPT !.e[in[1]] = after,
                       !.s = Append(@, Stxo(v.e[in[1]], after, in[2]))]

connectTransaction(v, t, height) ==
    LET w == FoldLeft(connectInput, v, Inputs[t])
    IN  IF w.ok = "ok" THEN AddTxOuts(w, t, height) ELSE w

(* CheckTransactionInputs, then connectTransaction. *)
checkTransactionAndConnect(v, t, height) ==
    IF \E in \in Txs(Inputs[t]) :
          \/ ~ HasEntry(v, in[1])
          \/ in[2] \notin DOMAIN v.e[in[1]].outs
          \/ v.e[in[1]].outs[in[2]].spent
    THEN [v EXCEPT !.ok = IF @ = "ok" THEN "invalid" ELSE @]
    ELSE connectTransaction(v, t, height)

(* Mutant: a revived entry gets the height of the block being disconnected *)
(* and not the one its stxo kept.                                          *)
ReviveAtTip(stxo) ==
    [height |-> Height[Tip], modified |-> TRUE, outs |-> << >>]

(* newUtxoEntry for an origin that had been fully spent. *)
Revived(stxo) == [height |-> stxo.height, modified |-> TRUE, outs |-> << >>]

(* The last stxo brings back the output an input spent; the entry is       *)
(* revived when it was fully spent.  An index below the stxos panics.      *)
disconnectInput(v, in) ==
    IF v.ok # "ok" THEN v
    ELSE IF v.s = << >> THEN [v EXCEPT !.ok = "panic"]
    ELSE LET stxo  == Last(v.s)
             entry == IF HasEntry(v, in[1]) THEN v.e[in[1]] ELSE Revived(stxo)
             tag   == IF in[2] \in DOMAIN entry.outs
                      THEN entry.outs[in[2]].tag ELSE stxo.tag
         IN  IF ~ HasEntry(v, in[1]) /\ ~ stxo.full
             THEN [v EXCEPT !.ok = "assert"]
             ELSE [v EXCEPT
                    !.s = Front(@),
                    !.e[in[1]] = [height |-> entry.height, modified |-> TRUE,
                                  outs |-> (in[2] :> [tag |-> tag, spent |-> FALSE])
                                           @@ entry.outs]]

(* The entry of the transaction loses its outputs, then its inputs are     *)
(* unspent from the last to the first.                                     *)
disconnectTransaction(v, t, height) ==
    LET cleared == [v EXCEPT !.e[t] =
                      [height |-> IF HasEntry(v, t) THEN @.height ELSE height,
                       modified |-> TRUE, outs |-> << >>]]
        back(in, w) == disconnectInput(w, in)
    IN  FoldRight(back, Inputs[t], cleared)

disconnectTree(v, tree, height) ==
    LET back(t, w) == disconnectTransaction(w, t, height)
    IN  FoldRight(back, tree, v)

connectTree(v, tree, height) ==
    LET connect(w, t) == connectTransaction(w, t, height)
    IN  FoldLeft(connect, v, tree)

checkTree(v, tree, height) ==
    LET connect(w, t) == checkTransactionAndConnect(w, t, height)
    IN  FoldLeft(connect, v, tree)

-----------------------------------------------------------------------------
(* Blocks. *)

(* Whether block b makes the regular transactions of its parent take       *)
(* effect: it approves them, or the parent is a micro block.               *)
regularTxTreeValid(b) == b \in Approves \/ Prev[b] \notin KeyBlock

connectTransactions(v, b) ==
    LET p == Prev[b]
        w == fetchRegular(v, Regular[p], Height[p])
        x == IF regularTxTreeValid(b) THEN connectTree(w, Regular[p], Height[p])
             ELSE w
    IN  connectTree(fetchStake(x, b), Stake[b], Height[b])

(* disconnectTransactions, with the stxos in v.s. *)
disconnectTransactions(v, b) ==
    LET p == Prev[b]
        w == disconnectTree(fetchStake(v, b), Stake[b], Height[b])
    IN  IF regularTxTreeValid(b)
        THEN disconnectTree(fetchRegular(w, Regular[p], Height[p]),
                            Regular[p], Height[p])
        ELSE w

(* checkConnectBlock: the block's own regular transactions are connected   *)
(* too, to be checked.                                                     *)
checkTrees(v, b) ==
    LET p == Prev[b]
        w == IF regularTxTreeValid(b)
             THEN connectTree(fetchRegular(v, Regular[p], Height[p]),
                              Regular[p], Height[p])
             ELSE v
        x == checkTree(fetchStake(w, b), Stake[b], Height[b])
    IN  checkTree(fetchRegular(x, Regular[b], Height[b]), Regular[b], Height[b])

(* They are rolled back again when stxos are collected, except in block 1, *)
(* by disconnectTransactionSlice, which does nothing without any stxo.     *)
checkConnectBlock(v, b, stxos) ==
    LET w == checkTrees(v, b)
    IN  IF w.ok = "ok" /\ stxos /\ Height[b] > 1 /\ w.s # << >>
        THEN disconnectTree(w, Regular[b], Height[b])
        ELSE w

(* dbPutUtxoView. *)
dbPutUtxoView(v) ==
    [t \in Tx |->
        IF ~ HasEntry(v, t) THEN utxo[t]
        ELSE IF ~ v.e[t].modified THEN utxo[t]
        ELSE IF IsFullySpent(v.e[t]) THEN None
        ELSE [height |-> v.e[t].height,
              outs |-> [o \in {o \in DOMAIN v.e[t].outs : ~ v.e[t].outs[o].spent}
                           |-> v.e[t].outs[o].tag]]]

commit(v) ==
    [e |-> [t \in Tx |->
              IF ~ HasEntry(v, t) THEN Absent
              ELSE IF v.e[t].modified /\ IsFullySpent(v.e[t]) THEN Absent
              ELSE [v.e[t] EXCEPT !.modified = FALSE]],
     s |-> << >>, ok |-> "ok"]

SumInputs(tree) ==
    LET add(n, t) == n + Len(Inputs[t])
    IN  FoldLeft(add, 0, tree)

(* The transactions dbFetchSpendJournalEntry counts: it asks only for the  *)
(* vote bit.  countSpentOutputs counts the same ones.                      *)
countSpentOutputs(b) ==
    (IF b \in Approves THEN SumInputs(Regular[Prev[b]]) ELSE 0) + SumInputs(Stake[b])

(* dbFetchSpendJournalEntry: the entry is read from its end. *)
dbFetchSpendJournalEntry(b) ==
    LET n == countSpentOutputs(b)
    IN  SubSeq(journal[b], Len(journal[b]) - n + 1, Len(journal[b]))

-----------------------------------------------------------------------------
(* The handlers. *)

NoReorg == [detach |-> << >>, attach |-> << >>]

Ready == reorg = NoReorg /\ outcome # "panic"

InitLedger ==
    /\ chain = <<Genesis, First>>
    /\ side = {}
    /\ utxo = [t \in Tx |->
                  IF t \notin Txs(Regular[First]) THEN None
                  ELSE [height |-> 1, outs |-> [o \in Outputs[t] |-> <<t, o>>]]]
    /\ journal = [b \in Hash |-> << >>]
    /\ reorg = NoReorg
    /\ view = NewUtxoViewpoint
    /\ viewpoint = "regular"
    /\ outcome = "none"
    /\ failures = 0
    /\ restarts = 0

(* connectBlock's database transaction. *)
connectBlock(b, v) ==
    /\ chain' = Append(chain, b)
    /\ utxo' = dbPutUtxoView(v)
    /\ journal' = [journal EXCEPT ![b] = v.s]

NewBlock(b) == Ready /\ b \notin Main \cup side

(* connectBestChain of a block on the tip, fully checked or, for a block   *)
(* that a checkpoint vouches for, added fast.                              *)
ExtendWith(b, v) ==
    /\ NewBlock(b) /\ Prev[b] = Tip
    /\ IF v.ok = "ok"
       THEN connectBlock(b, v) /\ outcome' = "none"
       ELSE UNCHANGED <<chain, utxo, journal>> /\ outcome' = v.ok
    /\ UNCHANGED <<side, reorg, view, viewpoint, failures, restarts>>

ExtendBestChain(b) == ExtendWith(b, checkConnectBlock(NewUtxoViewpoint, b, TRUE))

FastAdd(b) ==
    ExtendWith(b, connectTransactions(
                      fetchInputUtxos(NewUtxoViewpoint, b, "regular"), b))

(* The block b and its ancestors down to, and without, the main chain. *)
Branch(b) ==
    LET up[h \in Hash] == IF h \in Main THEN << >> ELSE Append(up[Prev[h]], h)
    IN  up[b]

(* The blocks of the main chain above the fork point, from the tip down. *)
Above(fork) == Reverse(SubSeq(chain, Height[fork] + 2, Len(chain)))

(* reorganizeChain's checks, on one view: the branch to detach with its    *)
(* journal entries, then the branch to attach, without stxos.              *)
checkDetach(detach) ==
    LET back(v, b) ==
          IF v.ok # "ok" THEN v
          ELSE disconnectTransactions(
                   [v EXCEPT !.s = dbFetchSpendJournalEntry(b)], b)
    IN  FoldLeft(back, NewUtxoViewpoint, detach)

checkReorganize(detach, attach) ==
    LET check(v, b) == IF v.ok # "ok" THEN v ELSE checkConnectBlock(v, b, FALSE)
    IN  FoldLeft(check, checkDetach(detach), attach).ok

(* A block off the tip joins the side chain cache; when its chain has more *)
(* work than the best one, the reorganization starts.                      *)
SideBlock(b) ==
    /\ NewBlock(b) /\ Prev[b] # Tip /\ Prev[b] \in Main \cup side
    /\ side' = side \cup {b}
    /\ LET attach == Branch(b)
           detach == Above(Prev[attach[1]])
           check  == checkReorganize(detach, attach)
       IN  /\ outcome' = IF Work[b] > Work[Tip] /\ check # "ok" THEN check
                         ELSE "none"
           /\ reorg' = IF Work[b] <= Work[Tip] \/ check # "ok" THEN NoReorg
                       ELSE [detach |-> [i \in DOMAIN detach |->
                                <<detach[i], dbFetchSpendJournalEntry(detach[i])>>],
                             attach |-> attach]
    /\ view' = NewUtxoViewpoint
    /\ viewpoint' = "regular"
    /\ UNCHANGED <<chain, utxo, journal, failures, restarts>>

(* An error ends the reorganization where it stands. *)
StopReorganize(how) ==
    /\ reorg' = NoReorg
    /\ view' = NewUtxoViewpoint
    /\ viewpoint' = "regular"
    /\ outcome' = how
    /\ UNCHANGED <<chain, side, utxo, journal>>

(* The view before block b is disconnected: the inputs are loaded with the *)
(* viewpoint the last block left.                                          *)
LoadDetached(b) == fetchInputUtxos(view, b, viewpoint)

DetachStep ==
    /\ reorg.detach # << >>
    /\ LET b == reorg.detach[1][1]
           v == disconnectTransactions(
                    [LoadDetached(b) EXCEPT !.s = reorg.detach[1][2]], b)
       IN  IF v.ok # "ok" THEN StopReorganize(v.ok)
           ELSE /\ chain' = Front(chain)
                /\ side' = side \cup {b}
                /\ utxo' = dbPutUtxoView(v)
                /\ journal' = [journal EXCEPT ![b] = << >>]
                /\ view' = commit(v)
                /\ viewpoint' = IF regularTxTreeValid(b) THEN "regular" ELSE "stake"
                /\ reorg' = [reorg EXCEPT !.detach = Tail(@)]
                /\ UNCHANGED outcome
    /\ UNCHANGED <<failures, restarts>>

AttachStep ==
    /\ reorg.detach = << >> /\ reorg.attach # << >>
    /\ LET b == reorg.attach[1]
           v == connectTransactions(view, b)
       IN  IF v.ok # "ok" THEN StopReorganize(v.ok)
           ELSE /\ connectBlock(b, v)
                /\ side' = side \ {b}
                /\ reorg' = [reorg EXCEPT !.attach = Tail(@)]
                /\ view' = IF reorg' = NoReorg THEN NewUtxoViewpoint ELSE commit(v)
                /\ viewpoint' = IF reorg' = NoReorg THEN "regular" ELSE "stake"
                /\ UNCHANGED outcome
    /\ UNCHANGED <<failures, restarts>>

(* The database refuses an update of the reorganization. *)
UpdateFails ==
    /\ reorg # NoReorg
    /\ failures < MaxFailures
    /\ failures' = failures + 1
    /\ StopReorganize("none")
    /\ UNCHANGED restarts

(* A crash, or the panic of an earlier step, and a restart. *)
RestartLedger ==
    /\ restarts < MaxRestarts
    /\ restarts' = restarts + 1
    /\ side' = {}
    /\ reorg' = NoReorg
    /\ view' = NewUtxoViewpoint
    /\ viewpoint' = "regular"
    /\ outcome' = "none"
    /\ UNCHANGED <<chain, utxo, journal, failures>>
-----------------------------------------------------------------------------
(* What the database should hold. *)

(* The transactions in effect, with the heights they took effect at. *)
InEffect ==
    UNION {Txs(Stake[b]) \X {Height[b]} : b \in Main}
      \cup UNION {Txs(Regular[Prev[b]]) \X {Height[Prev[b]]} :
                     b \in {b \in Main \ {Genesis} : regularTxTreeValid(b)}}

(* The outputs they made and did not spend. *)
Coins ==
    UNION {{<<e[1], o, e[2]>> : o \in {o \in Outputs[e[1]] :
               \A f \in InEffect : <<e[1], o>> \notin Txs(Inputs[f[1]])}} :
           e \in InEffect}

(* The outputs in the utxo set bucket. *)
Stored ==
    UNION {{<<t, o, utxo[t].height>> : o \in DOMAIN utxo[t].outs} :
           t \in {t \in Tx : utxo[t] # None}}

(* Transactions that fetchInputUtxos may add although no block put them    *)
(* into effect (a disapproved tree in which one spends another), or that   *)
(* checkConnectBlock does not roll back (the tree of block 1, and of a     *)
(* block that spends nothing).                                             *)
Leftover ==
    UNION {InFlight(Regular[Prev[b]]) : b \in {b \in Block : ~ regularTxTreeValid(b)}}
      \cup UNION {Txs(Regular[b]) : b \in {b \in Hash \ {Genesis} :
             \/ b = First
             \/ SumInputs(Regular[b]) + SumInputs(Stake[b])
                   + SumInputs(Regular[Prev[b]]) = 0}}

(* Whatever blocks came, left and came again, whatever reorganization      *)
(* stopped half-way: every output the main chain made and did not spend is *)
(* in the utxo set with the height it was made at and its own script, and  *)
(* the set holds no others but the known leftovers.                        *)
CoinsKept ==
    /\ Coins \subseteq Stored
    /\ \A c \in Stored \ Coins : c[1] \in Leftover
    /\ \A c \in Stored : utxo[c[1]].outs[c[2]] = <<c[1], c[2]>>

(* Blocks that keep the vote bit of a disapproval on a micro block. *)
InheritsDisapproval(b) == b \notin Approves /\ Prev[b] \notin KeyBlock

(* The journal of a block on the main chain holds what its transactions    *)
(* spent, and is read back whole, except where the reader ignores that a   *)
(* micro block needs no approval.                                          *)
JournalFits ==
    \A b \in Main \ {Genesis, First} :
        LET regular == IF regularTxTreeValid(b) THEN Regular[Prev[b]] ELSE << >>
        IN  /\ Len(journal[b]) = SumInputs(regular) + SumInputs(Stake[b])
            /\ \/ dbFetchSpendJournalEntry(b) = journal[b]
               \/ InheritsDisapproval(b)

(* Blocks whose regular transactions some child disapproves. *)
Disapproved(b) == \E c \in side : Prev[c] = b /\ ~ regularTxTreeValid(c)

(* Every branch here is made of blocks that connect one after the other.   *)
(* A reorganization to one never meets a missing input or a journal entry  *)
(* that does not fit; it panics only on the journal of an inherited        *)
(* disapproval, and refuses the branch only when a block in it disapproves *)
(* its parent, whose transactions the check of reorganizeChain keeps.      *)
ReorgSound ==
    /\ outcome # "assert"
    /\ outcome = "panic" => \E b \in Main \cap Block : InheritsDisapproval(b)
    /\ outcome = "invalid" => \E b \in side : Disapproved(b)

(* The outputs, the journal and the reorganizations of the ledger.         *)
LedgerSound == CoinsKept /\ JournalFits /\ ReorgSound

(* connectBestChain: when "the cumulative work for this new side chain is  *)
(* more than the old best chain", then "this side chain needs to become    *)
(* the main chain".  No branch of blocks that connect one after the other  *)
(* is refused.                                                             *)
BranchAccepted == outcome # "invalid"

=============================================================================
