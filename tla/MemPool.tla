------------------------------- MODULE MemPool -------------------------------
(***************************************************************************)
(* The memory pool (mempool/mempool.go) under the notifications of the     *)
(* chain (blockmanager.go, handleNotifyMsg).                               *)
(*                                                                         *)
(* blockHandler is the only goroutine that changes the pool, so there is   *)
(* one job at a time: a transaction to process, or the calls that a        *)
(* connected or disconnected block makes.  Every call is a step; the walk  *)
(* over the orphans of an accepted transaction and the pruning, which go   *)
(* through a map in any order, take a step for each entry.                 *)
(*                                                                         *)
(* The chain decides what is unspent.  A transaction in the regular tree   *)
(* of a key block counts only once a later block approves that tree, until *)
(* then the votes in the pool decide whether it is assumed to count.       *)
(***************************************************************************)
EXTENDS Integers, Sequences, FiniteSets, SequencesExt, FiniteSetsExt, Functions

CONSTANTS
    Tx,             \* transactions other than coinbases and those of Base
    BaseTx,         \* transactions that are in the chain from the start
    Type,           \* "regular", "ticket", "vote" or "revocation"
    Inputs,         \* outpoints <<tx, index>> that a transaction spends
    Outputs,        \* indexes of the outputs of a transaction
    StakeBase,      \* the null outpoint that every vote has as first input
    VotesFor,       \* the block a vote is on, and
    VotesYes,       \* the votes that approve it
    Price,          \* the value of a ticket's first output
    Expiry,         \* key height a transaction expires at, 0 for never
    Block, Base,    \* blocks, and the one the chain starts from
    Prev,           \* the parent of a block
    KeyBlock,       \* the blocks that are key blocks
    Approves,       \* the blocks whose vote bits approve their parent's tree
    Regular,        \* the regular transactions of a block
    Stake,          \* the stake transactions of a block
    StakeDiff,      \* the ticket price required of the block after
    TicketsPerBlock,
    MaxOrphanTxs,               \* Policy.MaxOrphanTxs
    maxSSGensDoubleSpends,
    heightDiffToPruneTicket,
    heightDiffToPruneVotes

ASSUME PoolAssumption ==
    /\ Tx \cap BaseTx = {}
    /\ \A t \in Tx : Type[t] \in {"regular", "ticket", "vote", "revocation"}
    /\ \A t \in Tx : Type[t] = "vote" => VotesFor[t] \in Block
    /\ Base \in Block /\ KeyBlock \subseteq Block
    /\ \A b \in Block :
          /\ Regular[b] \in Seq({t \in Tx : Type[t] = "regular"})
          /\ Stake[b] \in Seq({t \in Tx : Type[t] # "regular"})
    /\ Regular[Base] = <<>> /\ Stake[Base] = <<>>
    /\ MaxOrphanTxs \in Nat \ {0}
    /\ maxSSGensDoubleSpends \in Nat

AllTx == Tx \cup BaseTx

OutPoint == {<<t, i>> : t \in AllTx, i \in UNION {Outputs[u] : u \in AllTx}}
            \cup {StakeBase}

(* Only votes and revocations spend outputs that tickets tag               *)
(* (CheckTransactionInputs), and only votes name the null outpoint.  What  *)
(* BaseTx spend is among BaseTx.                                           *)
ASSUME InputAssumption ==
    /\ \A t \in Tx : Inputs[t] \subseteq OutPoint
    /\ \A t \in AllTx : StakeBase \notin {<<t, i>> : i \in Outputs[t]}
    /\ \A t \in Tx : StakeBase \in Inputs[t] => Type[t] = "vote"
    /\ \A t \in BaseTx :
          Inputs[t] \subseteq UNION {{<<u, i>> : i \in Outputs[u]} : u \in BaseTx}
    /\ \A t, u \in Tx :
          Type[t] \in {"vote", "revocation"} /\ Type[u] \in {"regular", "ticket"}
              => Inputs[t] \cap Inputs[u] = {}

VARIABLES
    chain,          \* the main chain from Base to the best block
    pool,           \* mp.pool: the height every transaction was added at
    orphans,        \* mp.orphans
    orphansByPrev,  \* mp.orphansByPrev
    outpoints,      \* mp.outpoints
    votes,          \* mp.votes: for each block, the votes counted
    job,            \* the calls blockHandler has still to make
    walk,           \* processOrphans and the pruning: queue and map entries
    lost,           \* history: parents of transactions of the pool that
                    \* could not be put back, being orphans themselves
    doubted         \* history: transactions of the pools last examined while
                    \* the votes were against the tip, or waiting as orphans
                    \* when the chain shrank or a parent was put back

vars == <<chain, pool, orphans, orphansByPrev, outpoints, votes, job, walk,
          lost, doubted>>

InPool == DOMAIN pool

Tip == Last(chain)

(* A transaction that votes with a ticket or revokes it.                   *)
SpendsTicket(t) == Type[t] \in {"vote", "revocation"}

Ticket(t) == CHOOSE o \in Inputs[t] : o # StakeBase

RealInputs(t) == Inputs[t] \ {StakeBase}

Parents(t) == {o[1] : o \in RealInputs(t)}

Coins(t) == {<<t, i>> : i \in Outputs[t]}

Idle == job = <<>> /\ walk.queue = <<>> /\ walk.todo = {}

(* A call that handleNotifyMsg makes.                                      *)
Call == [op : {"accept", "confirm"}, tx : Tx] \cup {[op |-> "prune"]}

TypeOK ==
    /\ chain \in Seq(Block) /\ chain # <<>>
    /\ InPool \subseteq Tx
    /\ pool \in [InPool -> Nat \ {0}]
    /\ orphans \subseteq Tx
    /\ orphansByPrev \in [AllTx -> SUBSET Tx]
    /\ DOMAIN outpoints \subseteq OutPoint
    /\ votes \in [Block -> SUBSET Tx]
    /\ job \in Seq(Call)
    /\ walk \in [queue : Seq(Tx), todo : SUBSET Tx]

Init ==
    /\ chain = <<Base>>
    /\ pool = <<>>
    /\ orphans = {}
    /\ orphansByPrev = [p \in AllTx |-> {}]
    /\ outpoints = <<>>
    /\ votes = [b \in Block |-> {}]
    /\ job = <<>>
    /\ walk = [queue |-> <<>>, todo |-> {}]
    /\ lost = {}
    /\ doubted = {}

-----------------------------------------------------------------------------
(* What the chain says is unspent.                                         *)

(* connectTransactions applies the regular tree of the parent if the block *)
(* approves it or the parent is no key block, then the block's stake tree. *)
Approved(p, b) ==
    IF b \in Approves \/ p \notin KeyBlock THEN ToSet(Regular[p]) ELSE {}

Applied(c) ==
    BaseTx \cup UNION
        {ToSet(Stake[c[i]])
            \cup (IF i < Len(c) THEN Approved(c[i], c[i+1]) ELSE {}) : i \in DOMAIN c}

UnspentOf(txs) ==
    (UNION {Coins(t) : t \in txs}) \ (UNION {Inputs[t] : t \in txs})

(* FetchUtxoView: the unspent outputs, with the regular transactions of    *)
(* the best block connected when its tree is assumed to be valid.          *)
FetchUtxoView(treeValid) ==
    UnspentOf(Applied(chain) \cup IF treeValid THEN ToSet(Regular[Tip]) ELSE {})

(* One vote of each ticket counts, the first one.                          *)
isTxTreeValid ==
    LET vts == votes[Tip]
        yea == Cardinality(vts \cap VotesYes)
    IN \/ Cardinality(vts) <= TicketsPerBlock \div 2
       \/ yea > Cardinality(vts) - yea

EntryIn(coins, t) == \E o \in coins : o[1] = t

-----------------------------------------------------------------------------
(* The pool of orphans.                                                    *)

(* Mutant: the index keeps the orphan under its other parents.             *)
removeOrphanOnce(index, t) ==
    LET first == CHOOSE p \in Parents(t) : t \in index[p]
    IN IF \E p \in Parents(t) : t \in index[p]
       THEN [index EXCEPT ![first] = @ \ {t}] ELSE index

removeOrphan(index, t) == [p \in AllTx |-> index[p] \ {t}]

addToIndex(index, t) ==
    [p \in AllTx |-> IF p \in Parents(t) THEN index[p] \cup {t} ELSE index[p]]

(* limitNumOrphans: the entries one of which makes room.                   *)
Evicted ==
    IF Cardinality(orphans) + 1 > MaxOrphanTxs
    THEN {{o} : o \in orphans} ELSE {{}}

-----------------------------------------------------------------------------
(* Removal.                                                                *)

Redeemers(txs) ==
    {outpoints[o] : o \in (UNION {Coins(t) : t \in txs}) \cap DOMAIN outpoints}

(* The transactions that removeTransaction reaches with removeRedeemers:   *)
(* the least set with t that holds the redeemers of its members.           *)
WithRedeemers(t) ==
    {u \in InPool \cup {t} :
        \A S \in SUBSET (InPool \cup {t}) :
            t \in S /\ Redeemers(S) \subseteq S => u \in S}

(* What is left of the pool and of the outpoints it spends.                *)
removeTransaction(txs) ==
    LET gone == txs \cap InPool
    IN /\ pool' = Restrict(pool, InPool \ gone)
       /\ outpoints' = Restrict(outpoints,
                           DOMAIN outpoints \ UNION {Inputs[t] : t \in gone})

(* The transactions that RemoveDoubleSpends removes after t itself, which  *)
(* takes the entries of its inputs with it if it is in the pool.  The null *)
(* outpoint of a vote, its first input, is looked up like any other.       *)
DoubleSpends(t) ==
    LET named(S) == {outpoints[o] : o \in S \cap DOMAIN outpoints}
        removed(S) == UNION {WithRedeemers(u) : u \in named(S) \ {t}}
        first == removed(Inputs[t] \cap {StakeBase})
        rest == RealInputs(t) \ UNION {Inputs[u] : u \in first \cap InPool}
    IN IF t \in InPool THEN {} ELSE first \cup removed(rest)

-----------------------------------------------------------------------------
(* Acceptance.                                                             *)

checkPoolDoubleSpend(t) == Inputs[t] \cap DOMAIN outpoints # {}

(* The checks that depend on the pool and not on the inputs.               *)
Duplicate(t) ==
    CASE Type[t] = "vote" ->
            Cardinality({u \in InPool : Type[u] = "vote" /\ Ticket(u) = Ticket(t)})
                > maxSSGensDoubleSpends
      [] Type[t] = "revocation" ->
            \E u \in InPool : Type[u] = "revocation" /\ Ticket(u) = Ticket(t)
      [] OTHER -> checkPoolDoubleSpend(t)

(* What maybeAcceptTransaction refuses before it looks at the inputs, with *)
(* others as the orphans and coins as the unspent outputs.                 *)
Refused(t, others, coins) ==
    \/ t \in InPool \cup others
    \/ Type[t] = "ticket" /\ Price[t] < StakeDiff[Tip]
    \/ Duplicate(t)
    \/ EntryIn(coins, t)

(* The checks of the inputs, and those of fees and scripts, in policy.     *)
(* Outputs of a stake transaction in the pool are immature.                *)
Admitted(t, coins, policy) ==
    /\ policy
    /\ \A o \in RealInputs(t) :
          \/ o \in coins
          \/ /\ ~ EntryIn(coins, o[1])
             /\ o[1] \in Tx /\ Type[o[1]] = "regular"
             /\ o[2] \in Outputs[o[1]]

(* maybeAcceptTransaction: "refused" for an error, "orphan" for missing    *)
(* parents, "accepted" otherwise.  Rules that look at the transaction      *)
(* alone are in policy as well.                                            *)
Outcome(t, others, policy) ==
    LET coins == FetchUtxoView(isTxTreeValid)
    IN IF Refused(t, others, coins) THEN "refused"
       ELSE IF \E p \in Parents(t) : ~ (EntryIn(coins, p) \/ p \in InPool) THEN "orphan"
       ELSE IF Admitted(t, coins, policy) THEN "accepted"
       ELSE "refused"

(* insertVote.                                                             *)
insertVote(t) ==
    votes' = IF \/ Type[t] # "vote"
                \/ \E u \in votes[VotesFor[t]] : Ticket(u) = Ticket(t)
             THEN votes
             ELSE [votes EXCEPT ![VotesFor[t]] = @ \cup {t}]

(* The height is only ever read for stake transactions.                    *)
addTransaction(t) ==
    /\ pool' = [u \in InPool \cup {t} |->
                   IF u # t THEN pool[u]
                   ELSE IF Type[t] = "regular" THEN 1 ELSE Len(chain)]
    /\ outpoints' = [o \in DOMAIN outpoints \cup Inputs[t] |->
                        IF o \in Inputs[t] THEN t ELSE outpoints[o]]
    /\ insertVote(t)

(* The history variables, once pool and orphans have their new values: a   *)
(* transaction examined against the votes has an outcome that a block      *)
(* which goes against them does not revise.                                *)
Remember(newlyLost, examined, waiting) ==
    /\ lost' = (lost \cup newlyLost)
                   \cap UNION {Parents(t) : t \in DOMAIN pool'}
    /\ doubted' = ((doubted \ examined) \cup waiting
                       \cup IF isTxTreeValid THEN {} ELSE examined)
                      \cap (DOMAIN pool' \cup orphans')

-----------------------------------------------------------------------------
(* processOrphans.                                                         *)

walkFrom(t) == walk' = [queue |-> <<t>>, todo |-> {}]

WalkNext ==
    /\ walk.todo = {}
    /\ walk.queue # <<>>
    /\ walk' = [queue |-> Tail(walk.queue),
                todo |-> orphansByPrev[Head(walk.queue)]]
    /\ UNCHANGED <<chain, pool, orphans, orphansByPrev, outpoints, votes, job,
                   lost, doubted>>

(* Mutant: an accepted orphan is not walked on from.                       *)
walkOnNever(t, o) == [queue |-> walk.queue, todo |-> walk.todo \ {t}]

(* An accepted orphan is walked on from.                                   *)
walkOn(t, o) ==
    [queue |-> IF o = "accepted" THEN Append(walk.queue, t) ELSE walk.queue,
     todo |-> walk.todo \ {t}]

WalkOrphan(t, policy) ==
    /\ t \in walk.todo
    /\ LET o == Outcome(t, orphans \ {t}, policy)
       IN /\ walk' = walkOn(t, o)
          /\ CASE o = "accepted" -> addTransaction(t)
               [] OTHER -> UNCHANGED <<pool, outpoints, votes>>
          /\ CASE o = "orphan" -> UNCHANGED <<orphans, orphansByPrev>>
               [] OTHER -> /\ orphans' = orphans \ {t}
                           /\ orphansByPrev' = removeOrphan(orphansByPrev, t)
    /\ Remember({}, {t}, {})
    /\ UNCHANGED <<chain, job>>

-----------------------------------------------------------------------------
(* ProcessTransaction.                                                     *)

(* A new transaction is accepted, and then the orphans that wait for it,   *)
(* becomes an orphan if it may and is not too large, or is refused.        *)
ProcessTransaction(t, policy, allowOrphan) ==
    /\ Idle
    /\ LET o == Outcome(t, orphans, policy)
       IN /\ CASE o = "accepted" -> addTransaction(t) /\ walkFrom(t)
               [] OTHER -> UNCHANGED <<pool, outpoints, votes, walk>>
          /\ CASE o = "orphan" /\ allowOrphan ->
                    \E e \in Evicted :
                      /\ orphans' = (orphans \ e) \cup {t}
                      /\ orphansByPrev' =
                            addToIndex([p \in AllTx |-> orphansByPrev[p] \ e], t)
               [] OTHER -> UNCHANGED <<orphans, orphansByPrev>>
    /\ Remember({}, {t} \ (InPool \cup orphans), {})
    /\ UNCHANGED <<chain, job>>

-----------------------------------------------------------------------------
(* handleNotifyMsg.                                                        *)

Calls(op, txs) == [i \in DOMAIN txs |-> [op |-> op, tx |-> txs[i]]]

(* The tree of the parent that a block takes out of the chain.             *)
Invalidated(b) ==
    IF b \notin Approves /\ Prev[b] \in KeyBlock THEN Regular[Prev[b]] ELSE <<>>

(* The order in which a block on chain c is connected, and what has been   *)
(* applied before its ith transaction.                                     *)
Order(b) == Stake[b] \o Regular[b]

AppliedBefore(c, b, i) ==
    Applied(c) \cup Approved(Last(c), b) \cup {Order(b)[j] : j \in 1..(i-1)}

(* checkConnectBlock: what the block spends is there, once.                *)
Connects(c, b) ==
    \A i \in DOMAIN Order(b) :
        /\ Order(b)[i] \notin AppliedBefore(c, b, i)
        /\ RealInputs(Order(b)[i]) \subseteq UnspentOf(AppliedBefore(c, b, i))

(* NTBlockConnected: the transactions of an invalidated parent are put     *)
(* back, those of the block leave the pool.  After the last block that     *)
(* ProcessBlock connects the pool is pruned, if there is an RPC server.    *)
BlockConnected(b, last) ==
    /\ Idle
    /\ b # Base
    /\ Prev[b] = Tip
    /\ Connects(chain, b)
    /\ chain' = Append(chain, b)
    /\ job' = Calls("accept", Invalidated(b))
                \o Calls("confirm", Regular[b]) \o Calls("confirm", Stake[b])
                \o (IF last THEN <<[op |-> "prune"]>> ELSE <<>>)
    /\ UNCHANGED <<pool, orphans, orphansByPrev, outpoints, votes, walk>>
    /\ Remember({}, {}, IF Invalidated(b) = <<>> THEN {} ELSE orphans)

(* NTBlockDisconnected: the tree that the block had invalidated counts     *)
(* again, and the block's transactions are put back.                       *)
BlockDisconnected ==
    /\ Idle
    /\ Len(chain) > 1
    /\ chain' = Front(chain)
    /\ job' = Calls("confirm", Invalidated(Tip))
                \o Calls("accept", Regular[Tip]) \o Calls("accept", Stake[Tip])
    /\ UNCHANGED <<pool, orphans, orphansByPrev, outpoints, votes, walk>>
    /\ Remember({}, {}, orphans)

Called(op) ==
    /\ walk.queue = <<>>
    /\ walk.todo = {}
    /\ job # <<>>
    /\ Head(job).op = op
    /\ job' = Tail(job)

(* MaybeAcceptTransaction, and RemoveTransaction with redeemers when that  *)
(* returns an error.                                                       *)
PutBack(policy) ==
    /\ Called("accept")
    /\ LET t == Head(job).tx
           o == Outcome(t, orphans, policy)
       IN /\ CASE o = "accepted" -> addTransaction(t)
               [] o = "refused" -> /\ removeTransaction(WithRedeemers(t))
                                   /\ UNCHANGED votes
               [] OTHER -> UNCHANGED <<pool, outpoints, votes>>
          /\ UNCHANGED orphans
          /\ Remember(IF o = "orphan" THEN {t} ELSE {}, {t} \ (InPool \cup orphans),
                      IF o = "accepted" THEN orphansByPrev[t] ELSE {})
    /\ UNCHANGED <<chain, orphansByPrev, walk>>

(* Mutant: the transactions that conflict with a confirmed one stay.       *)
ConfirmOnly ==
    /\ Called("confirm")
    /\ LET t == Head(job).tx
       IN /\ removeTransaction({t})
          /\ orphans' = orphans \ {t}
          /\ orphansByPrev' = removeOrphan(orphansByPrev, t)
          /\ walkFrom(t)
    /\ Remember({}, {}, {})
    /\ UNCHANGED <<chain, votes>>

(* RemoveTransaction, RemoveDoubleSpends, RemoveOrphan and ProcessOrphans. *)
Confirm ==
    /\ Called("confirm")
    /\ LET t == Head(job).tx
       IN /\ removeTransaction({t} \cup DoubleSpends(t))
          /\ orphans' = orphans \ {t}
          /\ orphansByPrev' = removeOrphan(orphansByPrev, t)
          /\ walkFrom(t)
    /\ Remember({}, {}, {})
    /\ UNCHANGED <<chain, votes>>

-----------------------------------------------------------------------------
(* PruneStakeTx and PruneExpiredTx.                                        *)

(* header.KeyHeight of the main chain block at a height: the key blocks    *)
(* before it.                                                              *)
KeyHeight(h) == Cardinality({i \in 1..(h-1) : chain[i] \in KeyBlock})

BestRealKeyHeight == KeyHeight(Len(chain) + 1)

(* Transactions added at a height the chain no longer has are skipped.     *)
Stale(t) ==
    /\ pool[t] <= Len(chain)
    /\ \/ /\ Type[t] = "ticket"
          /\ \/ KeyHeight(pool[t]) + heightDiffToPruneTicket < BestRealKeyHeight
             \/ Price[t] # StakeDiff[Tip]
       \/ /\ SpendsTicket(t)
          /\ KeyHeight(pool[t]) + heightDiffToPruneVotes < BestRealKeyHeight

Expired(t) == Expiry[t] # 0 /\ BestRealKeyHeight > Expiry[t]

Prune ==
    /\ walk.queue = <<>>
    /\ walk.todo = {}
    /\ job # <<>>
    /\ Head(job).op = "prune"
    /\ LET stale == {t \in InPool : Stale(t) \/ Expired(t)}
       IN IF stale = {}
          THEN job' = Tail(job) /\ UNCHANGED <<pool, outpoints>>
          ELSE /\ \E t \in stale : removeTransaction(WithRedeemers(t))
               /\ UNCHANGED job
    /\ UNCHANGED <<chain, orphans, orphansByPrev, votes, walk>>
    /\ Remember({}, {}, {})

-----------------------------------------------------------------------------
Next ==
    \/ \E t \in Tx, policy, allowOrphan \in BOOLEAN :
          ProcessTransaction(t, policy, allowOrphan)
    \/ \E b \in Block, last \in BOOLEAN : BlockConnected(b, last)
    \/ BlockDisconnected
    \/ WalkNext
    \/ \E t \in walk.todo, policy \in BOOLEAN : WalkOrphan(t, policy)
    \/ \E policy \in BOOLEAN : PutBack(policy)
    \/ Confirm
    \/ Prune

Spec == Init /\ [][Next]_vars

-----------------------------------------------------------------------------
(* Every orphan is indexed under each of its parents and nothing else is,  *)
(* the limit on orphans holds, and no transaction is in both pools.        *)
OrphansIndexed ==
    /\ \A p \in AllTx : orphansByPrev[p] = {t \in orphans : p \in Parents(t)}
    /\ Cardinality(orphans) <= MaxOrphanTxs
    /\ orphans \cap InPool = {}

(* outpoints names, for every coin a regular transaction or a ticket of    *)
(* the pool spends, that transaction, and names only transactions in the   *)
(* pool that spend the coin.                                               *)
OutpointsIndexed ==
    /\ \A o \in DOMAIN outpoints : /\ outpoints[o] \in InPool
                                   /\ o \in Inputs[outpoints[o]]
    /\ \A t \in InPool : ~ SpendsTicket(t) =>
          \A o \in Inputs[t] : o \in DOMAIN outpoints /\ outpoints[o] = t

(* The maps of the pool agree with each other through every sequence of    *)
(* acceptance, eviction, confirmation, reorganization and pruning, so no   *)
(* two regular transactions or tickets of the pool spend the same coin.    *)
PoolConsistent == TypeOK /\ OrphansIndexed /\ OutpointsIndexed

(* Whatever a regular transaction or a ticket of the pool spends is        *)
(* unspent in the chain or made by the pool, once the handler is idle,     *)
(* except after a parent could not be put back for want of its own         *)
(* parents, or after the votes had been against the tip.                   *)
PoolSpendable ==
    Idle => \A t \in InPool : ~ SpendsTicket(t) /\ t \notin doubted =>
        \A o \in Inputs[t] :
            \/ o \in FetchUtxoView(TRUE)
            \/ o[1] \in InPool
            \/ o[1] \in lost

(* No orphan is left behind: once the handler is idle, each orphan still   *)
(* lacks a parent, unless it was waiting when blocks were disconnected or  *)
(* invalidated or a parent was put back (MaybeAcceptTransaction does not   *)
(* process orphans), or was examined while the votes were against the tip. *)
OrphansAdopted ==
    Idle => \A t \in orphans \ doubted :
        \E p \in Parents(t) : ~ EntryIn(FetchUtxoView(TRUE), p) /\ p \notin InPool

(* What handleNotifyMsg says of the transactions it puts back              *)
(* (blockmanager.go:2487): one that is not accepted is removed with all    *)
(* transactions that depend on it.                                         *)
PutBackRemovesChildren ==
    [][job # <<>> /\ job' # job /\ Head(job).op = "accept"
         /\ Head(job).tx \notin DOMAIN pool' =>
             \A t \in DOMAIN pool' : Head(job).tx \notin Parents(t)]_vars

=============================================================================
