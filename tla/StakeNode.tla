----------------------------- MODULE StakeNode ------------------------------
(***************************************************************************)
(* The ticket state of package stake (blockchain/stake/tickets.go) along   *)
(* the main chain: the live, missed and revoked ticket treaps of a stake   *)
(* node, how a block changes them (connectNode), how the undo data of a    *)
(* block restores its parent's (disconnectNode), and the database buckets  *)
(* WriteConnectedBestNode and WriteDisconnectedBestNode keep beside them   *)
(* and LoadBestNode reads when the program starts.                         *)
(*                                                                         *)
(* A key block uses up the winners of its parent, expires old tickets and  *)
(* draws new winners; a micro block hands its parent's winners on.  The    *)
(* lottery draws from a hash of the header: here any choice of winners.    *)
(*                                                                         *)
(* A treap is a function from its tickets to their values.  The order of   *)
(* winners, undo entries and new tickets within a block is abstracted; a   *)
(* ticket has at most one undo entry per block.                            *)
(***************************************************************************)
EXTENDS Integers, Sequences, FiniteSets, TLC

CONSTANTS
    Ticket,                 \* ticket hashes
    TicketsPerBlock,        \* params.TicketsPerBlock
    TicketExpiry,           \* params.TicketExpiry, in key blocks
    StakeEnabledHeight,     \* params.StakeEnabledHeight, a key height
    StakeValidationHeight,  \* params.StakeValidationHeight, a key height
    MaxHeight               \* bound on the height of the chain

ASSUME ParamAssumption ==
    /\ IsFiniteSet(Ticket)
    /\ TicketsPerBlock \in Nat \ {0}
    /\ TicketExpiry \in Nat \ {0}
    /\ StakeEnabledHeight \in Nat \ {0}
    /\ StakeValidationHeight \in Nat
    /\ StakeEnabledHeight < StakeValidationHeight
    /\ MaxHeight \in Nat

VARIABLES
    chain,      \* main chain: its blocks, each with the stake node it was
                \* given when it was connected
    best,       \* the stake node of the best block, in memory
    fetched,    \* lowest height whose undo data and new tickets are in memory
    db          \* the ticket database

vars == <<chain, best, fetched, db>>

-----------------------------------------------------------------------------
(* Tickets and blocks.                                                     *)

(* tickettreap.Value, and with a ticket hash ticketdb.UndoTicketData. *)
Value == [height : Nat, keyHeight : Nat, missed : BOOLEAN, revoked : BOOLEAN,
          spent : BOOLEAN, expired : BOOLEAN]

IsTreap(f) == DOMAIN f \in SUBSET Ticket /\ f \in [DOMAIN f -> Value]

(* What connecting a block needs of it.  The record stands for its hash.   *)
Blocks == [height : Nat, keyHeight : Nat, isKeyBlock : BOOLEAN,
           ticketsSpent : SUBSET Ticket, ticketsRevoked : SUBSET Ticket,
           newTickets : SUBSET Ticket]

GenesisBlock ==
    [height |-> 0, keyHeight |-> 0, isKeyBlock |-> FALSE, ticketsSpent |-> {},
     ticketsRevoked |-> {}, newTickets |-> {}]

(* The number of key blocks up to and including b. *)
RealKeyHeight(b) == IF b.isKeyBlock THEN b.keyHeight + 1 ELSE b.keyHeight

Minus(t, S) == [x \in DOMAIN t \ S |-> t[x]]

EmptyTreap == [t \in {} |-> {}]

(* finalState: a checksum of the winners and of the state of the lottery,  *)
(* which is seeded with the header and asked for indexes below the size of *)
(* the live pool.                                                          *)
NoFinalState == <<>>

FinalState(b, winners, live) == <<b, winners, Cardinality(DOMAIN live)>>

HasLottery(b) == RealKeyHeight(b) >= StakeValidationHeight - 1

genesisNode ==
    [height |-> 0, keyHeight |-> 0, liveTickets |-> EmptyTreap,
     missedTickets |-> EmptyTreap, revokedTickets |-> EmptyTreap,
     undo |-> EmptyTreap, newTickets |-> {}, nextWinners |-> {},
     finalState |-> NoFinalState]

-----------------------------------------------------------------------------
(* connectNode.                                                            *)

Enabled(b) == b.keyHeight >= StakeEnabledHeight

(* The winners of the parent that a key block uses up. *)
UsedWinners(node, b) ==
    IF Enabled(b) /\ b.isKeyBlock THEN node.nextWinners ELSE {}

toExpireKeyHeight(b) ==
    IF b.keyHeight > TicketExpiry THEN b.keyHeight - TicketExpiry ELSE 0

(* fetchExpired, after the winners have left the live tickets. *)
Expiring(node, b) ==
    IF Enabled(b) /\ b.isKeyBlock
    THEN {t \in DOMAIN node.liveTickets \ UsedWinners(node, b) :
             node.liveTickets[t].keyHeight =< toExpireKeyHeight(b)}
    ELSE {}

Revoking(b) == IF Enabled(b) THEN b.ticketsRevoked ELSE {}

(* The undo entry, and the new treap value, of every ticket b touches. *)
UndoOf(node, b) ==
    [t \in UsedWinners(node, b) \cup Expiring(node, b) \cup Revoking(b)
               \cup b.newTickets |->
        IF t \in b.newTickets
        THEN [height |-> b.height, keyHeight |-> b.keyHeight,
              missed |-> FALSE, revoked |-> FALSE, spent |-> FALSE,
              expired |-> FALSE]
        ELSE IF t \in Revoking(b)
        THEN [node.missedTickets[t] EXCEPT !.revoked = TRUE]
        ELSE IF t \in Expiring(node, b)
        THEN [node.liveTickets[t] EXCEPT !.missed = TRUE, !.expired = TRUE]
        ELSE [node.liveTickets[t] EXCEPT !.spent = t \in b.ticketsSpent,
                                         !.missed = t \notin b.ticketsSpent]]

LiveAfter(node, b) ==
    LET kept == DOMAIN node.liveTickets
                    \ (UsedWinners(node, b) \cup Expiring(node, b))
    IN  [t \in kept \cup b.newTickets |->
            IF t \in b.newTickets THEN UndoOf(node, b)[t]
                                  ELSE node.liveTickets[t]]

(* Mutant: winners that did not vote are not recorded as missed. *)
MissingOnlyExpired(node, b) == Expiring(node, b)

Missing(node, b) ==
    (UsedWinners(node, b) \ b.ticketsSpent) \cup Expiring(node, b)

MissedAfter(node, b) ==
    [t \in (DOMAIN node.missedTickets \cup Missing(node, b)) \ Revoking(b) |->
        IF t \in Missing(node, b) THEN UndoOf(node, b)[t]
                                  ELSE node.missedTickets[t]]

RevokedAfter(node, b) ==
    [t \in DOMAIN node.revokedTickets \cup Revoking(b) |->
        IF t \in Revoking(b) THEN UndoOf(node, b)[t]
                             ELSE node.revokedTickets[t]]

(* What connectNode, and CheckBlockStakeSanity before it, require of b.    *)
(* The safeGet, safePut and safeDelete calls return an error otherwise.    *)
CanConnect(node, b) ==
    /\ b.ticketsSpent \subseteq node.nextWinners
    /\ b.ticketsRevoked \subseteq DOMAIN node.missedTickets
    /\ UsedWinners(node, b) \subseteq DOMAIN node.liveTickets
    /\ Missing(node, b) \cap DOMAIN node.missedTickets = {}
    /\ DOMAIN node.revokedTickets \cap Revoking(b) = {}
    /\ b.newTickets \cap DOMAIN node.liveTickets = {}
    /\ HasLottery(b) =>
          Cardinality(DOMAIN LiveAfter(node, b)) >= TicketsPerBlock

(* The outcomes of the lottery: a key block draws, a micro block keeps.    *)
Lottery(node, b) ==
    IF ~ HasLottery(b) THEN {{}}
    ELSE IF ~ b.isKeyBlock THEN {node.nextWinners}
    ELSE {W \in SUBSET DOMAIN LiveAfter(node, b) :
             Cardinality(W) = TicketsPerBlock}

connectNode(node, b, winners) ==
    [height |-> node.height + 1,
     keyHeight |-> b.keyHeight,
     liveTickets |-> LiveAfter(node, b),
     missedTickets |-> MissedAfter(node, b),
     revokedTickets |-> RevokedAfter(node, b),
     undo |-> UndoOf(node, b),
     newTickets |-> b.newTickets,
     nextWinners |-> winners,
     finalState |-> IF HasLottery(b)
                    THEN FinalState(b, winners, LiveAfter(node, b))
                    ELSE NoFinalState]

-----------------------------------------------------------------------------
(* disconnectNode.  The cases of its switch over the flags of an entry.    *)

Added(u) ==
    {t \in DOMAIN u : ~ u[t].missed /\ ~ u[t].revoked /\ ~ u[t].spent}

WasRevoked(u) == {t \in DOMAIN u : u[t].missed /\ u[t].revoked}

(* Mutant: a revoked ticket is also taken for a missed one. *)
WasMissedOrRevoked(u) == {t \in DOMAIN u : u[t].missed}

WasMissed(u) == {t \in DOMAIN u : u[t].missed /\ ~ u[t].revoked}

WasSpent(u) ==
    {t \in DOMAIN u : ~ u[t].missed /\ u[t].spent}

(* The values a treap, or a bucket, gets back. *)
LiveAgain(u) ==
    [t \in WasMissed(u) \cup WasSpent(u) |->
        IF t \in WasSpent(u)
        THEN [u[t] EXCEPT !.spent = FALSE]
        ELSE [u[t] EXCEPT !.missed = FALSE, !.expired = FALSE]]

MissedAgain(u) == [t \in WasRevoked(u) |-> [u[t] EXCEPT !.revoked = FALSE]]

(* t with the entries of s put over it. *)
With(t, s) ==
    [x \in DOMAIN t \cup DOMAIN s |-> IF x \in DOMAIN s THEN s[x] ELSE t[x]]

(* No safeDelete misses its ticket, no safePut finds its ticket. *)
CanDisconnect(node) ==
    LET u == node.undo
    IN  /\ Added(u) \subseteq DOMAIN node.liveTickets
        /\ WasRevoked(u) \subseteq DOMAIN node.revokedTickets
        /\ WasRevoked(u) \cap DOMAIN node.missedTickets = {}
        /\ WasMissed(u) \subseteq DOMAIN node.missedTickets
        /\ (WasMissed(u) \cup WasSpent(u)) \cap DOMAIN node.liveTickets = {}
        /\ DOMAIN u = Added(u) \cup WasRevoked(u) \cup WasMissed(u)
                          \cup WasSpent(u)

(* node is the stake node of block b; p is the parent of b, and utds and   *)
(* tickets its undo data and new tickets.                                  *)
disconnectNode(node, b, p, utds, tickets) ==
    LET u == node.undo
        live == With(Minus(node.liveTickets, Added(u)), LiveAgain(u))
        winners == IF b.isKeyBlock
                   THEN {t \in WasMissed(u) : ~ u[t].expired} \cup WasSpent(u)
                   ELSE node.nextWinners
    IN  IF node.height = 1 THEN genesisNode
        ELSE [height |-> node.height - 1,
              keyHeight |-> p.keyHeight,
              liveTickets |-> live,
              missedTickets |->
                  With(Minus(node.missedTickets, WasMissed(u)),
                       MissedAgain(u)),
              revokedTickets |-> Minus(node.revokedTickets, WasRevoked(u)),
              undo |-> utds,
              newTickets |-> tickets,
              nextWinners |-> winners,
              finalState |-> IF node.keyHeight + 1 >= StakeValidationHeight
                             THEN FinalState(p, winners, live)
                             ELSE NoFinalState]

-----------------------------------------------------------------------------
(* The ticket database.  BestChainState counts the three pools.            *)

BestState(hash, node) ==
    [hash |-> hash, height |-> node.height,
     live |-> Cardinality(DOMAIN node.liveTickets),
     missed |-> Cardinality(DOMAIN node.missedTickets),
     revoked |-> Cardinality(DOMAIN node.revokedTickets),
     nextWinners |-> node.nextWinners]

(* InitDatabaseState. *)
InitDatabaseState ==
    [live |-> EmptyTreap, missed |-> EmptyTreap, revoked |-> EmptyTreap,
     undo |-> [h \in {0} |-> EmptyTreap], tickets |-> [h \in {0} |-> {}],
     state |-> BestState(GenesisBlock, genesisNode)]

Entries(f, S) == [x \in DOMAIN f \cap S |-> f[x]]

WriteConnectedBestNode(d, node, hash) ==
    LET u == node.undo
        h == node.height
    IN  [live |-> With(Minus(d.live, WasMissed(u) \cup WasSpent(u)),
                       Entries(u, Added(u))),
         missed |-> With(Minus(d.missed, WasRevoked(u)),
                         Entries(u, WasMissed(u))),
         revoked |-> With(d.revoked, Entries(u, WasRevoked(u))),
         undo |-> With(d.undo, [x \in {h} |-> u]),
         tickets |-> With(d.tickets, [x \in {h} |-> node.newTickets]),
         state |-> BestState(hash, node)]

(* Mutant: the undo data of the disconnected child stays. *)
DroppedAbove(d, h) == (h + 2) .. d.state.height

(* Heights whose undo data and new tickets leave the database. *)
Dropped(d, h) == (h + 1) .. d.state.height

(* u is the undo data of the child that is being disconnected. *)
WriteDisconnectedBestNode(d, node, hash, u) ==
    LET h == node.height
        dropped == Dropped(d, h)
    IN  [live |-> With(Minus(d.live, Added(u)), LiveAgain(u)),
         missed |-> With(Minus(d.missed, WasMissed(u)), MissedAgain(u)),
         revoked |-> Minus(d.revoked, WasRevoked(u)),
         undo |-> With(Minus(d.undo, dropped), [x \in {h} |-> node.undo]),
         tickets |-> With(Minus(d.tickets, dropped),
                          [x \in {h} |-> node.newTickets]),
         state |-> BestState(hash, node)]

(* LoadBestNode refuses a database whose tip or counts do not match. *)
CanLoad(d, b) ==
    /\ d.state.hash = b
    /\ d.state.height = b.height
    /\ Cardinality(DOMAIN d.live) = d.state.live
    /\ Cardinality(DOMAIN d.missed) = d.state.missed
    /\ Cardinality(DOMAIN d.revoked) = d.state.revoked
    /\ b.height \in DOMAIN d.undo \cap DOMAIN d.tickets
    /\ HasLottery(b) => Cardinality(DOMAIN d.live) >= TicketsPerBlock

LoadBestNode(d, b) ==
    LET winners == IF HasLottery(b) THEN d.state.nextWinners ELSE {}
    IN  [height |-> b.height, keyHeight |-> b.keyHeight,
         liveTickets |-> d.live, missedTickets |-> d.missed,
         revokedTickets |-> d.revoked, undo |-> d.undo[b.height],
         newTickets |-> d.tickets[b.height], nextWinners |-> winners,
         finalState |-> IF HasLottery(b) THEN FinalState(b, winners, d.live)
                        ELSE NoFinalState]
-----------------------------------------------------------------------------
(* The main chain.                                                         *)

Height == Len(chain) - 1

Tip == chain[Len(chain)].block

(* Every ticket matures once in a chain. *)
Matured == UNION {chain[i].block.newTickets : i \in 1..Len(chain)}

Init ==
    /\ chain = <<[block |-> GenesisBlock, node |-> genesisNode]>>
    /\ best = genesisNode
    /\ fetched = 0
    /\ db = InitDatabaseState

(* The tickets a block may bring: fetchNewTicketsForNode finds those that  *)
(* mature at a key block, and none before staking is enabled.              *)
Maturing(isKey, keyHeight) ==
    IF isKey /\ keyHeight >= StakeEnabledHeight
    THEN SUBSET (Ticket \ Matured)
    ELSE {{}}

(* connectBlock: the stake node of the new best block is computed from     *)
(* its parent's and written in the same database transaction as the rest.  *)
Connect(b) ==
    /\ CanConnect(best, b)
    /\ \E winners \in Lottery(best, b) :
          LET node == connectNode(best, b, winners)
          IN  /\ best' = node
              /\ chain' = Append(chain, [block |-> b, node |-> node])
              /\ db' = WriteConnectedBestNode(db, node, b)
    /\ UNCHANGED fetched

ConnectBlock ==
    /\ Height < MaxHeight
    /\ \E isKey \in BOOLEAN,
          spent \in SUBSET best.nextWinners,
          revoked \in SUBSET DOMAIN best.missedTickets :
       \E new \in Maturing(isKey, RealKeyHeight(Tip)) :
          Connect([height |-> Height + 1, keyHeight |-> RealKeyHeight(Tip),
                   isKeyBlock |-> isKey, ticketsSpent |-> spent,
                   ticketsRevoked |-> revoked, newTickets |-> new])

(* disconnectBlock: fetchStakeNode finds the stake node of the parent in   *)
(* memory, or, when it has been pruned or was never loaded, restores it    *)
(* from the best node and the parent's undo data, which is read from the   *)
(* database when the parent has not been in memory since the start.        *)
DisconnectBlock ==
    /\ Height > 0
    /\ CanDisconnect(best)
    /\ LET p == chain[Len(chain) - 1].block
           inMemory == p.height >= fetched
           utds == IF inMemory THEN chain[Len(chain) - 1].node.undo
                               ELSE db.undo[p.height]
           tickets == IF inMemory THEN chain[Len(chain) - 1].node.newTickets
                                  ELSE db.tickets[p.height]
           cached == IF inMemory THEN {chain[Len(chain) - 1].node} ELSE {}
       IN  /\ \E node \in cached
                  \cup {disconnectNode(best, Tip, p, utds, tickets)} :
                /\ best' = node
                /\ db' = WriteDisconnectedBestNode(db, node, p, best.undo)
           /\ fetched' = IF inMemory THEN fetched ELSE p.height
    /\ chain' = SubSeq(chain, 1, Len(chain) - 1)

(* The program stops and starts: the best node is read from the database.  *)
Restart ==
    /\ CanLoad(db, Tip)
    /\ best' = LoadBestNode(db, Tip)
    /\ fetched' = Height
    /\ UNCHANGED <<chain, db>>

Next == ConnectBlock \/ DisconnectBlock \/ Restart

Spec == Init /\ [][Next]_vars

(* Nothing tells one ticket from another. *)
TicketSymmetry == Permutations(Ticket)

-----------------------------------------------------------------------------
NodeType(node) ==
    /\ node.height \in Nat
    /\ node.keyHeight \in Nat
    /\ IsTreap(node.liveTickets)
    /\ IsTreap(node.missedTickets)
    /\ IsTreap(node.revokedTickets)
    /\ IsTreap(node.undo)
    /\ node.newTickets \in SUBSET Ticket
    /\ node.nextWinners \in SUBSET Ticket

TypeOK ==
    /\ \A i \in 1..Len(chain) :
          chain[i].block \in Blocks /\ NodeType(chain[i].node)
    /\ NodeType(best)
    /\ fetched \in Nat
    /\ IsTreap(db.live) /\ IsTreap(db.missed) /\ IsTreap(db.revoked)

(* Whatever is connected, disconnected and reloaded, the best stake node   *)
(* is the one its block had when it was first connected: disconnectNode    *)
(* inverts connectNode, and LoadBestNode what the Write functions wrote.   *)
BestIsConnected == best = chain[Len(chain)].node

(* Every ticket that matured in the main chain is in exactly one of the    *)
(* live, missed and revoked pools or was spent by exactly one key block.   *)
TicketsConserved ==
    LET spentBy(i) ==
            IF chain[i].block.isKeyBlock THEN chain[i].block.ticketsSpent
                                         ELSE {}
        pools == {DOMAIN best.liveTickets, DOMAIN best.missedTickets,
                  DOMAIN best.revokedTickets}
        spent == UNION {spentBy(i) : i \in 1..Len(chain)}
    IN  /\ Matured = spent \cup UNION pools
        /\ DOMAIN best.liveTickets \cap DOMAIN best.missedTickets = {}
        /\ DOMAIN best.liveTickets \cap DOMAIN best.revokedTickets = {}
        /\ DOMAIN best.missedTickets \cap DOMAIN best.revokedTickets = {}
        /\ spent \cap UNION pools = {}
        /\ \A i, j \in 1..Len(chain) :
              i # j => spentBy(i) \cap spentBy(j) = {}

(* The winners of the best block are live until a key block uses them up,  *)
(* through any number of micro blocks, so the next key block can always    *)
(* look them up.                                                           *)
WinnersLive ==
    /\ best.nextWinners \subseteq DOMAIN best.liveTickets
    /\ Cardinality(best.nextWinners) =
          IF HasLottery(Tip) THEN TicketsPerBlock ELSE 0

(* disconnectNode finds every ticket of the undo data where it expects it. *)
CanAlwaysDisconnect == Height > 0 => CanDisconnect(best)

(* LoadBestNode never reports a corrupt database. *)
CanAlwaysRestart == CanLoad(db, Tip)

(* The database holds the pools of the best node and the undo data and new *)
(* tickets of every main chain block, and nothing above the best block.    *)
DatabaseMatches ==
    /\ db.live = best.liveTickets
    /\ db.missed = best.missedTickets
    /\ db.revoked = best.revokedTickets
    /\ DOMAIN db.undo = 0..Height
    /\ DOMAIN db.tickets = 0..Height
    /\ \A h \in 0..Height : /\ db.undo[h] = chain[h + 1].node.undo
                            /\ db.tickets[h] = chain[h + 1].node.newTickets

(* The flags of a value tell which pool it is in: whatever moved a ticket  *)
(* from pool to pool and back again set and cleared them, so the undo data *)
(* made from them later has the right case in disconnectNode.              *)
FlagsMatchPool ==
    LET live == best.liveTickets
        missed == best.missedTickets
        revoked == best.revokedTickets
    IN  /\ \A t \in DOMAIN live :
              ~ (live[t].missed \/ live[t].revoked \/ live[t].spent
                    \/ live[t].expired)
        /\ \A t \in DOMAIN missed :
              missed[t].missed /\ ~ missed[t].revoked /\ ~ missed[t].spent
        /\ \A t \in DOMAIN revoked :
              revoked[t].missed /\ revoked[t].revoked /\ ~ revoked[t].spent

(* At every block no live ticket is older than TicketExpiry key blocks:    *)
(* the expiry at each key block leaves none behind, micro blocks between.  *)
NoOverdueTicket ==
    \A t \in DOMAIN best.liveTickets :
        best.liveTickets[t].keyHeight + TicketExpiry >= RealKeyHeight(Tip)

(* The pools are those of the chain: nothing is lost or counted twice by   *)
(* connecting and disconnecting, and each ticket is where its flags say.   *)
PoolsSound ==
    /\ TypeOK
    /\ BestIsConnected
    /\ TicketsConserved
    /\ WinnersLive
    /\ FlagsMatchPool
    /\ NoOverdueTicket

(* A node can always disconnect its best block and load it again.          *)
Recoverable == CanAlwaysDisconnect /\ CanAlwaysRestart
=============================================================================
