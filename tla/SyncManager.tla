---------------------------- MODULE SyncManager ----------------------------
(***************************************************************************)
(* The block manager (blockmanager.go): which peer the node downloads the  *)
(* chain from, what it has asked of whom, the headers-first download below *)
(* the last checkpoint and the summary of the best chain kept for mining.  *)
(*                                                                         *)
(* blockHandler is one goroutine, so a handler is one step.  What races    *)
(* with it are the goroutines that feed its channel.  A peer's inHandler   *)
(* passes on what the peer sends, one message at a time and in order.      *)
(* peerDoneHandler reports that the peer is gone as soon as it has         *)
(* disconnected, while inHandler may still be inside its last callback:    *)
(* the message of that callback, the first one (newPeerMsg) included, may  *)
(* reach the channel after donePeerMsg.                                    *)
(*                                                                         *)
(* Every peer is on one chain and has a prefix of it, so a block is its    *)
(* height.  What we send to a peer waits in its "wire"; a peer that is     *)
(* current answers the way this very program does (server.go), and an      *)
(* answer is handled in the step that takes the request off the wire.      *)
(***************************************************************************)
EXTENDS Integers, FiniteSets, Sequences, SequencesExt

CONSTANTS
    Peer,           \* the peers; each connects at most once
    Nobody,         \* the nil *serverPeer
    Chain,          \* the length of the chain the network may reach
    KeyBlocks,      \* the heights of the key blocks
    Checkpoints,    \* the heights of the checkpoints
    Fresh,          \* the blocks from this height on are less than a day old
    StartHeight,    \* the height of our own chain when the program starts
    FirstTip,       \* the height of a peer's chain when it connects
    Lagging,        \* the peers whose chain is shorter than that,
    LaggingTip,     \* and its height
    MaxInvPerMsg,   \* wire.MaxInvPerMsg and wire.MaxBlocksPerMsg
    MaxHeaders,     \* wire.MaxBlockHeadersPerMsg
    MinInFlight,    \* minInFlightBlocks
    MaxRequested,   \* maxRequestedBlocks
    MaxResend,      \* maxResendLimit
    MaxUnasked      \* bound on the blocks nobody requested: those submitted
                    \* locally and those a peer sends unasked

Block == 1..Chain

\* The elements of a sequence that are in S, in their order (SelectSeq, without
\* the recursion).
RankIn(at, i) == Cardinality({j \in at : j <= i})

Only(seq, S) ==
    LET at == {i \in DOMAIN seq : seq[i] \in S}
    IN [k \in 1..Cardinality(at) |-> seq[CHOOSE i \in at : RankIn(at, i) = k]]

\* The height of every peer's chain when it connects.
TipAtFirst == [p \in Peer |-> IF p \in Lagging THEN LaggingTip ELSE FirstTip]

ASSUME SyncAssumption ==
    /\ Nobody \notin Peer
    /\ Chain \in Nat \ {0}
    /\ KeyBlocks \subseteq Block
    /\ Checkpoints \subseteq Block
    /\ \A c \in Checkpoints : Fresh >= c
    /\ StartHeight \in 0..Chain
    /\ Lagging \subseteq Peer /\ FirstTip \in 0..Chain /\ LaggingTip \in 0..Chain
    /\ MaxInvPerMsg \in Nat \ {0} /\ MaxHeaders \in Nat \ {0}
    /\ MinInFlight \in Nat /\ MaxRequested \in Nat \ {0}
    /\ MaxResend \in Nat /\ MaxUnasked \in Nat

VARIABLES
    chain,          \* the height of the best chain and the orphan blocks
    chainState,     \* the block chainState.newestHash names, and the block
                    \* whose lottery data the other fields hold
    mgr,            \* the fields of blockManager
    peer,           \* the fields of every serverPeer and its wire
    up,             \* the peers that are connected
    told,           \* newPeerMsg and donePeerMsg, in the order handled
    tip,            \* how much of the chain every peer has
    heights,        \* UpdatePeerHeights goroutines on their way to the server
    events,         \* how many of the MaxUnasked have happened
    strayed         \* history: the peers that were asked to continue the
                    \* download after a checkpoint but are not the sync peer

vars == <<chain, chainState, mgr, peer, up, told, tip, heights, events,
          strayed>>

-----------------------------------------------------------------------------
(* The chain, as ProcessBlock and the queries of the block manager show it. *)

\* Header.KeyHeight of a block counts the key blocks below it; every caller
\* adds one for a key block, which gives this.
RealKeyHeight(h) == Cardinality({k \in KeyBlocks : k <= h})

HaveBlock(c, b) == b <= c.best \/ b \in c.orphans
Missing(c) == {b \in Block : ~HaveBlock(c, b)}

\* The best height once block b has arrived: orphans that now connect follow.
Adopted(b) ==
    CHOOSE h \in b..Chain : /\ \A o \in (b + 1)..h : o \in chain.orphans
                            /\ h + 1 \notin chain.orphans

\* GetOrphanRoot
OrphanRoot(c, b) ==
    CHOOSE r \in 1..b : /\ \A o \in r..b : o \in c.orphans
                        /\ r - 1 \notin c.orphans

\* findNextHeaderCheckpoint; 0 is nil
NextCheckpoint(h) ==
    IF \E c \in Checkpoints : c > h
    THEN CHOOSE c \in Checkpoints : c > h /\ \A d \in Checkpoints : d > h => c <= d
    ELSE 0

\* current(), for the best height h, the manager m and the peers ps.
Current(h, m, ps) ==
    /\ h >= Fresh
    /\ \/ m.syncPeer = Nobody
       \/ LET sp == ps[m.syncPeer] IN
          \/ RealKeyHeight(h) > sp.lastKey
          \/ RealKeyHeight(h) = sp.lastKey /\ h >= sp.last

\* Mutant: the lottery data is that of the parent.
UpdateChainStateOfParent(h, b) == [newest |-> h, lottery |-> b - 1]

\* updateChainState after block b was processed and the chain is at height h:
\* handleBlockMsg and processBlockMsg fetch the lottery data of block b.
UpdateChainState(h, b) == [newest |-> h, lottery |-> b]

-----------------------------------------------------------------------------
(* Sending.  Messages to a peer that has disconnected are dropped.  The     *)
(* operators below take and return the peers, or a record s with the        *)
(* manager in s.m and the peers in s.ps, so that a handler can chain them.  *)

Msg(kind, begin, stop) == [kind |-> kind, begin |-> begin, stop |-> stop]

Queue(ps, p, msgs) ==
    IF p \in up THEN [ps EXCEPT ![p].wire = @ \o msgs] ELSE ps

\* PushGetBlocksMsg drops a request equal to the one before it.
PushGetBlocks(ps, p, begin, stop) ==
    IF ps[p].prevGetBlocks = <<begin, stop>> THEN ps
    ELSE [Queue(ps, p, <<Msg("getblocks", begin, stop)>>)
            EXCEPT ![p].prevGetBlocks = <<begin, stop>>]

\* The same for several in a row; asks has the locator and the stop of each.
PushAllGetBlocks(ps, p, asks) ==
    LET before(k) == IF k = 1 THEN ps[p].prevGetBlocks ELSE asks[k - 1]
        sent == Only([k \in 1..Len(asks) |-> k], {k \in 1..Len(asks) : asks[k] # before(k)})
        msgs == [i \in 1..Len(sent) |-> Msg("getblocks", asks[sent[i]][1], asks[sent[i]][2])]
    IN IF asks = <<>> THEN ps
       ELSE [Queue(ps, p, msgs) EXCEPT ![p].prevGetBlocks = asks[Len(asks)]]

PushGetHeaders(ps, p, begin, stop) ==
    IF ps[p].prevGetHdrs = <<begin, stop>> THEN ps
    ELSE [Queue(ps, p, <<Msg("getheaders", begin, stop)>>)
            EXCEPT ![p].prevGetHdrs = <<begin, stop>>]

GetData(blocks) == [i \in 1..Len(blocks) |-> Msg("getdata", blocks[i], 0)]

\* The manager and peer p note that the blocks are requested, and p is asked.
Request(s, p, blocks) ==
    LET bs == ToSet(blocks) IN
    [m  |-> [s.m EXCEPT !.requested = @ \union bs,
                        !.ever = [b \in Block |-> IF b \in bs THEN 0 ELSE s.m.ever[b]]],
     ps |-> Queue([s.ps EXCEPT ![p].requested = @ \union bs], p, GetData(blocks))]

\* startSync.  The last candidate that is not behind is taken; the ones that
\* are behind are dropped for good.
Behind(p, ps) ==
    \/ ps[p].lastKey < RealKeyHeight(chain.best)
    \/ ps[p].lastKey = RealKeyHeight(chain.best) /\ ps[p].last < chain.best

StartSync(s) ==
    LET cand == Only(s.m.candidates, {p \in Peer : ~Behind(p, s.ps)})
        p == Last(cand)
        m == [s.m EXCEPT !.candidates = cand, !.requested = {}, !.syncPeer = p]
    IN CASE s.m.syncPeer # Nobody -> s
         [] s.m.syncPeer = Nobody /\ cand = <<>> -> [s EXCEPT !.m.candidates = cand]
         [] s.m.syncPeer = Nobody /\ cand # <<>> ->
              IF s.m.nextCheckpoint # 0 /\ chain.best < s.m.nextCheckpoint
              THEN [m  |-> [m EXCEPT !.headersFirst = TRUE],
                    ps |-> PushGetHeaders(s.ps, p, chain.best, s.m.nextCheckpoint)]
              ELSE [m |-> m, ps |-> PushGetBlocks(s.ps, p, chain.best, 0)]

\* Mutant: the download stays in headers-first mode.
ResetHeadersKeepsMode(m, h) ==
    [m EXCEPT !.headers = IF m.nextCheckpoint # 0 THEN <<h>> ELSE <<>>,
              !.startHeader = 0]

\* resetHeaderState
ResetHeaders(m, h) ==
    [m EXCEPT !.headersFirst = FALSE,
              !.headers = IF m.nextCheckpoint # 0 THEN <<h>> ELSE <<>>,
              !.startHeader = 0]

\* fetchHeaderBlocks asks the sync peer, whoever sent the message that led
\* here.  startHeader is the first header not asked for yet, 0 is nil; an
\* element that was removed from the list has no next one.
FetchHeaderBlocks(s, c) ==
    LET from == s.m.startHeader
        rest == IF from \in ToSet(s.m.headers)
                THEN Only(s.m.headers, from..Chain)
                ELSE <<from>>
        want == Only(rest, Missing(c))
        full == Len(want) >= MaxInvPerMsg
        ask  == IF full THEN SubSeq(want, 1, MaxInvPerMsg) ELSE want
        left == IF full THEN Only(rest, (Last(ask) + 1)..Chain) ELSE <<>>
        m == [s.m EXCEPT !.startHeader = IF left = <<>> THEN 0 ELSE left[1]]
    IN IF from = 0 THEN s ELSE Request([s EXCEPT !.m = m], m.syncPeer, ask)

-----------------------------------------------------------------------------
(* Peers come and go. *)

\* handleNewPeerMsg, sent by OnVersion
HandleNewPeer(p) ==
    LET s == StartSync([m  |-> [mgr EXCEPT !.candidates = Append(@, p)],
                        ps |-> [peer EXCEPT ![p].wire = Tail(@)]])
    IN /\ mgr' = s.m
       /\ peer' = s.ps
       /\ told' = [told EXCEPT ![p] = Append(@, "new")]
       /\ UNCHANGED <<chain, chainState, up, heights, strayed>>

\* handleDonePeerMsg
HandleDonePeer(p) ==
    LET m1 == [mgr EXCEPT !.candidates = Only(@, Peer \ {p}),
                          !.requested = @ \ peer[p].requested]
        m2 == [m1 EXCEPT !.syncPeer = Nobody]
        m3 == IF mgr.headersFirst THEN ResetHeaders(m2, chain.best) ELSE m2
        s == IF mgr.syncPeer = p THEN StartSync([m |-> m3, ps |-> peer])
             ELSE [m |-> m1, ps |-> peer]
    IN /\ p \notin up
       /\ tip[p] # -1
       /\ "done" \notin ToSet(told[p])
       /\ mgr' = s.m
       /\ peer' = s.ps
       /\ told' = [told EXCEPT ![p] = Append(@, "done")]
       /\ UNCHANGED <<chain, chainState, up, tip, heights, events, strayed>>

Dropped(ps, p) == [ps EXCEPT ![p].wire = <<>>]

\* A peer connects: its version message gives the height of its chain.
ConnectPeer(p) ==
    /\ tip[p] = -1
    /\ tip' = [tip EXCEPT ![p] = TipAtFirst[p]]
    /\ up' = up \union {p}
    /\ peer' = [peer EXCEPT ![p].wire = <<Msg("version", 0, 0)>>,
                            ![p].last = TipAtFirst[p],
                            ![p].lastKey = RealKeyHeight(TipAtFirst[p])]
    /\ UNCHANGED <<chain, chainState, mgr, told, heights, events, strayed>>

\* The connection breaks.  What the peer had not sent is lost, except for a
\* message inHandler is just passing on.
Disconnect(p) ==
    /\ p \in up
    /\ up' = up \ {p}
    /\ \E n \in 0..1 :
          /\ n <= Len(peer[p].wire)
          /\ peer' = [peer EXCEPT ![p].wire = SubSeq(@, 1, n)]
    /\ UNCHANGED <<chain, chainState, mgr, told, tip, heights, events, strayed>>

\* The chain of a peer grows and it announces the new block.
Grow(p) ==
    /\ p \in up
    /\ tip[p] < Chain
    /\ tip' = [tip EXCEPT ![p] = @ + 1]
    /\ "new" \in ToSet(told[p])
    /\ peer' = [peer EXCEPT ![p].wire = Append(@, Msg("inv", tip[p] + 1, 0))]
    /\ UNCHANGED <<chain, chainState, mgr, up, told, heights, events, strayed>>

\* A peer sends a block that was not requested of it, or sends it again.
SendUnasked(p, b) ==
    /\ events < MaxUnasked
    /\ p \in up
    /\ "new" \in ToSet(told[p])
    /\ b \in 1..tip[p]
    /\ peer' = [peer EXCEPT ![p].wire = GetData(<<b>>) \o @]
    /\ events' = events + 1
    /\ UNCHANGED <<chain, chainState, mgr, up, told, tip, heights, strayed>>

-----------------------------------------------------------------------------
(* What a peer answers. *)

\* OnGetBlocks and locateBlocks: the blocks after the locator up to the stop
\* hash, if the peer knows it, and at most max of them.
Located(p, begin, stop, max) ==
    LET first == (IF begin <= tip[p] THEN begin ELSE tip[p]) + 1
        end   == IF stop \in 1..tip[p] THEN stop ELSE tip[p]
        last  == IF end >= first + max THEN first + max - 1 ELSE end
    IN [i \in 1..(IF last < first THEN 0 ELSE last - first + 1) |-> first + i - 1]

\* OnGetBlocks remembers the last block of a full answer that was cut short.
Continues(p, begin, stop) ==
    /\ Len(Located(p, begin, stop, MaxInvPerMsg)) = MaxInvPerMsg
    /\ stop \in 1..tip[p] => stop + 1 - (begin + 1) > MaxInvPerMsg

-----------------------------------------------------------------------------
(* handleBlockMsg *)

\* The request maps after block b came from peer p, and the header list
\* without b if it was the first one and is not the checkpoint.
TakeBlock(s, p, b) ==
    LET first == s.m.headersFirst /\ s.m.headers # <<>> /\ s.m.headers[1] = b
    IN [m  |-> [s.m EXCEPT !.requested = @ \ {b},
                           !.headers = IF first /\ b # s.m.nextCheckpoint THEN Tail(@) ELSE @],
        ps |-> [s.ps EXCEPT ![p].requested = @ \ {b}]]

\* UpdateLastBlockHeight and UpdateLastKeyBlockHeight; nothing is updated at
\* key height zero.
SetLast(ps, p, h) ==
    IF RealKeyHeight(h) = 0 THEN ps
    ELSE [ps EXCEPT ![p].last = h, ![p].lastKey = RealKeyHeight(h)]

\* Mutant: nothing is requested after the last checkpoint.
AfterHeaderBlockStops(s, p, b, c, isCheckpoint) ==
    LET next == NextCheckpoint(s.m.nextCheckpoint)
        m == [s.m EXCEPT !.nextCheckpoint = next]
    IN CASE ~s.m.headersFirst -> s
         [] s.m.headersFirst /\ ~isCheckpoint ->
              IF Cardinality(s.ps[p].requested) < MinInFlight
              THEN FetchHeaderBlocks(s, c) ELSE s
         [] s.m.headersFirst /\ isCheckpoint ->
              [m  |-> [m EXCEPT !.headersFirst = FALSE, !.headers = <<>>], ps |-> s.ps]

\* The end of the handler, in headers-first mode: more blocks, the next round
\* of headers, or the switch to normal mode after the last checkpoint.
AfterHeaderBlock(s, p, b, c, isCheckpoint) ==
    LET next == NextCheckpoint(s.m.nextCheckpoint)
        m == [s.m EXCEPT !.nextCheckpoint = next]
    IN CASE ~s.m.headersFirst -> s
         [] s.m.headersFirst /\ ~isCheckpoint ->
              IF Cardinality(s.ps[p].requested) < MinInFlight
              THEN FetchHeaderBlocks(s, c) ELSE s
         [] s.m.headersFirst /\ isCheckpoint /\ next # 0 ->
              [m |-> m, ps |-> PushGetHeaders(s.ps, p, b, next)]
         [] s.m.headersFirst /\ isCheckpoint /\ next = 0 ->
              [m  |-> [m EXCEPT !.headersFirst = FALSE, !.headers = <<>>],
               ps |-> PushGetBlocks(s.ps, p, b, 0)]

\* The block was asked of this peer, or of somebody and not sent too often.
Expected(p, b) == b \in peer[p].requested \/ mgr.ever[b] \in 0..MaxResend

HandleBlock(p, b, ps) ==
    LET counted == IF b \in peer[p].requested THEN mgr ELSE [mgr EXCEPT !.ever[b] = @ + 1]
        s  == TakeBlock([m |-> counted, ps |-> ps], p, b)
        isCheckpoint == /\ mgr.headersFirst /\ mgr.headers # <<>>
                        /\ mgr.headers[1] = b /\ b = mgr.nextCheckpoint
        orphan == b > chain.best + 1
        c  == IF orphan THEN [chain EXCEPT !.orphans = @ \union {b}]
              ELSE [best    |-> Adopted(b),
                    orphans |-> {o \in chain.orphans : o > Adopted(b)}]
        h  == IF orphan THEN b ELSE c.best
        s1 == [s EXCEPT !.ps = SetLast(
                 IF orphan THEN PushGetBlocks(s.ps, p, c.best, OrphanRoot(c, b)) ELSE s.ps,
                 p, h)]
        s2 == AfterHeaderBlock(s1, p, b, c, isCheckpoint)
    IN IF HaveBlock(chain, b)   \* ProcessBlock: a duplicate block
       THEN /\ mgr' = s.m
            /\ peer' = s.ps
            /\ UNCHANGED <<chain, chainState, heights, strayed>>
       ELSE /\ chain' = c
            /\ chainState' = IF orphan THEN chainState ELSE UpdateChainState(c.best, b)
            /\ heights' = IF /\ RealKeyHeight(h) # 0
                             /\ orphan \/ Current(c.best, s1.m, s1.ps)
                          THEN heights \union {<<h, p>>} ELSE heights
            /\ strayed' = IF isCheckpoint /\ p # mgr.syncPeer THEN strayed \union {p} ELSE strayed
            /\ mgr' = s2.m
            /\ peer' = s2.ps

-----------------------------------------------------------------------------
(* handleInvMsg *)

\* Request what we do not have, ask for the parents of orphans we have, and
\* for what follows the last block if we have that.
Inventory(s, p, inv) ==
    LET orphans == Only(inv, chain.orphans)
        asks == [i \in 1..Len(orphans) |-> <<chain.best, OrphanRoot(chain, orphans[i])>>]
                  \o (IF Last(inv) <= chain.best /\ Last(inv) \notin chain.orphans
                      THEN <<<<Last(inv), 0>>>> ELSE <<>>)
        pushed == PushAllGetBlocks(s.ps, p, asks)
    IN IF s.m.headersFirst THEN s
       ELSE [m |-> s.m, ps |-> [pushed EXCEPT ![p].requestQueue = @ \o Only(inv, Missing(chain))]]

\* The blocks of the request queue that one getdata takes: those nobody was
\* asked for, up to a full message.
RequestFrom(q, requested) ==
    LET fresh == Only(q, Block \ requested)
    IN IF Len(fresh) >= MaxInvPerMsg THEN SubSeq(fresh, 1, MaxInvPerMsg) ELSE fresh

QueueAfter(q, requested) ==
    LET ask == RequestFrom(q, requested)
    IN IF Len(ask) < MaxInvPerMsg THEN <<>>
       ELSE SubSeq(q, 1 + CHOOSE i \in DOMAIN q : q[i] = Last(ask), Len(q))

\* limitMap drops a random entry whenever the map would be full.
Limited(requested) ==
    IF Cardinality(requested) < MaxRequested THEN {requested}
    ELSE {r \in SUBSET requested : Cardinality(r) = MaxRequested - 1}

HandleInv(p, inv, ps) ==
    LET cur  == Current(chain.best, mgr, peer)
        last == inv[Len(inv)]
        ps1  == IF p # mgr.syncPeer \/ cur THEN [ps EXCEPT ![p].announced = last] ELSE ps
        ps2  == IF cur /\ last <= chain.best THEN [ps1 EXCEPT ![p].last = last] ELSE ps1
        s    == Inventory([m |-> mgr, ps |-> ps2], p, inv)
        q    == s.ps[p].requestQueue
        s1   == Request([s EXCEPT !.ps[p].requestQueue = QueueAfter(q, mgr.requested)],
                        p, RequestFrom(q, mgr.requested))
    IN /\ IF inv = <<>> \/ (p # mgr.syncPeer /\ ~cur)
          THEN mgr' = mgr /\ peer' = IF inv = <<>> THEN ps ELSE ps1
          ELSE /\ peer' = s1.ps
               /\ \E r \in Limited(s1.m.requested) : mgr' = [s1.m EXCEPT !.requested = r]
       /\ UNCHANGED <<chain, chainState, heights, strayed>>

-----------------------------------------------------------------------------
(* handleHeadersMsg *)

\* The headers that link to the last one we have, up to the checkpoint.
HandleHeaders(p, hs, ps) ==
    LET m == mgr
        linked == m.headers # <<>> /\ Last(m.headers) + 1 = hs[1]
        upTo == IF hs[1] > m.nextCheckpoint THEN hs ELSE Only(hs, 1..m.nextCheckpoint)
        got == m.nextCheckpoint \in ToSet(upTo)
        m1 == [m EXCEPT !.headers = @ \o upTo,
                        !.startHeader = IF @ = 0 THEN hs[1] ELSE @]
        s  == IF got
              THEN FetchHeaderBlocks([m |-> [m1 EXCEPT !.headers = Tail(@)], ps |-> ps], chain)
              ELSE [m |-> m1, ps |-> PushGetHeaders(ps, p, Last(upTo), m.nextCheckpoint)]
    IN IF ~m.headersFirst \/ (hs # <<>> /\ ~linked)
       THEN /\ up' = up \ {p}
            /\ peer' = Dropped(ps, p)
            /\ mgr' = m
       ELSE /\ mgr' = IF hs = <<>> THEN m ELSE s.m
            /\ peer' = IF hs = <<>> THEN ps ELSE s.ps
            /\ up' = up

-----------------------------------------------------------------------------
(* One message from a peer is taken off its wire and handled. *)

\* Notes a message that is handled after the donePeerMsg of its peer.
Overtaken(p) ==
    IF "done" \in ToSet(told[p]) THEN [told EXCEPT ![p] = Append(@, "late")] ELSE told

DeliverFrom(p) ==
    /\ peer[p].wire # <<>>
    /\ LET w == peer[p].wire[1]
           ps == [peer EXCEPT ![p].wire = Tail(@)]
           inv == Located(p, w.begin, w.stop, MaxInvPerMsg)
       IN \/ /\ w.kind = "version"
             /\ HandleNewPeer(p)
          \/ /\ w.kind = "inv"
             /\ HandleInv(p, <<w.begin>>, ps)
             /\ UNCHANGED up
             /\ told' = Overtaken(p)
          \/ /\ w.kind = "getblocks"
             /\ HandleInv(p, inv,
                   IF Continues(p, w.begin, w.stop)
                   THEN [ps EXCEPT ![p].continueHash = Last(inv)] ELSE ps)
             /\ UNCHANGED up
             /\ told' = Overtaken(p)
          \/ /\ w.kind = "getheaders"
             /\ tip[p] >= Fresh      \* OnGetHeaders: a peer that is not current is silent
             /\ HandleHeaders(p, Located(p, w.begin, w.stop, MaxHeaders), ps)
             /\ UNCHANGED <<chain, chainState, heights, strayed>>
             /\ told' = Overtaken(p)
          \/ /\ w.kind = "getheaders"
             /\ tip[p] < Fresh
             /\ peer' = ps
             /\ UNCHANGED <<chain, chainState, mgr, heights, up, strayed>>
             /\ told' = Overtaken(p)
          \/ /\ w.kind = "getdata"
             /\ Expected(p, w.begin)
             /\ HandleBlock(p, w.begin,
                   IF ps[p].continueHash = w.begin
                   THEN [ps EXCEPT ![p].continueHash = 0,
                                   ![p].wire = <<Msg("inv", tip[p], 0)>> \o @]
                   ELSE ps)
             /\ UNCHANGED up
             /\ told' = Overtaken(p)
          \/ /\ w.kind = "getdata"
             /\ ~Expected(p, w.begin)
             /\ up' = up \ {p}
             /\ peer' = Dropped(ps, p)
             /\ UNCHANGED <<chain, chainState, mgr, heights, strayed>>
             /\ told' = Overtaken(p)
    /\ UNCHANGED <<tip, events>>

\* handleUpdatePeerHeights of the server, for a goroutine started by
\* handleBlockMsg: the other peers that announced the block have it.
UpdatePeerHeights(u) ==
    /\ u \in heights
    /\ heights' = heights \ {u}
    /\ peer' = [p \in Peer |->
                  IF p # u[2] /\ peer[p].announced = u[1]
                  THEN [SetLast(peer, p, u[1])[p] EXCEPT !.announced = 0]
                  ELSE peer[p]]
    /\ UNCHANGED <<chain, chainState, mgr, up, told, tip, events, strayed>>

\* processBlockMsg: a block submitted by the miner or over RPC.
ProcessBlock ==
    /\ events < MaxUnasked
    /\ chain.best < Chain
    /\ LET b == chain.best + 1 IN
       /\ chain' = [best    |-> Adopted(b),
                    orphans |-> {o \in chain.orphans : o > Adopted(b)}]
       /\ chainState' = UpdateChainState(Adopted(b), b)
    /\ events' = events + 1
    /\ UNCHANGED <<mgr, peer, up, told, tip, heights, strayed>>

-----------------------------------------------------------------------------
NoPeer == [last |-> 0, lastKey |-> 0, requested |-> {}, requestQueue |-> <<>>,
           announced |-> 0, wire |-> <<>>, prevGetBlocks |-> <<>>,
           prevGetHdrs |-> <<>>, continueHash |-> 0]

\* newBlockManager
Init ==
    /\ chain = [best |-> StartHeight, orphans |-> {}]
    /\ chainState = UpdateChainState(StartHeight, StartHeight)
    /\ mgr = ResetHeaders([candidates |-> <<>>, syncPeer |-> Nobody, requested |-> {},
                           ever |-> [b \in Block |-> -1], headersFirst |-> FALSE,
                           headers |-> <<>>, startHeader |-> 0,
                           nextCheckpoint |-> NextCheckpoint(StartHeight)], StartHeight)
    /\ peer = [p \in Peer |-> NoPeer]
    /\ up = {}
    /\ told = [p \in Peer |-> <<>>]
    /\ tip = [p \in Peer |-> -1]
    /\ heights = {}
    /\ events = 0
    /\ strayed = {}

Next ==
    \/ \E p \in Peer : \/ ConnectPeer(p) \/ Disconnect(p) \/ Grow(p)
                       \/ DeliverFrom(p) \/ HandleDonePeer(p)
                       \/ \E b \in Block : SendUnasked(p, b)
    \/ \E u \in heights : UpdatePeerHeights(u)
    \/ ProcessBlock

Spec == Init /\ [][Next]_vars

FairSpec ==
    /\ Spec
    /\ \A p \in Peer : []<>(peer[p].wire = <<>>) \/ []<><<DeliverFrom(p)>>_vars
    /\ \A p \in Peer : WF_vars(HandleDonePeer(p))
    /\ WF_vars(\E u \in heights : UpdatePeerHeights(u))

-----------------------------------------------------------------------------
(* Properties. *)

TypeOK ==
    /\ chain \in [best : 0..Chain, orphans : SUBSET Block]
    /\ chainState \in [newest : 0..Chain, lottery : 0..Chain]
    /\ mgr.syncPeer \in Peer \union {Nobody}
    /\ mgr.requested \subseteq Block
    /\ mgr.ever \in [Block -> -1..(MaxResend + 1)]
    /\ up \subseteq Peer
    /\ tip \in [Peer -> -1..Chain]

\* A message of the peer was handled after its donePeerMsg.
HeardLate(p) == \E i \in 1..(Len(told[p]) - 1) : told[p][i] = "done"

\* The bookkeeping of blockManager agrees with the peers and the chain.  The
\* blocks marked as requested (requestedBlocks) were requested of a peer that
\* is not gone, so that nobody waits for a block that cannot come; the sync
\* peer is not gone; a headers-first download has a sync peer and a checkpoint
\* to end at; and the hash that chainState holds is that of the best block.
\* The first two fail after a message of a peer was handled behind its
\* donePeerMsg, which handleDonePeerMsg does not expect: an inventory message
\* then requests blocks of a closed connection, and a newPeerMsg makes the
\* closed connection the sync peer.
SyncSound ==
    /\ TypeOK
    /\ mgr.headersFirst => mgr.syncPeer # Nobody /\ mgr.nextCheckpoint # 0
    /\ chainState.newest = chain.best
    /\ (\A p \in Peer : ~HeardLate(p)) =>
          /\ \A b \in mgr.requested :
                \E p \in Peer : b \in peer[p].requested /\ "done" \notin ToSet(told[p])
          /\ mgr.syncPeer # Nobody => told[mgr.syncPeer] = <<"new">>

\* The lottery data of chainState (winning tickets, pool size, final state),
\* from which the miner makes the next block, belongs to the block that
\* chainState names as the best one.  The code keeps this only while no orphan
\* connects in the same call of ProcessBlock: handleBlockMsg and
\* processBlockMsg ask for the lottery data of the block they processed, the
\* parent of the orphans.  Any other step restores or keeps the agreement.
LotteryFollows ==
    [][ (chainState' # chainState /\ chainState'.lottery # chainState'.newest)
          => chain.orphans \ chain'.orphans # {} ]_vars

\* The first header of the list is a block that came by other means:
\* fetchHeaderBlocks skips it and nothing removes it from the list.
FirstHeaderKnown ==
    mgr.headersFirst /\ mgr.headers # <<>> /\ HaveBlock(chain, mgr.headers[1])

\* A block was promised by a peer that is gone.
LostWithPeer ==
    \E q \in Peer : /\ "done" \in ToSet(told[q])
                    /\ \E b \in peer[q].requested : ~HaveBlock(chain, b)

\* The download makes progress until the node has the whole chain of its sync
\* peer: if a peer that is current stays connected and stays the sync peer,
\* its chain is downloaded through headers, getdata, getblocks and the
\* continuation inventory, whatever the other peer sends or fails to send.
\* Three cases in which the code stops are excepted by name: the head of
\* headerList is a block that came by other means, a block was requested of a
\* peer that is gone, and the request that continues after a checkpoint went
\* to a peer that is not the sync peer.
SyncCompletes ==
    \A p \in Peer :
       (TipAtFirst[p] >= Fresh /\ <>[](mgr.syncPeer = p /\ p \in up))
          => \/ <>[](chain.best >= tip[p])
             \/ <>[]FirstHeaderKnown
             \/ <>[]LostWithPeer
             \/ <>(strayed # {})
=============================================================================
