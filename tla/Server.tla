------------------------------- MODULE Server -------------------------------
(***************************************************************************)
(* The peers of the server (server.go) on top of the connection manager:   *)
(* from the callback for a new connection, through the version handshake,  *)
(* into the lists of peerHandler and out of them again.                    *)
(*                                                                         *)
(* peerHandler is one goroutine that owns peerState.  Everybody else talks *)
(* to it over channels: the goroutine that runs a peer's handshake sends   *)
(* on newPeers, peerDoneHandler sends on donePeers, a callback that bans   *)
(* sends on banPeers, and RPC handlers send queries.  Every sender is a    *)
(* goroutine of its own and a select takes from any ready channel, so the  *)
(* channels are what their senders wait with: messages may be handled in   *)
(* any order, those that one peer sends on two channels included.          *)
(*                                                                         *)
(* A call of connManager.Disconnect by peerHandler blocks until            *)
(* connHandler, which never waits for peerHandler, takes the message:      *)
(* nobody can see peerState meanwhile and connManager.Stop is called by    *)
(* peerHandler itself, so the call and its effect are one step here.       *)
(***************************************************************************)
EXTENDS ConnManager

CONSTANTS
    Host,           \* network addresses; the host of a peer is one of them
    GroupSize,      \* how many addresses of the network make up a group
    MaxPeers,       \* cfg.MaxPeers
    MaxServerPeers, \* bound on the number of serverPeers made
    MaxQueries      \* bound on the number of RPC commands and bans

ASSUME ServerAssumption ==
    /\ Host \subseteq Nat
    /\ GroupSize \in Nat \ {0}
    /\ MaxPeers \in Nat \ {0}
    /\ MaxServerPeers \in Nat
    /\ MaxQueries \in Nat

VARIABLES
    peers,          \* every serverPeer ever made, by its ID
    listed,         \* the union of inboundPeers, outboundPeers and
                    \* persistentPeers: a peer's flags say which it is in
    outboundGroups, \* state.outboundGroups
    banned,         \* state.banned
    banPeers,       \* peers whose callback is blocked on s.banPeers
    peerHandler,    \* "running" or "done"
    queries,        \* how many commands have been given
    hostOf          \* the address each connection request dials

serverVars == <<peers, listed, outboundGroups, banned, banPeers, peerHandler,
                queries, hostOf>>

vars == <<connVars, serverVars>>

(* addrmgr.GroupKey of a routable IPv4 address: the address is a number    *)
(* and its upper bits are its group.                                       *)
GroupKey(h) == h \div GroupSize

Group == {GroupKey(h) : h \in Host}

PeerIDs == DOMAIN peers

(* A serverPeer.  stage is how far it has come: "new", "version" once      *)
(* VersionKnown holds and OnVersion is sending it on newPeers, "handled"   *)
(* when handleAddPeerMsg has seen it.  connected says whether its          *)
(* connection is up; once it is not, peerDoneHandler sends the peer on     *)
(* donePeers, and done says whether that has been handled.  connReq is 0   *)
(* for an inbound peer.                                                    *)
ServerPeer ==
    [connReq : Nat, conn : Nat, host : Host,
     stage : {"new", "version", "handled"}, connected : BOOLEAN,
     done : BOOLEAN]

Inbound(p) == peers[p].connReq = 0

VersionKnown(p) == peers[p].stage # "new"

persistent(p) == ~ Inbound(p) /\ Permanent(peers[p].connReq)

Running == peerHandler = "running"

TypeOK ==
    /\ ConnTypeOK
    /\ peers \in Seq(ServerPeer)
    /\ listed \subseteq PeerIDs
    /\ outboundGroups \in [Group -> Int]
    /\ banned \subseteq Host
    /\ banPeers \subseteq PeerIDs
    /\ peerHandler \in {"running", "done"}
    /\ queries \in 0..MaxQueries
    /\ hostOf \in Seq(Host)

Init ==
    /\ ConnInit
    /\ peers = <<>>
    /\ listed = {}
    /\ outboundGroups = [g \in Group |-> 0]
    /\ banned = {}
    /\ banPeers = {}
    /\ peerHandler = "running"
    /\ queries = 0
    /\ hostOf = <<>>

-----------------------------------------------------------------------------
(* The life of a peer outside peerHandler.                                 *)

newServerPeer(i, c, h) ==
    [connReq |-> i, conn |-> c, host |-> h, stage |-> "new",
     connected |-> TRUE, done |-> FALSE]

(* connHandler takes a new connection and starts outboundPeerConnected in  *)
(* a goroutine; the peer it makes does nothing before that runs.           *)
outboundPeerConnected(f) ==
    /\ handleConnected(f)
    /\ Len(peers) < MaxServerPeers
    /\ peers' = Append(peers, newServerPeer(f.id, dials', hostOf[f.id]))
    /\ UNCHANGED <<listed, outboundGroups, banned, banPeers, peerHandler,
                   queries, hostOf>>

(* inboundPeerConnected, called by listenHandler until the manager stops. *)
inboundPeerConnected(h) ==
    /\ ~ stop
    /\ Len(peers) < MaxServerPeers
    /\ peers' = Append(peers, newServerPeer(0, 0, h))
    /\ UNCHANGED connVars
    /\ UNCHANGED <<listed, outboundGroups, banned, banPeers, peerHandler,
                   queries, hostOf>>

(* The remote version arrives: VersionKnown becomes true and OnVersion     *)
(* ends with AddPeer.                                                      *)
OnVersion(p) ==
    /\ peers[p].connected
    /\ peers[p].stage = "new"
    /\ peers' = [peers EXCEPT ![p].stage = "version"]
    /\ UNCHANGED connVars
    /\ UNCHANGED <<listed, outboundGroups, banned, banPeers, peerHandler,
                   queries, hostOf>>

(* The connection goes away, by the remote side, an error or a timeout,    *)
(* and WaitForDisconnect returns in peerDoneHandler.                       *)
ConnectionLost(p) ==
    /\ peers[p].connected
    /\ peers' = [peers EXCEPT ![p].connected = FALSE]
    /\ UNCHANGED connVars
    /\ UNCHANGED <<listed, outboundGroups, banned, banPeers, peerHandler,
                   queries, hostOf>>

(* addBanScore passes the threshold in a callback of p, which then blocks  *)
(* on banPeers and disconnects p afterwards.                               *)
addBanScore(p) ==
    /\ peers[p].connected
    /\ VersionKnown(p)
    /\ p \notin banPeers
    /\ queries < MaxQueries
    /\ queries' = queries + 1
    /\ banPeers' = banPeers \cup {p}
    /\ UNCHANGED connVars
    /\ UNCHANGED <<peers, listed, outboundGroups, banned, peerHandler, hostOf>>

-----------------------------------------------------------------------------
(* peerHandler.                                                            *)

GroupCount(p, delta) ==
    [outboundGroups EXCEPT ![GroupKey(peers[p].host)] = @ + delta]

Close(ps) == [p \in PeerIDs |->
                 IF p \in ps THEN [peers[p] EXCEPT !.connected = FALSE]
                             ELSE peers[p]]

(* state.Count() >= cfg.MaxPeers *)
Full == Cardinality(listed) >= MaxPeers

(* handleAddPeerMsg: a banned host and a full server disconnect the peer;  *)
(* whether a ban has expired is a matter of time.  Whether the peer is     *)
(* still connected is not looked at.                                       *)
handleAddPeerMsg(p) ==
    LET h == peers[p].host
        refused == [peers EXCEPT ![p].stage = "handled",
                                 ![p].connected = FALSE]
    IN  /\ Running
        /\ peers[p].stage = "version"
        /\ \/ /\ h \in banned
              /\ peers' = refused
              /\ UNCHANGED <<listed, outboundGroups, banned>>
           \/ /\ banned' = banned \ {h}
              /\ IF Full
                 THEN /\ peers' = refused
                      /\ UNCHANGED <<listed, outboundGroups>>
                 ELSE /\ peers' = [peers EXCEPT ![p].stage = "handled"]
                      /\ listed' = listed \cup {p}
                      /\ outboundGroups' = IF Inbound(p) THEN outboundGroups
                                           ELSE GroupCount(p, 1)
        /\ UNCHANGED connVars
        /\ UNCHANGED <<banPeers, peerHandler, queries, hostOf>>

(* Mutant: the group is counted down for every outbound peer that is done, *)
(* listed or not.                                                          *)
GroupAfterAnyDone(p) ==
    IF ~ Inbound(p) /\ VersionKnown(p)
    THEN GroupCount(p, -1) ELSE outboundGroups

(* outboundGroups after handleDonePeerMsg. *)
GroupAfterDone(p) ==
    IF p \in listed /\ ~ Inbound(p) /\ VersionKnown(p)
    THEN GroupCount(p, -1) ELSE outboundGroups

(* handleDonePeerMsg.  Its last step for a peer that is not listed updates *)
(* the address manager and changes nothing here.                           *)
handleDonePeerMsg(p) ==
    /\ Running
    /\ ~ peers[p].connected
    /\ ~ peers[p].done
    /\ peers' = [peers EXCEPT ![p].done = TRUE]
    /\ outboundGroups' = GroupAfterDone(p)
    /\ listed' = listed \ {p}
    /\ IF Inbound(p) THEN UNCHANGED connVars
       ELSE Disconnect(peers[p].connReq)
    /\ UNCHANGED <<banned, banPeers, peerHandler, queries, hostOf>>

(* handleBanPeerMsg, and the Disconnect that addBanScore makes next. *)
handleBanPeerMsg(p) ==
    /\ Running
    /\ p \in banPeers
    /\ banPeers' = banPeers \ {p}
    /\ banned' = banned \cup {peers[p].host}
    /\ peers' = Close({p})
    /\ UNCHANGED connVars
    /\ UNCHANGED <<listed, outboundGroups, peerHandler, queries, hostOf>>

(* A command that arrives on the channel query. *)
Query == Running /\ queries < MaxQueries /\ queries' = queries + 1

persistentPeers == {p \in listed : persistent(p)}

(* The connectNodeMsg case of handleQuery: refused when the server is full *)
(* or a persistent peer has the address, otherwise a goroutine is started  *)
(* that connects a new request.                                            *)
ConnectNode(h, k) ==
    /\ Query
    /\ ~ Full
    /\ \A p \in persistentPeers : peers[p].host # h
    /\ spawned' = [spawned EXCEPT ![k] = @ + 1]
    /\ UNCHANGED <<connReqs, conns, flows, failedAttempts, dials,
                   connHandler, launched, early, stop>>
    /\ UNCHANGED <<peers, listed, outboundGroups, banned, banPeers,
                   peerHandler, hostOf>>

(* The removeNodeMsg case: one matching persistent peer leaves the list    *)
(* and is disconnected.                                                    *)
RemoveNode(p) ==
    /\ Query
    /\ p \in persistentPeers
    /\ listed' = listed \ {p}
    /\ outboundGroups' = GroupCount(p, -1)
    /\ peers' = Close({p})
    /\ UNCHANGED connVars
    /\ UNCHANGED <<banned, banPeers, peerHandler, hostOf>>

(* The disconnectNodeMsg case: one inbound peer, or every outbound peer of *)
(* the address that is not persistent.                                     *)
DisconnectNode(h) ==
    LET of == {p \in listed : peers[p].host = h}
        inb == {p \in of : Inbound(p)}
        out == {p \in of : ~ Inbound(p) /\ ~ persistent(p)}
    IN  /\ Query
        /\ \/ \E p \in inb :
                /\ listed' = listed \ {p}
                /\ peers' = Close({p})
                /\ UNCHANGED outboundGroups
           \/ /\ inb = {} /\ out # {}
              /\ listed' = listed \ out
              /\ peers' = Close(out)
              /\ outboundGroups' = [outboundGroups EXCEPT
                                        ![GroupKey(h)] = @ - Cardinality(out)]
        /\ UNCHANGED connVars
        /\ UNCHANGED <<banned, banPeers, peerHandler, hostOf>>

(* The end of peerHandler: listed peers are disconnected, the managers are *)
(* stopped and the channels drained.                                       *)
ShutDown ==
    /\ Running
    /\ peerHandler' = "done"
    /\ peers' = Close(listed)
    /\ banPeers' = {}
    /\ Stop
    /\ UNCHANGED <<listed, outboundGroups, banned, queries, hostOf>>

-----------------------------------------------------------------------------

(* A new request dials some host. *)
NewRequest(k) ==
    /\ BeginConnect(k)
    /\ IF connReqs' = connReqs THEN UNCHANGED hostOf
       ELSE \E h \in Host : hostOf' = Append(hostOf, h)
    /\ UNCHANGED <<peers, listed, outboundGroups, banned, banPeers,
                   peerHandler, queries>>

ConnStep ==
    \/ ConnInternal /\ UNCHANGED serverVars
    \/ \E k \in Kind : NewRequest(k)
    \/ \E f \in flows : outboundPeerConnected(f)

(* Peers are followed until the shutdown: nobody reads their state after   *)
(* peerHandler has ended.                                                  *)
PeerStep(p) == Running /\ (OnVersion(p) \/ ConnectionLost(p) \/ addBanScore(p))

HandlerStep(p) ==
    handleAddPeerMsg(p) \/ handleDonePeerMsg(p) \/ handleBanPeerMsg(p)

Next ==
    \/ ConnStep
    \/ \E h \in Host : inboundPeerConnected(h) \/ DisconnectNode(h)
    \/ \E p \in PeerIDs : PeerStep(p) \/ HandlerStep(p) \/ RemoveNode(p)
    \/ \E h \in Host, k \in {"permanent", "once"} : ConnectNode(h, k)
    \/ ShutDown

Spec == Init /\ [][Next]_vars

(* connHandler and peerHandler take the messages that wait for them: a     *)
(* select picks among ready channels at random, so that every sender is    *)
(* served in the end.  Nobody has to connect, to lose a connection or to   *)
(* shut the server down.                                                   *)
Fairness ==
    /\ WF_vars(ConnStep)
    /\ \A p \in 1..MaxServerPeers :
          WF_vars(p \in PeerIDs /\ HandlerStep(p))

FairSpec == Spec /\ Fairness

-----------------------------------------------------------------------------
(* Properties.                                                             *)

(* outboundGroups counts exactly the outbound peers in the lists, however  *)
(* they left them: done, removed, disconnected by RPC, refused.  A count   *)
(* left behind keeps newAddressFunc away from the group for good.          *)
GroupsCountListed ==
    \A g \in Group :
        outboundGroups[g] =
            Cardinality({p \in listed : /\ ~ Inbound(p)
                                        /\ GroupKey(peers[p].host) = g})

(* The lists never hold more than MaxPeers peers. *)
PeerLimit == Cardinality(listed) =< MaxPeers

(* The state of the two handlers fits together. *)
PeerStateConsistent ==
    /\ TypeOK
    /\ OneFlowPerRequest
    /\ StateMatchesConns
    /\ GroupsCountListed
    /\ PeerLimit

(* Handling the disconnection of a peer never takes down a connection      *)
(* other than the peer's own, although a retried permanent request keeps   *)
(* its id: when connHandler looks the id up it finds this peer's           *)
(* connection or none.                                                     *)
DisconnectHitsOwnConn ==
    \A p \in PeerIDs :
        ~ Inbound(p) /\ ~ peers[p].done /\ peers[p].connReq \in Established
            => conns[peers[p].connReq] = peers[p].conn

(* Once the server shuts down the connection manager's handler ends, so    *)
(* that Wait returns.                                                      *)
StopEnds == stop ~> (connHandler = "done")

(* Until the shutdown, the connection of every peer that disconnects is    *)
(* taken out of conns, so that its slot can be used again, and the peer    *)
(* leaves the lists.  A peer whose newPeers message is handled after its   *)
(* donePeers message is the exception: it stays listed for good.           *)
DisconnectsHandled ==
    \A p \in 1..MaxServerPeers :
        /\ (p \in PeerIDs /\ ~ Inbound(p) /\ ~ peers[p].connected)
              ~> (stop \/ /\ p \in PeerIDs
                          /\ \A i \in Established : conns[i] # peers[p].conn)
        /\ (p \in listed /\ ~ peers[p].done /\ ~ peers[p].connected)
              ~> (stop \/ p \notin listed)

(* The two managers agree on the connections there are, and no slot is     *)
(* lost between them.                                                      *)
ServerSound == PeerStateConsistent /\ SlotsKept /\ DisconnectHitsOwnConn

(* Connections that are lost are dealt with, and the shutdown ends.        *)
ConnectionsServed == PermanentKeptBelowTarget /\ StopEnds /\ DisconnectsHandled
=============================================================================
