-------------------------- MODULE StakeNodeProofs ---------------------------
(***************************************************************************)
(* Proofs about StakeNode.  The heart is that disconnectNode inverts       *)
(* connectNode: the flags of an undo entry tell which move made it, so the *)
(* switch of disconnectNode sorts the tickets as the block had moved them  *)
(* and gives each its old value.  This needs that the pools are disjoint   *)
(* and that the flags of every value match its pool, which NodeSound says  *)
(* of a node; Inv says NodeSound of every node along the chain, each with  *)
(* the tickets of its own prefix, so that a disconnected block leaves a    *)
(* sound chain behind.                                                     *)
(***************************************************************************)
EXTENDS StakeNode, FiniteSetTheorems, TLAPS

(* IsTreap as a set. *)
Treaps == UNION {[S -> Value] : S \in SUBSET Ticket}

(* What finalState may be: nothing, or the checksum of a lottery. *)
FinalStates == {NoFinalState} \cup (Blocks \X (SUBSET Ticket) \X Nat)

(* The stake nodes. *)
Nodes ==
    [height : Nat, keyHeight : Nat, liveTickets : Treaps,
     missedTickets : Treaps, revokedTickets : Treaps, undo : Treaps,
     newTickets : SUBSET Ticket, nextWinners : SUBSET Ticket,
     finalState : FinalStates]

(* The flags of a value in each pool. *)
LiveFlags(v) ==
    /\ v.missed = FALSE /\ v.revoked = FALSE
    /\ v.spent = FALSE /\ v.expired = FALSE

(* The flags of a ticket in the missed pool,                               *)
MissedFlags(v) == v.missed = TRUE /\ v.revoked = FALSE /\ v.spent = FALSE

(* in the pool of revoked tickets,                                         *)
RevokedFlags(v) == v.missed = TRUE /\ v.revoked = TRUE /\ v.spent = FALSE

(* and of one that has voted.                                              *)
SpentFlags(v) == v.missed = FALSE /\ v.revoked = FALSE /\ v.spent = TRUE

(* A ticket that missed its vote by expiring,                              *)
ExpiredFlag(v) == v.expired = TRUE

(* or by not voting when it was drawn.                                     *)
NotExpiredFlag(v) == v.expired = FALSE

(* Every value has the flags of its pool.                                  *)
Flags(live, missed, revoked) ==
    /\ \A t \in DOMAIN live : LiveFlags(live[t])
    /\ \A t \in DOMAIN missed : MissedFlags(missed[t])
    /\ \A t \in DOMAIN revoked : RevokedFlags(revoked[t])

(* The pools are disjoint.                                                 *)
Apart(L, M, R) == L \cap M = {} /\ L \cap R = {} /\ M \cap R = {}

(* The stake node n of block b, given the tickets that have matured and the *)
(* tickets that were spent up to and including b.                           *)
NodeSound(b, n, matured, spent) ==
    /\ b \in Blocks
    /\ n \in Nodes
    /\ n.keyHeight = b.keyHeight
    /\ n.height = b.height
    /\ Flags(n.liveTickets, n.missedTickets, n.revokedTickets)
    /\ Apart(DOMAIN n.liveTickets, DOMAIN n.missedTickets,
             DOMAIN n.revokedTickets)
    /\ matured = spent \cup DOMAIN n.liveTickets \cup DOMAIN n.missedTickets
                       \cup DOMAIN n.revokedTickets
    /\ spent \cap (DOMAIN n.liveTickets \cup DOMAIN n.missedTickets
                       \cup DOMAIN n.revokedTickets) = {}
    /\ n.nextWinners \subseteq DOMAIN n.liveTickets
    /\ HasLottery(b) => Cardinality(n.nextWinners) = TicketsPerBlock
    /\ HasLottery(b) => Cardinality(DOMAIN n.liveTickets) >= TicketsPerBlock
    /\ ~ HasLottery(b) => n.nextWinners = {}
    /\ n.finalState = IF HasLottery(b)
                      THEN FinalState(b, n.nextWinners, n.liveTickets)
                      ELSE NoFinalState
    /\ \A t \in DOMAIN n.liveTickets :
          /\ n.liveTickets[t].keyHeight >= StakeEnabledHeight
          /\ n.liveTickets[t].keyHeight =< b.keyHeight
          /\ n.liveTickets[t].keyHeight + TicketExpiry >= RealKeyHeight(b)

(* Block b may follow p, whose stake node is n.                             *)
Follows(p, n, b, winners, matured) ==
    /\ b \in Blocks
    /\ b.height = p.height + 1
    /\ b.keyHeight = RealKeyHeight(p)
    /\ CanConnect(n, b)
    /\ winners \in Lottery(n, b)
    /\ b.newTickets \cap matured = {}
    /\ b.newTickets # {} => b.isKeyBlock /\ Enabled(b)

(* The tickets that block b spends for good. *)
SpentIn(b) == IF b.isKeyBlock THEN b.ticketsSpent ELSE {}

-----------------------------------------------------------------------------

(* Treaps is the set of the functions that are treaps. *)
LEMMA TreapType ==
    ASSUME NEW f
    PROVE  f \in Treaps <=> IsTreap(f)
<1>1. ASSUME f \in Treaps PROVE IsTreap(f)
    <2>1. PICK S \in SUBSET Ticket : f \in [S -> Value]
        BY <1>1 DEF Treaps
    <2>2. DOMAIN f = S
        BY <2>1
    <2> QED BY <2>1, <2>2 DEF IsTreap
<1>2. ASSUME IsTreap(f) PROVE f \in Treaps
    BY <1>2 DEF IsTreap, Treaps
<1> QED BY <1>1, <1>2

(* A function is given by its domain and values.                           *)
IsFcn(f) == f = [x \in DOMAIN f |-> f[x]]

(* Functions with the same domain and values are equal. *)
LEMMA SameFunction ==
    ASSUME NEW f, NEW g, IsFcn(f), IsFcn(g), DOMAIN f = DOMAIN g,
           \A t \in DOMAIN f : f[t] = g[t]
    PROVE  f = g
BY DEF IsFcn

(* The values of With, which puts entries over a treap. *)
LEMMA WithIs ==
    ASSUME NEW t, NEW s
    PROVE  /\ DOMAIN With(t, s) = DOMAIN t \cup DOMAIN s
           /\ \A x \in DOMAIN s : With(t, s)[x] = s[x]
           /\ \A x \in DOMAIN t \ DOMAIN s : With(t, s)[x] = t[x]
           /\ IsFcn(With(t, s))
BY DEF With, IsFcn

(* Key heights are natural numbers, one more after a key block. *)
LEMMA KeyHeights ==
    ASSUME NEW b \in Blocks
    PROVE  /\ RealKeyHeight(b) \in Nat
           /\ RealKeyHeight(b) >= b.keyHeight
           /\ toExpireKeyHeight(b) \in Nat
           /\ b.keyHeight \in Nat
           /\ b.isKeyBlock => RealKeyHeight(b) = b.keyHeight + 1
           /\ ~ b.isKeyBlock => RealKeyHeight(b) = b.keyHeight
BY ParamAssumption DEF Blocks, RealKeyHeight, toExpireKeyHeight

(* Once there is a lottery there is one at every later block. *)
LEMMA Lotteries ==
    ASSUME NEW p \in Blocks, NEW b \in Blocks,
           b.keyHeight = RealKeyHeight(p)
    PROVE  /\ HasLottery(p) => Enabled(b)
           /\ ~ b.isKeyBlock => (HasLottery(b) <=> HasLottery(p))
           /\ HasLottery(p) => HasLottery(b)
           /\ HasLottery(p) <=> b.keyHeight + 1 >= StakeValidationHeight
<1>1. RealKeyHeight(p) \in Nat /\ RealKeyHeight(b) \in Nat
      /\ RealKeyHeight(b) >= b.keyHeight
    BY KeyHeights
<1>2. ~ b.isKeyBlock => RealKeyHeight(b) = b.keyHeight
    BY KeyHeights
<1> QED BY <1>1, <1>2, ParamAssumption DEF HasLottery, Enabled

(* The tickets that block b moves are where it expects them, in disjoint   *)
(* sets.                                                                   *)
LEMMA MovedApart ==
    ASSUME NEW p, NEW n, NEW matured, NEW spent, NEW b, NEW winners,
           NodeSound(p, n, matured, spent),
           Follows(p, n, b, winners, matured)
    PROVE  /\ UsedWinners(n, b) \subseteq DOMAIN n.liveTickets
           /\ Expiring(n, b) \subseteq DOMAIN n.liveTickets
           /\ UsedWinners(n, b) \cap Expiring(n, b) = {}
           /\ Revoking(b) \subseteq DOMAIN n.missedTickets
           /\ b.newTickets \cap DOMAIN n.liveTickets = {}
           /\ b.newTickets \cap DOMAIN n.missedTickets = {}
           /\ b.newTickets \cap DOMAIN n.revokedTickets = {}
           /\ b.newTickets \cap spent = {}
           /\ SpentIn(b) \subseteq UsedWinners(n, b)
           /\ UsedWinners(n, b) \cap b.ticketsSpent = SpentIn(b)
           /\ b.isKeyBlock => UsedWinners(n, b) = n.nextWinners
           /\ ~ b.isKeyBlock => UsedWinners(n, b) = {} /\ Expiring(n, b) = {}
<1>1. UsedWinners(n, b) \subseteq DOMAIN n.liveTickets
    BY DEF NodeSound, UsedWinners
<1>2. Expiring(n, b) \subseteq DOMAIN n.liveTickets
      /\ UsedWinners(n, b) \cap Expiring(n, b) = {}
    BY DEF Expiring
<1>3. Revoking(b) \subseteq DOMAIN n.missedTickets
    BY DEF Revoking, Follows, CanConnect
<1>4. b.newTickets \cap matured = {}
    BY DEF Follows
<1>5. matured = spent \cup DOMAIN n.liveTickets \cup DOMAIN n.missedTickets
                       \cup DOMAIN n.revokedTickets
    BY DEF NodeSound
<1>6. HasLottery(p) => Enabled(b)
    BY Lotteries DEF NodeSound, Follows
<1>7. ~ HasLottery(p) => n.nextWinners = {}
    BY DEF NodeSound
<1>8. b.isKeyBlock => UsedWinners(n, b) = n.nextWinners
    BY <1>6, <1>7 DEF UsedWinners
<1>9. ~ b.isKeyBlock => UsedWinners(n, b) = {} /\ Expiring(n, b) = {}
    BY DEF UsedWinners, Expiring
<1>10. b.ticketsSpent \subseteq n.nextWinners
    BY DEF Follows, CanConnect
<1>11. SpentIn(b) \subseteq UsedWinners(n, b)
       /\ UsedWinners(n, b) \cap b.ticketsSpent = SpentIn(b)
    BY <1>8, <1>9, <1>10 DEF SpentIn
<1> QED BY <1>1, <1>2, <1>3, <1>4, <1>5, <1>8, <1>9, <1>11

(* What a block does to the value of a ticket. *)
Revoked(v) == [v EXCEPT !.revoked = TRUE]

(* What connectNode makes of a value when its ticket expires,              *)
Expired(v) == [v EXCEPT !.missed = TRUE, !.expired = TRUE]

(* misses its vote,                                                        *)
Missed(v) == [v EXCEPT !.spent = FALSE, !.missed = TRUE]

(* or votes,                                                               *)
Spent(v) == [v EXCEPT !.spent = TRUE, !.missed = FALSE]

(* and what disconnectNode makes of the entries for a revoked,             *)
UndoRevoked(v) == [v EXCEPT !.revoked = FALSE]

(* a missed or expired,                                                    *)
UndoMissed(v) == [v EXCEPT !.missed = FALSE, !.expired = FALSE]

(* and a spent ticket.                                                     *)
UndoSpent(v) == [v EXCEPT !.spent = FALSE]

(* The value of a ticket that matures in block b.                          *)
Fresh(b) ==
    [height |-> b.height, keyHeight |-> b.keyHeight, missed |-> FALSE,
     revoked |-> FALSE, spent |-> FALSE, expired |-> FALSE]

(* Undoing a change gives the old value back. *)
LEMMA ValueRevoked ==
    ASSUME NEW v \in Value, MissedFlags(v)
    PROVE  /\ Revoked(v) \in Value
           /\ RevokedFlags(Revoked(v))
           /\ UndoRevoked(Revoked(v)) = v
BY DEF Value, UndoRevoked, Revoked, MissedFlags, RevokedFlags

(* An expired ticket is in the missed pool until it is undone. *)
LEMMA ValueExpired ==
    ASSUME NEW v \in Value, LiveFlags(v)
    PROVE  /\ Expired(v) \in Value
           /\ MissedFlags(Expired(v))
           /\ ExpiredFlag(Expired(v))
           /\ UndoMissed(Expired(v)) = v
BY DEF Value, UndoMissed, ExpiredFlag, Expired, MissedFlags, LiveFlags

(* So is a winner that did not vote. *)
LEMMA ValueMissed ==
    ASSUME NEW v \in Value, LiveFlags(v)
    PROVE  /\ Missed(v) \in Value
           /\ MissedFlags(Missed(v))
           /\ NotExpiredFlag(Missed(v))
           /\ UndoMissed(Missed(v)) = v
BY DEF Value, UndoMissed, NotExpiredFlag, Missed, MissedFlags, LiveFlags

(* A spent ticket is in no pool until it is undone. *)
LEMMA ValueSpent ==
    ASSUME NEW v \in Value, LiveFlags(v)
    PROVE  /\ Spent(v) \in Value
           /\ SpentFlags(Spent(v))
           /\ UndoSpent(Spent(v)) = v
BY DEF Value, UndoSpent, SpentFlags, Spent, LiveFlags

(* A new ticket has the key height of its block and no flag. *)
LEMMA ValueFresh ==
    ASSUME NEW b \in Blocks
    PROVE  /\ Fresh(b) \in Value
           /\ LiveFlags(Fresh(b))
           /\ Fresh(b).keyHeight = b.keyHeight
BY DEF Value, Fresh, LiveFlags, Blocks

(* The value a block gives a ticket, by what happens to the ticket. *)
UndoIs(u, n, b) ==
    /\ DOMAIN u = UsedWinners(n, b) \cup Expiring(n, b) \cup Revoking(b)
                      \cup b.newTickets
    /\ \A t \in b.newTickets : u[t] = Fresh(b)
    /\ \A t \in Revoking(b) : u[t] = Revoked(n.missedTickets[t])
    /\ \A t \in Expiring(n, b) : u[t] = Expired(n.liveTickets[t])
    /\ \A t \in UsedWinners(n, b) \ SpentIn(b) :
          u[t] = Missed(n.liveTickets[t])
    /\ \A t \in SpentIn(b) : u[t] = Spent(n.liveTickets[t])

(* UndoOf gives every ticket the value of its move. *)
LEMMA UndoValues ==
    ASSUME NEW p, NEW n, NEW matured, NEW spent, NEW b, NEW winners,
           NodeSound(p, n, matured, spent),
           Follows(p, n, b, winners, matured)
    PROVE  UndoIs(UndoOf(n, b), n, b)
<1> DEFINE u == UndoOf(n, b)
           W == UsedWinners(n, b)
           E == Expiring(n, b)
           R == Revoking(b)
           L == DOMAIN n.liveTickets
           M == DOMAIN n.missedTickets
<1>1. /\ W \subseteq L /\ E \subseteq L /\ W \cap E = {} /\ R \subseteq M
      /\ b.newTickets \cap L = {} /\ b.newTickets \cap M = {}
      /\ W \cap b.ticketsSpent = SpentIn(b)
    BY MovedApart
<1>2. L \cap M = {}
    BY DEF NodeSound, Apart
<1>6. DOMAIN u = W \cup E \cup R \cup b.newTickets
    BY DEF UndoOf
<1>7. \A t \in b.newTickets : u[t] = Fresh(b)
    BY DEF UndoOf, Fresh
<1>8. \A t \in R : u[t] = Revoked(n.missedTickets[t])
    BY <1>1, <1>2 DEF UndoOf, Revoked
<1>9. \A t \in E : u[t] = Expired(n.liveTickets[t])
    BY <1>1, <1>2 DEF UndoOf, Expired
<1>10. \A t \in W : u[t] = [n.liveTickets[t] EXCEPT
                               !.spent = t \in b.ticketsSpent,
                               !.missed = t \notin b.ticketsSpent]
    BY <1>1, <1>2 DEF UndoOf
<1>11. \A t \in W \ SpentIn(b) : u[t] = Missed(n.liveTickets[t])
    <2> TAKE t \in W \ SpentIn(b)
    <2>1. (t \in b.ticketsSpent) = FALSE /\ (t \notin b.ticketsSpent) = TRUE
        BY <1>1
    <2> QED BY <1>10, <2>1 DEF Missed
<1>12. \A t \in SpentIn(b) : u[t] = Spent(n.liveTickets[t])
    <2> TAKE t \in SpentIn(b)
    <2>1. (t \in b.ticketsSpent) = TRUE /\ (t \notin b.ticketsSpent) = FALSE
          /\ t \in W
        BY <1>1
    <2> QED BY <1>10, <2>1 DEF Spent
<1> HIDE DEF u
<1>15. QED
    BY <1>6, <1>7, <1>8, <1>9, <1>11, <1>12 DEF UndoIs, u

(* The tickets of a sound node have values with the flags of their pool. *)
LEMMA PoolValues ==
    ASSUME NEW p, NEW n, NEW matured, NEW spent,
           NodeSound(p, n, matured, spent)
    PROVE  /\ \A t \in DOMAIN n.liveTickets :
                 n.liveTickets[t] \in Value /\ LiveFlags(n.liveTickets[t])
           /\ \A t \in DOMAIN n.missedTickets :
                 n.missedTickets[t] \in Value /\ MissedFlags(n.missedTickets[t])
           /\ \A t \in DOMAIN n.revokedTickets :
                 /\ n.revokedTickets[t] \in Value
                 /\ RevokedFlags(n.revokedTickets[t])
           /\ DOMAIN n.liveTickets \subseteq Ticket
           /\ DOMAIN n.missedTickets \subseteq Ticket
           /\ DOMAIN n.revokedTickets \subseteq Ticket
           /\ IsFcn(n.liveTickets)
           /\ IsFcn(n.missedTickets)
           /\ IsFcn(n.revokedTickets)
<1>1. /\ n.liveTickets \in Treaps /\ n.missedTickets \in Treaps
      /\ n.revokedTickets \in Treaps
    BY DEF NodeSound, Nodes
<1>2. /\ IsTreap(n.liveTickets) /\ IsTreap(n.missedTickets)
      /\ IsTreap(n.revokedTickets)
    BY <1>1, TreapType
<1>3. Flags(n.liveTickets, n.missedTickets, n.revokedTickets)
    BY DEF NodeSound
<1>4. /\ DOMAIN n.liveTickets \subseteq Ticket
      /\ IsFcn(n.liveTickets)
      /\ \A t \in DOMAIN n.liveTickets : n.liveTickets[t] \in Value
    BY <1>2 DEF IsTreap, IsFcn
<1>5. /\ DOMAIN n.missedTickets \subseteq Ticket
      /\ IsFcn(n.missedTickets)
      /\ \A t \in DOMAIN n.missedTickets : n.missedTickets[t] \in Value
    BY <1>2 DEF IsTreap, IsFcn
<1>6. /\ DOMAIN n.revokedTickets \subseteq Ticket
      /\ IsFcn(n.revokedTickets)
      /\ \A t \in DOMAIN n.revokedTickets : n.revokedTickets[t] \in Value
    BY <1>2 DEF IsTreap, IsFcn
<1> QED BY <1>3, <1>4, <1>5, <1>6 DEF Flags

(* The cases of disconnectNode's switch find the tickets that the block    *)
(* moved, each in the case of its move.                                    *)
UndoCases(u, n, b) ==
    /\ Added(u) = b.newTickets
    /\ WasRevoked(u) = Revoking(b)
    /\ WasMissed(u) = (UsedWinners(n, b) \ SpentIn(b)) \cup Expiring(n, b)
    /\ WasSpent(u) = SpentIn(b)
    /\ {t \in WasMissed(u) : ~ u[t].expired} = UsedWinners(n, b) \ SpentIn(b)

(* The flags of the undo entries, by move. *)
LEMMA UndoFlags ==
    ASSUME NEW p, NEW n, NEW matured, NEW spent, NEW b, NEW winners,
           NodeSound(p, n, matured, spent),
           Follows(p, n, b, winners, matured), NEW u, UndoIs(u, n, b)
    PROVE  /\ \A t \in b.newTickets : u[t] \in Value /\ LiveFlags(u[t])
           /\ \A t \in Revoking(b) : u[t] \in Value /\ RevokedFlags(u[t])
           /\ \A t \in Expiring(n, b) :
                 u[t] \in Value /\ MissedFlags(u[t]) /\ ExpiredFlag(u[t])
           /\ \A t \in UsedWinners(n, b) \ SpentIn(b) :
                 u[t] \in Value /\ MissedFlags(u[t]) /\ NotExpiredFlag(u[t])
           /\ \A t \in SpentIn(b) :
                 u[t] \in Value /\ SpentFlags(u[t])
<1>1. b \in Blocks
    BY DEF Follows
<1>7. /\ Revoking(b) \subseteq DOMAIN n.missedTickets
      /\ Expiring(n, b) \subseteq DOMAIN n.liveTickets
      /\ UsedWinners(n, b) \subseteq DOMAIN n.liveTickets
      /\ SpentIn(b) \subseteq UsedWinners(n, b)
    BY MovedApart
<1>8. /\ \A t \in DOMAIN n.liveTickets :
            n.liveTickets[t] \in Value /\ LiveFlags(n.liveTickets[t])
      /\ \A t \in DOMAIN n.missedTickets :
            n.missedTickets[t] \in Value /\ MissedFlags(n.missedTickets[t])
    BY PoolValues
<1>2. \A t \in b.newTickets : u[t] \in Value /\ LiveFlags(u[t])
    BY <1>1, ValueFresh DEF UndoIs
<1>3. \A t \in Revoking(b) : u[t] \in Value /\ RevokedFlags(u[t])
    BY <1>7, <1>8, ValueRevoked DEF UndoIs
<1>4. \A t \in Expiring(n, b) :
         u[t] \in Value /\ MissedFlags(u[t]) /\ ExpiredFlag(u[t])
    BY <1>7, <1>8, ValueExpired DEF UndoIs
<1>5. \A t \in UsedWinners(n, b) \ SpentIn(b) :
         u[t] \in Value /\ MissedFlags(u[t]) /\ NotExpiredFlag(u[t])
    BY <1>7, <1>8, ValueMissed DEF UndoIs
<1>6. \A t \in SpentIn(b) :
         u[t] \in Value /\ SpentFlags(u[t])
    BY <1>7, <1>8, ValueSpent DEF UndoIs
<1> QED BY <1>2, <1>3, <1>4, <1>5, <1>6

(* The switch of disconnectNode recognises every move. *)
LEMMA UndoSwitch ==
    ASSUME NEW p, NEW n, NEW matured, NEW spent, NEW b, NEW winners,
           NodeSound(p, n, matured, spent),
           Follows(p, n, b, winners, matured), NEW u, UndoIs(u, n, b)
    PROVE  UndoCases(u, n, b) /\ \A t \in DOMAIN u : u[t] \in Value
<1> DEFINE W == UsedWinners(n, b)
           E == Expiring(n, b)
           R == Revoking(b)
           S == SpentIn(b)
<1>1. DOMAIN u = (W \ S) \cup S \cup E \cup R \cup b.newTickets
    BY MovedApart DEF UndoIs
<1>2. /\ \A t \in b.newTickets : u[t] \in Value /\ LiveFlags(u[t])
      /\ \A t \in R : u[t] \in Value /\ RevokedFlags(u[t])
      /\ \A t \in E :
            u[t] \in Value /\ MissedFlags(u[t]) /\ ExpiredFlag(u[t])
      /\ \A t \in W \ S :
            u[t] \in Value /\ MissedFlags(u[t]) /\ NotExpiredFlag(u[t])
      /\ \A t \in S : u[t] \in Value /\ SpentFlags(u[t])
    BY UndoFlags
<1> HIDE DEF W, E, R, S
<1>3. Added(u) = b.newTickets
    BY <1>1, <1>2 DEF Added, LiveFlags, MissedFlags, RevokedFlags,
                       SpentFlags
<1>4. WasRevoked(u) = R
    BY <1>1, <1>2 DEF WasRevoked, LiveFlags, MissedFlags, RevokedFlags,
                       SpentFlags
<1>5. WasMissed(u) = (W \ S) \cup E
    BY <1>1, <1>2 DEF WasMissed, LiveFlags, MissedFlags, RevokedFlags,
                       SpentFlags
<1>6. WasSpent(u) = S
    BY <1>1, <1>2 DEF WasSpent, LiveFlags, MissedFlags, RevokedFlags,
                       SpentFlags
<1>7. {t \in WasMissed(u) : ~ u[t].expired} = W \ S
    BY <1>2, <1>5 DEF ExpiredFlag, NotExpiredFlag
<1>8. \A t \in DOMAIN u : u[t] \in Value
    BY <1>1, <1>2
<1> QED BY <1>3, <1>4, <1>5, <1>6, <1>7, <1>8 DEF UndoCases, W, E, R, S

(* Undoing the entries gives the tickets their old values.                 *)
Undoes(u, n, b) ==
    /\ DOMAIN LiveAgain(u) = UsedWinners(n, b) \cup Expiring(n, b)
    /\ \A t \in DOMAIN LiveAgain(u) : LiveAgain(u)[t] = n.liveTickets[t]
    /\ DOMAIN MissedAgain(u) = Revoking(b)
    /\ \A t \in DOMAIN MissedAgain(u) :
          MissedAgain(u)[t] = n.missedTickets[t]

(* LiveAgain and MissedAgain give the old values back. *)
LEMMA UndoneValues ==
    ASSUME NEW p, NEW n, NEW matured, NEW spent, NEW b, NEW winners,
           NodeSound(p, n, matured, spent),
           Follows(p, n, b, winners, matured), NEW u, UndoIs(u, n, b)
    PROVE  Undoes(u, n, b)
<1> DEFINE W == UsedWinners(n, b)
           E == Expiring(n, b)
           S == SpentIn(b)
<1>1. /\ S \subseteq W /\ W \cap E = {}
      /\ W \subseteq DOMAIN n.liveTickets /\ E \subseteq DOMAIN n.liveTickets
      /\ Revoking(b) \subseteq DOMAIN n.missedTickets
    BY MovedApart
<1>2. /\ WasMissed(u) = (W \ S) \cup E
      /\ WasSpent(u) = S
      /\ WasRevoked(u) = Revoking(b)
    BY UndoSwitch DEF UndoCases
<1>3. \A t \in S : UndoSpent(u[t]) = n.liveTickets[t]
    BY <1>1, PoolValues, ValueSpent DEF UndoIs
<1>4. \A t \in W \ S : UndoMissed(u[t]) = n.liveTickets[t]
    BY <1>1, PoolValues, ValueMissed DEF UndoIs
<1>5. \A t \in E : UndoMissed(u[t]) = n.liveTickets[t]
    BY <1>1, PoolValues, ValueExpired DEF UndoIs
<1>6. \A t \in Revoking(b) : UndoRevoked(u[t]) = n.missedTickets[t]
    BY <1>1, PoolValues, ValueRevoked DEF UndoIs
<1> HIDE DEF W, E, S
<1>7. /\ DOMAIN LiveAgain(u) = W \cup E
      /\ \A t \in W \cup E : LiveAgain(u)[t] = n.liveTickets[t]
    BY <1>1, <1>2, <1>3, <1>4, <1>5 DEF LiveAgain, UndoSpent, UndoMissed
<1>8. /\ DOMAIN MissedAgain(u) = Revoking(b)
      /\ \A t \in Revoking(b) : MissedAgain(u)[t] = n.missedTickets[t]
    BY <1>2, <1>6 DEF MissedAgain, UndoRevoked
<1> QED BY <1>7, <1>8 DEF Undoes, W, E

(* disconnectNode finds every ticket of the undo data where it expects it, *)
(* and puts all of them back.                                              *)
LEMMA Undone ==
    ASSUME NEW p, NEW n, NEW matured, NEW spent, NEW b, NEW winners,
           NodeSound(p, n, matured, spent),
           Follows(p, n, b, winners, matured), NEW u, u = UndoOf(n, b)
    PROVE  /\ With(Minus(LiveAfter(n, b), Added(u)), LiveAgain(u))
                 = n.liveTickets
           /\ With(Minus(MissedAfter(n, b), WasMissed(u)), MissedAgain(u))
                 = n.missedTickets
           /\ Minus(RevokedAfter(n, b), WasRevoked(u)) = n.revokedTickets
<1> DEFINE W == UsedWinners(n, b)
           E == Expiring(n, b)
           R == Revoking(b)
           N == b.newTickets
           S == SpentIn(b)
<1>1. UndoIs(u, n, b)
    BY UndoValues
<1>2. UndoCases(u, n, b)
    BY <1>1, UndoSwitch
<1>3. /\ DOMAIN LiveAgain(u) = W \cup E
      /\ \A t \in W \cup E : LiveAgain(u)[t] = n.liveTickets[t]
      /\ DOMAIN MissedAgain(u) = R
      /\ \A t \in R : MissedAgain(u)[t] = n.missedTickets[t]
    <2>1. Undoes(u, n, b)
        BY <1>1, UndoneValues
    <2> QED BY <2>1 DEF Undoes
<1>4. /\ W \subseteq DOMAIN n.liveTickets /\ E \subseteq DOMAIN n.liveTickets
      /\ R \subseteq DOMAIN n.missedTickets
      /\ N \cap DOMAIN n.liveTickets = {} /\ N \cap DOMAIN n.missedTickets = {}
      /\ W \cap b.ticketsSpent = S
    BY MovedApart
<1>5. /\ DOMAIN n.liveTickets \cap DOMAIN n.missedTickets = {}
      /\ DOMAIN n.missedTickets \cap DOMAIN n.revokedTickets = {}
    BY DEF NodeSound, Apart
<1>6. /\ IsFcn(n.liveTickets)
      /\ IsFcn(n.missedTickets)
      /\ IsFcn(n.revokedTickets)
    BY PoolValues
<1>7. /\ DOMAIN LiveAfter(n, b) = (DOMAIN n.liveTickets \ (W \cup E)) \cup N
      /\ \A t \in DOMAIN n.liveTickets \ (W \cup E) :
            LiveAfter(n, b)[t] = n.liveTickets[t]
    BY <1>4 DEF LiveAfter
<1>8. Missing(n, b) = (W \ S) \cup E
    BY <1>4 DEF Missing
<1>9. /\ DOMAIN MissedAfter(n, b) =
            (DOMAIN n.missedTickets \cup (W \ S) \cup E) \ R
      /\ \A t \in DOMAIN n.missedTickets \ R :
            MissedAfter(n, b)[t] = n.missedTickets[t]
    BY <1>4, <1>5, <1>8 DEF MissedAfter
<1>10. /\ DOMAIN RevokedAfter(n, b) = DOMAIN n.revokedTickets \cup R
       /\ \A t \in DOMAIN n.revokedTickets \ R :
             RevokedAfter(n, b)[t] = n.revokedTickets[t]
    BY DEF RevokedAfter
<1>11. Added(u) = N /\ WasMissed(u) = (W \ S) \cup E /\ WasRevoked(u) = R
    BY <1>2 DEF UndoCases
<1> HIDE DEF W, E, R, N, S
<1>12. With(Minus(LiveAfter(n, b), Added(u)), LiveAgain(u)) = n.liveTickets
    <2> DEFINE m == Minus(LiveAfter(n, b), Added(u))
               w == With(m, LiveAgain(u))
    <2>1. /\ DOMAIN m = DOMAIN n.liveTickets \ (W \cup E)
          /\ \A t \in DOMAIN m : m[t] = n.liveTickets[t]
        BY <1>4, <1>7, <1>11 DEF Minus, IsFcn
    <2>2. /\ DOMAIN LiveAgain(u) = W \cup E
          /\ \A t \in W \cup E : LiveAgain(u)[t] = n.liveTickets[t]
        BY <1>3
    <2> HIDE DEF m
    <2>3. /\ DOMAIN w = DOMAIN m \cup DOMAIN LiveAgain(u)
          /\ \A t \in DOMAIN LiveAgain(u) : w[t] = LiveAgain(u)[t]
          /\ \A t \in DOMAIN m \ DOMAIN LiveAgain(u) : w[t] = m[t]
          /\ IsFcn(w)
        BY WithIs
    <2> HIDE DEF w
    <2>4. /\ DOMAIN w = DOMAIN n.liveTickets
          /\ \A t \in DOMAIN w : w[t] = n.liveTickets[t]
        BY <1>4, <2>1, <2>2, <2>3
    <2>5. w = n.liveTickets
        BY <1>6, <2>3, <2>4, SameFunction
    <2> QED BY <2>5 DEF w, m
<1>13. With(Minus(MissedAfter(n, b), WasMissed(u)), MissedAgain(u))
          = n.missedTickets
    <2> DEFINE m == Minus(MissedAfter(n, b), WasMissed(u))
               w == With(m, MissedAgain(u))
    <2>1. /\ DOMAIN m = DOMAIN n.missedTickets \ R
          /\ \A t \in DOMAIN m : m[t] = n.missedTickets[t]
        BY <1>4, <1>5, <1>9, <1>11 DEF Minus, IsFcn
    <2>2. /\ DOMAIN MissedAgain(u) = R
          /\ \A t \in R : MissedAgain(u)[t] = n.missedTickets[t]
        BY <1>3
    <2> HIDE DEF m
    <2>3. /\ DOMAIN w = DOMAIN m \cup DOMAIN MissedAgain(u)
          /\ \A t \in DOMAIN MissedAgain(u) : w[t] = MissedAgain(u)[t]
          /\ \A t \in DOMAIN m \ DOMAIN MissedAgain(u) : w[t] = m[t]
          /\ IsFcn(w)
        BY WithIs
    <2> HIDE DEF w
    <2>4. /\ DOMAIN w = DOMAIN n.missedTickets
          /\ \A t \in DOMAIN w : w[t] = n.missedTickets[t]
        BY <1>4, <2>1, <2>2, <2>3
    <2>5. w = n.missedTickets
        BY <1>6, <2>3, <2>4, SameFunction
    <2> QED BY <2>5 DEF w, m
<1>14. Minus(RevokedAfter(n, b), WasRevoked(u)) = n.revokedTickets
    <2> DEFINE m == Minus(RevokedAfter(n, b), WasRevoked(u))
    <2>1. /\ DOMAIN m = DOMAIN n.revokedTickets
          /\ \A t \in DOMAIN m : m[t] = n.revokedTickets[t]
          /\ IsFcn(m)
        BY <1>4, <1>5, <1>10, <1>11 DEF Minus, IsFcn
    <2> HIDE DEF m
    <2>2. m = n.revokedTickets
        BY <1>6, <2>1, SameFunction
    <2> QED BY <2>2 DEF m
<1> QED BY <1>12, <1>13, <1>14

(* The pools of the child, ticket by ticket. *)
Pools(n, b) ==
    LET W == UsedWinners(n, b)
        E == Expiring(n, b)
        u == UndoOf(n, b)
    IN  /\ DOMAIN LiveAfter(n, b) =
              (DOMAIN n.liveTickets \ (W \cup E)) \cup b.newTickets
        /\ \A t \in DOMAIN n.liveTickets \ (W \cup E) :
              LiveAfter(n, b)[t] = n.liveTickets[t]
        /\ \A t \in b.newTickets : LiveAfter(n, b)[t] = u[t]
        /\ DOMAIN MissedAfter(n, b) =
              (DOMAIN n.missedTickets \cup (W \ SpentIn(b)) \cup E)
                 \ Revoking(b)
        /\ \A t \in DOMAIN n.missedTickets \ Revoking(b) :
              MissedAfter(n, b)[t] = n.missedTickets[t]
        /\ \A t \in (W \ SpentIn(b)) \cup E : MissedAfter(n, b)[t] = u[t]
        /\ DOMAIN RevokedAfter(n, b) = DOMAIN n.revokedTickets \cup Revoking(b)
        /\ \A t \in DOMAIN n.revokedTickets :
              RevokedAfter(n, b)[t] = n.revokedTickets[t]
        /\ \A t \in Revoking(b) : RevokedAfter(n, b)[t] = u[t]
        /\ IsFcn(LiveAfter(n, b))
        /\ IsFcn(MissedAfter(n, b))
        /\ IsFcn(RevokedAfter(n, b))

(* connectNode moves the tickets from pool to pool. *)
LEMMA PoolsAfter ==
    ASSUME NEW p, NEW n, NEW matured, NEW spent, NEW b, NEW winners,
           NodeSound(p, n, matured, spent),
           Follows(p, n, b, winners, matured)
    PROVE  Pools(n, b)
<1> DEFINE W == UsedWinners(n, b)
           E == Expiring(n, b)
           R == Revoking(b)
           N == b.newTickets
           S == SpentIn(b)
           u == UndoOf(n, b)
<1>1. /\ W \subseteq DOMAIN n.liveTickets /\ E \subseteq DOMAIN n.liveTickets
      /\ R \subseteq DOMAIN n.missedTickets
      /\ N \cap DOMAIN n.liveTickets = {}
      /\ W \cap b.ticketsSpent = S
    BY MovedApart
<1>2. /\ DOMAIN n.liveTickets \cap DOMAIN n.missedTickets = {}
      /\ DOMAIN n.missedTickets \cap DOMAIN n.revokedTickets = {}
    BY DEF NodeSound, Apart
<1>3. Missing(n, b) = (W \ S) \cup E
    BY <1>1 DEF Missing
<1>4. /\ DOMAIN LiveAfter(n, b) = (DOMAIN n.liveTickets \ (W \cup E)) \cup N
      /\ \A t \in DOMAIN n.liveTickets \ (W \cup E) :
            LiveAfter(n, b)[t] = n.liveTickets[t]
      /\ \A t \in N : LiveAfter(n, b)[t] = u[t]
    BY <1>1 DEF LiveAfter
<1>5. /\ DOMAIN MissedAfter(n, b) =
            (DOMAIN n.missedTickets \cup (W \ S) \cup E) \ R
      /\ \A t \in DOMAIN n.missedTickets \ R :
            MissedAfter(n, b)[t] = n.missedTickets[t]
      /\ \A t \in (W \ S) \cup E : MissedAfter(n, b)[t] = u[t]
    BY <1>1, <1>2, <1>3 DEF MissedAfter
<1>6. /\ DOMAIN RevokedAfter(n, b) = DOMAIN n.revokedTickets \cup R
      /\ \A t \in DOMAIN n.revokedTickets :
            RevokedAfter(n, b)[t] = n.revokedTickets[t]
      /\ \A t \in R : RevokedAfter(n, b)[t] = u[t]
    BY <1>1, <1>2 DEF RevokedAfter
<1>7. /\ IsFcn(LiveAfter(n, b)) /\ IsFcn(MissedAfter(n, b))
      /\ IsFcn(RevokedAfter(n, b))
    BY DEF IsFcn, LiveAfter, MissedAfter, RevokedAfter
<1> HIDE DEF W, E, R, N, S, u
<1>8. QED
    BY <1>4, <1>5, <1>6, <1>7 DEF Pools, W, E, R, N, S, u

(* What WriteConnectedBestNode does to the buckets of the parent's pools   *)
(* makes them those of the child.                                          *)
Writes(u, n, b) ==
    /\ With(Minus(n.liveTickets, WasMissed(u) \cup WasSpent(u)),
            Entries(u, Added(u))) = LiveAfter(n, b)
    /\ With(Minus(n.missedTickets, WasRevoked(u)),
            Entries(u, WasMissed(u))) = MissedAfter(n, b)
    /\ With(n.revokedTickets, Entries(u, WasRevoked(u))) = RevokedAfter(n, b)

(* The buckets follow the pools. *)
LEMMA WrittenPools ==
    ASSUME NEW p, NEW n, NEW matured, NEW spent, NEW b, NEW winners,
           NodeSound(p, n, matured, spent),
           Follows(p, n, b, winners, matured), NEW u, u = UndoOf(n, b)
    PROVE  Writes(u, n, b)
<1> DEFINE W == UsedWinners(n, b)
           E == Expiring(n, b)
           R == Revoking(b)
           N == b.newTickets
           S == SpentIn(b)
           L == n.liveTickets
           M == n.missedTickets
           V == n.revokedTickets
<1>1. UndoIs(u, n, b)
    BY UndoValues
<1>2. UndoCases(u, n, b)
    BY <1>1, UndoSwitch
<1>3. DOMAIN u = W \cup E \cup R \cup N
    BY <1>1 DEF UndoIs
<1>4. /\ Added(u) = N /\ WasRevoked(u) = R
      /\ WasMissed(u) = (W \ S) \cup E /\ WasSpent(u) = S
    BY <1>2 DEF UndoCases
<1>5. /\ W \subseteq DOMAIN L /\ E \subseteq DOMAIN L /\ R \subseteq DOMAIN M
      /\ N \cap DOMAIN L = {} /\ N \cap DOMAIN M = {} /\ N \cap DOMAIN V = {}
      /\ S \subseteq W
    BY MovedApart
<1>6. DOMAIN L \cap DOMAIN M = {} /\ DOMAIN M \cap DOMAIN V = {}
    BY DEF NodeSound, Apart
<1>7. Pools(n, b)
    BY PoolsAfter
<1>8. /\ DOMAIN LiveAfter(n, b) = (DOMAIN L \ (W \cup E)) \cup N
      /\ \A t \in DOMAIN L \ (W \cup E) : LiveAfter(n, b)[t] = L[t]
      /\ \A t \in N : LiveAfter(n, b)[t] = u[t]
      /\ IsFcn(LiveAfter(n, b))
    BY <1>7 DEF Pools
<1>9. /\ DOMAIN MissedAfter(n, b) = (DOMAIN M \cup (W \ S) \cup E) \ R
      /\ \A t \in DOMAIN M \ R : MissedAfter(n, b)[t] = M[t]
      /\ \A t \in (W \ S) \cup E : MissedAfter(n, b)[t] = u[t]
      /\ IsFcn(MissedAfter(n, b))
    BY <1>7 DEF Pools
<1>10. /\ DOMAIN RevokedAfter(n, b) = DOMAIN V \cup R
       /\ \A t \in DOMAIN V : RevokedAfter(n, b)[t] = V[t]
       /\ \A t \in R : RevokedAfter(n, b)[t] = u[t]
       /\ IsFcn(RevokedAfter(n, b))
    BY <1>7 DEF Pools
<1> HIDE DEF W, E, R, N, S, L, M, V
<1>12. With(Minus(L, WasMissed(u) \cup WasSpent(u)), Entries(u, Added(u)))
          = LiveAfter(n, b)
    <2> DEFINE w == With(Minus(L, WasMissed(u) \cup WasSpent(u)),
                         Entries(u, Added(u)))
    <2>1. Added(u) \subseteq DOMAIN u
        BY <1>3, <1>4
    <2>2. /\ IsFcn(w)
          /\ DOMAIN w = (DOMAIN L \ (WasMissed(u) \cup WasSpent(u)))
                            \cup Added(u)
          /\ \A x \in Added(u) : w[x] = u[x]
          /\ \A x \in DOMAIN L \ (WasMissed(u) \cup WasSpent(u) \cup Added(u)) :
                w[x] = L[x]
        BY <2>1 DEF With, Minus, Entries, IsFcn
    <2> HIDE DEF w
    <2>3. /\ DOMAIN w = DOMAIN LiveAfter(n, b)
          /\ \A x \in DOMAIN w : w[x] = LiveAfter(n, b)[x]
        BY <1>4, <1>5, <1>8, <2>2
    <2>4. w = LiveAfter(n, b)
        BY <1>8, <2>2, <2>3, SameFunction
    <2> QED BY <2>4 DEF w
<1>13. With(Minus(M, WasRevoked(u)), Entries(u, WasMissed(u)))
          = MissedAfter(n, b)
    <2> DEFINE w == With(Minus(M, WasRevoked(u)), Entries(u, WasMissed(u)))
    <2>1. WasMissed(u) \subseteq DOMAIN u
        BY <1>3, <1>4
    <2>2. /\ IsFcn(w)
          /\ DOMAIN w = (DOMAIN M \ WasRevoked(u)) \cup WasMissed(u)
          /\ \A x \in WasMissed(u) : w[x] = u[x]
          /\ \A x \in DOMAIN M \ (WasRevoked(u) \cup WasMissed(u)) :
                w[x] = M[x]
        BY <2>1 DEF With, Minus, Entries, IsFcn
    <2> HIDE DEF w
    <2>3. /\ DOMAIN w = DOMAIN MissedAfter(n, b)
          /\ \A x \in DOMAIN w : w[x] = MissedAfter(n, b)[x]
        BY <1>4, <1>5, <1>6, <1>9, <2>2
    <2>4. w = MissedAfter(n, b)
        BY <1>9, <2>2, <2>3, SameFunction
    <2> QED BY <2>4 DEF w
<1>14. With(V, Entries(u, WasRevoked(u))) = RevokedAfter(n, b)
    <2> DEFINE w == With(V, Entries(u, WasRevoked(u)))
    <2>1. /\ IsFcn(w)
          /\ DOMAIN w = DOMAIN V \cup R
          /\ \A x \in R : w[x] = u[x]
          /\ \A x \in DOMAIN V \ R : w[x] = V[x]
        BY <1>3, <1>4 DEF With, Entries, IsFcn
    <2> HIDE DEF w
    <2>2. /\ DOMAIN w = DOMAIN RevokedAfter(n, b)
          /\ \A x \in DOMAIN w : w[x] = RevokedAfter(n, b)[x]
        BY <1>10, <2>1
    <2>3. w = RevokedAfter(n, b)
        BY <1>10, <2>1, <2>2, SameFunction
    <2> QED BY <2>3 DEF w
<1>15. QED
    BY <1>12, <1>13, <1>14 DEF Writes, L, M, V

(* A set of tickets is finite. *)
LEMMA FiniteTickets ==
    ASSUME NEW S \in SUBSET Ticket
    PROVE  IsFiniteSet(S) /\ Cardinality(S) \in Nat
BY ParamAssumption, FS_Subset, FS_CardinalityType

(* A function from tickets to values is a treap. *)
LEMMA ValuesMakeTreap ==
    ASSUME NEW f, IsFcn(f), DOMAIN f \subseteq Ticket,
           \A t \in DOMAIN f : f[t] \in Value
    PROVE  f \in Treaps
<1>1. f \in [DOMAIN f -> Value]
    BY DEF IsFcn
<1> QED BY <1>1, TreapType DEF IsTreap

(* The undo data and the pools of the child are treaps, with the flags of  *)
(* their pool, and no ticket is in two pools.                              *)
PoolsFit(n, b, matured, spent) ==
    /\ UndoOf(n, b) \in Treaps
    /\ LiveAfter(n, b) \in Treaps
    /\ MissedAfter(n, b) \in Treaps
    /\ RevokedAfter(n, b) \in Treaps
    /\ Flags(LiveAfter(n, b), MissedAfter(n, b), RevokedAfter(n, b))
    /\ Apart(DOMAIN LiveAfter(n, b), DOMAIN MissedAfter(n, b),
             DOMAIN RevokedAfter(n, b))
    /\ matured \cup b.newTickets =
          spent \cup SpentIn(b) \cup DOMAIN LiveAfter(n, b)
             \cup DOMAIN MissedAfter(n, b) \cup DOMAIN RevokedAfter(n, b)
    /\ (spent \cup SpentIn(b)) \cap
          (DOMAIN LiveAfter(n, b) \cup DOMAIN MissedAfter(n, b)
              \cup DOMAIN RevokedAfter(n, b)) = {}

(* The pools of the child have the right values and share no ticket. *)
LEMMA PoolsAfterFit ==
    ASSUME NEW p, NEW n, NEW matured, NEW spent, NEW b, NEW winners,
           NodeSound(p, n, matured, spent),
           Follows(p, n, b, winners, matured)
    PROVE  PoolsFit(n, b, matured, spent)
<1> DEFINE W == UsedWinners(n, b)
           E == Expiring(n, b)
           R == Revoking(b)
           N == b.newTickets
           S == SpentIn(b)
           u == UndoOf(n, b)
           L == n.liveTickets
           M == n.missedTickets
           V == n.revokedTickets
           L2 == LiveAfter(n, b)
           M2 == MissedAfter(n, b)
           V2 == RevokedAfter(n, b)
<1>1. UndoIs(u, n, b)
    BY UndoValues
<1>2. /\ DOMAIN u = W \cup E \cup R \cup N
      /\ IsFcn(u)
    BY <1>1 DEF UndoIs, UndoOf, IsFcn
<1>3. \A t \in DOMAIN u : u[t] \in Value
    BY <1>1, UndoSwitch
<1>4. /\ \A t \in N : LiveFlags(u[t])
      /\ \A t \in R : RevokedFlags(u[t])
      /\ \A t \in E : MissedFlags(u[t])
      /\ \A t \in W \ S : MissedFlags(u[t])
    BY <1>1, UndoFlags
<1>5. /\ W \subseteq DOMAIN L /\ E \subseteq DOMAIN L /\ R \subseteq DOMAIN M
      /\ N \cap DOMAIN L = {} /\ N \cap DOMAIN M = {} /\ N \cap DOMAIN V = {}
      /\ S \subseteq W /\ N \cap spent = {} /\ W \cap E = {}
    BY MovedApart
<1>6. /\ DOMAIN L \cap DOMAIN M = {} /\ DOMAIN M \cap DOMAIN V = {}
      /\ DOMAIN L \cap DOMAIN V = {}
      /\ matured = spent \cup DOMAIN L \cup DOMAIN M \cup DOMAIN V
      /\ spent \cap (DOMAIN L \cup DOMAIN M \cup DOMAIN V) = {}
    BY DEF NodeSound, Apart
<1>7. /\ \A t \in DOMAIN L : L[t] \in Value /\ LiveFlags(L[t])
      /\ \A t \in DOMAIN M : M[t] \in Value /\ MissedFlags(M[t])
      /\ \A t \in DOMAIN V : V[t] \in Value /\ RevokedFlags(V[t])
      /\ DOMAIN L \subseteq Ticket /\ DOMAIN M \subseteq Ticket
      /\ DOMAIN V \subseteq Ticket
    BY PoolValues
<1>8. N \subseteq Ticket
    BY DEF Follows, Blocks
<1>9. Pools(n, b)
    BY PoolsAfter
<1>10. /\ DOMAIN L2 = (DOMAIN L \ (W \cup E)) \cup N
       /\ \A t \in DOMAIN L \ (W \cup E) : L2[t] = L[t]
       /\ \A t \in N : L2[t] = u[t]
       /\ IsFcn(L2)
    BY <1>9 DEF Pools
<1>11. /\ DOMAIN M2 = (DOMAIN M \cup (W \ S) \cup E) \ R
       /\ \A t \in DOMAIN M \ R : M2[t] = M[t]
       /\ \A t \in (W \ S) \cup E : M2[t] = u[t]
       /\ IsFcn(M2)
    BY <1>9 DEF Pools
<1>12. /\ DOMAIN V2 = DOMAIN V \cup R
       /\ \A t \in DOMAIN V : V2[t] = V[t]
       /\ \A t \in R : V2[t] = u[t]
       /\ IsFcn(V2)
    BY <1>9 DEF Pools
<1> HIDE DEF W, E, R, N, S, u, L, M, V, L2, M2, V2
<1>13. u \in Treaps
    <2>1. DOMAIN u \subseteq Ticket
        BY <1>2, <1>5, <1>7, <1>8
    <2> QED BY <1>2, <1>3, <2>1, ValuesMakeTreap
<1>14. \A t \in DOMAIN L2 : L2[t] \in Value /\ LiveFlags(L2[t])
    BY <1>2, <1>3, <1>4, <1>7, <1>10
<1>15. \A t \in DOMAIN M2 : M2[t] \in Value /\ MissedFlags(M2[t])
    BY <1>2, <1>3, <1>4, <1>7, <1>11
<1>16. \A t \in DOMAIN V2 : V2[t] \in Value /\ RevokedFlags(V2[t])
    BY <1>2, <1>3, <1>4, <1>7, <1>12
<1>17. L2 \in Treaps /\ M2 \in Treaps /\ V2 \in Treaps
    <2>1. /\ DOMAIN L2 \subseteq Ticket /\ DOMAIN M2 \subseteq Ticket
          /\ DOMAIN V2 \subseteq Ticket
        BY <1>5, <1>7, <1>8, <1>10, <1>11, <1>12
    <2>2. L2 \in Treaps
        BY <1>10, <1>14, <2>1, ValuesMakeTreap
    <2>3. M2 \in Treaps
        BY <1>11, <1>15, <2>1, ValuesMakeTreap
    <2>4. V2 \in Treaps
        BY <1>12, <1>16, <2>1, ValuesMakeTreap
    <2> QED BY <2>2, <2>3, <2>4
<1>18. Flags(L2, M2, V2)
    BY <1>14, <1>15, <1>16 DEF Flags
<1>19. Apart(DOMAIN L2, DOMAIN M2, DOMAIN V2)
    BY <1>5, <1>6, <1>10, <1>11, <1>12 DEF Apart
<1>20. matured \cup N = spent \cup S \cup DOMAIN L2 \cup DOMAIN M2
                           \cup DOMAIN V2
    BY <1>5, <1>6, <1>10, <1>11, <1>12
<1>21. (spent \cup S) \cap (DOMAIN L2 \cup DOMAIN M2 \cup DOMAIN V2) = {}
    BY <1>5, <1>6, <1>10, <1>11, <1>12
<1>22. QED
    BY <1>13, <1>17, <1>18, <1>19, <1>20, <1>21
       DEF PoolsFit, N, S, u, L2, M2, V2

(* The winners of the child are live in it, as many as the lottery draws.  *)
LEMMA WinnersAfter ==
    ASSUME NEW p, NEW n, NEW matured, NEW spent, NEW b, NEW winners,
           NodeSound(p, n, matured, spent),
           Follows(p, n, b, winners, matured)
    PROVE  /\ winners \subseteq DOMAIN LiveAfter(n, b)
           /\ HasLottery(b) => Cardinality(winners) = TicketsPerBlock
           /\ HasLottery(b) =>
                 Cardinality(DOMAIN LiveAfter(n, b)) >= TicketsPerBlock
           /\ ~ HasLottery(b) => winners = {}
           /\ ~ b.isKeyBlock => winners = n.nextWinners
<1>1. winners \in Lottery(n, b) /\ p \in Blocks /\ b \in Blocks
      /\ b.keyHeight = RealKeyHeight(p)
    BY DEF Follows, NodeSound
<1>2. ~ b.isKeyBlock => (HasLottery(b) <=> HasLottery(p))
    BY <1>1, Lotteries
<1>3. HasLottery(b) =>
         Cardinality(DOMAIN LiveAfter(n, b)) >= TicketsPerBlock
    BY DEF Follows, CanConnect
<1>4. CASE ~ HasLottery(b)
    <2>1. winners = {}
        BY <1>1, <1>4 DEF Lottery
    <2>2. ~ b.isKeyBlock => n.nextWinners = {}
        BY <1>2, <1>4 DEF NodeSound
    <2> QED BY <1>4, <2>1, <2>2
<1>5. CASE HasLottery(b) /\ ~ b.isKeyBlock
    <2>1. winners = n.nextWinners
        BY <1>1, <1>5 DEF Lottery
    <2>2. /\ Cardinality(n.nextWinners) = TicketsPerBlock
          /\ n.nextWinners \subseteq DOMAIN n.liveTickets
        BY <1>2, <1>5 DEF NodeSound
    <2>3. UsedWinners(n, b) = {} /\ Expiring(n, b) = {}
        BY <1>5, MovedApart
    <2>4. DOMAIN n.liveTickets \subseteq DOMAIN LiveAfter(n, b)
        BY <2>3 DEF LiveAfter
    <2> QED BY <1>3, <1>5, <2>1, <2>2, <2>4
<1>6. CASE HasLottery(b) /\ b.isKeyBlock
    <2>1. winners \in {X \in SUBSET DOMAIN LiveAfter(n, b) :
                          Cardinality(X) = TicketsPerBlock}
        BY <1>1, <1>6 DEF Lottery
    <2> QED BY <1>3, <1>6, <2>1
<1> QED BY <1>4, <1>5, <1>6

(* No live ticket of the child is overdue.                                 *)
LEMMA NoneOverdueAfter ==
    ASSUME NEW p, NEW n, NEW matured, NEW spent, NEW b, NEW winners,
           NodeSound(p, n, matured, spent),
           Follows(p, n, b, winners, matured),
           NEW t \in DOMAIN LiveAfter(n, b)
    PROVE  LET k == LiveAfter(n, b)[t].keyHeight
           IN  /\ k >= StakeEnabledHeight
               /\ k =< b.keyHeight
               /\ k + TicketExpiry >= RealKeyHeight(b)
<1> DEFINE W == UsedWinners(n, b)
           E == Expiring(n, b)
           N == b.newTickets
           L2 == LiveAfter(n, b)
           L == n.liveTickets
<1>1. Pools(n, b)
    BY PoolsAfter
<1>2. /\ DOMAIN L2 = (DOMAIN L \ (W \cup E)) \cup N
      /\ \A x \in DOMAIN L \ (W \cup E) : L2[x] = L[x]
      /\ \A x \in N : L2[x] = UndoOf(n, b)[x]
    BY <1>1 DEF Pools
<1>3. b \in Blocks /\ p \in Blocks /\ b.keyHeight = RealKeyHeight(p)
    BY DEF Follows, NodeSound
<1>4. /\ RealKeyHeight(b) \in Nat /\ b.keyHeight \in Nat /\ p.keyHeight \in Nat
      /\ RealKeyHeight(p) >= p.keyHeight
      /\ b.isKeyBlock => RealKeyHeight(b) = b.keyHeight + 1
      /\ ~ b.isKeyBlock => RealKeyHeight(b) = b.keyHeight
    BY <1>3, KeyHeights
<1>5. CASE t \in N
    <2>1. b.isKeyBlock /\ Enabled(b)
        BY <1>5 DEF Follows
    <2>2. L2[t] = Fresh(b)
        <3>1. UndoIs(UndoOf(n, b), n, b)
            BY UndoValues
        <3>2. UndoOf(n, b)[t] = Fresh(b)
            BY <1>5, <3>1 DEF UndoIs
        <3> QED BY <1>2, <1>5, <3>2
    <2>3. Fresh(b).keyHeight = b.keyHeight
        BY <1>3, ValueFresh
    <2> HIDE DEF L2
    <2>4. L2[t].keyHeight = b.keyHeight
        BY <2>2, <2>3
    <2> QED BY <1>4, <2>1, <2>4, ParamAssumption DEF Enabled, L2
<1>6. CASE t \in DOMAIN L \ (W \cup E)
    <2>1. L2[t] = L[t]
        BY <1>2, <1>6
    <2>2. /\ L[t].keyHeight >= StakeEnabledHeight
          /\ L[t].keyHeight =< p.keyHeight
          /\ L[t].keyHeight + TicketExpiry >= b.keyHeight
        BY <1>3, <1>6 DEF NodeSound
    <2>3. L[t].keyHeight \in Nat
        BY <1>6, PoolValues DEF Value
    <2>4. Enabled(b)
        BY <1>3, <1>4, <2>2, <2>3, ParamAssumption DEF Enabled
    <2>5. b.isKeyBlock => ~ (L[t].keyHeight =< toExpireKeyHeight(b))
        BY <1>6, <2>4 DEF Expiring
    <2>6. L[t].keyHeight + TicketExpiry >= RealKeyHeight(b)
        BY <1>4, <2>2, <2>3, <2>5, ParamAssumption DEF toExpireKeyHeight
    <2> HIDE DEF L, L2
    <2> QED BY <1>3, <1>4, <2>1, <2>2, <2>3, <2>6, ParamAssumption DEF L2
<1> QED BY <1>2, <1>5, <1>6

(* connectNode makes a sound node of a sound node.                         *)
LEMMA ConnectedSound ==
    ASSUME NEW p, NEW n, NEW matured, NEW spent, NEW b, NEW winners,
           NodeSound(p, n, matured, spent),
           Follows(p, n, b, winners, matured)
    PROVE  NodeSound(b, connectNode(n, b, winners),
                     matured \cup b.newTickets, spent \cup SpentIn(b))
<1> DEFINE L2 == LiveAfter(n, b)
           M2 == MissedAfter(n, b)
           V2 == RevokedAfter(n, b)
           u == UndoOf(n, b)
           fs == IF HasLottery(b) THEN FinalState(b, winners, L2)
                                  ELSE NoFinalState
           c == connectNode(n, b, winners)
<1>1. b \in Blocks /\ b.height = p.height + 1 /\ p \in Blocks
      /\ n \in Nodes /\ n.height = p.height
    BY DEF Follows, NodeSound
<1>2. b.height \in Nat /\ b.keyHeight \in Nat /\ b.newTickets \in SUBSET Ticket
      /\ n.height \in Nat
    BY <1>1 DEF Blocks, Nodes
<1>3. PoolsFit(n, b, matured, spent)
    BY PoolsAfterFit
<1>4. /\ u \in Treaps /\ L2 \in Treaps /\ M2 \in Treaps /\ V2 \in Treaps
      /\ Flags(L2, M2, V2)
      /\ Apart(DOMAIN L2, DOMAIN M2, DOMAIN V2)
      /\ matured \cup b.newTickets = spent \cup SpentIn(b) \cup DOMAIN L2
                                        \cup DOMAIN M2 \cup DOMAIN V2
      /\ (spent \cup SpentIn(b)) \cap (DOMAIN L2 \cup DOMAIN M2 \cup DOMAIN V2)
            = {}
    BY <1>3 DEF PoolsFit
<1>5. /\ winners \subseteq DOMAIN L2
      /\ HasLottery(b) => Cardinality(winners) = TicketsPerBlock
      /\ HasLottery(b) => Cardinality(DOMAIN L2) >= TicketsPerBlock
      /\ ~ HasLottery(b) => winners = {}
    BY WinnersAfter
<1>6. \A t \in DOMAIN L2 : /\ L2[t].keyHeight >= StakeEnabledHeight
                           /\ L2[t].keyHeight =< b.keyHeight
                           /\ L2[t].keyHeight + TicketExpiry >= RealKeyHeight(b)
    BY NoneOverdueAfter
<1>7. DOMAIN L2 \in SUBSET Ticket /\ winners \in SUBSET Ticket
    BY <1>4, <1>5, TreapType DEF IsTreap
<1>8. fs \in FinalStates
    <2>1. Cardinality(DOMAIN L2) \in Nat
        BY <1>7, FiniteTickets
    <2> HIDE DEF L2
    <2> QED BY <1>1, <1>7, <2>1 DEF FinalStates, FinalState
<1>9. /\ c.height = b.height /\ c.keyHeight = b.keyHeight
      /\ c.liveTickets = L2 /\ c.missedTickets = M2 /\ c.revokedTickets = V2
      /\ c.nextWinners = winners /\ c.finalState = fs
    BY <1>1 DEF connectNode
<1>10. c \in Nodes
    <2>1. c = [height |-> n.height + 1, keyHeight |-> b.keyHeight,
               liveTickets |-> L2, missedTickets |-> M2,
               revokedTickets |-> V2, undo |-> u,
               newTickets |-> b.newTickets, nextWinners |-> winners,
               finalState |-> fs]
        BY DEF connectNode
    <2>2. n.height + 1 \in Nat
        BY <1>2
    <2> HIDE DEF c, L2, M2, V2, u, fs
    <2> QED BY <1>2, <1>4, <1>7, <1>8, <2>1, <2>2 DEF Nodes
<1> HIDE DEF c, L2, M2, V2, u
<1> QED
    BY <1>1, <1>4, <1>5, <1>6, <1>9, <1>10 DEF NodeSound, c

(* disconnectNode inverts connectNode.                                     *)
Inverted(p, n, b, w) ==
    disconnectNode(connectNode(n, b, w), b, p, n.undo, n.newTickets) = n

(* The proof goes field by field. *)
LEMMA DisconnectInverts ==
    ASSUME NEW p, NEW n, NEW matured, NEW spent, NEW b, NEW winners,
           NodeSound(p, n, matured, spent),
           Follows(p, n, b, winners, matured),
           p.height = 0 => n = genesisNode
    PROVE  Inverted(p, n, b, winners)
<1> DEFINE u == UndoOf(n, b)
           c == connectNode(n, b, winners)
           live == With(Minus(c.liveTickets, Added(u)), LiveAgain(u))
           won == IF b.isKeyBlock
                  THEN {t \in WasMissed(u) : ~ u[t].expired} \cup WasSpent(u)
                  ELSE c.nextWinners
<1>1. /\ c.height = n.height + 1 /\ c.keyHeight = b.keyHeight
      /\ c.liveTickets = LiveAfter(n, b) /\ c.missedTickets = MissedAfter(n, b)
      /\ c.revokedTickets = RevokedAfter(n, b) /\ c.undo = u
      /\ c.nextWinners = winners
    BY DEF connectNode
<1>2. /\ n \in Nodes /\ n.height = p.height /\ n.keyHeight = p.keyHeight
      /\ p \in Blocks /\ b \in Blocks /\ b.keyHeight = RealKeyHeight(p)
      /\ n.height \in Nat
    BY DEF NodeSound, Follows, Nodes
<1>3. live = n.liveTickets
    BY <1>1, Undone
<1>4. With(Minus(c.missedTickets, WasMissed(u)), MissedAgain(u))
         = n.missedTickets
    BY <1>1, Undone
<1>5. Minus(c.revokedTickets, WasRevoked(u)) = n.revokedTickets
    BY <1>1, Undone
<1>6. won = n.nextWinners
    <2>1. UndoCases(u, n, b)
        BY UndoValues, UndoSwitch
    <2>2. /\ WasSpent(u) = SpentIn(b)
          /\ {t \in WasMissed(u) : ~ u[t].expired}
                = UsedWinners(n, b) \ SpentIn(b)
        BY <2>1 DEF UndoCases
    <2>3. /\ b.isKeyBlock => UsedWinners(n, b) = n.nextWinners
          /\ SpentIn(b) \subseteq UsedWinners(n, b)
        BY MovedApart
    <2>4. ~ b.isKeyBlock => winners = n.nextWinners
        BY WinnersAfter
    <2> HIDE DEF u, c
    <2>5. CASE b.isKeyBlock
        <3> DEFINE missed == {t \in WasMissed(u) : ~ u[t].expired}
        <3>1. won = missed \cup WasSpent(u)
            BY <2>5
        <3>2. missed = UsedWinners(n, b) \ SpentIn(b)
            BY <2>2
        <3> HIDE DEF missed, won
        <3> QED BY <2>2, <2>3, <2>5, <3>1, <3>2
    <2>6. CASE ~ b.isKeyBlock
        BY <1>1, <2>4, <2>6
    <2> QED BY <2>5, <2>6
<1>7. n.finalState = IF c.keyHeight + 1 >= StakeValidationHeight
                     THEN FinalState(p, won, live) ELSE NoFinalState
    <2>1. HasLottery(p) <=> b.keyHeight + 1 >= StakeValidationHeight
        BY <1>2, Lotteries
    <2>2. n.finalState = IF HasLottery(p)
                         THEN FinalState(p, n.nextWinners, n.liveTickets)
                         ELSE NoFinalState
        BY DEF NodeSound
    <2> HIDE DEF won, live, c
    <2> QED BY <1>1, <1>3, <1>6, <2>1, <2>2
<1> DEFINE d == disconnectNode(c, b, p, n.undo, n.newTickets)
<1>8. CASE p.height = 0
    <2>1. c.height = 1
        BY <1>1, <1>2, <1>8
    <2> HIDE DEF c
    <2>2. d = genesisNode
        BY <2>1 DEF disconnectNode
    <2> QED BY <1>8, <2>2 DEF c, Inverted
<1>9. CASE p.height # 0
    <2>1. c.height # 1 /\ c.height - 1 = n.height
        BY <1>1, <1>2, <1>9
    <2> DEFINE fs == IF c.keyHeight + 1 >= StakeValidationHeight
                     THEN FinalState(p, won, live) ELSE NoFinalState
               mt == With(Minus(c.missedTickets, WasMissed(u)), MissedAgain(u))
               rt == Minus(c.revokedTickets, WasRevoked(u))
    <2>2. d = [height |-> c.height - 1, keyHeight |-> p.keyHeight,
               liveTickets |-> live, missedTickets |-> mt,
               revokedTickets |-> rt, undo |-> n.undo,
               newTickets |-> n.newTickets, nextWinners |-> won,
               finalState |-> fs]
        <3> HIDE DEF c, u
        <3> QED BY <1>1, <2>1 DEF disconnectNode
    <2>3. mt = n.missedTickets /\ rt = n.revokedTickets /\ fs = n.finalState
        BY <1>4, <1>5, <1>7
    <2> HIDE DEF d, fs, mt, rt, live, won, c, u
    <2>4. d = [height |-> n.height, keyHeight |-> n.keyHeight,
               liveTickets |-> n.liveTickets,
               missedTickets |-> n.missedTickets,
               revokedTickets |-> n.revokedTickets, undo |-> n.undo,
               newTickets |-> n.newTickets, nextWinners |-> n.nextWinners,
               finalState |-> n.finalState]
        BY <1>2, <1>3, <1>6, <2>1, <2>2, <2>3
    <2>5. n = [height |-> n.height, keyHeight |-> n.keyHeight,
               liveTickets |-> n.liveTickets,
               missedTickets |-> n.missedTickets,
               revokedTickets |-> n.revokedTickets, undo |-> n.undo,
               newTickets |-> n.newTickets, nextWinners |-> n.nextWinners,
               finalState |-> n.finalState]
        BY <1>2 DEF Nodes
    <2> QED BY <2>4, <2>5 DEF d, c, Inverted
<1> QED BY <1>8, <1>9 DEF Inverted

(* disconnectNode reports no error.                                        *)
LEMMA CanUndo ==
    ASSUME NEW p, NEW n, NEW matured, NEW spent, NEW b, NEW winners,
           NodeSound(p, n, matured, spent),
           Follows(p, n, b, winners, matured)
    PROVE  CanDisconnect(connectNode(n, b, winners))
<1> DEFINE u == UndoOf(n, b)
           c == connectNode(n, b, winners)
           W == UsedWinners(n, b)
           E == Expiring(n, b)
           R == Revoking(b)
           S == SpentIn(b)
           L == DOMAIN n.liveTickets
           M == DOMAIN n.missedTickets
           V == DOMAIN n.revokedTickets
<1>1. /\ c.liveTickets = LiveAfter(n, b) /\ c.missedTickets = MissedAfter(n, b)
      /\ c.revokedTickets = RevokedAfter(n, b) /\ c.undo = u
    BY DEF connectNode
<1>2. UndoIs(u, n, b) /\ UndoCases(u, n, b)
    BY UndoValues, UndoSwitch
<1>3. /\ Added(u) = b.newTickets /\ WasRevoked(u) = R /\ WasSpent(u) = S
      /\ WasMissed(u) = (W \ S) \cup E
      /\ DOMAIN u = W \cup E \cup R \cup b.newTickets
    BY <1>2 DEF UndoCases, UndoIs
<1>4. Pools(n, b)
    BY PoolsAfter
<1>5. /\ DOMAIN c.liveTickets = (L \ (W \cup E)) \cup b.newTickets
      /\ DOMAIN c.missedTickets = (M \cup (W \ S) \cup E) \ R
      /\ DOMAIN c.revokedTickets = V \cup R
    BY <1>1, <1>4 DEF Pools
<1>6. /\ W \subseteq L /\ E \subseteq L /\ R \subseteq M /\ S \subseteq W
      /\ b.newTickets \cap L = {}
    BY MovedApart
<1>7. L \cap M = {}
    BY DEF NodeSound, Apart
<1> HIDE DEF u, c, W, E, R, S, L, M, V
<1>8. /\ Added(u) \subseteq DOMAIN c.liveTickets
      /\ WasRevoked(u) \subseteq DOMAIN c.revokedTickets
      /\ WasRevoked(u) \cap DOMAIN c.missedTickets = {}
      /\ WasMissed(u) \subseteq DOMAIN c.missedTickets
      /\ (WasMissed(u) \cup WasSpent(u)) \cap DOMAIN c.liveTickets = {}
      /\ DOMAIN u = Added(u) \cup WasRevoked(u) \cup WasMissed(u)
                        \cup WasSpent(u)
    BY <1>3, <1>5, <1>6, <1>7
<1>9. CanDisconnect(c)
    BY <1>1, <1>8 DEF CanDisconnect
<1> QED BY <1>9 DEF c

-----------------------------------------------------------------------------
(* The invariant: along the whole chain, each node is the one connectNode  *)
(* made of its parent's, and is sound for the tickets of its prefix.       *)

(* The tickets that have matured in the first k blocks,                    *)
MaturedTo(c, k) == UNION {c[i].block.newTickets : i \in 1..k}

(* and those that have voted in them.                                      *)
SpentTo(c, k) == UNION {SpentIn(c[i].block) : i \in 1..k}

(* A block with its stake node.                                            *)
Entry == [block : Blocks, node : Nodes]

(* The node of the k-th block is sound.                                    *)
Sound(c, k) ==
    /\ NodeSound(c[k].block, c[k].node, MaturedTo(c, k), SpentTo(c, k))
    /\ c[k].block.height = k - 1

(* It comes from the node before it by connectNode.                        *)
Linked(c, k) ==
    \E w : /\ Follows(c[k - 1].block, c[k - 1].node, c[k].block, w,
                      MaturedTo(c, k - 1))
           /\ c[k].node = connectNode(c[k - 1].node, c[k].block, w)

(* No ticket votes twice.                                                  *)
SpentOnce(c) ==
    \A i, j \in 1..Len(c) :
        i # j => SpentIn(c[i].block) \cap SpentIn(c[j].block) = {}

(* What holds along the chain.                                             *)
ChainInv(c) ==
    /\ c \in Seq(Entry)
    /\ Len(c) >= 1
    /\ c[1] = [block |-> GenesisBlock, node |-> genesisNode]
    /\ \A k \in 1..Len(c) : Sound(c, k)
    /\ \A k \in 2..Len(c) : Linked(c, k)
    /\ SpentOnce(c)

(* The inductive invariant: the chain, the node in memory and the          *)
(* database.                                                               *)
Inv ==
    /\ ChainInv(chain)
    /\ BestIsConnected
    /\ DatabaseMatches
    /\ db.state = BestState(Tip, best)
    /\ fetched \in Nat

(* What depends on a prefix of the chain only.                             *)
SameTo(c, d, k) == \A i \in 1..k : c[i] = d[i]

(* Chains that agree up to k have the same tickets and links up to k. *)
LEMMA PrefixSame ==
    ASSUME NEW c, NEW d, NEW k \in Nat, SameTo(c, d, k), NEW i \in 1..k
    PROVE  /\ MaturedTo(c, i) = MaturedTo(d, i)
           /\ SpentTo(c, i) = SpentTo(d, i)
           /\ Sound(c, i) <=> Sound(d, i)
           /\ i > 1 => (Linked(c, i) <=> Linked(d, i))
<1>1. \A j \in 1..i : j \in 1..k /\ c[j] = d[j]
    BY DEF SameTo
<1>2. ASSUME NEW j \in 1..i
      PROVE  MaturedTo(c, j) = MaturedTo(d, j) /\ SpentTo(c, j) = SpentTo(d, j)
    <2>1. \A m \in 1..j : c[m] = d[m]
        BY <1>1
    <2> QED BY <2>1 DEF MaturedTo, SpentTo
<1>3. i \in 1..i
    OBVIOUS
<1>4. c[i] = d[i]
    BY <1>1, <1>3
<1>5. Sound(c, i) <=> Sound(d, i)
    BY <1>2, <1>3, <1>4 DEF Sound
<1>6. ASSUME i > 1
      PROVE  Linked(c, i) <=> Linked(d, i)
    <2>1. i - 1 \in 1..i
        BY <1>6
    <2>2. c[i - 1] = d[i - 1] /\ MaturedTo(c, i - 1) = MaturedTo(d, i - 1)
        BY <1>1, <1>2, <2>1
    <2> QED BY <1>4, <2>2 DEF Linked
<1> QED BY <1>2, <1>3, <1>5, <1>6

(* One more block adds its tickets. *)
LEMMA NextPrefix ==
    ASSUME NEW c, NEW k \in Nat
    PROVE  /\ MaturedTo(c, k + 1) = MaturedTo(c, k) \cup c[k + 1].block.newTickets
           /\ SpentTo(c, k + 1) = SpentTo(c, k) \cup SpentIn(c[k + 1].block)
<1>1. 1..(k + 1) = (1..k) \cup {k + 1}
    OBVIOUS
<1> QED BY <1>1 DEF MaturedTo, SpentTo

(* A sound chain with a block that may follow its last one.                *)
LEMMA ChainGrows ==
    ASSUME NEW c, ChainInv(c), NEW b, NEW w,
           Follows(c[Len(c)].block, c[Len(c)].node, b, w,
                   MaturedTo(c, Len(c)))
    PROVE  ChainInv(Append(c, [block |-> b,
                               node |-> connectNode(c[Len(c)].node, b, w)]))
<1> DEFINE k == Len(c)
           n == connectNode(c[k].node, b, w)
           r == [block |-> b, node |-> n]
           d == Append(c, r)
<1>1. c \in Seq(Entry) /\ k \in Nat /\ k >= 1 /\ Sound(c, k)
    BY DEF ChainInv
<1>2. NodeSound(c[k].block, c[k].node, MaturedTo(c, k), SpentTo(c, k))
      /\ c[k].block.height = k - 1
    BY <1>1 DEF Sound
<1>3. NodeSound(b, n, MaturedTo(c, k) \cup b.newTickets,
                SpentTo(c, k) \cup SpentIn(b))
    BY <1>2, ConnectedSound
<1>4. b \in Blocks /\ n \in Nodes
    BY <1>3 DEF NodeSound
<1> HIDE DEF n
<1>5. /\ r \in Entry /\ r.block = b /\ r.node = n
    BY <1>4 DEF Entry
<1> HIDE DEF r
<1>6. /\ d \in Seq(Entry) /\ Len(d) = k + 1 /\ d[k + 1] = r
      /\ \A i \in 1..k : d[i] = c[i]
    BY <1>1, <1>5
<1> HIDE DEF d
<1>7. SameTo(d, c, k)
    BY <1>6 DEF SameTo
<1>8. /\ MaturedTo(d, k) = MaturedTo(c, k) /\ SpentTo(d, k) = SpentTo(c, k)
    BY <1>1, <1>7, PrefixSame
<1>9. \A i \in 1..Len(d) : Sound(d, i)
    <2> SUFFICES ASSUME NEW i \in 1..Len(d) PROVE Sound(d, i)
        OBVIOUS
    <2>1. CASE i \in 1..k
        BY <1>1, <1>7, <2>1, PrefixSame DEF ChainInv
    <2>2. CASE i = k + 1
        <3>1. /\ MaturedTo(d, i) = MaturedTo(c, k) \cup b.newTickets
              /\ SpentTo(d, i) = SpentTo(c, k) \cup SpentIn(b)
            BY <1>1, <1>5, <1>6, <1>8, <2>2, NextPrefix
        <3>2. b.height = i - 1
            BY <1>1, <1>2, <2>2 DEF Follows
        <3> QED BY <1>3, <1>5, <1>6, <2>2, <3>1, <3>2 DEF Sound
    <2> QED BY <1>1, <1>6, <2>1, <2>2
<1>10. \A i \in 2..Len(d) : Linked(d, i)
    <2> SUFFICES ASSUME NEW i \in 2..Len(d) PROVE Linked(d, i)
        OBVIOUS
    <2>1. CASE i \in 2..k
        <3>1. Linked(c, i) /\ i \in 1..k /\ i > 1
            BY <2>1 DEF ChainInv
        <3> QED BY <1>1, <1>7, <3>1, PrefixSame
    <2>2. CASE i = k + 1
        <3>1. i - 1 = k /\ d[i - 1] = c[k] /\ d[i] = r
            BY <1>1, <1>6, <2>2
        <3> QED BY <1>5, <1>8, <3>1 DEF Linked, n
    <2> QED BY <1>1, <1>6, <2>1, <2>2
<1>11. SpentOnce(d)
    <2>1. SpentIn(b) \subseteq DOMAIN c[k].node.liveTickets
        BY <1>2, MovedApart
    <2>2. SpentTo(c, k) \cap DOMAIN c[k].node.liveTickets = {}
        BY <1>2 DEF NodeSound
    <2>3. \A i \in 1..k : SpentIn(c[i].block) \cap SpentIn(b) = {}
        BY <2>1, <2>2 DEF SpentTo
    <2>4. SpentOnce(c)
        BY DEF ChainInv
    <2>5. \A i \in 1..Len(d) : i \in 1..k \/ i = k + 1
        BY <1>1, <1>6
    <2> QED BY <1>5, <1>6, <2>3, <2>4, <2>5 DEF SpentOnce
<1>12. d[1] = [block |-> GenesisBlock, node |-> genesisNode]
    BY <1>1, <1>6 DEF ChainInv
<1>13. ChainInv(d)
    BY <1>1, <1>6, <1>9, <1>10, <1>11, <1>12 DEF ChainInv
<1> QED BY <1>13 DEF d, r, n

(* A sound chain without its last block.                                   *)
LEMMA ChainShrinks ==
    ASSUME NEW c, ChainInv(c), Len(c) > 1
    PROVE  ChainInv(SubSeq(c, 1, Len(c) - 1))
<1> DEFINE k == Len(c) - 1
           d == SubSeq(c, 1, k)
<1>1. c \in Seq(Entry) /\ k \in Nat /\ k >= 1 /\ Len(c) = k + 1
    BY DEF ChainInv
<1>2. /\ d \in Seq(Entry) /\ Len(d) = k /\ \A i \in 1..k : d[i] = c[i]
    BY <1>1
<1> HIDE DEF d
<1>3. SameTo(d, c, k)
    BY <1>2 DEF SameTo
<1>4. \A i \in 1..k : Sound(d, i)
    <2> TAKE i \in 1..k
    <2>1. Sound(c, i)
        BY <1>1 DEF ChainInv
    <2> QED BY <1>1, <1>3, <2>1, PrefixSame
<1>5. \A i \in 2..k : Linked(d, i)
    <2> TAKE i \in 2..k
    <2>1. Linked(c, i) /\ i \in 1..k /\ i > 1
        BY <1>1 DEF ChainInv
    <2> QED BY <1>1, <1>3, <2>1, PrefixSame
<1>6. SpentOnce(d)
    <2>1. SpentOnce(c)
        BY DEF ChainInv
    <2>2. \A i \in 1..k : i \in 1..Len(c)
        BY <1>1
    <2> HIDE DEF k
    <2> QED BY <1>2, <2>1, <2>2 DEF SpentOnce
<1>7. ChainInv(d)
    BY <1>1, <1>2, <1>4, <1>5, <1>6 DEF ChainInv
<1> QED BY <1>7 DEF d

-----------------------------------------------------------------------------
(* The invariant holds initially.                                          *)

(* The genesis node is sound. *)
LEMMA GenesisSound ==
    /\ GenesisBlock \in Blocks
    /\ genesisNode \in Nodes
    /\ NodeSound(GenesisBlock, genesisNode, {}, {})
<1>1. GenesisBlock \in Blocks
    BY DEF GenesisBlock, Blocks
<1>2. EmptyTreap \in Treaps /\ DOMAIN EmptyTreap = {}
    <2>1. IsFcn(EmptyTreap) /\ DOMAIN EmptyTreap = {}
        BY DEF IsFcn, EmptyTreap
    <2> QED BY <2>1, ValuesMakeTreap
<1>3. genesisNode \in Nodes
    BY <1>2 DEF genesisNode, Nodes, FinalStates
<1>4. ~ HasLottery(GenesisBlock)
    BY ParamAssumption DEF HasLottery, RealKeyHeight, GenesisBlock
<1>5. NodeSound(GenesisBlock, genesisNode, {}, {})
    <2>1. /\ genesisNode.keyHeight = GenesisBlock.keyHeight
          /\ genesisNode.height = GenesisBlock.height
          /\ genesisNode.finalState = NoFinalState
          /\ genesisNode.nextWinners = {}
          /\ DOMAIN genesisNode.liveTickets = {}
          /\ DOMAIN genesisNode.missedTickets = {}
          /\ DOMAIN genesisNode.revokedTickets = {}
        BY <1>2 DEF genesisNode, GenesisBlock
    <2>2. Flags(genesisNode.liveTickets, genesisNode.missedTickets,
                genesisNode.revokedTickets)
        BY <2>1 DEF Flags
    <2> QED BY <1>1, <1>3, <1>4, <2>1, <2>2 DEF NodeSound, Apart
<1> QED BY <1>1, <1>3, <1>5

(* The invariant holds of the genesis block and a new database. *)
LEMMA InitInv == Init => Inv
<1> SUFFICES ASSUME Init PROVE Inv
    OBVIOUS
<1> DEFINE r == [block |-> GenesisBlock, node |-> genesisNode]
<1>1. chain = <<r>> /\ best = genesisNode /\ fetched = 0
      /\ db = InitDatabaseState
    BY DEF Init
<1>2. r \in Entry /\ r.block = GenesisBlock /\ r.node = genesisNode
    BY GenesisSound DEF Entry
<1> HIDE DEF r
<1>3. chain \in Seq(Entry) /\ Len(chain) = 1 /\ chain[1] = r
    BY <1>1, <1>2
<1>4. /\ GenesisBlock.newTickets = {} /\ SpentIn(GenesisBlock) = {}
      /\ GenesisBlock.height = 0
    BY DEF GenesisBlock, SpentIn
<1>5. 1..1 = {1}
    OBVIOUS
<1>6. MaturedTo(chain, 1) = {} /\ SpentTo(chain, 1) = {}
    BY <1>2, <1>3, <1>4, <1>5 DEF MaturedTo, SpentTo
<1>7. Sound(chain, 1)
    <2>1. chain[1].block = GenesisBlock /\ chain[1].node = genesisNode
        BY <1>2, <1>3
    <2>2. NodeSound(chain[1].block, chain[1].node, MaturedTo(chain, 1),
                    SpentTo(chain, 1))
        BY <1>6, <2>1, GenesisSound
    <2>3. chain[1].block.height = 1 - 1
        BY <1>4, <2>1
    <2> QED BY <2>2, <2>3 DEF Sound
<1>8. SpentOnce(chain)
    BY <1>3, <1>5 DEF SpentOnce
<1>9. ChainInv(chain)
    <2>1. \A k \in 1..Len(chain) : Sound(chain, k)
        BY <1>3, <1>5, <1>7
    <2>2. \A k \in 2..Len(chain) : Linked(chain, k)
        BY <1>3
    <2> QED BY <1>3, <1>8, <2>1, <2>2 DEF ChainInv, r
<1>10. BestIsConnected
    BY <1>1, <1>2, <1>3 DEF BestIsConnected
<1>11. Tip = GenesisBlock /\ Height = 0
    BY <1>2, <1>3 DEF Tip, Height
<1>12. db.state = BestState(Tip, best)
    BY <1>1, <1>11 DEF InitDatabaseState
<1>13. DatabaseMatches
    <2>1. /\ best.liveTickets = EmptyTreap /\ best.missedTickets = EmptyTreap
          /\ best.revokedTickets = EmptyTreap /\ best.undo = EmptyTreap
          /\ best.newTickets = {}
        BY <1>1 DEF genesisNode
    <2>2. /\ db.live = EmptyTreap /\ db.missed = EmptyTreap
          /\ db.revoked = EmptyTreap
          /\ db.undo = [h \in {0} |-> EmptyTreap]
          /\ db.tickets = [h \in {0} |-> {}]
        BY <1>1 DEF InitDatabaseState
    <2>3. 0..Height = {0}
        BY <1>11
    <2>4. chain[0 + 1].node = best
        BY <1>1, <1>2, <1>3
    <2> QED BY <2>1, <2>2, <2>3, <2>4 DEF DatabaseMatches
<1> QED BY <1>1, <1>9, <1>10, <1>12, <1>13 DEF Inv

-----------------------------------------------------------------------------
(* Consequences of the invariant for the best block.                       *)

(* The best node is sound. *)
LEMMA BestSound ==
    ASSUME Inv
    PROVE  /\ Len(chain) \in Nat /\ Len(chain) >= 1
           /\ Height \in Nat /\ Height + 1 = Len(chain)
           /\ Tip \in Blocks /\ Tip.height = Height
           /\ best = chain[Len(chain)].node
           /\ best.height = Height
           /\ NodeSound(Tip, best, MaturedTo(chain, Len(chain)),
                        SpentTo(chain, Len(chain)))
<1>1. chain \in Seq(Entry) /\ Len(chain) >= 1 /\ Sound(chain, Len(chain))
    BY DEF Inv, ChainInv
<1>2. /\ NodeSound(Tip, best, MaturedTo(chain, Len(chain)),
                   SpentTo(chain, Len(chain)))
      /\ Tip.height = Len(chain) - 1
    BY <1>1 DEF Sound, Inv, BestIsConnected, Tip
<1>3. Tip \in Blocks /\ best.height = Tip.height
    BY <1>2 DEF NodeSound
<1> QED BY <1>1, <1>2, <1>3 DEF Height, Inv, BestIsConnected

(* LoadBestNode accepts the database and reads the best node from it. *)
LEMMA Restartable ==
    ASSUME Inv
    PROVE  CanLoad(db, Tip) /\ LoadBestNode(db, Tip) = best
<1>1. /\ Tip.height = Height /\ best.height = Height /\ Height \in Nat
      /\ Height + 1 = Len(chain) /\ best = chain[Len(chain)].node
      /\ NodeSound(Tip, best, MaturedTo(chain, Len(chain)),
                   SpentTo(chain, Len(chain)))
    BY BestSound
<1>2. /\ db.live = best.liveTickets /\ db.missed = best.missedTickets
      /\ db.revoked = best.revokedTickets
      /\ DOMAIN db.undo = 0..Height /\ DOMAIN db.tickets = 0..Height
      /\ db.undo[Height] = best.undo
      /\ db.tickets[Height] = best.newTickets
    BY <1>1 DEF Inv, DatabaseMatches
<1>3. /\ db.state.hash = Tip /\ db.state.height = best.height
      /\ db.state.live = Cardinality(DOMAIN best.liveTickets)
      /\ db.state.missed = Cardinality(DOMAIN best.missedTickets)
      /\ db.state.revoked = Cardinality(DOMAIN best.revokedTickets)
      /\ db.state.nextWinners = best.nextWinners
    BY DEF Inv, BestState
<1>4. HasLottery(Tip) =>
         Cardinality(DOMAIN best.liveTickets) >= TicketsPerBlock
    BY <1>1 DEF NodeSound
<1>5. CanLoad(db, Tip)
    BY <1>1, <1>2, <1>3, <1>4 DEF CanLoad
<1> DEFINE won == IF HasLottery(Tip) THEN db.state.nextWinners ELSE {}
<1>6. won = best.nextWinners
    BY <1>1, <1>3 DEF NodeSound
<1>7. /\ best \in Nodes /\ best.keyHeight = Tip.keyHeight
      /\ best.finalState = IF HasLottery(Tip)
                           THEN FinalState(Tip, best.nextWinners,
                                           best.liveTickets)
                           ELSE NoFinalState
    BY <1>1 DEF NodeSound
<1>8. best = [height |-> best.height, keyHeight |-> best.keyHeight,
              liveTickets |-> best.liveTickets,
              missedTickets |-> best.missedTickets,
              revokedTickets |-> best.revokedTickets, undo |-> best.undo,
              newTickets |-> best.newTickets,
              nextWinners |-> best.nextWinners,
              finalState |-> best.finalState]
    BY <1>7 DEF Nodes
<1> DEFINE fs == IF HasLottery(Tip) THEN FinalState(Tip, won, db.live)
                                    ELSE NoFinalState
<1>9. LoadBestNode(db, Tip) =
         [height |-> Tip.height, keyHeight |-> Tip.keyHeight,
          liveTickets |-> db.live, missedTickets |-> db.missed,
          revokedTickets |-> db.revoked, undo |-> db.undo[Tip.height],
          newTickets |-> db.tickets[Tip.height], nextWinners |-> won,
          finalState |-> fs]
    BY DEF LoadBestNode
<1>10. fs = best.finalState
    BY <1>2, <1>6, <1>7
<1> HIDE DEF won, fs
<1>11. LoadBestNode(db, Tip) = best
    BY <1>1, <1>2, <1>6, <1>7, <1>8, <1>9, <1>10
<1> QED BY <1>5, <1>11

-----------------------------------------------------------------------------
(* Every step preserves the invariant.                                     *)

(* The block that ConnectBlock connects may follow the best block.         *)
LEMMA ConnectFollows ==
    ASSUME Inv, ConnectBlock
    PROVE  \E b, w :
              /\ Follows(Tip, best, b, w, MaturedTo(chain, Len(chain)))
              /\ best' = connectNode(best, b, w)
              /\ chain' = Append(chain, [block |-> b, node |-> best'])
              /\ db' = WriteConnectedBestNode(db, best', b)
              /\ fetched' = fetched
<1>1. /\ Height \in Nat /\ Tip \in Blocks /\ Tip.height = Height
      /\ NodeSound(Tip, best, MaturedTo(chain, Len(chain)),
                   SpentTo(chain, Len(chain)))
    BY BestSound
<1>2. PICK isKey \in BOOLEAN, spent \in SUBSET best.nextWinners,
           revoked \in SUBSET DOMAIN best.missedTickets :
         \E new \in Maturing(isKey, RealKeyHeight(Tip)) :
            Connect([height |-> Height + 1, keyHeight |-> RealKeyHeight(Tip),
                     isKeyBlock |-> isKey, ticketsSpent |-> spent,
                     ticketsRevoked |-> revoked, newTickets |-> new])
    BY DEF ConnectBlock
<1>3. PICK new \in Maturing(isKey, RealKeyHeight(Tip)) :
         Connect([height |-> Height + 1, keyHeight |-> RealKeyHeight(Tip),
                  isKeyBlock |-> isKey, ticketsSpent |-> spent,
                  ticketsRevoked |-> revoked, newTickets |-> new])
    BY <1>2
<1> DEFINE b == [height |-> Height + 1, keyHeight |-> RealKeyHeight(Tip),
                 isKeyBlock |-> isKey, ticketsSpent |-> spent,
                 ticketsRevoked |-> revoked, newTickets |-> new]
<1>4. RealKeyHeight(Tip) \in Nat
    BY <1>1, KeyHeights
<1>5. spent \in SUBSET Ticket /\ revoked \in SUBSET Ticket
    BY <1>1, PoolValues DEF NodeSound
<1>6. /\ new \in SUBSET Ticket /\ new \cap Matured = {}
      /\ new # {} => isKey /\ RealKeyHeight(Tip) >= StakeEnabledHeight
    BY <1>3 DEF Maturing
<1>7. /\ b \in Blocks /\ b.height = Height + 1
      /\ b.keyHeight = RealKeyHeight(Tip) /\ b.isKeyBlock = isKey
      /\ b.newTickets = new
    BY <1>1, <1>4, <1>5, <1>6 DEF Blocks
<1>8. Connect(b)
    BY <1>3
<1> HIDE DEF b
<1>9. CanConnect(best, b)
    BY <1>8 DEF Connect
<1>10. PICK w \in Lottery(best, b) :
          LET node == connectNode(best, b, w)
          IN  /\ best' = node
              /\ chain' = Append(chain, [block |-> b, node |-> node])
              /\ db' = WriteConnectedBestNode(db, node, b)
    BY <1>8 DEF Connect
<1>11. MaturedTo(chain, Len(chain)) = Matured
    BY DEF MaturedTo, Matured
<1>12. b.newTickets # {} => b.isKeyBlock /\ Enabled(b)
    BY <1>6, <1>7 DEF Enabled
<1>13. Follows(Tip, best, b, w, MaturedTo(chain, Len(chain)))
    BY <1>1, <1>6, <1>7, <1>9, <1>11, <1>12 DEF Follows
<1>14. fetched' = fetched
    BY <1>8 DEF Connect
<1> QED BY <1>10, <1>13, <1>14

(* ConnectBlock preserves the invariant. *)
LEMMA ConnectInv ==
    ASSUME Inv, ConnectBlock
    PROVE  Inv'
<1>1. PICK b, w :
         /\ Follows(Tip, best, b, w, MaturedTo(chain, Len(chain)))
         /\ best' = connectNode(best, b, w)
         /\ chain' = Append(chain, [block |-> b, node |-> best'])
         /\ db' = WriteConnectedBestNode(db, best', b)
         /\ fetched' = fetched
    BY ConnectFollows
<1>2. /\ Len(chain) \in Nat /\ Len(chain) >= 1
      /\ Height \in Nat /\ Height + 1 = Len(chain)
      /\ best = chain[Len(chain)].node /\ Tip = chain[Len(chain)].block
      /\ best.height = Height
      /\ NodeSound(Tip, best, MaturedTo(chain, Len(chain)),
                   SpentTo(chain, Len(chain)))
    BY BestSound DEF Tip
<1>3. ChainInv(chain')
    BY <1>1, <1>2, ChainGrows DEF Inv
<1> DEFINE r == [block |-> b, node |-> best']
           k == Len(chain)
           u == UndoOf(best, b)
<1>4. r.block = b /\ r.node = best'
    OBVIOUS
<1> HIDE DEF r
<1>5. /\ Len(chain') = k + 1 /\ chain'[k + 1] = r
      /\ \A i \in 1..k : chain'[i] = chain[i]
    BY <1>1, <1>2 DEF Inv, ChainInv, r
<1>6. BestIsConnected' /\ Tip' = b /\ Height' = Height + 1
    BY <1>2, <1>4, <1>5 DEF BestIsConnected, Tip, Height
<1>7. /\ best'.height = Height + 1 /\ best'.undo = u
      /\ best'.newTickets = b.newTickets
      /\ best'.liveTickets = LiveAfter(best, b)
      /\ best'.missedTickets = MissedAfter(best, b)
      /\ best'.revokedTickets = RevokedAfter(best, b)
    BY <1>1, <1>2 DEF connectNode
<1>8. /\ db.live = best.liveTickets /\ db.missed = best.missedTickets
      /\ db.revoked = best.revokedTickets
    BY DEF Inv, DatabaseMatches
<1>9. /\ db'.live = With(Minus(best.liveTickets, WasMissed(u) \cup WasSpent(u)),
                         Entries(u, Added(u)))
      /\ db'.missed = With(Minus(best.missedTickets, WasRevoked(u)),
                           Entries(u, WasMissed(u)))
      /\ db'.revoked = With(best.revokedTickets, Entries(u, WasRevoked(u)))
      /\ db'.undo = With(db.undo, [x \in {Height + 1} |-> u])
      /\ db'.tickets = With(db.tickets,
                            [x \in {Height + 1} |-> b.newTickets])
      /\ db'.state = BestState(b, best')
    BY <1>1, <1>7, <1>8 DEF WriteConnectedBestNode
<1>10. /\ db'.live = best'.liveTickets /\ db'.missed = best'.missedTickets
       /\ db'.revoked = best'.revokedTickets
    <2>1. /\ With(Minus(best.liveTickets, WasMissed(u) \cup WasSpent(u)),
                  Entries(u, Added(u))) = LiveAfter(best, b)
          /\ With(Minus(best.missedTickets, WasRevoked(u)),
                  Entries(u, WasMissed(u))) = MissedAfter(best, b)
          /\ With(best.revokedTickets, Entries(u, WasRevoked(u)))
                = RevokedAfter(best, b)
        <3>1. Writes(u, best, b)
            BY <1>1, <1>2, WrittenPools
        <3> QED BY <3>1 DEF Writes
    <2> QED BY <1>7, <1>9, <2>1
<1>11. /\ DOMAIN db.undo = 0..Height /\ DOMAIN db.tickets = 0..Height
       /\ \A h \in 0..Height : /\ db.undo[h] = chain[h + 1].node.undo
                               /\ db.tickets[h] = chain[h + 1].node.newTickets
    BY DEF Inv, DatabaseMatches
<1> HIDE DEF u
<1>12. /\ DOMAIN db'.undo = 0..Height' /\ DOMAIN db'.tickets = 0..Height'
       /\ db'.undo[Height + 1] = u /\ db'.tickets[Height + 1] = b.newTickets
       /\ \A h \in 0..Height : /\ db'.undo[h] = db.undo[h]
                               /\ db'.tickets[h] = db.tickets[h]
    BY <1>2, <1>6, <1>9, <1>11 DEF With
<1>13. \A h \in 0..Height' : /\ db'.undo[h] = chain'[h + 1].node.undo
                             /\ db'.tickets[h] = chain'[h + 1].node.newTickets
    <2> TAKE h \in 0..Height'
    <2>1. CASE h = Height + 1
        <3>1. chain'[h + 1].node = best'
            BY <1>2, <1>4, <1>5, <2>1
        <3> QED BY <1>7, <1>12, <2>1, <3>1
    <2>2. CASE h \in 0..Height
        <3>1. chain'[h + 1] = chain[h + 1]
            BY <1>2, <1>5, <2>2
        <3> QED BY <1>11, <1>12, <2>2, <3>1
    <2> QED BY <1>2, <1>6, <2>1, <2>2
<1>14. DatabaseMatches'
    BY <1>10, <1>12, <1>13 DEF DatabaseMatches
<1>15. (db.state = BestState(Tip, best))'
    BY <1>6, <1>9
<1>16. (fetched \in Nat)'
    BY <1>1 DEF Inv
<1> QED BY <1>3, <1>6, <1>14, <1>15, <1>16 DEF Inv

(* DisconnectBlock preserves the invariant, from memory or from undo data. *)
LEMMA DisconnectInv ==
    ASSUME Inv, DisconnectBlock
    PROVE  Inv'
<1> DEFINE k == Len(chain)
           p == chain[k - 1].block
           n == chain[k - 1].node
           u == best.undo
<1>1. /\ k \in Nat /\ k >= 2 /\ Height \in Nat /\ Height + 1 = k
      /\ best = chain[k].node /\ Tip = chain[k].block /\ best.height = Height
    BY BestSound DEF Tip, DisconnectBlock
<1>2. /\ Sound(chain, k - 1) /\ Linked(chain, k) /\ chain \in Seq(Entry)
    BY <1>1 DEF Inv, ChainInv
<1>3. /\ NodeSound(p, n, MaturedTo(chain, k - 1), SpentTo(chain, k - 1))
      /\ p.height = k - 2
    BY <1>1, <1>2 DEF Sound
<1>4. PICK w : /\ Follows(p, n, Tip, w, MaturedTo(chain, k - 1))
               /\ best = connectNode(n, Tip, w)
    BY <1>1, <1>2 DEF Linked
<1>5. p.height = 0 => n = genesisNode
    BY <1>1, <1>3 DEF Inv, ChainInv
<1>6. disconnectNode(best, Tip, p, n.undo, n.newTickets) = n
    <2> HIDE DEF p, n
    <2>1. disconnectNode(connectNode(n, Tip, w), Tip, p, n.undo, n.newTickets)
             = n
        <3>1. Inverted(p, n, Tip, w)
            BY <1>3, <1>4, <1>5, DisconnectInverts
        <3> QED BY <3>1 DEF Inverted
    <2> QED BY <1>4, <2>1
<1>7. /\ DOMAIN db.undo = 0..Height /\ DOMAIN db.tickets = 0..Height
      /\ \A h \in 0..Height : /\ db.undo[h] = chain[h + 1].node.undo
                              /\ db.tickets[h] = chain[h + 1].node.newTickets
      /\ db.live = best.liveTickets /\ db.missed = best.missedTickets
      /\ db.revoked = best.revokedTickets
    BY DEF Inv, DatabaseMatches
<1>8. db.undo[p.height] = n.undo /\ db.tickets[p.height] = n.newTickets
    <2>1. p.height \in 0..Height /\ p.height + 1 = k - 1
        BY <1>1, <1>3
    <2> QED BY <1>7, <2>1
<1>9. /\ best' = n
      /\ db' = WriteDisconnectedBestNode(db, n, p, u)
      /\ fetched' = fetched \/ fetched' = p.height
      /\ chain' = SubSeq(chain, 1, k - 1)
    <2> HIDE DEF p, n, u
    <2>1. \A node \in {n} \cup {disconnectNode(best, Tip, p, n.undo, n.newTickets)} : node = n
        BY <1>6
    <2> QED BY <1>6, <1>8, <2>1 DEF DisconnectBlock, p, n, u
<1>10. ChainInv(chain')
    BY <1>1, <1>9, ChainShrinks DEF Inv
<1>11. Len(chain') = k - 1 /\ \A i \in 1..(k - 1) : chain'[i] = chain[i]
    BY <1>1, <1>2, <1>9
<1>12. BestIsConnected' /\ Tip' = p /\ Height' = Height - 1
    BY <1>1, <1>9, <1>11 DEF BestIsConnected, Tip, Height
<1>13. u = UndoOf(n, Tip) /\ best.liveTickets = LiveAfter(n, Tip)
       /\ best.missedTickets = MissedAfter(n, Tip)
       /\ best.revokedTickets = RevokedAfter(n, Tip)
    BY <1>4 DEF connectNode
<1>14. n.height = Height - 1 /\ Dropped(db, n.height) = {Height}
    <2>1. n.height = Height - 1
        BY <1>1, <1>3 DEF NodeSound
    <2>2. db.state.height = Height
        BY <1>1 DEF Inv, BestState
    <2> QED BY <1>1, <2>1, <2>2 DEF Dropped
<1>15. /\ db'.live = With(Minus(best.liveTickets, Added(u)), LiveAgain(u))
       /\ db'.missed = With(Minus(best.missedTickets, WasMissed(u)),
                            MissedAgain(u))
       /\ db'.revoked = Minus(best.revokedTickets, WasRevoked(u))
       /\ db'.undo = With(Minus(db.undo, {Height}),
                          [x \in {Height - 1} |-> n.undo])
       /\ db'.tickets = With(Minus(db.tickets, {Height}),
                             [x \in {Height - 1} |-> n.newTickets])
       /\ db'.state = BestState(p, n)
    BY <1>7, <1>9, <1>14 DEF WriteDisconnectedBestNode
<1>16. /\ db'.live = n.liveTickets /\ db'.missed = n.missedTickets
       /\ db'.revoked = n.revokedTickets
    BY <1>3, <1>4, <1>13, <1>15, Undone
<1> HIDE DEF p, n, u
<1>17. /\ DOMAIN db'.undo = 0..Height' /\ DOMAIN db'.tickets = 0..Height'
       /\ db'.undo[Height'] = n.undo /\ db'.tickets[Height'] = n.newTickets
       /\ \A h \in 0..Height' : h # Height' => /\ db'.undo[h] = db.undo[h]
                                               /\ db'.tickets[h] = db.tickets[h]
    BY <1>1, <1>7, <1>12, <1>15 DEF With, Minus
<1>18. \A h \in 0..Height' : /\ db'.undo[h] = chain'[h + 1].node.undo
                             /\ db'.tickets[h] = chain'[h + 1].node.newTickets
    <2> TAKE h \in 0..Height'
    <2>1. chain'[h + 1] = chain[h + 1] /\ h \in 0..Height
        BY <1>1, <1>11, <1>12
    <2>2. CASE h = Height'
        <3>1. chain[h + 1].node = n
            BY <1>1, <1>12, <2>2 DEF n
        <3> QED BY <1>17, <2>1, <2>2, <3>1
    <2>3. CASE h # Height'
        BY <1>7, <1>17, <2>1, <2>3
    <2> QED BY <2>2, <2>3
<1>19. DatabaseMatches'
    BY <1>9, <1>16, <1>17, <1>18 DEF DatabaseMatches
<1>20. (db.state = BestState(Tip, best))'
    BY <1>9, <1>12, <1>15
<1>21. (fetched \in Nat)'
    BY <1>1, <1>3, <1>9 DEF Inv
<1> QED BY <1>10, <1>12, <1>19, <1>20, <1>21 DEF Inv

(* Restart reads the node that was in memory. *)
LEMMA RestartInv ==
    ASSUME Inv, Restart
    PROVE  Inv'
<1>1. /\ best' = best /\ chain' = chain /\ db' = db /\ fetched' = Height
    BY Restartable DEF Restart
<1>2. Height \in Nat
    BY BestSound
<1> QED BY <1>1, <1>2 DEF Inv, BestIsConnected, DatabaseMatches, Tip, Height

(* The agreement of the best node, of the nodes along the chain and of the *)
(* database is inductive, for any tickets, blocks, lottery and restarts.   *)
THEOREM NodeInvariant == Spec => []Inv
<1>1. Inv /\ [Next]_vars => Inv'
    <2> SUFFICES ASSUME Inv, [Next]_vars PROVE Inv'
        OBVIOUS
    <2>1. CASE ConnectBlock
        BY <2>1, ConnectInv
    <2>2. CASE DisconnectBlock
        BY <2>2, DisconnectInv
    <2>3. CASE Restart
        BY <2>3, RestartInv
    <2>4. CASE UNCHANGED vars
        BY <2>4 DEF vars, Inv, BestIsConnected, DatabaseMatches, Tip, Height
    <2> QED BY <2>1, <2>2, <2>3, <2>4 DEF Next
<1> QED BY <1>1, InitInv, PTL DEF Spec

(* The set of nodes has the type that the model states. *)
LEMMA NodeTypes ==
    ASSUME NEW n \in Nodes
    PROVE  NodeType(n)
<1>1. /\ n.height \in Nat /\ n.keyHeight \in Nat
      /\ n.liveTickets \in Treaps /\ n.missedTickets \in Treaps
      /\ n.revokedTickets \in Treaps /\ n.undo \in Treaps
      /\ n.newTickets \in SUBSET Ticket /\ n.nextWinners \in SUBSET Ticket
    BY DEF Nodes
<1> QED BY <1>1, TreapType DEF NodeType

(* The invariant implies the soundness of the pools. *)
LEMMA InvImpliesSound == Inv => PoolsSound
<1> SUFFICES ASSUME Inv PROVE PoolsSound
    OBVIOUS
<1> DEFINE k == Len(chain)
           L == DOMAIN best.liveTickets
           M == DOMAIN best.missedTickets
           V == DOMAIN best.revokedTickets
<1>1. /\ k \in Nat /\ k >= 1 /\ Tip \in Blocks /\ best = chain[k].node
      /\ NodeSound(Tip, best, MaturedTo(chain, k), SpentTo(chain, k))
    BY BestSound
<1>2. TypeOK
    <2>1. chain \in Seq(Entry)
        BY DEF Inv, ChainInv
    <2>2. \A i \in 1..k : chain[i].block \in Blocks /\ chain[i].node \in Nodes
        <3> TAKE i \in 1..k
        <3>1. chain[i] \in Entry
            BY <2>1
        <3> QED BY <3>1 DEF Entry
    <2>3. best \in Nodes
        BY <1>1 DEF NodeSound
    <2>4. /\ IsTreap(best.liveTickets) /\ IsTreap(best.missedTickets)
          /\ IsTreap(best.revokedTickets)
        BY <2>3, TreapType DEF Nodes
    <2>5. /\ IsTreap(db.live) /\ IsTreap(db.missed) /\ IsTreap(db.revoked)
        BY <2>4 DEF Inv, DatabaseMatches
    <2> QED BY <2>2, <2>3, <2>5, NodeTypes DEF TypeOK, Inv
<1>3. TicketsConserved
    <2> DEFINE spentBy(i) == IF chain[i].block.isKeyBlock
                             THEN chain[i].block.ticketsSpent ELSE {}
               spent == UNION {spentBy(i) : i \in 1..k}
               pools == {L, M, V}
    <2>1. /\ MaturedTo(chain, k) = SpentTo(chain, k) \cup L \cup M \cup V
          /\ SpentTo(chain, k) \cap (L \cup M \cup V) = {}
          /\ L \cap M = {} /\ L \cap V = {} /\ M \cap V = {}
        BY <1>1 DEF NodeSound, Apart
    <2>2. Matured = MaturedTo(chain, k)
        BY DEF Matured, MaturedTo
    <2>3. \A i \in 1..k : spentBy(i) = SpentIn(chain[i].block)
        BY DEF SpentIn
    <2>4. spent = SpentTo(chain, k)
        BY <2>3 DEF SpentTo
    <2>5. UNION pools = L \cup M \cup V
        OBVIOUS
    <2>6. \A i, j \in 1..k : i # j => spentBy(i) \cap spentBy(j) = {}
        <3>1. \A i, j \in 1..k :
                 i # j => SpentIn(chain[i].block) \cap SpentIn(chain[j].block)
                             = {}
            BY DEF Inv, ChainInv, SpentOnce
        <3> HIDE DEF spentBy, k
        <3> QED BY <2>3, <3>1
    <2> HIDE DEF spent, pools, L, M, V, spentBy
    <2>7. /\ Matured = spent \cup UNION pools
          /\ L \cap M = {} /\ L \cap V = {} /\ M \cap V = {}
          /\ spent \cap UNION pools = {}
        BY <2>1, <2>2, <2>4, <2>5
    <2> QED BY <2>6, <2>7 DEF TicketsConserved, spent, pools, L, M, V, spentBy
<1>4. WinnersLive
    <2>1. /\ best.nextWinners \subseteq L
          /\ HasLottery(Tip) => Cardinality(best.nextWinners) = TicketsPerBlock
          /\ ~ HasLottery(Tip) => best.nextWinners = {}
        BY <1>1 DEF NodeSound
    <2> QED BY <2>1, FS_EmptySet DEF WinnersLive
<1>5. FlagsMatchPool
    <2>1. Flags(best.liveTickets, best.missedTickets, best.revokedTickets)
        BY <1>1 DEF NodeSound
    <2> QED BY <2>1 DEF FlagsMatchPool, Flags, LiveFlags, MissedFlags,
                        RevokedFlags
<1>6. NoOverdueTicket
    BY <1>1 DEF NoOverdueTicket, NodeSound
<1> QED BY <1>2, <1>3, <1>4, <1>5, <1>6 DEF PoolsSound, Inv

(* Whatever is connected, disconnected and reloaded, the best stake node   *)
(* is the one its block had when it was first connected; every matured     *)
(* ticket is in one pool or spent once, its flags say in which, winners    *)
(* are live and no live ticket is overdue.                                 *)
THEOREM PoolsAreSound == Spec => []PoolsSound
BY NodeInvariant, InvImpliesSound, PTL

(* The buckets that WriteConnectedBestNode and WriteDisconnectedBestNode   *)
(* update entry by entry hold the pools of the best node and the undo data *)
(* of every block of the main chain, and nothing above it.                 *)
THEOREM DatabaseFollows == Spec => []DatabaseMatches
<1>1. Inv => DatabaseMatches
    BY DEF Inv
<1> QED BY <1>1, NodeInvariant, PTL

(* disconnectNode and LoadBestNode never report an error.                  *)
THEOREM NodeRecoverable == Spec => []Recoverable
<1>1. Inv => Recoverable
    <2> SUFFICES ASSUME Inv PROVE Recoverable
        OBVIOUS
    <2>1. CanAlwaysRestart
        BY Restartable DEF CanAlwaysRestart
    <2>2. ASSUME Height > 0 PROVE CanDisconnect(best)
        <3> DEFINE k == Len(chain)
        <3>1. /\ k \in Nat /\ k >= 2 /\ best = chain[k].node
            BY <2>2, BestSound
        <3>2. Sound(chain, k - 1) /\ Linked(chain, k)
            BY <3>1 DEF Inv, ChainInv
        <3>3. PICK w : /\ Follows(chain[k - 1].block, chain[k - 1].node,
                                  chain[k].block, w, MaturedTo(chain, k - 1))
                       /\ chain[k].node =
                             connectNode(chain[k - 1].node, chain[k].block, w)
            BY <3>2 DEF Linked
        <3>4. NodeSound(chain[k - 1].block, chain[k - 1].node,
                        MaturedTo(chain, k - 1), SpentTo(chain, k - 1))
            BY <3>2 DEF Sound
        <3>5. CanDisconnect(connectNode(chain[k - 1].node, chain[k].block, w))
            BY <3>3, <3>4, CanUndo
        <3> QED BY <3>1, <3>3, <3>5
    <2> QED BY <2>1, <2>2 DEF Recoverable, CanAlwaysDisconnect
<1> QED BY <1>1, NodeInvariant, PTL
=============================================================================
