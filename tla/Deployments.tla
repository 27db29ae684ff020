---------------------------- MODULE Deployments ----------------------------
(***************************************************************************)
(* Rule changes that the stakeholders vote on (blockchain/thresholdstate.go,*)
(* stakeversion.go, votebits.go and the caches of chainio.go).  The state  *)
(* of a deployment after a block is a function of the branch the block is  *)
(* on; it is computed one window of key blocks at a time, with a cache per *)
(* deployment that is written to the database when a block is connected    *)
(* and read back when the node starts, maybe with other definitions.       *)
(***************************************************************************)
EXTENDS ChainView, Functions, TLC

CONSTANTS
    StakeValidationHeight, StakeVersionInterval, RuleChangeActivationInterval,
    RuleChangeActivationQuorum, RuleChangeActivationMultiplier, RuleChangeActivationDivisor,
    StakeMajorityMultiplier, StakeMajorityDivisor, BlockRejectNumRequired, TicketsPerBlock,
    Version,        \* the one vote version with deployments
    Definitions     \* the lists of deployments a release may define

VARIABLES
    tree,        \* the block nodes
    deployments, \* the definitions of this release
    caches,      \* the caches in memory
    buckets      \* the caches in the database, by the index of a deployment

---------------------------------------------------------------------------
(* Stake versions *)

calcWantHeight(svh, interval, height) ==
    LET offset == svh % interval  adjusted == height - offset - 1
    IN  adjusted - ((adjusted + 1) % interval) + offset

RECURSIVE PriorWalk(_, _, _)
PriorWalk(T, n, want) ==
    IF T[n].keyHeight > want - 1 THEN PriorWalk(T, getPrevKeyNodeFromNode(T, n), want) ELSE n

\* The last key block of the window before the one n's child is in.
findStakeVersionPriorNode(T, node) ==
    LET n == KeyNode(T, node)  next == T[n].keyHeight + 2
    IN  IF next < StakeValidationHeight + StakeVersionInterval THEN nil
        ELSE PriorWalk(T, n, calcWantHeight(StakeValidationHeight, StakeVersionInterval, next))

VotesOf(T, ns) == MapThenSumSet(LAMBDA n : Len(T[n].votes), ToSet(ns))
VotesWith(T, ns, ok(_)) ==
    MapThenSumSet(LAMBDA n : Cardinality({i \in DOMAIN T[n].votes : ok(T[n].votes[i])}), ToSet(ns))

Put(f, k, v) == (k :> v) @@ f

isVoterMajorityVersion(T, c, minVer, node) ==
    LET n == findStakeVersionPriorNode(T, node)
        ns == KeyBack(T, n, StakeVersionInterval)
        required == (VotesOf(T, ns) * StakeMajorityMultiplier) \div StakeMajorityDivisor
        r == VotesWith(T, ns, LAMBDA v : v.version >= minVer) >= required
    IN  CASE n = nil -> [c |-> c, v |-> 0 >= minVer]
          [] n # nil /\ <<minVer, n>> \in DOMAIN c.voterMajority ->
                [c |-> c, v |-> c.voterMajority[<<minVer, n>>]]
          [] OTHER -> [c |-> [c EXCEPT !.voterMajority = Put(@, <<minVer, n>>, r)], v |-> r]

StakeRequired == (StakeVersionInterval * StakeMajorityMultiplier) \div StakeMajorityDivisor

isStakeMajorityVersion(T, c, minVer, node) ==
    LET n == findStakeVersionPriorNode(T, node)
        ns == KeyBack(T, n, StakeVersionInterval)
        r == Cardinality({i \in DOMAIN ns : T[ns[i]].stakeVersion >= minVer}) >= StakeRequired
    IN  CASE n = nil -> [c |-> c, v |-> 0 >= minVer]
          [] n # nil /\ <<minVer, n>> \in DOMAIN c.stakeMajority ->
                [c |-> c, v |-> c.stakeMajority[<<minVer, n>>]]
          [] OTHER -> [c |-> [c EXCEPT !.stakeMajority = Put(@, <<minVer, n>>, r)], v |-> r]

\* A version that enough of the counted headers or votes carry; nil if none.
Majority(versions, count(_), required) ==
    LET found == {v \in versions : count(v) >= required}
    IN  IF found = {} THEN nil ELSE CHOOSE v \in found : TRUE

calcPriorStakeVersion(T, c, node) ==
    LET n == findStakeVersionPriorNode(T, node)
        ns == KeyBack(T, n, StakeVersionInterval)
        m == Majority({T[ns[i]].stakeVersion : i \in DOMAIN ns},
                      LAMBDA v : Cardinality({i \in DOMAIN ns : T[ns[i]].stakeVersion = v}), StakeRequired)
    IN  CASE n = nil -> [c |-> c, v |-> 0]
          [] n # nil /\ n \in DOMAIN c.prior -> [c |-> c, v |-> c.prior[n]]
          [] n # nil /\ n \notin DOMAIN c.prior /\ m = nil -> [c |-> c, v |-> 0]
          [] OTHER -> [c |-> [c EXCEPT !.prior = Put(@, n, m)], v |-> m]

\* The version most of a window's votes carry: e is "none" if none does,
\* "few" if the window has too few votes.
calcVoterVersionInterval(T, c, node) ==
    LET ns == KeyBack(T, KeyNode(T, node), StakeVersionInterval)
        total == VotesOf(T, ns)
        m == Majority(UNION {{v.version : v \in ToSet(T[n].votes)} : n \in ToSet(ns)},
                      LAMBDA v : VotesWith(T, ns, LAMBDA w : w.version = v),
                      (total * StakeMajorityMultiplier) \div StakeMajorityDivisor)
    IN  CASE node \in DOMAIN c.voterInterval -> [c |-> c, v |-> c.voterInterval[node], e |-> "ok"]
          [] node \notin DOMAIN c.voterInterval
             /\ total < StakeVersionInterval * ((TicketsPerBlock \div 2) + 1) ->
                [c |-> c, v |-> 0, e |-> "few"]
          [] OTHER -> IF m = nil THEN [c |-> c, v |-> 0, e |-> "none"]
                      ELSE [c |-> [c EXCEPT !.voterInterval = Put(@, node, m)], v |-> m, e |-> "ok"]

\* The version of the last window with a majority of its votes, and the end
\* of that window.
RECURSIVE VoterWalk(_, _, _)
VoterWalk(T, c, n) ==
    IF n = nil THEN [c |-> c, v |-> 0, n |-> nil]
    ELSE LET r == calcVoterVersionInterval(T, c, n)  p == getPrevKeyNodeFromNode(T, n)
         IN  CASE r.e = "ok" -> [c |-> r.c, v |-> r.v, n |-> n]
               [] r.e = "few" \/ p = nil -> [c |-> r.c, v |-> 0, n |-> nil]
               [] OTHER -> VoterWalk(T, r.c, findStakeVersionPriorNode(T, p))
calcVoterVersion(T, c, node) == VoterWalk(T, c, findStakeVersionPriorNode(T, KeyNode(T, node)))

\* The stake version after a node, w being the majority of the voters before
\* it and the window that has it.
StakeVersionAfter(T, w) ==
    LET start == calcWantHeight(StakeValidationHeight, StakeVersionInterval, T[w.n].keyHeight + 1) + 1
        save(c2, v) == [c |-> [c2 EXCEPT !.stakeVersion = Put(@, w.n, v)], v |-> v]
        first == PriorWalk(T, w.n, start)
        maj == isStakeMajorityVersion(T, w.c, w.v, w.n)
        prior == calcPriorStakeVersion(T, maj.c, w.n)
    IN  CASE w.v = 0 \/ w.n = nil -> [c |-> w.c, v |-> 0]
          [] w.v # 0 /\ w.n \in DOMAIN w.c.stakeVersion ->
                [c |-> w.c, v |-> w.c.stakeVersion[w.n]]
          [] OTHER ->
                IF ~isMajorityVersion(T, 3, first, BlockRejectNumRequired) THEN save(w.c, 0)
                ELSE IF maj.v THEN save(prior.c, IF w.v <= prior.v THEN prior.v ELSE w.v)
                ELSE save(maj.c, w.v)

calcStakeVersion(T, c, node) ==
    IF T[node].height <= 1 THEN [c |-> c, v |-> 0]
    ELSE StakeVersionAfter(T, calcVoterVersion(T, c, KeyNode(T, node)))

---------------------------------------------------------------------------
(* Threshold states *)

\* A deployment is a mask, the times it starts and expires at, and its
\* choices.  A vote has a version and, for every deployment, the bits under
\* its mask, shifted down.
invalidChoice == -1
Tuple(s, k) == [state |-> s, choice |-> k]
Defined == Tuple("defined", invalidChoice)

RuleChangeActivationThreshold(total) ==
    (total * RuleChangeActivationMultiplier) \div RuleChangeActivationDivisor

Condition(T, d, id, n) ==
    [k \in DOMAIN d.choices |->
        Cardinality({i \in DOMAIN T[n].votes : /\ T[n].votes[i].version = Version
                                               /\ T[n].votes[i].bits[id] = k - 1})]

\* The outcome of a window of votes that ends at n.
Started(T, d, id, n, t) ==
    LET ns == KeyBack(T, n, RuleChangeActivationInterval)
        counts == [k \in DOMAIN d.choices |-> MapThenSumSet(LAMBDA m : Condition(T, d, id, m)[k], ToSet(ns))]
        over(ok(_)) == MapThenSumSet(LAMBDA k : counts[k], {k \in DOMAIN counts : ok(d.choices[k])})
        total == over(LAMBDA ch : ~ch.isAbstain)
        won == {k \in DOMAIN counts : /\ counts[k] >= RuleChangeActivationThreshold(total)
                                      /\ ~(d.choices[k].isAbstain /\ ~d.choices[k].isNo)}
        first == CHOOSE k \in won : \A j \in won : k <= j
    IN  CASE calcPastMedianTime(T, n) >= d.expire -> [t EXCEPT !.state = "failed"]
          [] calcPastMedianTime(T, n) < d.expire
             /\ (over(LAMBDA ch : ~(ch.isAbstain /\ ~ch.isNo)) < RuleChangeActivationQuorum \/ won = {}) -> t
          [] OTHER -> Tuple(IF d.choices[first].isNo THEN "failed" ELSE "lockedin", first - 1)

\* The state after the window that ends at n, t being the state before it.
NextState(T, c, d, id, n, t) ==
    LET median == calcPastMedianTime(T, n)
        starts(sv) == /\ sv.v >= Version
                      /\ isMajorityVersion(T, Version, n, BlockRejectNumRequired)
                      /\ median >= d.start
        decided(sv) == [c |-> sv.c, t |-> IF starts(sv) THEN [t EXCEPT !.state = "started"] ELSE t]
    IN  CASE t.state = "defined" ->
                IF T[n].height < StakeValidationHeight THEN [c |-> c, t |-> t]
                ELSE IF median >= d.expire THEN [c |-> c, t |-> [t EXCEPT !.state = "failed"]]
                ELSE decided(calcStakeVersion(T, c, n))
          [] t.state = "started" -> [c |-> c, t |-> Started(T, d, id, n, t)]
          [] t.state = "lockedin" -> [c |-> c, t |-> [t EXCEPT !.state = "active"]]
          [] OTHER -> [c |-> c, t |-> t]

Lookup(c, id, n) == c.entries[id][n]
Update(c, id, n, t) ==
    IF n \in DOMAIN c.entries[id] /\ Lookup(c, id, n) = t THEN c
    ELSE [c EXCEPT !.entries[id] = Put(@, n, t), !.dbUpdates[id] = Put(@, n, t)]

\* The ends of windows back from n whose states have to be computed, and
\* the one to start from.
RECURSIVE Needed(_, _, _, _, _, _)
Needed(T, c, d, id, n, needed) ==
    CASE n < 0 \/ (n >= 0 /\ n \in DOMAIN c.entries[id]) -> [c |-> c, n |-> n, needed |-> needed]
      [] n >= 0 /\ n \notin DOMAIN c.entries[id] /\ calcPastMedianTime(T, n) < d.start ->
            [c |-> Update(c, id, n, Defined), n |-> n, needed |-> needed]
      [] OTHER -> Needed(T, c, d, id,
                         ancestorKeyNode(T, n, T[n].keyHeight - RuleChangeActivationInterval + 1),
                         Append(needed, n))

RECURSIVE Replay(_, _, _, _, _, _)
Replay(T, c, d, id, needed, t) ==
    IF needed = <<>> THEN [c |-> c, t |-> t]
    ELSE LET n == Last(needed)
             after(r) == Replay(T, Update(r.c, id, n, r.t), d, id, Front(needed), r.t)
         IN  after(NextState(T, c, d, id, n, t))

thresholdState(T, c, d, id, node) ==
    LET n == KeyNode(T, node)
        want == calcWantHeight(StakeValidationHeight, RuleChangeActivationInterval, T[n].keyHeight + 2)
        w == Needed(T, c, d, id, ancestorKeyNode(T, n, want), <<>>)
    IN  CASE n = nil \/ (n # nil /\ T[n].keyHeight + 2
                          < StakeValidationHeight + RuleChangeActivationInterval) -> [c |-> c, t |-> Defined]
          [] OTHER -> IF w.n = err THEN [c |-> w.c, t |-> Tuple("failed", invalidChoice)]
                      ELSE Replay(T, w.c, d, id, w.needed, IF w.n = nil THEN Defined ELSE Lookup(w.c, id, w.n))

\* The votes of the window so far; unlike Condition it looks a choice up by
\* its bits.
VoteIndex(d, bits) ==
    IF \E k \in DOMAIN d.choices : d.choices[k].bits = bits
    THEN CHOOSE k \in DOMAIN d.choices : d.choices[k].bits = bits ELSE -1

CountedBlocks(T, node) ==
    LET n == KeyNode(T, node)
        kh == calcWantHeight(StakeValidationHeight, RuleChangeActivationInterval, T[n].keyHeight + 1)
        ns == KeyBack(T, n, T[n].keyHeight + 1)
    IN  {ns[i] : i \in {i \in DOMAIN ns : T[ns[i]].keyHeight > kh}}

getVoteCounts(T, node, d, id) ==
    LET ns == SetToSeq(CountedBlocks(T, node))
        with(ok(_)) == VotesWith(T, ns, LAMBDA v : v.version = Version /\ ok(VoteIndex(d, v.bits[id])))
    IN  [Total |-> with(LAMBDA k : TRUE),
         TotalAbstain |-> with(LAMBDA k : k = -1 \/ (k # -1 /\ d.choices[k].isAbstain)),
         VoteChoices |-> [k \in DOMAIN d.choices |-> with(LAMBDA j : j = k)]]

CountVoteVersion(T, best) == VotesWith(T, SetToSeq(CountedBlocks(T, best)), LAMBDA v : v.version = Version)

---------------------------------------------------------------------------
(* The caches and the database *)

\* The number of versions with deployments; every loop over the caches of a
\* version in the database code ends there, whatever the deployments are.
NumVersions == 1
IdsIn(ds) == {id \in DOMAIN ds : id <= NumVersions}

newThresholdCaches(ds) ==
    [entries |-> [id \in DOMAIN ds |-> <<>>], dbUpdates |-> [id \in DOMAIN ds |-> <<>>],
     voterMajority |-> <<>>, stakeMajority |-> <<>>, prior |-> <<>>, voterInterval |-> <<>>,
     stakeVersion |-> <<>>]

\* A bucket holds the states of a deployment by block, and the parameters
\* it was made with: all but the names of the deployment and its choices.
serializeDeploymentCacheParams(d) ==
    [mask |-> d.mask, start |-> d.start, expire |-> d.expire, choices |-> d.choices]
deserializeDeploymentCacheParams(p) == p @@ [id |-> ""]

putThresholdCaches(b, c) ==
    [id \in DOMAIN b |-> IF id \notin DOMAIN c.dbUpdates \/ id > NumVersions THEN b[id]
                         ELSE [b[id] EXCEPT !.states = c.dbUpdates[id] @@ @]]
markThresholdCachesFlushed(c) == [c EXCEPT !.dbUpdates = [id \in DOMAIN @ |-> <<>>]]

\* Mutant: the caches of a deployment whose definition changed are kept.
invalidateKeeps(b, ds) == [id \in DOMAIN b \intersect DOMAIN ds |-> b[id]]
\* The buckets that are left: those of deployments that are still defined,
\* and alike.  The names make every definition differ from what was stored.
invalidateThresholdCaches(b, ds) ==
    [id \in {id \in DOMAIN b \intersect DOMAIN ds :
                deserializeDeploymentCacheParams(b[id].params) = ds[id]} |-> b[id]]

initThresholdCacheBuckets(b, ds) ==
    [id \in DOMAIN b \union DOMAIN ds |->
        IF id \in DOMAIN b THEN b[id]
        ELSE [params |-> serializeDeploymentCacheParams(ds[id]), states |-> <<>>]]

dbFetchThresholdCaches(b, ds) ==
    [newThresholdCaches(ds) EXCEPT
        !.entries = [id \in DOMAIN ds |-> IF id \in IdsIn(ds) THEN b[id].states ELSE <<>>]]

\* The states of all the deployments after a node, one after the other.
RECURSIVE CalcAll(_, _, _, _, _)
CalcAll(T, c, ds, n, id) ==
    IF id > Len(ds) THEN c ELSE CalcAll(T, thresholdState(T, c, ds[id], id, n).c, ds, n, id + 1)

\* A node starts with best as the best block; b is what the last run left.
initThresholdCaches(T, b, ds, best) ==
    LET b1 == initThresholdCacheBuckets(invalidateThresholdCaches(b, ds), ds)
        started(c) == [b |-> putThresholdCaches(b1, c), c |-> markThresholdCachesFlushed(c)]
    IN  started(CalcAll(T, dbFetchThresholdCaches(b1, ds), ds, getPrevNodeFromNode(T, best), 1))

---------------------------------------------------------------------------
\* deploymentState, and the RPC call ThresholdState.
deploymentState ==
    \E n \in DOMAIN tree, id \in DOMAIN deployments :
        /\ caches' = thresholdState(tree, caches, deployments[id], id, n).c
        /\ UNCHANGED <<tree, deployments, buckets>>

\* A block is connected or disconnected: what was computed is saved.
Flush ==
    /\ buckets' = putThresholdCaches(buckets, caches)
    /\ caches' = markThresholdCachesFlushed(caches)
    /\ UNCHANGED <<tree, deployments>>

\* The node stops without a flush and starts again, maybe another release.
Restart ==
    \E ds \in Definitions, best \in DOMAIN tree \ {0} :
        \E r \in {initThresholdCaches(tree, buckets, ds, best)} :
            /\ deployments' = ds /\ caches' = r.c /\ buckets' = r.b
            /\ UNCHANGED tree

DeploymentsNext == deploymentState \/ Flush \/ Restart

---------------------------------------------------------------------------
(* The state of a deployment after a block, computed without the caches. *)
Plain(id, n) == thresholdState(tree, newThresholdCaches(deployments), deployments[id], id, n).t

\* Whatever was asked for before, on whatever branch, saved or read back by a
\* release with other definitions, the state a node works with is the one
\* every other node computes from the branch alone.
CachesTransparent ==
    /\ \A id \in DOMAIN deployments, n \in DOMAIN tree :
          thresholdState(tree, caches, deployments[id], id, n).t = Plain(id, n)
    /\ \A n \in DOMAIN tree :
          calcStakeVersion(tree, caches, n).v = calcStakeVersion(tree, newThresholdCaches(deployments), n).v

Edges == {<<"defined", "started">>, <<"defined", "failed">>, <<"started", "lockedin">>,
          <<"started", "failed">>, <<"lockedin", "active">>}

\* The state after a block differs from the state before it only if the
\* block is the last key block of a window, and only along an edge.
Moves(id, n) ==
    \A before \in {Plain(id, tree[n].parent)}, after \in {Plain(id, n)} :
        \/ after = before
        \/ /\ <<before.state, after.state>> \in Edges
           /\ tree[n].key
           /\ (tree[n].keyHeight + 2 - StakeValidationHeight) % RuleChangeActivationInterval = 0
           /\ before.state = "lockedin" => after.choice = before.choice

\* The states of a branch follow the life cycle of a rule change: no vote is
\* undone, and a change is locked in for one window before it is active.
LifeCycle == \A id \in DOMAIN deployments, n \in DOMAIN tree \ {0} : Moves(id, n)

\* The tally that is reported for an agenda counts every vote of the version
\* once: for a choice, or as an abstention.
TalliesAgree ==
    \A id \in DOMAIN deployments, n \in DOMAIN tree :
        LET d == deployments[id]  counts == getVoteCounts(tree, n, d, id)
        IN  /\ counts.Total = CountVoteVersion(tree, n)
            /\ counts.Total = counts.TotalAbstain
                  + MapThenSumSet(LAMBDA k : counts.VoteChoices[k],
                                  {k \in DOMAIN d.choices : ~d.choices[k].isAbstain})

\* The majority of voter versions is the same whichever block was asked for
\* first.
VoterMajorityTransparent ==
    \A m, n \in DOMAIN tree :
        LET first == isVoterMajorityVersion(tree, caches, Version, m)
        IN  isVoterMajorityVersion(tree, first.c, Version, n).v
               = isVoterMajorityVersion(tree, caches, Version, n).v
=============================================================================
