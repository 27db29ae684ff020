----------------------------- MODULE ChainView -----------------------------
(***************************************************************************)
(* How the consensus code looks back from a block (blockchain/chain.go).   *)
(* T is a tree of block nodes: T[0] is the genesis block, every other node *)
(* has a smaller parent.  A node is a key block or a micro block between   *)
(* two of them; keyHeight counts the key blocks below it.  The nodes that  *)
(* were pruned from memory are read back from the database, so the tree is *)
(* the same either way.                                                    *)
(***************************************************************************)
EXTENDS Integers, Sequences, SequencesExt

CONSTANTS
    medianTimeBlocks,        \* the blocks a median time is taken over
    BlockUpgradeNumToCheck   \* the key blocks a majority of versions is taken over

nil == -1    \* no node
err == -2    \* the walk ran past the genesis block

getPrevNodeFromNode(T, n) == T[n].parent

RECURSIVE getPrevKeyNodeFromNode(_, _), AncestorWalk(_, _, _), KeyWalk(_, _, _)
getPrevKeyNodeFromNode(T, n) ==
    IF n = 0 THEN nil
    ELSE IF T[T[n].parent].key THEN T[n].parent ELSE getPrevKeyNodeFromNode(T, T[n].parent)

\* A node itself if it is a key block, else the one before it.
KeyNode(T, n) == IF T[n].key THEN n ELSE getPrevKeyNodeFromNode(T, n)

AncestorWalk(T, n, h) == IF n = nil \/ T[n].height <= h THEN n ELSE AncestorWalk(T, T[n].parent, h)
ancestorNode(T, n, h) == IF h > T[n].height \/ h < 0 THEN nil ELSE AncestorWalk(T, n, h)

\* The parent of the genesis block is not in the database.
KeyWalk(T, n, kh) ==
    CASE n = nil -> err
      [] n # nil /\ T[n].keyHeight + 1 <= kh /\ T[n].key -> n
      [] OTHER -> KeyWalk(T, T[n].parent, kh)
ancestorKeyNode(T, node, kh) ==
    LET n == KeyNode(T, node)
    IN  IF kh > T[n].keyHeight + 1 \/ kh < 0 THEN nil ELSE KeyWalk(T, n, kh)

\* The nodes of a loop over at most k blocks, or key blocks, back from n.
RECURSIVE Back(_, _, _), KeyBack(_, _, _)
Back(T, n, k) == IF n = nil \/ k = 0 THEN <<>> ELSE <<n>> \o Back(T, T[n].parent, k - 1)
KeyBack(T, n, k) ==
    IF n = nil \/ k = 0 THEN <<>> ELSE <<n>> \o KeyBack(T, getPrevKeyNodeFromNode(T, n), k - 1)

isMajorityVersion(T, minVer, n, numRequired) ==
    Cardinality({i \in 1..BlockUpgradeNumToCheck :
        /\ i <= Len(KeyBack(T, n, BlockUpgradeNumToCheck))
        /\ T[KeyBack(T, n, BlockUpgradeNumToCheck)[i]].version >= minVer}) >= numRequired

calcPastMedianTime(T, n) ==
    IF n = nil THEN T[0].time
    ELSE LET ns == Back(T, n, medianTimeBlocks)
         IN  SortSeq([i \in DOMAIN ns |-> T[ns[i]].time], <)[(Len(ns) \div 2) + 1]
=============================================================================
