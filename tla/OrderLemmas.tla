---------------------------- MODULE OrderLemmas -----------------------------
(* Least and greatest elements, for the proofs that choose the oldest      *)
(* orphan or the lowest block of a branch.                                 *)
EXTENDS Integers, WellFoundedInduction, TLAPS

(* A nonempty set of naturals has a least element. *)
LEMMA LeastNatural ==
    ASSUME NEW T, T \subseteq Nat, T # {}
    PROVE  \E t \in T : \A u \in T : t =< u
<1>1. PICK t \in T : \A u \in T : ~ (<<u, t>> \in OpToRel(<, Nat))
  BY NatLessThanWellFounded, WFMin
<1>2. ASSUME NEW u \in T PROVE t =< u
  <2>1. u \in Nat /\ t \in Nat
    OBVIOUS
  <2>2. u < t => <<u, t>> \in OpToRel(<, Nat)
    BY <2>1 DEF OpToRel
  <2>3. ~ (u < t)
    BY <1>1, <2>2
  <2> QED BY <2>1, <2>3
<1> QED BY <1>2

(* A nonempty set has an element of least rank. *)
LEMMA LeastRank ==
    ASSUME NEW S, S # {}, NEW rank, \A x \in S : rank[x] \in Nat
    PROVE  \E x \in S : \A y \in S : rank[x] =< rank[y]
<1> DEFINE T == {rank[x] : x \in S}
<1>1. T \subseteq Nat /\ T # {}
  OBVIOUS
<1>2. PICK t \in T : \A u \in T : t =< u
  BY <1>1, LeastNatural
<1> QED BY <1>2

(* It has one of greatest rank if the ranks are bounded. *)
LEMMA GreatestRank ==
    ASSUME NEW S, S # {}, NEW rank, NEW bound \in Nat,
           \A x \in S : rank[x] \in Nat /\ rank[x] =< bound
    PROVE  \E x \in S : \A y \in S : rank[y] =< rank[x]
<1> DEFINE T == {bound - rank[x] : x \in S}
<1>1. T \subseteq Nat /\ T # {}
  OBVIOUS
<1>2. PICK t \in T : \A u \in T : t =< u
  BY <1>1, LeastNatural
<1>3. PICK x \in S : t = bound - rank[x]
  BY <1>2
<1>4. ASSUME NEW y \in S PROVE rank[y] =< rank[x]
  <2>1. bound - rank[x] =< bound - rank[y]
    BY <1>2, <1>3
  <2> QED BY <2>1
<1> QED BY <1>4
=============================================================================
