---------------------------- MODULE AddrManager ----------------------------
(***************************************************************************)
(* The address manager (addrmgr/addrmanager.go): the addresses the node    *)
(* has heard of, in new buckets (an address may be in several) until a     *)
(* connection succeeds and in one tried bucket from then on, the counters  *)
(* that go with them, and the file they are saved in.  Every operation     *)
(* holds the mutex and is one step.                                        *)
(*                                                                         *)
(* Which bucket an address belongs to is a hash and a constant here.       *)
(* Whether an address is bad (isBad) depends on the clock and on counters  *)
(* of failed attempts: any subset of a bucket may be bad.                  *)
(***************************************************************************)
EXTENDS Integers, FiniteSets, Sequences, SequencesExt

CONSTANTS
    Addr,                   \* the routable addresses
    Src,                    \* the peers that report them
    NewBucketOf,            \* getNewBucket, by address and source
    TriedBucketOf,          \* getTriedBucket
    newBucketSize,
    triedBucketSize,
    newBucketsPerAddress,
    MaxStamp                \* bound on the timestamps; the last one is now

NewBucket == {NewBucketOf[a][s] : a \in Addr, s \in Src}
TriedBucket == {TriedBucketOf[a] : a \in Addr}

ASSUME AddrAssumption ==
    /\ IsFiniteSet(Addr) /\ IsFiniteSet(NewBucket) /\ IsFiniteSet(TriedBucket)
    /\ NewBucket \subseteq Nat
    /\ newBucketSize \in Nat \ {0} /\ triedBucketSize \in Nat \ {0}
    /\ newBucketsPerAddress \in Nat \ {0} /\ MaxStamp \in Nat \ {0}

VARIABLES
    addrIndex,      \* addrIndex: the known addresses and their KnownAddress
    addrNew,        \* addrNew: the addresses of every new bucket
    addrTried,      \* addrTried: the list of every tried bucket
    nNew, nTried,   \* the counters
    peersFile       \* what the file holds: nothing, half of it, or a copy

addrVars == <<addrIndex, addrNew, addrTried, nNew, nTried, peersFile>>

Known == DOMAIN addrIndex
With(f, a, r) == [x \in DOMAIN f \union {a} |-> IF x = a THEN r ELSE f[x]]

\* The manager without the file, so that the helpers can be chained.
Tables == [index |-> addrIndex, new |-> addrNew, nNew |-> nNew]
SetTables(t) == addrIndex' = t.index /\ addrNew' = t.new /\ nNew' = t.nNew

-----------------------------------------------------------------------------
\* Mutant: the counter is not lowered with the last reference.
DropFromNewOnly(t, b, S) ==
    LET gone == {a \in S : t.index[a].refs = 1} IN
    [index |-> [a \in DOMAIN t.index \ gone |->
                  IF a \in S THEN [t.index[a] EXCEPT !.refs = @ - 1] ELSE t.index[a]],
     new   |-> [t.new EXCEPT ![b] = @ \ S],
     nNew  |-> t.nNew]

\* The addresses S leave new bucket b; those without a reference are forgotten.
DropFromNew(t, b, S) ==
    LET gone == {a \in S : t.index[a].refs = 1} IN
    [index |-> [a \in DOMAIN t.index \ gone |->
                  IF a \in S THEN [t.index[a] EXCEPT !.refs = @ - 1] ELSE t.index[a]],
     new   |-> [t.new EXCEPT ![b] = @ \ S],
     nNew  |-> t.nNew - Cardinality(gone)]

\* expireNew: the bad addresses of the bucket go, and one of the oldest others.
expireNew(t, b) ==
    UNION { LET rest == t.new[b] \ bad
                oldest == {a \in rest : \A c \in rest : t.index[a].stamp <= t.index[c].stamp}
            IN IF rest = {} THEN {DropFromNew(t, b, bad)}
               ELSE {DropFromNew(t, b, bad \union {a}) : a \in oldest}
            : bad \in SUBSET t.new[b] }

\* Address a gets a reference in new bucket b.
Place(t, a, b) ==
    [index |-> [t.index EXCEPT ![a].refs = @ + 1],
     new   |-> [t.new EXCEPT ![b] = @ \union {a}],
     nNew  |-> t.nNew]

\* updateAddress, the part after the checks: address a, which has an entry in
\* the index, gets another reference in the bucket for this source.
PutInNew(t, a, s) ==
    LET b == NewBucketOf[a][s] IN
    IF a \in t.new[b] THEN {t}
    ELSE { Place(u, a, b)
           : u \in IF Cardinality(t.new[b]) > newBucketSize THEN expireNew(t, b) ELSE {t} }

\* AddAddress.  A known address takes the newer timestamp; it gets another
\* reference with a probability that falls with their number.
AddAddress(a, s, stamp) ==
    /\ IF a \in Known
       THEN LET t == IF stamp > addrIndex[a].stamp
                     THEN [Tables EXCEPT !.index[a].stamp = stamp] ELSE Tables
            IN \E u \in {t} \union (IF addrIndex[a].tried \/ addrIndex[a].refs = newBucketsPerAddress
                                    THEN {} ELSE PutInNew(t, a, s)) : SetTables(u)
       ELSE LET t == [Tables EXCEPT
                        !.index = With(@, a, [stamp |-> stamp, src |-> s, tried |-> FALSE, refs |-> 0]),
                        !.nNew = @ + 1]
            IN \E u \in PutInNew(t, a, s) : SetTables(u)
    /\ UNCHANGED <<addrTried, nTried, peersFile>>

\* pickTried: the oldest of the list, the first one if there are several.
pickTried(b) ==
    CHOOSE i \in DOMAIN addrTried[b] :
       \A j \in DOMAIN addrTried[b] :
          LET si == addrIndex[addrTried[b][i]].stamp
              sj == addrIndex[addrTried[b][j]].stamp
          IN si < sj \/ (si = sj /\ i <= j)

\* Good: the address moves from the new buckets to its tried bucket; if that
\* is full the oldest address there goes back to a new bucket, its own or, if
\* that is full, the first one the address has just left.
Good(a) ==
    LET ka == addrIndex[a]
        from == {b \in NewBucket : a \in addrNew[b]}
        old == CHOOSE b \in from : \A c \in from : b <= c
        new == [b \in NewBucket |-> addrNew[b] \ {a}]
        tb == TriedBucketOf[a]
        i == pickTried(tb)
        rm == addrTried[tb][i]
        nb == IF Cardinality(new[NewBucketOf[rm][addrIndex[rm].src]]) >= newBucketSize
              THEN old ELSE NewBucketOf[rm][addrIndex[rm].src]
    IN /\ a \in Known
       /\ ~ka.tried
       /\ from # {}
       /\ IF Len(addrTried[tb]) < triedBucketSize
          THEN /\ addrIndex' = [addrIndex EXCEPT ![a].tried = TRUE, ![a].refs = @ - Cardinality(from)]
               /\ addrNew' = new
               /\ addrTried' = [addrTried EXCEPT ![tb] = Append(@, a)]
               /\ nTried' = nTried + 1
               /\ nNew' = nNew - 1
          ELSE /\ addrIndex' = [addrIndex EXCEPT ![a].tried = TRUE,
                                                 ![a].refs = @ - Cardinality(from),
                                                 ![rm].tried = FALSE,
                                                 ![rm].refs = @ + 1]
               /\ addrNew' = [new EXCEPT ![nb] = @ \union {rm}]
               /\ addrTried' = [addrTried EXCEPT ![tb][i] = a]
               /\ UNCHANGED <<nTried, nNew>>
       /\ UNCHANGED peersFile

\* Connected refreshes the timestamp.
Connected(a) ==
    /\ a \in Known
    /\ addrIndex' = [addrIndex EXCEPT ![a].stamp = MaxStamp]
    /\ UNCHANGED <<addrNew, addrTried, nNew, nTried, peersFile>>

-----------------------------------------------------------------------------
(* The file.  savePeers truncates it before it writes. *)

Nothing == [whole |-> TRUE, src |-> <<>>, new |-> [b \in NewBucket |-> {}],
            tried |-> [b \in TriedBucket |-> <<>>]]
Half == [Nothing EXCEPT !.whole = FALSE]

savePeers ==
    /\ peersFile' \in {Half,
          [whole |-> TRUE, src |-> [a \in Known |-> addrIndex[a].src],
           new |-> addrNew, tried |-> addrTried]}
    /\ UNCHANGED <<addrIndex, addrNew, addrTried, nNew, nTried>>

\* A restart: loadPeers.  References and the tried flag follow from the
\* buckets; the timestamp is not restored, every address has been seen now.
\* A file that cannot be parsed is removed.
Restart ==
    LET f == IF peersFile.whole THEN peersFile ELSE Nothing
        refs(a) == Cardinality({b \in NewBucket : a \in f.new[b]})
        isTried(a) == \E b \in TriedBucket : a \in ToSet(f.tried[b])
    IN /\ addrIndex' = [a \in DOMAIN f.src |->
                          [stamp |-> MaxStamp, src |-> f.src[a],
                           tried |-> isTried(a), refs |-> refs(a)]]
       /\ addrNew' = f.new
       /\ addrTried' = f.tried
       /\ nNew' = Cardinality({a \in DOMAIN f.src : refs(a) > 0})
       /\ nTried' = Cardinality(UNION {{b} \X DOMAIN f.tried[b] : b \in TriedBucket})
       /\ peersFile' = f

InitAddr ==
    /\ addrIndex = <<>>
    /\ addrNew = Nothing.new
    /\ addrTried = Nothing.tried
    /\ nNew = 0 /\ nTried = 0
    /\ peersFile = Nothing

NextAddr ==
    \/ \E a \in Addr : \/ \E s \in Src, stamp \in 1..MaxStamp : AddAddress(a, s, stamp)
                       \/ Good(a) \/ Connected(a)
    \/ savePeers \/ Restart

SpecAddr == InitAddr /\ [][NextAddr]_addrVars

-----------------------------------------------------------------------------
\* Where the tables, the index and the counters agree.
TablesAgree(index, new, tried, nN, nT) ==
    /\ \A b \in NewBucket : new[b] \subseteq DOMAIN index
    /\ \A a \in DOMAIN index :
          LET places == {p \in TriedBucket \X (1..triedBucketSize) :
                           p[2] \in DOMAIN tried[p[1]] /\ tried[p[1]][p[2]] = a}
          IN /\ index[a].refs = Cardinality({b \in NewBucket : a \in new[b]})
             /\ index[a].refs <= newBucketsPerAddress
             /\ Cardinality(places) = IF index[a].tried THEN 1 ELSE 0
             /\ index[a].tried <=> index[a].refs = 0
    /\ nN = Cardinality({a \in DOMAIN index : ~index[a].tried})
    /\ nT = Cardinality({a \in DOMAIN index : index[a].tried})

\* An address is in new buckets or in one tried bucket, never in both or in
\* neither, its reference count is the number of new buckets that hold it, and
\* the counters are the sizes of the two tables.  updateAddress divides by the
\* count (a known address without a reference would make rand.Int31n panic),
\* and GetAddress searches the tables the counters call non-empty until it
\* finds an address.  A bucket holds at most one address more than its size
\* (updateAddress makes room only in a bucket that is over it).  The same is
\* true of the tables that a restart builds from the file.
AddrTablesAgree ==
    /\ TablesAgree(addrIndex, addrNew, addrTried, nNew, nTried)
    /\ \A b \in NewBucket : Cardinality(addrNew[b]) <= newBucketSize + 1
    /\ \A b \in TriedBucket : Len(addrTried[b]) <= triedBucketSize
    /\ \A a \in DOMAIN peersFile.src :
          (\E b \in NewBucket : a \in peersFile.new[b])
             <=> ~(\E b \in TriedBucket : a \in ToSet(peersFile.tried[b]))
=============================================================================
