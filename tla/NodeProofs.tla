----------------------------- MODULE NodeProofs -----------------------------
(***************************************************************************)
(* Proofs about the goroutines of the node: the script validators          *)
(* (ScriptVal) with their signature cache, the CPU miner (CPUMiner),       *)
(* the notification manager (NtfnManager) and the block manager            *)
(* (SyncManager).                                                          *)
(*                                                                         *)
(* ScriptInv counts: the results processed and the goroutines that still   *)
(* hold an item make up the items sent, and every item sent is good or is  *)
(* held by a goroutine.  So a validation that has processed as many        *)
(* results as it has items has seen every one of them good.                *)
(*                                                                         *)
(* MinerInv says who holds the mutex of the miner, which quit channels are *)
(* open, that GenerateNBlocks and the controller exclude each other, and   *)
(* what the controller knows of the number of workers where it reads it    *)
(* without the lock.                                                       *)
(*                                                                         *)
(* NtfnInv says of a client whose registration was answered that it is in  *)
(* the map of the handler when the messages before the event have been     *)
(* handled (Subscribing, with RegisteredAt for the position of the event), *)
(* that the events wait in their order behind those delivered              *)
(* (EventsOrdered), and that a filter watches the payments it matched      *)
(* (FiltersWatch).                                                         *)
(*                                                                         *)
(* SyncInv types the block manager, its chain and its peers, and says that *)
(* a version message is only ever the first one on the wire of a peer not  *)
(* yet announced, that a block marked as requested was asked of a peer the *)
(* manager still knows, and that the sync peer and the candidates were     *)
(* announced and are not gone, unless a message of a peer came too late.   *)
(***************************************************************************)
EXTENDS CPUMiner, ScriptVal, NtfnManager, SyncManager, OrderLemmas, FiniteSetTheorems, SequenceTheorems, TLAPS

(* What one input has to be checked for: the hash that is signed, and the  *)
(* key.                                                                    *)
Check == Hash \X Key
(* The places of a goroutine that holds an item.                           *)
BusyAt == {"look", "verify", "good", "bad"}
(* A goroutine of validateHandler and its item.                            *)
Handler == [at : {"none", "select"} \cup BusyAt, item : Check]
(* The caller of Validate, with its two counters.                          *)
ValidateRec == [at : {"new", "run", "nil", "error"}, sent : Nat, processed : Nat]

(* The types of the validators.                                            *)
ScriptType ==
    /\ inputs \in [Validator -> Seq(Check)]
    /\ validate \in [Validator -> ValidateRec]
    /\ handlers \in [Validator -> [1..Goroutines -> Handler]]

(* The items a validation has sent to its goroutines.                      *)
Sent(v) == {i \in Items(v) : i <= validate[v].sent}
(* The goroutines of a validation that hold an item.                       *)
Busy(v) == {g \in 1..Goroutines : handlers[v][g].at \in BusyAt}
(* Every input that has to be checked is good.                             *)
AllGood(v) == \A i \in Items(v) : Good(inputs[v][i])

(* The result a goroutine holds is the truth about its item, which is one  *)
(* of the validation's.                                                    *)
ResultsTrue(v) ==
    \A g \in 1..Goroutines :
        LET h == handlers[v][g]
        IN  /\ h.at = "good" => Good(h.item)
            /\ h.at = "bad" => ~Good(h.item)
            /\ h.at \in BusyAt => \E i \in Items(v) : inputs[v][i] = h.item

(* Items sent are processed or held, none twice; and an item that is not   *)
(* held any more was good, since a bad one ends the validation.            *)
Accounts(v) ==
    /\ validate[v].processed + Cardinality(Busy(v)) = Cardinality(Sent(v))
    /\ \A i \in Sent(v) : \/ Good(inputs[v][i])
                          \/ \E g \in Busy(v) : handlers[v][g].item = inputs[v][i]

(* What the caller of Validate knows at each of its places.                *)
Judged(v) ==
    /\ validate[v].at = "new" => /\ validate[v].sent = 0 /\ validate[v].processed = 0
                                 /\ Busy(v) = {}
    /\ validate[v].at = "run" => Accounts(v)
    /\ validate[v].at = "nil" => AllGood(v)
    /\ validate[v].at = "error" => ~AllGood(v)

(* The signature cache holds true entries only, and no more than it may.   *)
CacheInv ==
    /\ \A h \in DOMAIN validSigs : Good(<<h, validSigs[h]>>)
    /\ IsFiniteSet(DOMAIN validSigs) /\ Cardinality(DOMAIN validSigs) <= maxEntries

(* The inductive invariant of the validators.                              *)
ScriptInv ==
    /\ ScriptType /\ CacheInv
    /\ \A v \in Validator : ResultsTrue(v) /\ Judged(v)

(* The invariant implies the property of the run.                          *)
LEMMA ScriptInvImplies == ScriptInv => ScriptsJudged
BY DEF ScriptInv, Judged, AllGood, CacheInv, ScriptsJudged

(* The sets the counting is about are finite, and the items are positions  *)
(* in the inputs.                                                          *)
LEMMA ScriptFacts ==
    ASSUME ScriptType, NEW v \in Validator
    PROVE  /\ Items(v) \subseteq Nat /\ IsFiniteSet(Items(v))
           /\ Cardinality(Items(v)) \in Nat
           /\ IsFiniteSet(Sent(v)) /\ Cardinality(Sent(v)) \in Nat
           /\ IsFiniteSet(Busy(v)) /\ Cardinality(Busy(v)) \in Nat
           /\ \A i \in Items(v) : i > 0 /\ inputs[v][i] \in Check
<1>1. inputs[v] \in Seq(Check)
    BY DEF ScriptType
<1>2. DOMAIN inputs[v] = 1..Len(inputs[v]) /\ Len(inputs[v]) \in Nat
    BY <1>1
<1>3. IsFiniteSet(1..Len(inputs[v]))
    <2>1. 1 \in Int /\ Len(inputs[v]) \in Int
        BY <1>2
    <2> QED BY <2>1, FS_Interval
<1>4. Items(v) \subseteq 1..Len(inputs[v]) /\ Sent(v) \subseteq 1..Len(inputs[v])
    BY <1>2 DEF Items, Sent
<1>5. IsFiniteSet(Items(v)) /\ IsFiniteSet(Sent(v))
    BY <1>3, <1>4, FS_Subset
<1>6. IsFiniteSet(Busy(v))
    <2>1. 1 \in Int /\ Goroutines \in Int
        BY ScriptAssumption
    <2>2. IsFiniteSet(1..Goroutines)
        BY <2>1, FS_Interval
    <2> QED BY <2>2, FS_Subset DEF Busy
<1>7. \A i \in Items(v) : i > 0 /\ inputs[v][i] \in Check
    BY <1>1, <1>4
<1> QED BY <1>4, <1>5, <1>6, <1>7, <1>2, FS_CardinalityType

(* The invariant holds when nothing has been sent.                         *)
LEMMA ScriptInitInv == InitScripts => ScriptInv
<1> SUFFICES ASSUME InitScripts PROVE ScriptInv
    OBVIOUS
<1>1. /\ validate = [v \in Validator |-> [at |-> "new", sent |-> 0, processed |-> 0]]
      /\ handlers = [v \in Validator |-> [g \in 1..Goroutines |-> Ended]]
      /\ validSigs = <<>>
    BY DEF InitScripts
<1>2. Ended \in Handler /\ Ended.at = "none"
    BY ScriptAssumption DEF Ended, Handler, Check
<1>3. ScriptType
    <2>1. inputs \in [Validator -> Seq(Check)]
        BY ScriptAssumption DEF InitScripts, Check
    <2>2. validate \in [Validator -> ValidateRec]
        BY <1>1 DEF ValidateRec
    <2>3. handlers \in [Validator -> [1..Goroutines -> Handler]]
        BY <1>1, <1>2
    <2> QED BY <2>1, <2>2, <2>3 DEF ScriptType
<1>4. CacheInv
    <2>1. DOMAIN validSigs = {}
        BY <1>1
    <2>2. IsFiniteSet({}) /\ Cardinality({}) = 0
        BY FS_EmptySet
    <2> QED BY <2>1, <2>2, ScriptAssumption DEF CacheInv
<1>5. ASSUME NEW v \in Validator PROVE ResultsTrue(v) /\ Judged(v)
    <2>1. \A g \in 1..Goroutines : handlers[v][g].at = "none"
        BY <1>1, <1>2
    <2>2. /\ validate[v].at = "new" /\ validate[v].sent = 0 /\ validate[v].processed = 0
        BY <1>1
    <2>3. Busy(v) = {}
        BY <2>1 DEF Busy, BusyAt
    <2> QED BY <2>1, <2>2, <2>3 DEF ResultsTrue, Judged, BusyAt
<1> QED BY <1>3, <1>4, <1>5 DEF ScriptInv

(* A step of goroutine g of validator w.                                   *)
LEMMA SetHandlerIs ==
    ASSUME ScriptType, NEW w \in Validator, NEW g \in 1..Goroutines,
           NEW at \in {"none", "select"} \cup BusyAt, NEW item \in Check,
           SetHandler(w, g, at, item)
    PROVE  /\ handlers' \in [Validator -> [1..Goroutines -> Handler]]
           /\ handlers'[w][g].at = at /\ handlers'[w][g].item = item
           /\ \A k \in 1..Goroutines : k # g => handlers'[w][k] = handlers[w][k]
           /\ \A v \in Validator : v # w => handlers'[v] = handlers[v]
<1> DEFINE h == [at |-> at, item |-> item]
<1>1. h \in Handler /\ h.at = at /\ h.item = item
    BY DEF Handler
<1>2. handlers' = [handlers EXCEPT ![w][g] = h]
    BY DEF SetHandler
<1> HIDE DEF h
<1>3. handlers \in [Validator -> [1..Goroutines -> Handler]]
    BY DEF ScriptType
<1> QED BY <1>1, <1>2, <1>3

(* The other validators are not concerned.                                 *)
LEMMA Others ==
    ASSUME ScriptInv, UNCHANGED inputs, NEW v \in Validator,
           handlers'[v] = handlers[v], validate'[v] = validate[v]
    PROVE  ResultsTrue(v)' /\ Judged(v)'
<1>1. Items(v)' = Items(v)
    BY DEF Items
<1>2. Sent(v)' = Sent(v) /\ Busy(v)' = Busy(v) /\ (AllGood(v)' <=> AllGood(v))
    BY <1>1 DEF Sent, Busy, AllGood
<1>3. ResultsTrue(v) /\ Judged(v)
    BY DEF ScriptInv
<1>4. ResultsTrue(v)'
    BY <1>1, <1>3 DEF ResultsTrue
<1>5. Judged(v)'
    BY <1>1, <1>2, <1>3 DEF Judged, Accounts
<1> QED BY <1>4, <1>5

(* What remains to be shown for a step of validator w.                     *)
LEMMA OwnValidator ==
    ASSUME ScriptInv, UNCHANGED inputs, NEW w \in Validator,
           handlers' \in [Validator -> [1..Goroutines -> Handler]],
           validate' \in [Validator -> ValidateRec], CacheInv',
           \A v \in Validator : v # w => handlers'[v] = handlers[v]
                                         /\ validate'[v] = validate[v],
           ResultsTrue(w)', Judged(w)'
    PROVE  ScriptInv'
<1>1. ScriptType'
    BY DEF ScriptInv, ScriptType
<1>2. ASSUME NEW v \in Validator PROVE ResultsTrue(v)' /\ Judged(v)'
    <2>1. CASE v = w
        BY <2>1
    <2>2. CASE v # w
        BY <2>2, Others
    <2> QED BY <2>1, <2>2
<1> QED BY <1>1, <1>2 DEF ScriptInv

(* The goroutine keeps its item, or waits and ends.                        *)
LEMMA BusyKept ==
    ASSUME ScriptInv, UNCHANGED <<inputs, validate>>, NEW w \in Validator,
           NEW g \in 1..Goroutines, NEW at \in {"none", "select"} \cup BusyAt,
           NEW item \in Check, SetHandler(w, g, at, item), CacheInv',
           handlers[w][g].at \in BusyAt <=> at \in BusyAt,
           at \in BusyAt => item = handlers[w][g].item,
           at = "good" => Good(item), at = "bad" => ~Good(item)
    PROVE  ScriptInv'
<1>1. ScriptType /\ ResultsTrue(w) /\ Judged(w)
    BY DEF ScriptInv
<1>2. /\ handlers' \in [Validator -> [1..Goroutines -> Handler]]
      /\ handlers'[w][g].at = at /\ handlers'[w][g].item = item
      /\ \A k \in 1..Goroutines : k # g => handlers'[w][k] = handlers[w][k]
      /\ \A v \in Validator : v # w => handlers'[v] = handlers[v]
    BY <1>1, SetHandlerIs
<1>3. /\ Items(w)' = Items(w) /\ inputs' = inputs /\ validate' = validate
      /\ Sent(w)' = Sent(w) /\ (AllGood(w)' <=> AllGood(w))
    BY DEF Items, Sent, AllGood
<1>4. Busy(w)' = Busy(w)
    BY <1>2 DEF Busy
<1>5. \A k \in Busy(w) : handlers'[w][k].item = handlers[w][k].item
    BY <1>2 DEF Busy
<1>6. ResultsTrue(w)'
    <2>1. ASSUME NEW k \in 1..Goroutines
          PROVE  /\ handlers'[w][k].at = "good" => Good(handlers'[w][k].item)
                 /\ handlers'[w][k].at = "bad" => ~Good(handlers'[w][k].item)
                 /\ handlers'[w][k].at \in BusyAt =>
                        \E i \in Items(w) : inputs[w][i] = handlers'[w][k].item
        <3>1. CASE k = g
            BY <3>1, <1>1, <1>2 DEF ResultsTrue
        <3>2. CASE k # g
            BY <3>2, <1>1, <1>2 DEF ResultsTrue
        <3> QED BY <3>1, <3>2
    <2> QED BY <2>1, <1>3 DEF ResultsTrue
<1>7. Judged(w)'
    BY <1>1, <1>3, <1>4, <1>5 DEF Judged, Accounts
<1>8. validate' \in [Validator -> ValidateRec]
    BY <1>1, <1>3 DEF ScriptType
<1> QED BY <1>2, <1>3, <1>6, <1>7, <1>8, OwnValidator

(* The types of what a goroutine holds.                                    *)
LEMMA HandlerFacts ==
    ASSUME ScriptInv, NEW w \in Validator, NEW g \in 1..Goroutines
    PROVE  /\ handlers[w][g].at \in {"none", "select"} \cup BusyAt
           /\ handlers[w][g].item \in Check
BY DEF ScriptInv, ScriptType, Handler

(* A goroutine looks its item up in the cache: a hit is true, since the    *)
(* cache is.                                                               *)
LEMMA LookStep ==
    ASSUME ScriptInv, NEW w \in Validator, NEW g \in 1..Goroutines, Look(w, g)
    PROVE  ScriptInv'
<1> DEFINE i == handlers[w][g].item
           at == IF i = Unfit THEN "bad" ELSE IF Exists(i) THEN "good" ELSE "verify"
<1>1. /\ handlers[w][g].at = "look" /\ SetHandler(w, g, at, i)
      /\ UNCHANGED <<inputs, validate>> /\ validSigs' = validSigs
    BY DEF Look, handler
<1>2. i \in Check
    BY HandlerFacts
<1>3. at \in BusyAt /\ handlers[w][g].at \in BusyAt
    BY <1>1 DEF BusyAt
<1>4. at = "good" => Good(i)
    <2>1. ASSUME Exists(i) PROVE Good(i)
        <3>1. i[1] \in DOMAIN validSigs /\ validSigs[i[1]] = i[2]
            BY <2>1 DEF Exists
        <3>2. Good(<<i[1], validSigs[i[1]]>>)
            BY <3>1 DEF ScriptInv, CacheInv
        <3>3. i = <<i[1], i[2]>>
            BY <1>2 DEF Check
        <3> QED BY <3>1, <3>2, <3>3
    <2> QED BY <2>1
<1>5. at = "bad" => ~Good(i)
    BY ScriptAssumption DEF Good
<1>6. CacheInv'
    BY <1>1 DEF ScriptInv, CacheInv
<1> HIDE DEF i, at
<1>7. i = handlers[w][g].item /\ at \in {"none", "select"} \cup BusyAt
    BY <1>3 DEF i
<1> QED BY <1>1, <1>2, <1>3, <1>4, <1>5, <1>6, <1>7, BusyKept

(* Adding a verified signature keeps the cache true and within its limit.  *)
LEMMA AddKeeps ==
    ASSUME CacheInv, NEW check \in Check, Good(check), Add(check)
    PROVE  CacheInv'
<1> DEFINE D == DOMAIN validSigs
<1>0. IsFiniteSet(D) /\ Cardinality(D) \in Nat /\ Cardinality(D) <= maxEntries
      /\ maxEntries \in Nat /\ check = <<check[1], check[2]>>
    BY FS_CardinalityType, ScriptAssumption DEF CacheInv, Check
<1> DEFINE With(kept) == [h \in kept \cup {check[1]} |->
                             IF h = check[1] THEN check[2] ELSE validSigs[h]]
<1>1. ASSUME NEW kept \in SUBSET D, validSigs' = With(kept),
             Cardinality(kept) + 1 <= maxEntries
      PROVE  CacheInv'
    <2>1. DOMAIN validSigs' = kept \cup {check[1]}
        BY <1>1
    <2>2. \A h \in DOMAIN validSigs' : Good(<<h, validSigs'[h]>>)
        BY <1>0, <1>1, <2>1 DEF CacheInv
    <2>3. IsFiniteSet(kept) /\ Cardinality(kept) \in Nat
        BY <1>0, FS_Subset, FS_CardinalityType
    <2>4. /\ IsFiniteSet(kept \cup {check[1]})
          /\ \/ Cardinality(kept \cup {check[1]}) = Cardinality(kept)
             \/ Cardinality(kept \cup {check[1]}) = Cardinality(kept) + 1
        BY <2>3, FS_AddElement
    <2>5. Cardinality(kept \cup {check[1]}) <= maxEntries
        BY <1>0, <1>1, <2>3, <2>4
    <2> QED BY <2>1, <2>2, <2>4, <2>5 DEF CacheInv
<1>2. CASE maxEntries = 0
    BY <1>2 DEF Add, CacheInv
<1>3. CASE maxEntries # 0 /\ ~(Cardinality(D) + 1 > maxEntries)
    <2>1. validSigs' = With(D)
        BY <1>3 DEF Add
    <2> QED BY <1>0, <1>1, <1>3, <2>1
<1>4. CASE maxEntries # 0 /\ Cardinality(D) + 1 > maxEntries
    <2>1. PICK h \in D : validSigs' = With(D \ {h})
        BY <1>4 DEF Add
    <2>2. Cardinality(D \ {h}) = Cardinality(D) - 1
        BY <1>0, FS_RemoveElement
    <2> QED BY <1>0, <1>1, <2>1, <2>2
<1> QED BY <1>2, <1>3, <1>4

(* The script engine judges an item by what it is.                         *)
LEMMA VerifyStep ==
    ASSUME ScriptInv, NEW w \in Validator, NEW g \in 1..Goroutines, Verify(w, g)
    PROVE  ScriptInv'
<1> DEFINE i == handlers[w][g].item
           at == IF Good(i) THEN "good" ELSE "bad"
<1>1. /\ handlers[w][g].at = "verify" /\ SetHandler(w, g, at, i)
      /\ UNCHANGED <<inputs, validate>>
      /\ IF Good(i) THEN Add(i) ELSE UNCHANGED validSigs
    BY DEF Verify, handler
<1>2. i \in Check /\ CacheInv
    BY HandlerFacts DEF ScriptInv
<1>3. at \in BusyAt /\ handlers[w][g].at \in BusyAt
    BY <1>1 DEF BusyAt
<1>4. (at = "good" => Good(i)) /\ (at = "bad" => ~Good(i))
    OBVIOUS
<1> HIDE DEF i, at
<1>5. CacheInv'
    <2>1. CASE Good(i)
        BY <1>1, <1>2, <2>1, AddKeeps
    <2>2. CASE ~Good(i)
        BY <1>1, <1>2, <2>2 DEF CacheInv
    <2> QED BY <2>1, <2>2
<1>6. i = handlers[w][g].item /\ at \in {"none", "select"} \cup BusyAt
    BY <1>3 DEF i
<1> QED BY <1>1, <1>2, <1>3, <1>4, <1>5, <1>6, BusyKept

(* A goroutine ends when quitChan is closed: the validation has its        *)
(* result.                                                                 *)
LEMMA QuitStep ==
    ASSUME ScriptInv, NEW w \in Validator, NEW g \in 1..Goroutines, QuitHandler(w, g)
    PROVE  ScriptInv'
<1>1. /\ handlers[w][g].at = "select" /\ SetHandler(w, g, "none", Unfit)
      /\ UNCHANGED <<inputs, validate>> /\ validSigs' = validSigs
    BY DEF QuitHandler, handler
<1>2. /\ Unfit \in Check /\ "none" \in {"none", "select"} \cup BusyAt
      /\ "none" \notin BusyAt /\ handlers[w][g].at \notin BusyAt
    BY <1>1, ScriptAssumption DEF Check, BusyAt
<1>3. CacheInv'
    BY <1>1 DEF ScriptInv, CacheInv
<1> QED BY <1>1, <1>2, <1>3, BusyKept

(* A result reaches the caller: a good one is counted, a bad one ends the  *)
(* validation.                                                             *)
LEMMA SendResultStep ==
    ASSUME ScriptInv, NEW w \in Validator, NEW g \in 1..Goroutines, sendResult(w, g)
    PROVE  ScriptInv'
<1> DEFINE old == handlers[w][g]
           at == IF old.at = "good" THEN "select" ELSE "none"
<1>1. /\ old.at \in {"good", "bad"} /\ SetHandler(w, g, at, Unfit)
      /\ inputs' = inputs /\ validSigs' = validSigs
    BY DEF sendResult, handler
<1>2. /\ ScriptType /\ ResultsTrue(w) /\ Judged(w) /\ Unfit \in Check
      /\ at \in {"none", "select"} \cup BusyAt /\ at \notin BusyAt /\ old.at \in BusyAt
    BY <1>1, ScriptAssumption DEF ScriptInv, Check, BusyAt
<1> HIDE DEF at
<1>3. /\ handlers' \in [Validator -> [1..Goroutines -> Handler]]
      /\ handlers'[w][g].at = at
      /\ \A k \in 1..Goroutines : k # g => handlers'[w][k] = handlers[w][k]
      /\ \A v \in Validator : v # w => handlers'[v] = handlers[v]
    BY <1>1, <1>2, SetHandlerIs
<1>4. CacheInv'
    BY <1>1 DEF ScriptInv, CacheInv
<1>5. Items(w)' = Items(w) /\ (AllGood(w)' <=> AllGood(w))
    BY <1>1 DEF Items, AllGood
<1>6. ResultsTrue(w)'
    <2>1. ASSUME NEW k \in 1..Goroutines
          PROVE  /\ handlers'[w][k].at = "good" => Good(handlers'[w][k].item)
                 /\ handlers'[w][k].at = "bad" => ~Good(handlers'[w][k].item)
                 /\ handlers'[w][k].at \in BusyAt =>
                        \E i \in Items(w) : inputs[w][i] = handlers'[w][k].item
        <3>1. CASE k = g
            BY <3>1, <1>2, <1>3 DEF BusyAt
        <3>2. CASE k # g
            BY <3>2, <1>2, <1>3 DEF ResultsTrue
        <3> QED BY <3>1, <3>2
    <2> QED BY <2>1, <1>1, <1>5 DEF ResultsTrue
<1>7. CASE Closed(w) /\ UNCHANGED validate
    <2>1. Judged(w)'
        <3>1. validate'[w] = validate[w]
              /\ (validate[w].at = "nil" \/ validate[w].at = "error")
            BY <1>7 DEF Closed
        <3> QED BY <3>1, <1>2, <1>5 DEF Judged
    <2>2. validate' \in [Validator -> ValidateRec]
        BY <1>2, <1>7 DEF ScriptType
    <2> QED BY <1>1, <1>3, <1>4, <1>6, <1>7, <2>1, <2>2, OwnValidator
<1>8. CASE /\ validate[w].at = "run"
           /\ validate' = [validate EXCEPT
                  ![w].processed = @ + 1,
                  ![w].at = IF old.at = "bad" THEN "error" ELSE @]
    <2> DEFINE e == IF old.at = "bad" THEN "error" ELSE validate[w].at
               n == [validate[w] EXCEPT !.processed = @ + 1, !.at = e]
    <2>1. validate[w] \in ValidateRec /\ validate \in [Validator -> ValidateRec]
        BY <1>2 DEF ScriptType
    <2>3. validate' = [validate EXCEPT ![w] = n]
        BY <1>8, <2>1
    <2>7. e = IF old.at = "bad" THEN "error" ELSE "run"
        BY <1>8
    <2>8. e \in {"error", "run"}
        BY <2>7
    <2> HIDE DEF e
    <2>2. /\ n \in ValidateRec /\ n.sent = validate[w].sent
          /\ n.processed = validate[w].processed + 1 /\ n.at = e
        <3>1. validate[w].processed + 1 \in Nat
            BY <2>1 DEF ValidateRec
        <3> QED BY <2>1, <2>8, <3>1 DEF ValidateRec
    <2> HIDE DEF n
    <2>4. /\ validate' \in [Validator -> ValidateRec] /\ validate'[w] = n
          /\ \A v \in Validator : v # w => validate'[v] = validate[v]
        BY <2>1, <2>2, <2>3
    <2>5. CASE old.at = "bad"
        <3>1. ~AllGood(w)
            BY <1>2, <2>5 DEF ResultsTrue, AllGood
        <3>2. Judged(w)'
            BY <3>1, <1>5, <2>7, <2>2, <2>4, <2>5 DEF Judged
        <3> QED BY <1>1, <1>3, <1>4, <1>6, <2>4, <3>2, OwnValidator
    <2>6. CASE old.at = "good"
        <3>1. Accounts(w) /\ Good(old.item)
            BY <1>2, <1>8, <2>6 DEF Judged, ResultsTrue
        <3>2. Busy(w)' = Busy(w) \ {g} /\ g \in Busy(w)
            BY <1>2, <1>3 DEF Busy
        <3>3. Cardinality(Busy(w)') = Cardinality(Busy(w)) - 1
            BY <1>2, <3>2, ScriptFacts, FS_RemoveElement
        <3>4. Sent(w)' = Sent(w)
            BY <1>5, <2>2, <2>4 DEF Sent
        <3>5. validate'[w].processed + Cardinality(Busy(w)') = Cardinality(Sent(w)')
            <4>1. /\ validate[w].processed + Cardinality(Busy(w)) = Cardinality(Sent(w))
                  /\ Cardinality(Busy(w)) \in Nat /\ validate[w].processed \in Nat
                BY <1>2, <2>1, <3>1, ScriptFacts DEF Accounts, ValidateRec
            <4> QED BY <2>2, <2>4, <3>3, <3>4, <4>1
        <3>6. \A i \in Sent(w) : \/ Good(inputs[w][i])
                                 \/ \E k \in Busy(w)' : handlers'[w][k].item = inputs[w][i]
            <4>1. ASSUME NEW i \in Sent(w), ~Good(inputs[w][i])
                  PROVE  \E k \in Busy(w)' : handlers'[w][k].item = inputs[w][i]
                <5>1. PICK k \in Busy(w) : handlers[w][k].item = inputs[w][i]
                    BY <3>1, <4>1 DEF Accounts
                <5>2. k # g
                    BY <3>1, <4>1, <5>1
                <5>3. handlers'[w][k] = handlers[w][k] /\ k \in Busy(w)'
                    BY <1>3, <3>2, <5>2 DEF Busy
                <5> QED BY <5>1, <5>3
            <4> QED BY <4>1
        <3>7. Accounts(w)'
            BY <1>1, <3>4, <3>5, <3>6 DEF Accounts
        <3>8. Judged(w)'
            BY <3>7, <2>7, <2>2, <2>4, <2>6 DEF Judged
        <3> QED BY <1>1, <1>3, <1>4, <1>6, <2>4, <3>8, OwnValidator
    <2> QED BY <1>1, <2>5, <2>6
<1> QED BY <1>7, <1>8 DEF sendResult, handler

(* Validate starts: nothing is sent and nobody is busy.                    *)
LEMMA BeginStep ==
    ASSUME ScriptInv, NEW w \in Validator, BeginValidate(w)
    PROVE  ScriptInv'
<1> DEFINE n == Cardinality(Items(w))
           S == [at |-> "select", item |-> Unfit]
           hs == [g \in 1..Goroutines |-> IF g <= n THEN S ELSE Ended]
           nv == [validate[w] EXCEPT !.at = IF n = 0 THEN "nil" ELSE "run"]
<1>1. /\ validate[w].at = "new" /\ inputs' = inputs /\ validSigs' = validSigs
      /\ validate' = [validate EXCEPT ![w].at = IF n = 0 THEN "nil" ELSE "run"]
      /\ handlers' = [handlers EXCEPT ![w] = hs]
    BY DEF BeginValidate
<1>2. /\ ScriptType /\ Judged(w) /\ validate \in [Validator -> ValidateRec]
      /\ handlers \in [Validator -> [1..Goroutines -> Handler]]
    BY DEF ScriptInv, ScriptType
<1>3. S \in Handler /\ Ended \in Handler /\ S.at = "select" /\ Ended.at = "none"
    BY ScriptAssumption DEF Ended, Handler, Check
<1>4. nv \in ValidateRec /\ nv.sent = 0 /\ nv.processed = 0
      /\ nv.at = IF n = 0 THEN "nil" ELSE "run"
    BY <1>1, <1>2 DEF ValidateRec, Judged
<1>5. validate' = [validate EXCEPT ![w] = nv]
    BY <1>1, <1>2
<1> HIDE DEF S, nv
<1>6. hs \in [1..Goroutines -> Handler]
      /\ \A g \in 1..Goroutines : hs[g].at = "select" \/ hs[g].at = "none"
    BY <1>3
<1> HIDE DEF hs
<1>7. /\ handlers' \in [Validator -> [1..Goroutines -> Handler]] /\ handlers'[w] = hs
      /\ validate' \in [Validator -> ValidateRec] /\ validate'[w] = nv
      /\ \A v \in Validator : v # w => handlers'[v] = handlers[v] /\ validate'[v] = validate[v]
    BY <1>1, <1>2, <1>4, <1>5, <1>6
<1>8. CacheInv'
    BY <1>1 DEF ScriptInv, CacheInv
<1>9. Items(w)' = Items(w)
    BY <1>1 DEF Items
<1>10. ResultsTrue(w)'
    BY <1>6, <1>7 DEF ResultsTrue, BusyAt
<1>11. Judged(w)'
    <2>1. Busy(w)' = {}
        BY <1>6, <1>7 DEF Busy, BusyAt
    <2>2. Sent(w)' = {}
        <3>1. \A i \in Items(w) : i \in Nat /\ i > 0
            BY <1>2, ScriptFacts
        <3> QED BY <3>1, <1>4, <1>7, <1>9 DEF Sent
    <2>3. Cardinality({}) = 0
        BY FS_EmptySet
    <2>4. Accounts(w)'
        BY <1>4, <1>7, <2>1, <2>2, <2>3 DEF Accounts
    <2>5. ASSUME n = 0 PROVE AllGood(w)'
        <3>1. Items(w) = {}
            BY <2>5, <1>2, ScriptFacts, FS_EmptySet
        <3> QED BY <3>1, <1>9 DEF AllGood
    <2> QED BY <1>4, <1>7, <2>4, <2>5 DEF Judged
<1> QED BY <1>1, <1>7, <1>8, <1>10, <1>11, OwnValidator

(* The next item goes to a goroutine that waits: one more sent, one more   *)
(* busy.                                                                   *)
LEMMA SendItemStep ==
    ASSUME ScriptInv, NEW w \in Validator, NEW g \in 1..Goroutines, SendItem(w, g)
    PROVE  ScriptInv'
<1>1. PICK i \in Items(w) :
          /\ i > validate[w].sent
          /\ \A j \in Items(w) : j > validate[w].sent => i <= j
          /\ SetHandler(w, g, "look", inputs[w][i])
          /\ validate' = [validate EXCEPT ![w].sent = i]
    BY DEF SendItem
<1>2. /\ validate[w].at = "run" /\ handlers[w][g].at = "select"
      /\ inputs' = inputs /\ validSigs' = validSigs
    BY DEF SendItem, handler
<1>3. /\ ScriptType /\ ResultsTrue(w) /\ Judged(w) /\ Accounts(w)
      /\ validate \in [Validator -> ValidateRec] /\ validate[w] \in ValidateRec
    BY <1>2 DEF ScriptInv, ScriptType, Judged
<1>4. /\ "look" \in {"none", "select"} \cup BusyAt /\ "look" \in BusyAt
      /\ "select" \notin BusyAt
    BY DEF BusyAt
<1>5. inputs[w][i] \in Check /\ i \in Nat /\ Items(w) \subseteq Nat
    BY <1>3, ScriptFacts
<1>6. /\ handlers' \in [Validator -> [1..Goroutines -> Handler]]
      /\ handlers'[w][g].at = "look" /\ handlers'[w][g].item = inputs[w][i]
      /\ \A k \in 1..Goroutines : k # g => handlers'[w][k] = handlers[w][k]
      /\ \A v \in Validator : v # w => handlers'[v] = handlers[v]
    BY <1>1, <1>3, <1>4, <1>5, SetHandlerIs
<1> DEFINE nv == [validate[w] EXCEPT !.sent = i]
<1>7. /\ nv \in ValidateRec /\ nv.sent = i /\ nv.processed = validate[w].processed
      /\ nv.at = "run"
    BY <1>2, <1>3, <1>5 DEF ValidateRec
<1>8. validate' = [validate EXCEPT ![w] = nv]
    BY <1>1, <1>3
<1> HIDE DEF nv
<1>9. /\ validate' \in [Validator -> ValidateRec] /\ validate'[w] = nv
      /\ \A v \in Validator : v # w => validate'[v] = validate[v]
    BY <1>3, <1>7, <1>8
<1>10. Items(w)' = Items(w)
    BY <1>2 DEF Items
<1>11. Busy(w)' = Busy(w) \cup {g} /\ g \notin Busy(w)
    BY <1>2, <1>4, <1>6 DEF Busy
<1>12. Sent(w)' = Sent(w) \cup {i} /\ i \notin Sent(w)
    <2>1. validate[w].sent \in Nat
        BY <1>3 DEF ValidateRec
    <2>2. Sent(w)' = {j \in Items(w) : j <= i}
        BY <1>7, <1>9, <1>10 DEF Sent
    <2>3. \A j \in Items(w) : j <= i <=> (j <= validate[w].sent \/ j = i)
        BY <1>1, <1>5, <2>1
    <2> QED BY <1>1, <1>5, <2>1, <2>2, <2>3 DEF Sent
<1>13. ResultsTrue(w)'
    <2>1. ASSUME NEW k \in 1..Goroutines
          PROVE  /\ handlers'[w][k].at = "good" => Good(handlers'[w][k].item)
                 /\ handlers'[w][k].at = "bad" => ~Good(handlers'[w][k].item)
                 /\ handlers'[w][k].at \in BusyAt =>
                        \E j \in Items(w) : inputs[w][j] = handlers'[w][k].item
        <3>1. CASE k = g
            BY <3>1, <1>6
        <3>2. CASE k # g
            BY <3>2, <1>3, <1>6 DEF ResultsTrue
        <3> QED BY <3>1, <3>2
    <2> QED BY <2>1, <1>2, <1>10 DEF ResultsTrue
<1>14. Accounts(w)'
    <2>1. validate'[w].processed + Cardinality(Busy(w)') = Cardinality(Sent(w)')
        <3>1. Cardinality(Busy(w)') = Cardinality(Busy(w)) + 1
            BY <1>3, <1>11, ScriptFacts, FS_AddElement
        <3>2. Cardinality(Sent(w)') = Cardinality(Sent(w)) + 1
            BY <1>3, <1>12, ScriptFacts, FS_AddElement
        <3>3. /\ validate[w].processed + Cardinality(Busy(w)) = Cardinality(Sent(w))
              /\ Cardinality(Busy(w)) \in Nat /\ validate[w].processed \in Nat
            BY <1>3, ScriptFacts DEF Accounts, ValidateRec
        <3> QED BY <1>7, <1>9, <3>1, <3>2, <3>3
    <2>2. ASSUME NEW j \in Sent(w)', ~Good(inputs[w][j])
          PROVE  \E k \in Busy(w)' : handlers'[w][k].item = inputs[w][j]
        <3>1. CASE j = i
            BY <3>1, <1>6, <1>11
        <3>2. CASE j \in Sent(w)
            <4>1. PICK k \in Busy(w) : handlers[w][k].item = inputs[w][j]
                BY <2>2, <3>2, <1>3 DEF Accounts
            <4>2. k # g /\ k \in 1..Goroutines
                BY <1>11, <4>1 DEF Busy
            <4> QED BY <1>6, <1>11, <4>1, <4>2
        <3> QED BY <2>2, <3>1, <3>2, <1>12
    <2> QED BY <1>2, <2>1, <2>2 DEF Accounts
<1>15. Judged(w)'
    BY <1>7, <1>9, <1>14 DEF Judged
<1>16. CacheInv'
    BY <1>2 DEF ScriptInv, CacheInv
<1> QED BY <1>2, <1>6, <1>9, <1>13, <1>15, <1>16, OwnValidator

(* All items are processed: as many as there are, so that none is held     *)
(* and all were good.                                                      *)
LEMMA FinishStep ==
    ASSUME ScriptInv, NEW w \in Validator, FinishValidate(w)
    PROVE  ScriptInv'
<1> DEFINE nv == [validate[w] EXCEPT !.at = "nil"]
<1>1. /\ validate[w].at = "run" /\ validate[w].processed = Cardinality(Items(w))
      /\ validate' = [validate EXCEPT ![w].at = "nil"]
      /\ inputs' = inputs /\ handlers' = handlers /\ validSigs' = validSigs
    BY DEF FinishValidate
<1>2. /\ ScriptType /\ ResultsTrue(w) /\ Accounts(w)
      /\ validate \in [Validator -> ValidateRec] /\ validate[w] \in ValidateRec
    BY <1>1 DEF ScriptInv, ScriptType, Judged
<1>3. nv \in ValidateRec /\ nv.at = "nil"
    BY <1>2 DEF ValidateRec
<1>4. validate' = [validate EXCEPT ![w] = nv]
    BY <1>1, <1>2
<1> HIDE DEF nv
<1>5. /\ validate' \in [Validator -> ValidateRec] /\ validate'[w] = nv
      /\ \A v \in Validator : v # w => validate'[v] = validate[v]
    BY <1>2, <1>3, <1>4
<1>6. AllGood(w)
    <2>1. /\ IsFiniteSet(Items(w)) /\ Cardinality(Items(w)) \in Nat
          /\ Cardinality(Sent(w)) \in Nat
          /\ IsFiniteSet(Busy(w)) /\ Cardinality(Busy(w)) \in Nat
        BY <1>2, ScriptFacts
    <2>2. /\ Sent(w) \subseteq Items(w)
          /\ Cardinality(Items(w)) + Cardinality(Busy(w)) = Cardinality(Sent(w))
        BY <1>1, <1>2 DEF Sent, Accounts
    <2>3. Cardinality(Sent(w)) <= Cardinality(Items(w))
        BY <2>1, <2>2, FS_Subset
    <2>4. Cardinality(Busy(w)) = 0 /\ Cardinality(Sent(w)) = Cardinality(Items(w))
        BY <2>1, <2>2, <2>3
    <2>5. Busy(w) = {}
        BY <2>1, <2>4, FS_EmptySet
    <2>6. Sent(w) = Items(w)
        BY <2>1, <2>2, <2>4, FS_Subset
    <2> QED BY <1>2, <2>5, <2>6 DEF Accounts, AllGood
<1>7. Items(w)' = Items(w) /\ AllGood(w)'
    BY <1>1, <1>6 DEF Items, AllGood
<1>8. Judged(w)'
    BY <1>3, <1>5, <1>7 DEF Judged
<1>9. ResultsTrue(w)'
    BY <1>1, <1>2, <1>7 DEF ResultsTrue
<1>10. CacheInv' /\ handlers' \in [Validator -> [1..Goroutines -> Handler]]
    BY <1>1 DEF ScriptInv, CacheInv, ScriptType
<1> QED BY <1>1, <1>5, <1>8, <1>9, <1>10, OwnValidator

(* Nothing changes.                                                        *)
LEMMA ScriptStutter == ScriptInv /\ UNCHANGED scriptVars => ScriptInv'
<1> SUFFICES ASSUME ScriptInv, UNCHANGED scriptVars PROVE ScriptInv'
    OBVIOUS
<1>1. UNCHANGED inputs /\ handlers' = handlers /\ validate' = validate
      /\ validSigs' = validSigs
    BY DEF scriptVars
<1>2. ScriptType' /\ CacheInv'
    BY <1>1 DEF ScriptInv, ScriptType, CacheInv
<1>3. \A v \in Validator : ResultsTrue(v)' /\ Judged(v)'
    BY <1>1, Others
<1> QED BY <1>2, <1>3 DEF ScriptInv

(* The inductive invariant holds in every state of the validators, for     *)
(* any inputs, any number of goroutines and any size of the cache.         *)
THEOREM ScriptInvariant == SpecScripts => []ScriptInv
<1>1. InitScripts => ScriptInv
    BY ScriptInitInv
<1>2. ScriptInv /\ [NextScripts]_scriptVars => ScriptInv'
    <2> SUFFICES ASSUME ScriptInv, [NextScripts]_scriptVars PROVE ScriptInv'
        OBVIOUS
    <2>1. ASSUME NEW v \in Validator, Validate(v) PROVE ScriptInv'
        BY <2>1, BeginStep, FinishStep, SendItemStep DEF Validate
    <2>2. ASSUME NEW v \in Validator, NEW g \in 1..Goroutines, validateHandler(v, g)
          PROVE  ScriptInv'
        BY <2>2, LookStep, VerifyStep, SendResultStep, QuitStep DEF validateHandler
    <2>3. ASSUME UNCHANGED scriptVars PROVE ScriptInv'
        BY <2>3, ScriptStutter
    <2> QED BY <2>1, <2>2, <2>3 DEF NextScripts
<1> QED BY <1>1, <1>2, PTL DEF SpecScripts

(* Validate returns nil exactly when every input is good, whatever the     *)
(* order in which its goroutines work and whatever other validations put   *)
(* into the signature cache; the cache stays true and within its limit.    *)
THEOREM ScriptsAreJudged == SpecScripts => []ScriptsJudged
<1>1. ScriptInv => ScriptsJudged
    BY ScriptInvImplies
<1> QED BY <1>1, ScriptInvariant, PTL

-----------------------------------------------------------------------------
(* The CPU miner.                                                           *)

(* The places of a search for a block, of a worker or of GenerateNBlocks.  *)
Searching == {"top", "solve", "tick", "found"}
(* The places of a call.                                                   *)
CallAts == {"none", "lock", "wait", "query", "send", "mine", "finish"}
(* The calls.                                                              *)
Ops == {"none", "Start", "Stop", "HashesPerSecond", "SetNumWorkers", "GenerateNBlocks"}
(* The places of the controller.                                           *)
Controls == {"none", "launch", "select", "update", "compare", "grow", "shrink", "wait"}

(* The types of the miner.                                                 *)
MinerType ==
    /\ mlock \in Caller \cup {0}
    /\ started \in BOOLEAN /\ discreteMining \in BOOLEAN
    /\ numWorkers \in Nat
    /\ quitClosed \in BOOLEAN /\ monitor \in BOOLEAN /\ monitorClosed \in BOOLEAN
    /\ controller \in Controls
    /\ runningWorkers \in Seq(Worker)
    /\ mining \in [Worker \cup Caller -> {"none", "count"} \cup Searching]
    /\ call \in [Caller -> [op : Ops, at : CallAts, arg : Nat]]

(* The mutex is held exactly by the call that waits inside it.             *)
LockInv == \A c \in Caller : call[c].at \in {"wait", "query", "send"} <=> mlock = c

(* Every worker that is alive has its quit channel in runningWorkers, or   *)
(* the channel is closed.                                                  *)
WorkerInv ==
    /\ AliveWorkers = signalled \cup Range(runningWorkers)
    /\ signalled \cap Range(runningWorkers) = {}
    /\ \A i, j \in DOMAIN runningWorkers : runningWorkers[i] = runningWorkers[j] => i = j

(* The caller is inside GenerateNBlocks, past its first use of the lock.   *)
Generating(c) == call[c].op = "GenerateNBlocks" /\ call[c].at \in {"mine", "finish", "wait"}

(* GenerateNBlocks and the controller exclude each other, and both have a  *)
(* monitor until they close it themselves.                                 *)
ModeInv ==
    /\ ~started => controller = "none" /\ ~monitor /\ ~discreteMining
    /\ discreteMining => controller = "none"
    /\ controller # "none" => monitor /\ ~monitorClosed
    /\ AliveWorkers # {} => controller # "none"
    /\ controller = "launch" => runningWorkers = <<>>

(* One GenerateNBlocks at a time, which has a monitor until it closes it;  *)
(* only it searches; and Stop never waits for it.                          *)
CallInv ==
    /\ \A c \in Caller : Generating(c) => discreteMining
    /\ \A c, d \in Caller : Generating(c) /\ Generating(d) => c = d
    /\ \A c \in Caller : mining[c] # "none" <=> Doing(c, "GenerateNBlocks", "mine")
    /\ \A c \in Caller : Generating(c) /\ call[c].at # "wait" => monitor /\ ~monitorClosed
    /\ \A c \in Caller : Doing(c, "Stop", "wait") => ~discreteMining

(* A number of workers has been set and is still to be sent.               *)
Sender == \E c \in Caller : Doing(c, "SetNumWorkers", "send")

(* What the controller knows of the number of workers, unless another one  *)
(* has been set and is still to be sent.                                   *)
CountInv ==
    ~crashed /\ ~Sender =>
        /\ controller = "select" => Len(runningWorkers) = numWorkers
        /\ controller = "grow" => Len(runningWorkers) <= numWorkers
        /\ controller = "shrink" => Len(runningWorkers) >= numWorkers

(* The inductive invariant of the miner.                                   *)
MinerInv == MinerType /\ LockInv /\ WorkerInv /\ ModeInv /\ CallInv /\ CountInv

(* The invariant implies the property of the run.                          *)
LEMMA MinerInvImplies == MinerInv => MinerSound
<1> SUFFICES ASSUME MinerInv PROVE MinerSound
    OBVIOUS
<1>1. MinerType /\ WorkerInv /\ ModeInv /\ CallInv /\ CountInv
    BY DEF MinerInv
<1>2. ~started => controller = "none" /\ ~monitor /\ AliveWorkers = {}
    BY <1>1 DEF ModeInv
<1>3. ASSUME NEW t \in DOMAIN mining, mining[t] # "none" PROVE monitor
    <2>1. t \in Worker \/ t \in Caller
        BY <1>1, <1>3 DEF MinerType
    <2>2. CASE t \in Worker
        BY <1>1, <1>3, <2>2 DEF AliveWorkers, ModeInv
    <2>3. CASE t \in Caller
        BY <1>1, <1>3, <2>3 DEF CallInv, Generating, Doing
    <2> QED BY <2>1, <2>2, <2>3
<1>4. controller = "select" /\ ~crashed /\ (\A c \in Caller : ~Doing(c, "SetNumWorkers", "send"))
          => Len(runningWorkers) = numWorkers
    BY <1>1 DEF CountInv, Sender
<1>5. AliveWorkers \ signalled = Range(runningWorkers)
    BY <1>1 DEF WorkerInv
<1>6. discreteMining => AliveWorkers = {}
    BY <1>1 DEF ModeInv
<1> QED BY <1>2, <1>3, <1>4, <1>5, <1>6 DEF MinerSound

(* The invariant holds after newCPUMiner.                                  *)
LEMMA MinerInitInv == InitMiner => MinerInv
<1> SUFFICES ASSUME InitMiner PROVE MinerInv
    OBVIOUS
<1>1. /\ mlock = 0 /\ started = FALSE /\ discreteMining = FALSE /\ numWorkers = DefaultWorkers
      /\ quitClosed = FALSE /\ monitor = FALSE /\ monitorClosed = FALSE
      /\ controller = "none" /\ runningWorkers = <<>> /\ signalled = {}
      /\ mining = [t \in Worker \cup Caller |-> "none"]
      /\ call = [c \in Caller |-> NoCall]
    BY DEF InitMiner
<1>2. \A c \in Caller : /\ call[c] = NoCall /\ call[c].at = "none" /\ call[c].op = "none"
                        /\ mining[c] = "none" /\ mlock # c
    BY <1>1, MinerAssumption DEF NoCall
<1>3. AliveWorkers = {} /\ Range(runningWorkers) = {}
    BY <1>1 DEF AliveWorkers, Range
<1>4. MinerType
    <2>1. call \in [Caller -> [op : Ops, at : CallAts, arg : Nat]]
        BY <1>1 DEF NoCall, Ops, CallAts
    <2>2. mining \in [Worker \cup Caller -> {"none", "count"} \cup Searching]
        BY <1>1
    <2>3. numWorkers \in Nat /\ mlock \in Caller \cup {0}
        BY <1>1, MinerAssumption
    <2>4. runningWorkers \in Seq(Worker) /\ controller \in Controls
        BY <1>1 DEF Controls
    <2>5. /\ started \in BOOLEAN /\ discreteMining \in BOOLEAN /\ quitClosed \in BOOLEAN
          /\ monitor \in BOOLEAN /\ monitorClosed \in BOOLEAN
        BY <1>1
    <2> QED BY <2>1, <2>2, <2>3, <2>4, <2>5 DEF MinerType
<1>5. LockInv
    BY <1>2 DEF LockInv
<1>6. WorkerInv
    BY <1>1, <1>3 DEF WorkerInv
<1>7. ModeInv
    BY <1>1, <1>3 DEF ModeInv
<1>8. CallInv
    BY <1>2 DEF CallInv, Generating, Doing
<1>9. CountInv
    BY <1>1 DEF CountInv
<1> QED BY <1>4, <1>5, <1>6, <1>7, <1>8, <1>9 DEF MinerInv

(* A step of a search that does not end it.                                *)
LEMMA SearchGoesOn ==
    ASSUME MinerInv, ~crashed, NEW t \in Worker \cup Caller, NEW from, NEW to,
           from # "none", to \in {"count"} \cup Searching, Search(t, from, to),
           UNCHANGED searchRest, UNCHANGED <<signalled, call>>
    PROVE  MinerInv'
<1>1. /\ mlock' = mlock /\ started' = started /\ discreteMining' = discreteMining
      /\ numWorkers' = numWorkers /\ quitClosed' = quitClosed /\ monitor' = monitor
      /\ monitorClosed' = monitorClosed /\ controller' = controller
      /\ runningWorkers' = runningWorkers /\ signalled' = signalled /\ call' = call
    BY DEF searchRest
<1>2. /\ MinerType /\ LockInv /\ WorkerInv /\ ModeInv /\ CallInv /\ CountInv
      /\ mining \in [Worker \cup Caller -> {"none", "count"} \cup Searching]
    BY DEF MinerInv, MinerType
<1>3. mining[t] # "none" /\ mining' = [mining EXCEPT ![t] = to] /\ to # "none"
    BY DEF Search, Searching
<1>4. /\ mining' \in [Worker \cup Caller -> {"none", "count"} \cup Searching]
      /\ \A u \in Worker \cup Caller : mining'[u] # "none" <=> mining[u] # "none"
    BY <1>2, <1>3
<1>5. AliveWorkers' = AliveWorkers
    BY <1>4 DEF AliveWorkers
<1>6. MinerType'
    BY <1>1, <1>2, <1>4 DEF MinerType
<1>7. LockInv' /\ WorkerInv' /\ ModeInv'
    BY <1>1, <1>2, <1>5 DEF LockInv, WorkerInv, ModeInv
<1>8. CallInv'
    BY <1>1, <1>2, <1>4 DEF CallInv, Generating, Doing
<1>9. CountInv'
    BY <1>1, <1>2 DEF CountInv, Sender, Doing
<1> QED BY <1>6, <1>7, <1>8, <1>9 DEF MinerInv

(* The end of a worker.                                                    *)
LEMMA WorkerEnds ==
    ASSUME MinerInv, ~crashed, NEW w \in Worker, w \in signalled, Search(w, "top", "none"),
           signalled' = signalled \ {w}, UNCHANGED searchRest, UNCHANGED <<call, crashed>>
    PROVE  MinerInv'
<1>1. /\ mlock' = mlock /\ started' = started /\ discreteMining' = discreteMining
      /\ numWorkers' = numWorkers /\ quitClosed' = quitClosed /\ monitor' = monitor
      /\ monitorClosed' = monitorClosed /\ controller' = controller
      /\ runningWorkers' = runningWorkers /\ call' = call /\ crashed' = crashed
    BY DEF searchRest
<1>2. /\ MinerType /\ LockInv /\ WorkerInv /\ ModeInv /\ CallInv /\ CountInv
      /\ mining \in [Worker \cup Caller -> {"none", "count"} \cup Searching]
    BY DEF MinerInv, MinerType
<1>3. mining' = [mining EXCEPT ![w] = "none"] /\ \A c \in Caller : c # w
    BY MinerAssumption DEF Search
<1>4. /\ mining' \in [Worker \cup Caller -> {"none", "count"} \cup Searching]
      /\ \A c \in Caller : mining'[c] = mining[c]
      /\ \A v \in Worker : v # w => mining'[v] = mining[v]
      /\ mining'[w] = "none"
    BY <1>2, <1>3
<1>5. AliveWorkers' = AliveWorkers \ {w}
    BY <1>4 DEF AliveWorkers
<1>6. MinerType'
    BY <1>1, <1>2, <1>4 DEF MinerType
<1>7. LockInv' /\ ModeInv'
    BY <1>1, <1>2, <1>5 DEF LockInv, ModeInv
<1>8. WorkerInv'
    BY <1>1, <1>2, <1>5 DEF WorkerInv
<1>9. CallInv'
    BY <1>1, <1>2, <1>4 DEF CallInv, Generating, Doing
<1>10. CountInv'
    BY <1>1, <1>2 DEF CountInv, Sender, Doing
<1> QED BY <1>6, <1>7, <1>8, <1>9, <1>10 DEF MinerInv

(* The steps of a worker.                                                  *)
LEMMA WorkerStep ==
    ASSUME MinerInv, ~crashed, NEW w \in Worker, generateBlocks(w)
    PROVE  MinerInv'
<1>0. \A s \in {"top", "solve", "tick", "found"} : s \in {"count"} \cup Searching
    BY DEF Searching
<1>1. CASE Top(w)
    <2>1. CASE w \in signalled /\ Search(w, "top", "none") /\ signalled' = signalled \ {w}
        BY <1>1, <2>1, WorkerEnds DEF Top
    <2>2. CASE Search(w, "top", "solve") /\ UNCHANGED signalled
        BY <1>0, <1>1, <2>2, SearchGoesOn DEF Top
    <2> QED BY <1>1, <2>1, <2>2 DEF Top
<1>2. CASE Solve(w)
    BY <1>0, <1>2, SearchGoesOn DEF Solve
<1>3. CASE Continue(w) \/ Stale(w)
    BY <1>0, <1>3, SearchGoesOn DEF Continue, Stale
<1>4. CASE Submit(w)
    BY <1>4, SearchGoesOn DEF Submit
<1>5. CASE Count(w)
    BY <1>0, <1>5, SearchGoesOn DEF Count
<1> QED BY <1>1, <1>2, <1>3, <1>4, <1>5 DEF generateBlocks

(* The monitor ends only after its quit channel was closed, when nobody    *)
(* reports to it.                                                          *)
LEMMA MonitorStep ==
    ASSUME MinerInv, ~crashed, speedMonitor
    PROVE  MinerInv'
<1>1. /\ mlock' = mlock /\ started' = started /\ discreteMining' = discreteMining
      /\ numWorkers' = numWorkers /\ quitClosed' = quitClosed /\ monitor' = FALSE
      /\ monitorClosed' = monitorClosed /\ controller' = controller
      /\ runningWorkers' = runningWorkers /\ signalled' = signalled /\ call' = call
      /\ mining' = mining /\ crashed' = crashed /\ monitorClosed
    BY DEF speedMonitor
<1>2. /\ MinerType /\ LockInv /\ WorkerInv /\ ModeInv /\ CallInv /\ CountInv
    BY DEF MinerInv
<1>3. AliveWorkers' = AliveWorkers
    BY <1>1 DEF AliveWorkers
<1>4. MinerType' /\ LockInv' /\ WorkerInv'
    BY <1>1, <1>2, <1>3 DEF MinerType, LockInv, WorkerInv
<1>5. ModeInv'
    BY <1>1, <1>2, <1>3 DEF ModeInv
<1>6. CallInv'
    BY <1>1, <1>2 DEF CallInv, Generating, Doing
<1>7. CountInv'
    BY <1>1, <1>2 DEF CountInv, Sender, Doing
<1> QED BY <1>4, <1>5, <1>6, <1>7 DEF MinerInv

-----------------------------------------------------------------------------
(* The controller.                                                         *)

(* The elements of a sequence and of two sequences together.               *)
LEMMA SeqRange ==
    ASSUME NEW S, NEW s \in Seq(S), NEW t \in Seq(S)
    PROVE  /\ DOMAIN s = 1..Len(s) /\ Len(s) \in Nat /\ Range(s) \subseteq S
           /\ Range(s \o t) = Range(s) \cup Range(t)
           /\ Range(s) = {} => s = <<>>
<1>1. /\ DOMAIN s = 1..Len(s) /\ DOMAIN t = 1..Len(t) /\ Len(s) \in Nat /\ Len(t) \in Nat
    OBVIOUS
<1>2. /\ s \o t \in Seq(S) /\ Len(s \o t) = Len(s) + Len(t)
      /\ \A i \in 1..Len(s) : (s \o t)[i] = s[i]
      /\ \A i \in 1..Len(t) : (s \o t)[Len(s) + i] = t[i]
    OBVIOUS
<1> DEFINE u == s \o t
<1>3. DOMAIN u = 1..(Len(s) + Len(t))
    BY <1>2
<1> HIDE DEF u
<1>4. Range(s) \subseteq Range(u)
    <2>1. ASSUME NEW i \in 1..Len(s) PROVE s[i] = u[i] /\ i \in DOMAIN u
        BY <1>1, <1>2, <1>3 DEF u
    <2> QED BY <1>1, <2>1 DEF Range
<1>5. Range(t) \subseteq Range(u)
    <2>1. ASSUME NEW i \in 1..Len(t)
          PROVE  t[i] = u[Len(s) + i] /\ Len(s) + i \in DOMAIN u
        BY <1>1, <1>2, <1>3 DEF u
    <2> QED BY <1>1, <2>1 DEF Range
<1>6. Range(u) \subseteq Range(s) \cup Range(t)
    <2>1. ASSUME NEW i \in DOMAIN u PROVE u[i] \in Range(s) \cup Range(t)
        <3>1. CASE i \in 1..Len(s)
            BY <3>1, <1>1, <1>2 DEF Range, u
        <3>2. CASE i - Len(s) \in 1..Len(t)
            <4>1. i = Len(s) + (i - Len(s))
                BY <1>1, <1>3, <3>2
            <4>2. u[i] = t[i - Len(s)]
                BY <1>2, <3>2, <4>1 DEF u
            <4> QED BY <1>1, <3>2, <4>2 DEF Range
        <3>3. i \in 1..Len(s) \/ i - Len(s) \in 1..Len(t)
            BY <1>1, <1>3
        <3> QED BY <3>1, <3>2, <3>3
    <2> QED BY <2>1 DEF Range
<1>7. Range(s) \subseteq S
    BY <1>1 DEF Range
<1>8. Range(s) = {} => s = <<>>
    <2>1. ASSUME Range(s) = {} PROVE Len(s) = 0
        <3>1. ASSUME Len(s) # 0 PROVE FALSE
            <4>1. 1 \in DOMAIN s
                BY <1>1, <3>1
            <4> QED BY <2>1, <4>1 DEF Range
        <3> QED BY <3>1
    <2> QED BY <2>1
<1> QED BY <1>1, <1>4, <1>5, <1>6, <1>7, <1>8 DEF u

(* The workers after launchWorkers.                                        *)
LEMMA Launched ==
    ASSUME MinerInv, NEW n \in Nat, launchWorkers(n), signalled' = signalled
    PROVE  /\ runningWorkers' \in Seq(Worker)
           /\ Len(runningWorkers') = Len(runningWorkers) + n
           /\ mining' \in [Worker \cup Caller -> {"none", "count"} \cup Searching]
           /\ \A c \in Caller : mining'[c] = mining[c]
           /\ WorkerInv'
<1>1. PICK new \in [1..n -> Worker \ AliveWorkers] :
          /\ \A i, j \in 1..n : i < j => new[i] < new[j]
          /\ runningWorkers' = runningWorkers \o new
          /\ mining' = [t \in DOMAIN mining |-> IF t \in Range(new) THEN "top" ELSE mining[t]]
    BY DEF launchWorkers
<1>2. /\ runningWorkers \in Seq(Worker) /\ WorkerInv
      /\ mining \in [Worker \cup Caller -> {"none", "count"} \cup Searching]
    BY DEF MinerInv, MinerType
<1>3. new \in Seq(Worker) /\ Len(new) = n /\ DOMAIN new = 1..n
    BY <1>1
<1>4. /\ runningWorkers' \in Seq(Worker)
      /\ Len(runningWorkers') = Len(runningWorkers) + n
      /\ Range(runningWorkers') = Range(runningWorkers) \cup Range(new)
      /\ DOMAIN runningWorkers = 1..Len(runningWorkers) /\ Len(runningWorkers) \in Nat
    BY <1>1, <1>2, <1>3, SeqRange
<1>5. Range(new) \subseteq Worker \ AliveWorkers
    BY <1>1 DEF Range
<1>6. \A c \in Caller : c \notin Range(new) /\ c \in Worker \cup Caller
    BY <1>5, MinerAssumption
<1>7. /\ mining' \in [Worker \cup Caller -> {"none", "count"} \cup Searching]
      /\ \A c \in Caller : mining'[c] = mining[c]
      /\ \A w \in Worker : mining'[w] = IF w \in Range(new) THEN "top" ELSE mining[w]
    BY <1>1, <1>2, <1>6 DEF Searching
<1>8. AliveWorkers' = AliveWorkers \cup Range(new)
    BY <1>5, <1>7 DEF AliveWorkers
<1>9. /\ AliveWorkers' = signalled' \cup Range(runningWorkers')
      /\ signalled' \cap Range(runningWorkers') = {}
    BY <1>2, <1>4, <1>5, <1>8 DEF WorkerInv
<1>10. \A i, j \in DOMAIN runningWorkers' :
           runningWorkers'[i] = runningWorkers'[j] => i = j
    <2> DEFINE m == Len(runningWorkers)
    <2>1. /\ DOMAIN runningWorkers' = 1..(m + n) /\ m \in Nat
          /\ \A i \in 1..m : runningWorkers'[i] = runningWorkers[i]
          /\ \A i \in 1..n : runningWorkers'[m + i] = new[i]
        BY <1>1, <1>2, <1>3, <1>4
    <2>2. \A i \in (1..(m + n)) \ (1..m) :
              i - m \in 1..n /\ runningWorkers'[i] = new[i - m]
        <3>1. ASSUME NEW i \in (1..(m + n)) \ (1..m)
              PROVE  i - m \in 1..n /\ i = m + (i - m)
            BY <2>1, <3>1
        <3> QED BY <2>1, <3>1
    <2>3. \A i \in 1..m : runningWorkers'[i] \in AliveWorkers
        BY <1>2, <1>4, <2>1 DEF WorkerInv, Range
    <2>4. \A i \in 1..n : new[i] \in Worker \ AliveWorkers /\ new[i] \in Nat
        BY <1>1, MinerAssumption
    <2>5. \A i, j \in 1..n : new[i] = new[j] => i = j
        BY <1>1, <2>4
    <2> HIDE DEF m
    <2>6. ASSUME NEW i \in 1..(m + n), NEW j \in 1..(m + n),
                 runningWorkers'[i] = runningWorkers'[j]
          PROVE  i = j
        <3>1. CASE i \in 1..m /\ j \in 1..m
            BY <3>1, <2>1, <2>6, <1>2, <1>4 DEF WorkerInv, m
        <3>2. CASE i \in 1..m /\ j \notin 1..m
            BY <3>2, <2>2, <2>3, <2>4, <2>6
        <3>3. CASE i \notin 1..m /\ j \in 1..m
            BY <3>3, <2>2, <2>3, <2>4, <2>6
        <3>4. CASE i \notin 1..m /\ j \notin 1..m
            <4>1. i - m = j - m
                BY <3>4, <2>2, <2>5, <2>6
            <4> QED BY <2>1, <4>1
        <3> QED BY <3>1, <3>2, <3>3, <3>4
    <2> QED BY <2>1, <2>6
<1> QED BY <1>4, <1>7, <1>9, <1>10 DEF WorkerInv

(* A step of the controller leaves the calls and the modes alone.          *)
LEMMA ControllerKeeps ==
    ASSUME MinerInv, ~crashed, UNCHANGED controllerRest, UNCHANGED <<monitorClosed, call>>,
           controller # "none", controller' \in Controls \ {"none", "launch"},
           runningWorkers' \in Seq(Worker),
           mining' \in [Worker \cup Caller -> {"none", "count"} \cup Searching],
           \A c \in Caller : mining'[c] = mining[c],
           WorkerInv', CountInv'
    PROVE  MinerInv'
<1>1. /\ mlock' = mlock /\ started' = started /\ discreteMining' = discreteMining
      /\ numWorkers' = numWorkers /\ quitClosed' = quitClosed /\ monitor' = monitor
      /\ monitorClosed' = monitorClosed /\ call' = call
    BY DEF controllerRest
<1>2. MinerType /\ LockInv /\ ModeInv /\ CallInv
    BY DEF MinerInv
<1>3. MinerType'
    BY <1>1, <1>2 DEF MinerType
<1>4. LockInv' /\ CallInv'
    BY <1>1, <1>2 DEF LockInv, CallInv, Generating, Doing
<1>5. ModeInv'
    BY <1>1, <1>2 DEF ModeInv
<1> QED BY <1>3, <1>4, <1>5 DEF MinerInv

(* The workers are the same if no variable about them changes.             *)
LEMMA SameWorkers ==
    ASSUME MinerInv, UNCHANGED <<runningWorkers, signalled, mining>>
    PROVE  /\ WorkerInv' /\ runningWorkers' \in Seq(Worker)
           /\ mining' \in [Worker \cup Caller -> {"none", "count"} \cup Searching]
           /\ \A c \in Caller : mining'[c] = mining[c]
BY DEF MinerInv, MinerType, WorkerInv, AliveWorkers

(* What the controller may rely on.                                        *)
LEMMA ControllerFacts ==
    ASSUME MinerInv, ~crashed
    PROVE  /\ runningWorkers \in Seq(Worker) /\ Len(runningWorkers) \in Nat
           /\ numWorkers \in Nat /\ DOMAIN runningWorkers = 1..Len(runningWorkers)
           /\ ~Sender =>
                 /\ controller = "select" => Len(runningWorkers) = numWorkers
                 /\ controller = "grow" => Len(runningWorkers) <= numWorkers
                 /\ controller = "shrink" => Len(runningWorkers) >= numWorkers
<1>1. runningWorkers \in Seq(Worker) /\ numWorkers \in Nat
    BY DEF MinerInv, MinerType
<1> QED BY <1>1 DEF MinerInv, CountInv

(* The first workers: as many as numWorkers says at this moment.           *)
LEMMA LaunchStep ==
    ASSUME MinerInv, ~crashed, ControllerLaunch
    PROVE  MinerInv'
<1>1. /\ controller = "launch" /\ launchWorkers(numWorkers) /\ controller' = "select"
      /\ UNCHANGED controllerRest /\ UNCHANGED <<monitorClosed, call>>
      /\ signalled' = signalled /\ crashed' = crashed /\ numWorkers' = numWorkers
    BY DEF ControllerLaunch, controllerRest
<1>2. runningWorkers = <<>> /\ numWorkers \in Nat
    BY <1>1, ControllerFacts DEF MinerInv, ModeInv
<1>3. /\ runningWorkers' \in Seq(Worker) /\ WorkerInv'
      /\ Len(runningWorkers') = Len(runningWorkers) + numWorkers
      /\ mining' \in [Worker \cup Caller -> {"none", "count"} \cup Searching]
      /\ \A c \in Caller : mining'[c] = mining[c]
    BY <1>1, <1>2, Launched
<1>4. Len(runningWorkers') = numWorkers'
    BY <1>1, <1>2, <1>3
<1>5. CountInv'
    BY <1>1, <1>4 DEF CountInv
<1>6. controller # "none" /\ controller' \in Controls \ {"none", "launch"}
    BY <1>1 DEF Controls
<1> QED BY <1>1, <1>3, <1>5, <1>6, ControllerKeeps

(* The two comparisons with numWorkers, which another goroutine may        *)
(* change between them.                                                    *)
LEMMA CompareStep ==
    ASSUME MinerInv, ~crashed, ControllerCompare
    PROVE  MinerInv'
<1>1. /\ UNCHANGED controllerRest /\ UNCHANGED <<monitorClosed, call>>
      /\ UNCHANGED <<runningWorkers, signalled, mining>>
      /\ runningWorkers' = runningWorkers /\ numWorkers' = numWorkers
    BY DEF ControllerCompare, controllerRest
<1>2. runningWorkers \in Seq(Worker) /\ Len(runningWorkers) \in Nat /\ numWorkers \in Nat
    BY ControllerFacts
<1>3. /\ controller # "none" /\ controller' \in Controls \ {"none", "launch"}
    BY DEF ControllerCompare, Controls
<1>4. /\ controller' = "select" => Len(runningWorkers) = numWorkers
      /\ controller' = "grow" => Len(runningWorkers) <= numWorkers
      /\ controller' = "shrink" => Len(runningWorkers) >= numWorkers
    BY <1>2 DEF ControllerCompare
<1>5. CountInv'
    BY <1>1, <1>4 DEF CountInv
<1> QED BY <1>1, <1>3, <1>5, SameWorkers, ControllerKeeps

(* More workers; if the number has been lowered since the comparison, the  *)
(* subtraction wraps around.                                               *)
LEMMA GrowStep ==
    ASSUME MinerInv, ~crashed, ControllerGrow
    PROVE  MinerInv'
<1>1. /\ UNCHANGED controllerRest /\ UNCHANGED <<monitorClosed, call>>
      /\ signalled' = signalled /\ numWorkers' = numWorkers
      /\ controller = "grow" /\ controller' = "select"
    BY DEF ControllerGrow, controllerRest
<1>2. runningWorkers \in Seq(Worker) /\ Len(runningWorkers) \in Nat /\ numWorkers \in Nat
    BY ControllerFacts
<1>3. controller # "none" /\ controller' \in Controls \ {"none", "launch"}
    BY <1>1 DEF Controls
<1>4. CASE /\ numWorkers >= Len(runningWorkers)
           /\ launchWorkers(numWorkers - Len(runningWorkers))
    <2>1. numWorkers - Len(runningWorkers) \in Nat
        BY <1>2, <1>4
    <2>2. /\ runningWorkers' \in Seq(Worker) /\ WorkerInv'
          /\ Len(runningWorkers') = Len(runningWorkers) + (numWorkers - Len(runningWorkers))
          /\ mining' \in [Worker \cup Caller -> {"none", "count"} \cup Searching]
          /\ \A c \in Caller : mining'[c] = mining[c]
        BY <1>1, <1>4, <2>1, Launched
    <2>3. Len(runningWorkers') = numWorkers'
        BY <1>1, <1>2, <2>2
    <2>4. CountInv'
        BY <1>1, <2>3 DEF CountInv
    <2> QED BY <1>1, <1>3, <2>2, <2>4, ControllerKeeps
<1>5. CASE crashed' = TRUE /\ UNCHANGED <<runningWorkers, mining>>
    <2>1. CountInv'
        BY <1>5 DEF CountInv
    <2>2. UNCHANGED <<runningWorkers, signalled, mining>>
        BY <1>1, <1>5
    <2> QED BY <1>1, <1>3, <2>1, <2>2, SameWorkers, ControllerKeeps
<1> QED BY <1>4, <1>5 DEF ControllerGrow

(* The newest worker is told to quit.                                      *)
LEMMA ShrinkStep ==
    ASSUME MinerInv, ~crashed, ControllerShrink
    PROVE  MinerInv'
<1>1. /\ UNCHANGED controllerRest /\ UNCHANGED <<monitorClosed, call>>
      /\ numWorkers' = numWorkers /\ crashed' = crashed /\ mining' = mining /\ call' = call
      /\ controller = "shrink"
    BY DEF ControllerShrink, controllerRest
<1>2. /\ runningWorkers \in Seq(Worker) /\ Len(runningWorkers) \in Nat /\ numWorkers \in Nat
      /\ DOMAIN runningWorkers = 1..Len(runningWorkers)
      /\ ~Sender => Len(runningWorkers) >= numWorkers
    BY <1>1, ControllerFacts
<1>3. Sender' <=> Sender
    BY <1>1 DEF Sender, Doing
<1>4. CASE /\ Len(runningWorkers) > numWorkers
           /\ signalled' = signalled \cup {runningWorkers[Len(runningWorkers)]}
           /\ runningWorkers' = SubSeq(runningWorkers, 1, Len(runningWorkers) - 1)
           /\ UNCHANGED controller
    <2> DEFINE m == Len(runningWorkers)
    <2>1. m \in Nat /\ m >= 1 /\ m \in DOMAIN runningWorkers
        BY <1>2, <1>4
    <2>2. /\ runningWorkers' \in Seq(Worker) /\ Len(runningWorkers') = m - 1
          /\ \A i \in 1..(m - 1) : runningWorkers'[i] = runningWorkers[i]
        BY <1>2, <1>4, <2>1
    <2>3. DOMAIN runningWorkers' = 1..(m - 1)
        BY <2>2
    <2> HIDE DEF m
    <2>4. DOMAIN runningWorkers = 1..m
        BY <1>2 DEF m
    <2>5. \A i \in 1..(m - 1) : i \in 1..m /\ i # m
        BY <2>1
    <2>6. \A i \in 1..m : i # m => i \in 1..(m - 1)
        BY <2>1
    <2>7. WorkerInv
        BY DEF MinerInv
    <2>8. \A i \in 1..(m - 1) : runningWorkers[i] # runningWorkers[m]
        BY <2>1, <2>4, <2>5, <2>7 DEF WorkerInv
    <2>9. Range(runningWorkers') = Range(runningWorkers) \ {runningWorkers[m]}
        <3>1. ASSUME NEW i \in 1..(m - 1)
              PROVE  runningWorkers'[i] \in Range(runningWorkers) \ {runningWorkers[m]}
            BY <2>2, <2>4, <2>5, <2>8 DEF Range
        <3>2. ASSUME NEW i \in 1..m, runningWorkers[i] # runningWorkers[m]
              PROVE  runningWorkers[i] \in Range(runningWorkers')
            <4>1. i \in 1..(m - 1)
                BY <2>6, <3>2
            <4> QED BY <2>2, <2>3, <4>1 DEF Range
        <3> QED BY <2>3, <2>4, <3>1, <3>2 DEF Range
    <2>10. runningWorkers[m] \in Range(runningWorkers)
        BY <2>1 DEF Range
    <2>11. AliveWorkers' = AliveWorkers
        BY <1>1 DEF AliveWorkers
    <2>12. /\ AliveWorkers' = signalled' \cup Range(runningWorkers')
           /\ signalled' \cap Range(runningWorkers') = {}
        BY <1>4, <2>7, <2>9, <2>10, <2>11 DEF WorkerInv, m
    <2>13. \A i, j \in DOMAIN runningWorkers' : runningWorkers'[i] = runningWorkers'[j] => i = j
        BY <2>2, <2>3, <2>4, <2>5, <2>7 DEF WorkerInv
    <2>14. WorkerInv'
        BY <2>12, <2>13 DEF WorkerInv
    <2>15. Len(runningWorkers') >= numWorkers'
        BY <1>1, <1>2, <1>4, <2>2 DEF m
    <2>16. controller' = "shrink"
        BY <1>1, <1>4
    <2>17. CountInv'
        BY <2>15, <2>16 DEF CountInv
    <2>18. controller # "none" /\ controller' \in Controls \ {"none", "launch"}
        BY <1>1, <2>16 DEF Controls
    <2>19. /\ mining' \in [Worker \cup Caller -> {"none", "count"} \cup Searching]
           /\ \A c \in Caller : mining'[c] = mining[c]
        BY <1>1 DEF MinerInv, MinerType
    <2> QED BY <1>1, <2>2, <2>14, <2>17, <2>18, <2>19, ControllerKeeps
<1>5. CASE /\ Len(runningWorkers) <= numWorkers /\ controller' = "select"
           /\ UNCHANGED <<signalled, runningWorkers>>
    <2>0. ~Sender => Len(runningWorkers) = numWorkers
        <3>1. CASE Sender
            BY <3>1
        <3>2. CASE ~Sender
            <4>1. Len(runningWorkers) >= numWorkers
                BY <1>2, <3>2
            <4>2. Len(runningWorkers) <= numWorkers
                BY <1>5
            <4>3. Len(runningWorkers) \in Nat /\ numWorkers \in Nat
                BY <1>2
            <4> QED BY <4>1, <4>2, <4>3
        <3> QED BY <3>1, <3>2
    <2>1. runningWorkers' = runningWorkers /\ numWorkers' = numWorkers
        BY <1>1, <1>5
    <2>2. CountInv'
        BY <1>3, <1>5, <2>0, <2>1 DEF CountInv
    <2>3. UNCHANGED <<runningWorkers, signalled, mining>>
        BY <1>1, <1>5
    <2>4. controller # "none" /\ controller' \in Controls \ {"none", "launch"}
        BY <1>1, <1>5 DEF Controls
    <2> QED BY <1>1, <2>2, <2>3, <2>4, SameWorkers, ControllerKeeps
<1> QED BY <1>4, <1>5 DEF ControllerShrink

(* Every worker is told to quit.                                           *)
LEMMA ControllerQuitStep ==
    ASSUME MinerInv, ~crashed, ControllerQuit
    PROVE  MinerInv'
<1>1. /\ UNCHANGED controllerRest /\ UNCHANGED <<monitorClosed, call>>
      /\ controller = "select" /\ controller' = "wait" /\ mining' = mining
      /\ signalled' = signalled \cup Range(runningWorkers) /\ runningWorkers' = <<>>
    BY DEF ControllerQuit
<1>2. Range(runningWorkers') = {} /\ DOMAIN runningWorkers' = {}
    BY <1>1 DEF Range
<1>3. AliveWorkers' = AliveWorkers
    BY <1>1 DEF AliveWorkers
<1>4. WorkerInv'
    BY <1>1, <1>2, <1>3 DEF MinerInv, WorkerInv
<1>5. CountInv'
    BY <1>1 DEF CountInv
<1>6. /\ mining' \in [Worker \cup Caller -> {"none", "count"} \cup Searching]
      /\ \A c \in Caller : mining'[c] = mining[c]
    BY <1>1 DEF MinerInv, MinerType
<1>7. controller # "none" /\ controller' \in Controls \ {"none", "launch"}
    BY <1>1 DEF Controls
<1>8. runningWorkers' \in Seq(Worker)
    BY <1>1
<1> QED BY <1>1, <1>4, <1>5, <1>6, <1>7, <1>8, ControllerKeeps

(* No worker is left when the monitor is told to quit.                     *)
LEMMA ControllerDoneStep ==
    ASSUME MinerInv, ~crashed, ControllerDone
    PROVE  MinerInv'
<1>1. /\ mlock' = mlock /\ started' = started /\ discreteMining' = discreteMining
      /\ numWorkers' = numWorkers /\ quitClosed' = quitClosed /\ monitor' = monitor
      /\ monitorClosed' = TRUE /\ controller = "wait" /\ controller' = "none"
      /\ runningWorkers' = runningWorkers /\ signalled' = signalled /\ call' = call
      /\ mining' = mining /\ AliveWorkers = {}
    BY DEF ControllerDone, controllerRest
<1>2. MinerType /\ LockInv /\ WorkerInv /\ ModeInv /\ CallInv
    BY DEF MinerInv
<1>3. AliveWorkers' = {}
    BY <1>1 DEF AliveWorkers
<1>4. MinerType'
    BY <1>1, <1>2 DEF MinerType, Controls
<1>5. LockInv'
    BY <1>1, <1>2 DEF LockInv
<1>6. WorkerInv'
    BY <1>1, <1>2, <1>3 DEF WorkerInv
<1>7. ModeInv'
    BY <1>1, <1>2, <1>3 DEF ModeInv
<1>8. ~discreteMining
    BY <1>1, <1>2 DEF ModeInv
<1>9. CallInv'
    BY <1>1, <1>2, <1>8 DEF CallInv, Generating, Doing
<1>10. CountInv'
    BY <1>1 DEF CountInv
<1> QED BY <1>4, <1>5, <1>6, <1>7, <1>9, <1>10 DEF MinerInv

(* The steps of the controller.                                            *)
LEMMA ControllerStep ==
    ASSUME MinerInv, ~crashed, miningWorkerController
    PROVE  MinerInv'
BY LaunchStep, CompareStep, GrowStep, ShrinkStep, ControllerQuitStep, ControllerDoneStep DEF miningWorkerController

-----------------------------------------------------------------------------
(* The calls.                                                              *)

(* One call changes, the others do not.                                    *)
LEMMA CallSet ==
    ASSUME MinerInv, NEW c \in Caller, NEW r \in [op : Ops, at : CallAts, arg : Nat],
           call' = [call EXCEPT ![c] = r]
    PROVE  /\ call' \in [Caller -> [op : Ops, at : CallAts, arg : Nat]]
           /\ call'[c] = r
           /\ \A d \in Caller : d # c => call'[d] = call[d]
<1>1. call \in [Caller -> [op : Ops, at : CallAts, arg : Nat]]
    BY DEF MinerInv, MinerType
<1> QED BY <1>1

(* A call returns.                                                         *)
LEMMA CallReturned ==
    ASSUME MinerInv, NEW c \in Caller, ReturnOf(c)
    PROVE  /\ call' \in [Caller -> [op : Ops, at : CallAts, arg : Nat]]
           /\ call'[c].op = "none" /\ call'[c].at = "none"
           /\ \A d \in Caller : d # c => call'[d] = call[d]
<1>1. /\ NoCall \in [op : Ops, at : CallAts, arg : Nat]
      /\ NoCall.op = "none" /\ NoCall.at = "none"
    BY DEF NoCall, Ops, CallAts
<1>2. call' = [call EXCEPT ![c] = NoCall]
    BY DEF ReturnOf
<1> QED BY <1>1, <1>2, CallSet

(* A call moves on.                                                        *)
LEMMA CallMoved ==
    ASSUME MinerInv, NEW c \in Caller, NEW at \in CallAts, CallAt(c, at)
    PROVE  /\ call' \in [Caller -> [op : Ops, at : CallAts, arg : Nat]]
           /\ call'[c].op = call[c].op /\ call'[c].at = at
           /\ \A d \in Caller : d # c => call'[d] = call[d]
<1>1. call \in [Caller -> [op : Ops, at : CallAts, arg : Nat]]
    BY DEF MinerInv, MinerType
<1>2. /\ call[c].op \in Ops /\ call[c].at \in CallAts /\ call[c].arg \in Nat
      /\ call[c] = [op |-> call[c].op, at |-> call[c].at, arg |-> call[c].arg]
    BY <1>1
<1> DEFINE r == [op |-> call[c].op, at |-> at, arg |-> call[c].arg]
<1>3. /\ r \in [op : Ops, at : CallAts, arg : Nat]
      /\ r.op = call[c].op /\ r.at = at
    BY <1>2
<1>4. call' = [call EXCEPT ![c] = r]
    <2>1. [call[c] EXCEPT !.at = at] = r
        BY <1>1
    <2>2. call' = [call EXCEPT ![c] = [call[c] EXCEPT !.at = at]]
        BY DEF CallAt
    <2> QED BY <2>1, <2>2
<1> HIDE DEF r
<1> QED BY <1>3, <1>4, CallSet

(* The lock is taken or given back by the caller.                          *)
LEMMA LockMoves ==
    ASSUME MinerInv, NEW c \in Caller,
           \A d \in Caller : d # c => call'[d] = call[d],
           mlock \in {0, c}, mlock' \in {0, c},
           call'[c].at \in {"wait", "query", "send"} <=> mlock' = c
    PROVE  LockInv' /\ mlock' \in Caller \cup {0}
<1>1. LockInv /\ \A d \in Caller : d # 0
    BY MinerAssumption DEF MinerInv
<1>2. ASSUME NEW d \in Caller, d # c
      PROVE  call'[d].at \in {"wait", "query", "send"} <=> mlock' = d
    <2>1. mlock # d /\ mlock' # d /\ call'[d] = call[d]
        BY <1>1, <1>2
    <2> QED BY <1>1, <2>1 DEF LockInv
<1> QED BY <1>2 DEF LockInv

(* The lock stays where it is.                                             *)
LEMMA LockStays ==
    ASSUME MinerInv, NEW c \in Caller,
           \A d \in Caller : d # c => call'[d] = call[d],
           mlock' = mlock,
           call'[c].at \in {"wait", "query", "send"} <=> call[c].at \in {"wait", "query", "send"}
    PROVE  LockInv' /\ mlock' \in Caller \cup {0}
<1>1. LockInv /\ mlock \in Caller \cup {0}
    BY DEF MinerInv, MinerType
<1> QED BY <1>1 DEF LockInv

(* A call that is no search: the lock goes from nobody or the caller to    *)
(* nobody or the caller, and the workers are left alone.                   *)
LEMMA CallKeeps ==
    ASSUME MinerInv, NEW c \in Caller,
           call' \in [Caller -> [op : Ops, at : CallAts, arg : Nat]],
           \A d \in Caller : d # c => call'[d] = call[d],
           ~Generating(c), ~Generating(c)',
           Doing(c, "Stop", "wait")' => ~discreteMining,
           LockInv', mlock' \in Caller \cup {0},
           UNCHANGED <<discreteMining, runningWorkers, signalled, mining>>,
           monitor /\ ~monitorClosed => monitor' /\ ~monitorClosed',
           started' \in BOOLEAN, numWorkers' \in Nat, quitClosed' \in BOOLEAN,
           monitor' \in BOOLEAN, monitorClosed' \in BOOLEAN, controller' \in Controls,
           ModeInv', CountInv'
    PROVE  MinerInv'
<1>1. MinerType /\ CallInv
    BY DEF MinerInv
<1>2. MinerType'
    BY <1>1 DEF MinerType
<1>4. WorkerInv'
    BY SameWorkers
<1>5. \A d \in Caller : d # c => /\ call'[d] = call[d]
                                 /\ Generating(d)' <=> Generating(d)
                                 /\ Doing(d, "Stop", "wait")' <=> Doing(d, "Stop", "wait")
                                 /\ Doing(d, "GenerateNBlocks", "mine")'
                                        <=> Doing(d, "GenerateNBlocks", "mine")
    BY DEF Generating, Doing
<1>6. /\ ~Doing(c, "GenerateNBlocks", "mine") /\ ~Doing(c, "GenerateNBlocks", "mine")'
    BY DEF Generating, Doing
<1>7. mining'[c] = "none"
    BY <1>1, <1>6 DEF CallInv
<1>8. CallInv'
    <2>1. \A d \in Caller : Generating(d)' => discreteMining'
        BY <1>1, <1>5 DEF CallInv
    <2>2. \A d, e \in Caller : Generating(d)' /\ Generating(e)' => d = e
        BY <1>1, <1>5 DEF CallInv
    <2>3. \A d \in Caller : mining'[d] # "none" <=> Doing(d, "GenerateNBlocks", "mine")'
        BY <1>1, <1>5, <1>6, <1>7 DEF CallInv
    <2>4. \A d \in Caller : Generating(d)' /\ call'[d].at # "wait" => monitor' /\ ~monitorClosed'
        BY <1>1, <1>5 DEF CallInv
    <2>5. \A d \in Caller : Doing(d, "Stop", "wait")' => ~discreteMining'
        BY <1>1, <1>5 DEF CallInv
    <2> QED BY <2>1, <2>2, <2>3, <2>4, <2>5 DEF CallInv
<1> QED BY <1>2, <1>4, <1>8 DEF MinerInv

(* A call that was not sending leaves the senders alone.                   *)
LEMMA SendersKept ==
    ASSUME NEW c \in Caller, ~Doing(c, "SetNumWorkers", "send"),
           \A d \in Caller : d # c => call'[d] = call[d]
    PROVE  Sender => Sender'
BY DEF Sender, Doing

(* The modes are the same if no variable about them changes.               *)
LEMMA ModeKept ==
    ASSUME MinerInv, UNCHANGED <<started, discreteMining, monitor, monitorClosed, controller,
                                 runningWorkers, mining>>
    PROVE  ModeInv'
<1>1. AliveWorkers' = AliveWorkers
    BY DEF AliveWorkers
<1> QED BY <1>1 DEF MinerInv, ModeInv

(* The count is still known unless the only sender has gone.               *)
LEMMA CountKept ==
    ASSUME MinerInv, UNCHANGED <<numWorkers, controller, runningWorkers, crashed>>,
           Sender => Sender'
    PROVE  CountInv'
BY DEF MinerInv, CountInv

(* Nothing but the call, the lock and the quit channel changes.            *)
LEMMA QuietCall ==
    ASSUME MinerInv, NEW c \in Caller, ~Doing(c, "SetNumWorkers", "send"),
           call' \in [Caller -> [op : Ops, at : CallAts, arg : Nat]],
           \A d \in Caller : d # c => call'[d] = call[d],
           ~Generating(c), ~Generating(c)',
           Doing(c, "Stop", "wait")' => ~discreteMining,
           LockInv', mlock' \in Caller \cup {0},
           quitClosed' \in BOOLEAN,
           UNCHANGED <<started, discreteMining, numWorkers, monitor, monitorClosed, controller,
                       runningWorkers, signalled, mining, crashed>>
    PROVE  MinerInv'
<1>1. ModeInv' /\ CountInv'
    BY SendersKept, ModeKept, CountKept
<1>2. MinerType
    BY DEF MinerInv
<1>3. /\ started' \in BOOLEAN /\ numWorkers' \in Nat
      /\ monitor' \in BOOLEAN /\ monitorClosed' \in BOOLEAN /\ controller' \in Controls
    BY <1>2 DEF MinerType
<1>4. UNCHANGED <<discreteMining, runningWorkers, signalled, mining>>
    OBVIOUS
<1>5. monitor /\ ~monitorClosed => monitor' /\ ~monitorClosed'
    OBVIOUS
<1> QED BY <1>1, <1>3, <1>4, <1>5, CallKeeps

(* A caller begins to wait for the lock.                                   *)
LEMMA BeginCallStep ==
    ASSUME MinerInv, ~crashed, NEW c \in Caller, BeginCall(c)
    PROVE  MinerInv'
<1>0. PICK op \in {"Start", "Stop", "HashesPerSecond", "SetNumWorkers", "GenerateNBlocks"} :
          \E n \in IF op = "SetNumWorkers" THEN 1..MaxWorkers ELSE {1} :
              call' = [call EXCEPT ![c] = [op |-> op, at |-> "lock", arg |-> n]]
    BY DEF BeginCall
<1>1. PICK n \in Nat : call' = [call EXCEPT ![c] = [op |-> op, at |-> "lock", arg |-> n]]
    <2>1. (IF op = "SetNumWorkers" THEN 1..MaxWorkers ELSE {1}) \subseteq Nat
        BY MinerAssumption
    <2> QED BY <1>0, <2>1
<1> DEFINE r == [op |-> op, at |-> "lock", arg |-> n]
<1>2. r \in [op : Ops, at : CallAts, arg : Nat] /\ r.at = "lock"
    BY DEF Ops, CallAts
<1>3. call' = [call EXCEPT ![c] = r]
    BY <1>1
<1> HIDE DEF r
<1>4. /\ call' \in [Caller -> [op : Ops, at : CallAts, arg : Nat]]
      /\ call'[c].at = "lock" /\ \A d \in Caller : d # c => call'[d] = call[d]
    BY <1>2, <1>3, CallSet
<1>5. call[c].at = "none"
    BY DEF BeginCall, NoCall
<1>6. /\ ~Doing(c, "SetNumWorkers", "send") /\ ~Generating(c) /\ ~Generating(c)'
      /\ ~Doing(c, "Stop", "wait")'
    BY <1>4, <1>5 DEF Doing, Generating
<1>7. /\ mlock' = mlock /\ quitClosed' = quitClosed
      /\ UNCHANGED <<started, discreteMining, numWorkers, monitor, monitorClosed, controller,
                     runningWorkers, signalled, mining, crashed>>
    BY DEF BeginCall
<1>8. LockInv' /\ mlock' \in Caller \cup {0}
    BY <1>4, <1>5, <1>7, LockStays
<1>9. quitClosed' \in BOOLEAN
    BY <1>7 DEF MinerInv, MinerType
<1> QED BY <1>4, <1>6, <1>7, <1>8, <1>9, QuietCall

(* Start: the miner was off, so no worker is left and the controller       *)
(* begins without any.                                                     *)
LEMMA StartStep ==
    ASSUME MinerInv, ~crashed, NEW c \in Caller, Start(c)
    PROVE  MinerInv'
<1>1. /\ call[c].op = "Start" /\ call[c].at = "lock" /\ mlock = 0 /\ mlock' = mlock
      /\ ReturnOf(c) /\ discreteMining' = discreteMining /\ numWorkers' = numWorkers
      /\ runningWorkers' = runningWorkers /\ signalled' = signalled /\ mining' = mining
      /\ crashed' = crashed
    BY DEF Start, Doing, callRest
<1>2. /\ call' \in [Caller -> [op : Ops, at : CallAts, arg : Nat]]
      /\ call'[c].op = "none" /\ call'[c].at = "none"
      /\ \A d \in Caller : d # c => call'[d] = call[d]
    BY <1>1, CallReturned
<1>3. /\ ~Doing(c, "SetNumWorkers", "send") /\ ~Generating(c) /\ ~Generating(c)'
      /\ ~Doing(c, "Stop", "wait")'
    BY <1>1, <1>2 DEF Doing, Generating
<1>4. LockInv' /\ mlock' \in Caller \cup {0}
    BY <1>1, <1>2, LockStays
<1>5. CASE started \/ discreteMining
    <2>1. /\ quitClosed' = quitClosed
          /\ UNCHANGED <<started, discreteMining, numWorkers, monitor, monitorClosed, controller,
                         runningWorkers, signalled, mining, crashed>>
        BY <1>1, <1>5 DEF Start
    <2>2. quitClosed' \in BOOLEAN
        BY <2>1 DEF MinerInv, MinerType
    <2> QED BY <1>2, <1>3, <1>4, <2>1, <2>2, QuietCall
<1>6. CASE ~started /\ ~discreteMining
    <2>1. /\ quitClosed' = FALSE /\ monitorClosed' = FALSE /\ monitor' = TRUE
          /\ controller' = "launch" /\ started' = TRUE
        BY <1>6 DEF Start
    <2>2. AliveWorkers = {}
        BY <1>6 DEF MinerInv, ModeInv
    <2>3. AliveWorkers' = {}
        BY <1>1, <2>2 DEF AliveWorkers
    <2>4. runningWorkers = <<>>
        <3>1. runningWorkers \in Seq(Worker) /\ Range(runningWorkers) = {}
            BY <2>2 DEF MinerInv, MinerType, WorkerInv
        <3> QED BY <3>1, SeqRange
    <2>5. ModeInv'
        BY <1>1, <1>6, <2>1, <2>3, <2>4 DEF ModeInv
    <2>6. CountInv'
        BY <2>1 DEF CountInv
    <2>7. /\ started' \in BOOLEAN /\ quitClosed' \in BOOLEAN /\ numWorkers' \in Nat
          /\ monitor' \in BOOLEAN /\ monitorClosed' \in BOOLEAN /\ controller' \in Controls
        BY <1>1, <2>1 DEF MinerInv, MinerType, Controls
    <2>8. UNCHANGED <<discreteMining, runningWorkers, signalled, mining>>
        BY <1>1
    <2>9. monitor /\ ~monitorClosed => monitor' /\ ~monitorClosed'
        BY <2>1
    <2> QED BY <1>2, <1>3, <1>4, <2>5, <2>6, <2>7, <2>8, <2>9, CallKeeps
<1> QED BY <1>5, <1>6

(* Stop closes quit and waits with the lock held; when it returns, the     *)
(* controller and the monitor have ended.                                  *)
LEMMA StopStep ==
    ASSUME MinerInv, ~crashed, NEW c \in Caller, Stop(c)
    PROVE  MinerInv'
<1>1. /\ discreteMining' = discreteMining /\ numWorkers' = numWorkers /\ monitor' = monitor
      /\ monitorClosed' = monitorClosed /\ controller' = controller
      /\ runningWorkers' = runningWorkers /\ signalled' = signalled /\ mining' = mining
      /\ crashed' = crashed /\ call[c].op = "Stop"
    BY DEF Stop, Doing, callRest
<1>2. MinerType
    BY DEF MinerInv
<1>3. CASE Doing(c, "Stop", "lock") /\ mlock = 0
    <2>1. /\ call[c].at = "lock" /\ started' = started
          /\ ~Generating(c) /\ ~Doing(c, "SetNumWorkers", "send")
        BY <1>1, <1>3 DEF Stop, Doing, Generating
    <2>2. UNCHANGED <<started, discreteMining, numWorkers, monitor, monitorClosed, controller,
                      runningWorkers, signalled, mining, crashed>>
        BY <1>1, <2>1
    <2>3. CASE ~started \/ discreteMining
        <3>1. ReturnOf(c) /\ mlock' = mlock /\ quitClosed' = quitClosed
            BY <1>3, <2>3, <2>1 DEF Stop, Doing
        <3>2. /\ call' \in [Caller -> [op : Ops, at : CallAts, arg : Nat]]
              /\ call'[c].op = "none" /\ call'[c].at = "none"
              /\ \A d \in Caller : d # c => call'[d] = call[d]
            BY <3>1, CallReturned
        <3>3. ~Generating(c)' /\ ~Doing(c, "Stop", "wait")'
            BY <3>2 DEF Doing, Generating
        <3>4. LockInv' /\ mlock' \in Caller \cup {0}
            BY <2>1, <3>1, <3>2, LockStays
        <3>5. quitClosed' \in BOOLEAN
            BY <1>2, <3>1 DEF MinerType
        <3> QED BY <2>1, <2>2, <3>2, <3>3, <3>4, <3>5, QuietCall
    <2>4. CASE started /\ ~discreteMining
        <3>1. CallAt(c, "wait") /\ mlock' = c /\ quitClosed' = TRUE
            BY <1>3, <2>4, <2>1 DEF Stop, Doing
        <3>2. /\ call' \in [Caller -> [op : Ops, at : CallAts, arg : Nat]]
              /\ call'[c].op = "Stop" /\ call'[c].at = "wait"
              /\ \A d \in Caller : d # c => call'[d] = call[d]
            <4>1. "wait" \in CallAts
                BY DEF CallAts
            <4> QED BY <1>1, <3>1, <4>1, CallMoved
        <3>3. ~Generating(c)'
            BY <3>2 DEF Generating
        <3>4. LockInv' /\ mlock' \in Caller \cup {0}
            BY <1>3, <3>1, <3>2, LockMoves
        <3>5. quitClosed' \in BOOLEAN /\ ~discreteMining
            BY <2>4, <3>1
        <3> QED BY <2>1, <2>2, <3>2, <3>3, <3>4, <3>5, QuietCall
    <2> QED BY <1>2, <2>3, <2>4 DEF MinerType
<1>4. CASE Doing(c, "Stop", "wait")
    <2>1. /\ call[c].at = "wait" /\ controller = "none" /\ ~monitor
          /\ started' = FALSE /\ mlock' = 0 /\ ReturnOf(c) /\ quitClosed' = quitClosed
        BY <1>4 DEF Stop, Doing
    <2>2. /\ call' \in [Caller -> [op : Ops, at : CallAts, arg : Nat]]
          /\ call'[c].op = "none" /\ call'[c].at = "none"
          /\ \A d \in Caller : d # c => call'[d] = call[d]
        BY <2>1, CallReturned
    <2>3. /\ ~Generating(c) /\ ~Generating(c)' /\ ~Doing(c, "Stop", "wait")'
        BY <1>1, <2>2 DEF Doing, Generating
    <2>4. mlock = c /\ ~discreteMining
        BY <1>4, <2>1 DEF MinerInv, LockInv, CallInv
    <2>5. LockInv' /\ mlock' \in Caller \cup {0}
        <3>1. mlock' # c
            BY <2>1, MinerAssumption
        <3> QED BY <2>1, <2>2, <2>4, <3>1, LockMoves
    <2>6. AliveWorkers' = AliveWorkers
        BY <1>1 DEF AliveWorkers
    <2>7. ModeInv'
        BY <1>1, <2>1, <2>4, <2>6 DEF MinerInv, ModeInv
    <2>8. CountInv'
        BY <1>1, <2>1 DEF CountInv
    <2>9. /\ started' \in BOOLEAN /\ quitClosed' \in BOOLEAN /\ numWorkers' \in Nat
          /\ monitor' \in BOOLEAN /\ monitorClosed' \in BOOLEAN /\ controller' \in Controls
        BY <1>1, <1>2, <2>1 DEF MinerType
    <2>10. UNCHANGED <<discreteMining, runningWorkers, signalled, mining>>
        BY <1>1
    <2>11. monitor /\ ~monitorClosed => monitor' /\ ~monitorClosed'
        BY <1>1
    <2> QED BY <2>2, <2>3, <2>5, <2>7, <2>8, <2>9, <2>10, <2>11, CallKeeps
<1> QED BY <1>3, <1>4 DEF Stop

(* HashesPerSecond waits for the monitor with the lock held.               *)
LEMMA HashesStep ==
    ASSUME MinerInv, ~crashed, NEW c \in Caller, HashesPerSecond(c)
    PROVE  MinerInv'
<1>1. /\ call[c].op = "HashesPerSecond" /\ call[c].at \in {"lock", "query"}
      /\ quitClosed' = quitClosed
      /\ UNCHANGED <<started, discreteMining, numWorkers, monitor, monitorClosed, controller,
                     runningWorkers, signalled, mining, crashed>>
    BY DEF HashesPerSecond, Doing, callRest
<1>2. /\ ~Generating(c) /\ ~Doing(c, "SetNumWorkers", "send")
    BY <1>1 DEF Doing, Generating
<1>3. quitClosed' \in BOOLEAN
    BY <1>1 DEF MinerInv, MinerType
<1>4. CASE ReturnOf(c) /\ mlock' = 0 /\ mlock \in {0, c}
    <2>1. /\ call' \in [Caller -> [op : Ops, at : CallAts, arg : Nat]]
          /\ call'[c].op = "none" /\ call'[c].at = "none"
          /\ \A d \in Caller : d # c => call'[d] = call[d]
        BY <1>4, CallReturned
    <2>2. ~Generating(c)' /\ ~Doing(c, "Stop", "wait")'
        BY <2>1 DEF Doing, Generating
    <2>3. LockInv' /\ mlock' \in Caller \cup {0}
        <3>1. mlock' # c
            BY <1>4, MinerAssumption
        <3> QED BY <1>4, <2>1, <3>1, LockMoves
    <2> QED BY <1>1, <1>2, <1>3, <2>1, <2>2, <2>3, QuietCall
<1>5. CASE CallAt(c, "query") /\ mlock = 0 /\ mlock' = c
    <2>1. /\ call' \in [Caller -> [op : Ops, at : CallAts, arg : Nat]]
          /\ call'[c].op = "HashesPerSecond" /\ call'[c].at = "query"
          /\ \A d \in Caller : d # c => call'[d] = call[d]
        <3>1. "query" \in CallAts
            BY DEF CallAts
        <3> QED BY <1>1, <1>5, <3>1, CallMoved
    <2>2. ~Generating(c)' /\ ~Doing(c, "Stop", "wait")'
        BY <2>1 DEF Doing, Generating
    <2>3. LockInv' /\ mlock' \in Caller \cup {0}
        BY <1>5, <2>1, LockMoves
    <2> QED BY <1>1, <1>2, <1>3, <2>1, <2>2, <2>3, QuietCall
<1>6. Doing(c, "HashesPerSecond", "query") => mlock = c
    BY DEF MinerInv, LockInv, Doing
<1> QED BY <1>4, <1>5, <1>6 DEF HashesPerSecond

(* SetNumWorkers becomes a sender, unless the miner is off.                *)
LEMMA SetStep ==
    ASSUME MinerInv, ~crashed, NEW c \in Caller, SetNumWorkers(c)
    PROVE  MinerInv'
<1>1. /\ call[c].op = "SetNumWorkers" /\ call[c].at = "lock" /\ mlock = 0
      /\ quitClosed' = quitClosed /\ numWorkers' = call[c].arg /\ controller' = controller
      /\ UNCHANGED <<started, discreteMining, monitor, monitorClosed, controller,
                     runningWorkers, mining>>
      /\ UNCHANGED <<discreteMining, runningWorkers, signalled, mining>>
    BY DEF SetNumWorkers, Doing
<1>2. ~Generating(c)
    BY <1>1 DEF Generating
<1>3. ModeInv'
    BY <1>1, ModeKept
<1>4. /\ started' \in BOOLEAN /\ quitClosed' \in BOOLEAN /\ numWorkers' \in Nat
      /\ monitor' \in BOOLEAN /\ monitorClosed' \in BOOLEAN /\ controller' \in Controls
    <2>1. MinerType
        BY DEF MinerInv
    <2>2. call[c].arg \in Nat
        BY <2>1 DEF MinerType
    <2> QED BY <1>1, <2>1, <2>2 DEF MinerType
<1>5. monitor /\ ~monitorClosed => monitor' /\ ~monitorClosed'
    BY <1>1
<1>6. CASE started
    <2>1. CallAt(c, "send") /\ mlock' = c
        BY <1>6 DEF SetNumWorkers
    <2>2. /\ call' \in [Caller -> [op : Ops, at : CallAts, arg : Nat]]
          /\ call'[c].op = "SetNumWorkers" /\ call'[c].at = "send"
          /\ \A d \in Caller : d # c => call'[d] = call[d]
        <3>1. "send" \in CallAts
            BY DEF CallAts
        <3> QED BY <1>1, <2>1, <3>1, CallMoved
    <2>3. ~Generating(c)' /\ ~Doing(c, "Stop", "wait")'
        BY <2>2 DEF Doing, Generating
    <2>4. LockInv' /\ mlock' \in Caller \cup {0}
        BY <1>1, <2>1, <2>2, LockMoves
    <2>5. Sender'
        BY <2>2 DEF Sender, Doing
    <2>6. CountInv'
        BY <2>5 DEF CountInv
    <2> QED BY <1>1, <1>2, <1>3, <1>4, <1>5, <2>2, <2>3, <2>4, <2>6, CallKeeps
<1>7. CASE ~started
    <2>1. ReturnOf(c) /\ mlock' = 0
        BY <1>1, <1>7 DEF SetNumWorkers
    <2>2. /\ call' \in [Caller -> [op : Ops, at : CallAts, arg : Nat]]
          /\ call'[c].op = "none" /\ call'[c].at = "none"
          /\ \A d \in Caller : d # c => call'[d] = call[d]
        BY <2>1, CallReturned
    <2>3. ~Generating(c)' /\ ~Doing(c, "Stop", "wait")'
        BY <2>2 DEF Doing, Generating
    <2>4. LockInv' /\ mlock' \in Caller \cup {0}
        <3>1. mlock' # c
            BY <2>1, MinerAssumption
        <3> QED BY <1>1, <2>1, <2>2, <3>1, LockMoves
    <2>5. controller' = "none"
        BY <1>1, <1>7 DEF MinerInv, ModeInv
    <2>6. CountInv'
        BY <2>5 DEF CountInv
    <2> QED BY <1>1, <1>2, <1>3, <1>4, <1>5, <2>2, <2>3, <2>4, <2>6, CallKeeps
<1> QED BY <1>6, <1>7

(* The controller takes the new number: it does not know yet whether it    *)
(* has enough workers.                                                     *)
LEMMA ReceiveStep ==
    ASSUME MinerInv, ~crashed, NEW c \in Caller, ReceiveUpdate(c)
    PROVE  MinerInv'
<1>1. /\ call[c].op = "SetNumWorkers" /\ call[c].at = "send"
      /\ quitClosed' = quitClosed /\ numWorkers' = numWorkers
      /\ controller = "select" /\ controller' = "update" /\ mlock' = 0 /\ ReturnOf(c)
      /\ started' = started /\ monitor' = monitor /\ monitorClosed' = monitorClosed
      /\ UNCHANGED <<discreteMining, runningWorkers, signalled, mining>>
    BY DEF ReceiveUpdate, Doing, callRest
<1>2. mlock = c
    BY <1>1 DEF MinerInv, LockInv
<1>3. /\ call' \in [Caller -> [op : Ops, at : CallAts, arg : Nat]]
      /\ call'[c].op = "none" /\ call'[c].at = "none"
      /\ \A d \in Caller : d # c => call'[d] = call[d]
    BY <1>1, CallReturned
<1>4. ~Generating(c) /\ ~Generating(c)' /\ ~Doing(c, "Stop", "wait")'
    BY <1>1, <1>3 DEF Doing, Generating
<1>5. LockInv' /\ mlock' \in Caller \cup {0}
    <2>1. mlock' # c
        BY <1>1, MinerAssumption
    <2> QED BY <1>1, <1>2, <1>3, <2>1, LockMoves
<1>6. AliveWorkers' = AliveWorkers
    BY <1>1 DEF AliveWorkers
<1>7. ModeInv'
    BY <1>1, <1>6 DEF MinerInv, ModeInv
<1>8. CountInv'
    BY <1>1 DEF CountInv
<1>9. /\ started' \in BOOLEAN /\ quitClosed' \in BOOLEAN /\ numWorkers' \in Nat
      /\ monitor' \in BOOLEAN /\ monitorClosed' \in BOOLEAN /\ controller' \in Controls
    BY <1>1 DEF MinerInv, MinerType, Controls
<1>10. monitor /\ ~monitorClosed => monitor' /\ ~monitorClosed'
    BY <1>1
<1> QED BY <1>1, <1>3, <1>4, <1>5, <1>7, <1>8, <1>9, <1>10, CallKeeps

(* GenerateNBlocks begins: the miner was off, so that nobody else mines.   *)
LEMMA GenerateStartStep ==
    ASSUME MinerInv, ~crashed, NEW c \in Caller, GenerateStart(c)
    PROVE  MinerInv'
<1>1. /\ call[c].op = "GenerateNBlocks" /\ call[c].at = "lock" /\ mlock = 0 /\ mlock' = mlock
      /\ quitClosed' = quitClosed /\ numWorkers' = numWorkers /\ controller' = controller
      /\ runningWorkers' = runningWorkers /\ signalled' = signalled /\ crashed' = crashed
    BY DEF GenerateStart, Doing, callRest
<1>2. ~Generating(c) /\ ~Doing(c, "SetNumWorkers", "send")
    BY <1>1 DEF Generating, Doing
<1>3. MinerType /\ LockInv /\ WorkerInv /\ ModeInv /\ CallInv
    BY DEF MinerInv
<1>4. CASE started \/ discreteMining
    <2>1. /\ ReturnOf(c)
          /\ UNCHANGED <<started, discreteMining, numWorkers, monitor, monitorClosed, controller,
                         runningWorkers, signalled, mining, crashed>>
        BY <1>1, <1>4 DEF GenerateStart
    <2>2. /\ call' \in [Caller -> [op : Ops, at : CallAts, arg : Nat]]
          /\ call'[c].op = "none" /\ call'[c].at = "none"
          /\ \A d \in Caller : d # c => call'[d] = call[d]
        BY <2>1, CallReturned
    <2>3. ~Generating(c)' /\ ~Doing(c, "Stop", "wait")'
        BY <2>2 DEF Doing, Generating
    <2>4. LockInv' /\ mlock' \in Caller \cup {0}
        BY <1>1, <2>2, LockStays
    <2>5. quitClosed' \in BOOLEAN
        BY <1>1, <1>3 DEF MinerType
    <2> QED BY <1>2, <2>1, <2>2, <2>3, <2>4, <2>5, QuietCall
<1>5. CASE ~started /\ ~discreteMining
    <2>1. /\ started' = TRUE /\ discreteMining' = TRUE /\ monitor' = TRUE /\ monitorClosed' = FALSE
          /\ mining' = [mining EXCEPT ![c] = "top"] /\ CallAt(c, "mine")
        BY <1>5 DEF GenerateStart
    <2>2. /\ call' \in [Caller -> [op : Ops, at : CallAts, arg : Nat]]
          /\ call'[c].op = "GenerateNBlocks" /\ call'[c].at = "mine"
          /\ \A d \in Caller : d # c => call'[d] = call[d]
        <3>1. "mine" \in CallAts
            BY DEF CallAts
        <3> QED BY <1>1, <2>1, <3>1, CallMoved
    <2>3. LockInv' /\ mlock' \in Caller \cup {0}
        BY <1>1, <2>2, LockStays
    <2>4. /\ mining' \in [Worker \cup Caller -> {"none", "count"} \cup Searching]
          /\ \A d \in Caller : d # c => mining'[d] = mining[d]
          /\ \A w \in Worker : mining'[w] = mining[w]
          /\ mining'[c] # "none"
        <3>1. mining \in [Worker \cup Caller -> {"none", "count"} \cup Searching]
            BY <1>3 DEF MinerType
        <3>2. \A w \in Worker : w # c
            BY MinerAssumption
        <3> QED BY <2>1, <3>1, <3>2 DEF Searching
    <2>5. AliveWorkers' = AliveWorkers
        BY <2>4 DEF AliveWorkers
    <2>6. controller = "none" /\ AliveWorkers = {}
        BY <1>3, <1>5 DEF ModeInv
    <2>7. \A d \in Caller : ~Generating(d)
        BY <1>3, <1>5 DEF CallInv
    <2>8. MinerType'
        BY <1>1, <1>3, <2>1, <2>2, <2>3, <2>4 DEF MinerType
    <2>9. WorkerInv'
        BY <1>1, <1>3, <2>5 DEF WorkerInv
    <2>10. ModeInv'
        BY <1>1, <2>1, <2>5, <2>6 DEF ModeInv
    <2>11. \A d \in Caller : d # c => ~Generating(d)'
        BY <2>2, <2>7 DEF Generating
    <2>12. \A d \in Caller : ~Doing(d, "Stop", "wait")'
        <3>1. call'[c].op # "Stop"
            BY <2>2
        <3>2. \A d \in Caller : call[d].at # "wait"
            BY <1>1, <1>3, MinerAssumption DEF LockInv
        <3> QED BY <2>2, <3>1, <3>2 DEF Doing
    <2>13. \A d \in Caller : mining'[d] # "none" <=> Doing(d, "GenerateNBlocks", "mine")'
        BY <1>3, <2>2, <2>4 DEF CallInv, Doing
    <2>14. CallInv'
        BY <2>1, <2>11, <2>12, <2>13 DEF CallInv
    <2>15. CountInv'
        BY <1>1, <2>6 DEF CountInv
    <2> QED BY <2>3, <2>8, <2>9, <2>10, <2>14, <2>15 DEF MinerInv
<1> QED BY <1>3, <1>4, <1>5 DEF MinerType

(* The pending update that the top of the loop ignores is of the caller    *)
(* that holds the lock.                                                    *)
LEMMA GenerateTopStep ==
    ASSUME MinerInv, ~crashed, NEW c \in Caller, GenerateTop(c)
    PROVE  MinerInv'
<1> DEFINE senders == {d \in Caller : Doing(d, "SetNumWorkers", "send")}
<1>1. /\ Search(c, "top", "solve")
      /\ started' = started /\ discreteMining' = discreteMining /\ numWorkers' = numWorkers
      /\ quitClosed' = quitClosed /\ monitor' = monitor /\ monitorClosed' = monitorClosed
      /\ controller' = controller /\ runningWorkers' = runningWorkers
      /\ signalled' = signalled /\ calls' = calls /\ crashed' = crashed
    BY DEF GenerateTop, callRest
<1>2. IF senders = {} THEN UNCHANGED <<mlock, call>>
      ELSE /\ mlock' = 0
           /\ call' = [d \in Caller |-> IF d \in senders THEN NoCall ELSE call[d]]
    BY DEF GenerateTop
<1>3. MinerType /\ LockInv /\ WorkerInv /\ ModeInv /\ CallInv
    BY DEF MinerInv
<1>4. CASE senders = {}
    <2>1. UNCHANGED searchRest /\ UNCHANGED <<signalled, call>>
        BY <1>1, <1>2, <1>4 DEF searchRest
    <2>2. "solve" \in {"count"} \cup Searching
        BY DEF Searching
    <2> QED BY <1>1, <2>1, <2>2, SearchGoesOn
<1>5. CASE senders # {}
    <2>1. /\ mlock' = 0
          /\ call' = [d \in Caller |-> IF d \in senders THEN NoCall ELSE call[d]]
        BY <1>2, <1>5
    <2>2. /\ NoCall \in [op : Ops, at : CallAts, arg : Nat]
          /\ NoCall.op = "none" /\ NoCall.at = "none"
        BY DEF NoCall, Ops, CallAts
    <2>3. \A d \in senders : /\ d \in Caller /\ call[d].op = "SetNumWorkers" /\ call[d].at = "send"
                             /\ mlock = d
        BY <1>3 DEF LockInv, Doing
    <2> HIDE DEF senders
    <2>4. /\ call' \in [Caller -> [op : Ops, at : CallAts, arg : Nat]]
          /\ \A d \in Caller : d \in senders => call'[d].op = "none" /\ call'[d].at = "none"
          /\ \A d \in Caller : d \notin senders => call'[d] = call[d]
        BY <1>3, <2>1, <2>2 DEF MinerType
    <2>5. LockInv'
        <3>1. PICK e \in senders : mlock = e
            BY <1>5, <2>3
        <3>2. ASSUME NEW d \in Caller
              PROVE  call'[d].at \notin {"wait", "query", "send"} /\ d # 0
            <4>1. CASE d \in senders
                BY <2>4, <4>1, MinerAssumption
            <4>2. CASE d \notin senders
                BY <1>3, <2>4, <3>1, <4>2, MinerAssumption DEF LockInv
            <4> QED BY <4>1, <4>2
        <3> QED BY <2>1, <3>2 DEF LockInv
    <2>6. /\ mining \in [Worker \cup Caller -> {"none", "count"} \cup Searching]
          /\ mining[c] = "top" /\ mining' = [mining EXCEPT ![c] = "solve"]
        BY <1>1, <1>3 DEF MinerType, Search
    <2>7. /\ mining' \in [Worker \cup Caller -> {"none", "count"} \cup Searching]
          /\ \A u \in Worker \cup Caller : mining'[u] # "none" <=> mining[u] # "none"
        BY <2>6 DEF Searching
    <2>8. AliveWorkers' = AliveWorkers
        BY <2>7 DEF AliveWorkers
    <2>9. /\ Generating(c)
        BY <1>3, <2>6 DEF CallInv, Generating, Doing
    <2>10. controller = "none"
        BY <1>3, <2>9 DEF CallInv, ModeInv
    <2>11. MinerType'
        BY <1>1, <1>3, <2>1, <2>4, <2>7 DEF MinerType
    <2>12. WorkerInv' /\ ModeInv'
        BY <1>1, <1>3, <2>8 DEF WorkerInv, ModeInv
    <2>13. \A d \in Caller :
               /\ Generating(d)' => Generating(d) /\ call'[d].at = call[d].at
               /\ Doing(d, "GenerateNBlocks", "mine")' <=> Doing(d, "GenerateNBlocks", "mine")
               /\ Doing(d, "Stop", "wait")' => Doing(d, "Stop", "wait")
        BY <2>3, <2>4 DEF Generating, Doing
    <2>14. CallInv'
        BY <1>1, <1>3, <2>7, <2>13 DEF CallInv
    <2>15. CountInv'
        BY <1>1, <2>10 DEF CountInv
    <2> QED BY <2>5, <2>11, <2>12, <2>14, <2>15 DEF MinerInv
<1> QED BY <1>4, <1>5

(* The last block ends the search, the others do not.                      *)
LEMMA GenerateSubmitStep ==
    ASSUME MinerInv, ~crashed, NEW c \in Caller, GenerateSubmit(c)
    PROVE  MinerInv'
<1>1. /\ mlock' = mlock
      /\ started' = started /\ discreteMining' = discreteMining /\ numWorkers' = numWorkers
      /\ quitClosed' = quitClosed /\ monitor' = monitor /\ monitorClosed' = monitorClosed
      /\ controller' = controller /\ runningWorkers' = runningWorkers
      /\ signalled' = signalled /\ calls' = calls /\ crashed' = crashed
    BY DEF GenerateSubmit, callRest
<1>2. MinerType /\ LockInv /\ WorkerInv /\ ModeInv /\ CallInv
    BY DEF MinerInv
<1>3. CASE Search(c, "found", "top") /\ UNCHANGED call
    <2>1. UNCHANGED searchRest /\ UNCHANGED <<signalled, call>>
        BY <1>1, <1>3 DEF searchRest
    <2>2. "top" \in {"count"} \cup Searching
        BY DEF Searching
    <2> QED BY <1>3, <2>1, <2>2, SearchGoesOn
<1>4. CASE Search(c, "found", "none") /\ CallAt(c, "finish")
    <2>1. /\ mining \in [Worker \cup Caller -> {"none", "count"} \cup Searching]
          /\ mining[c] = "found" /\ mining' = [mining EXCEPT ![c] = "none"]
        BY <1>2, <1>4 DEF MinerType, Search
    <2>2. /\ mining' \in [Worker \cup Caller -> {"none", "count"} \cup Searching]
          /\ mining'[c] = "none"
          /\ \A u \in Worker \cup Caller : u # c => mining'[u] = mining[u]
        BY <2>1
    <2>3. Doing(c, "GenerateNBlocks", "mine")
        BY <1>2, <2>1 DEF CallInv
    <2>4. /\ call' \in [Caller -> [op : Ops, at : CallAts, arg : Nat]]
          /\ call'[c].op = "GenerateNBlocks" /\ call'[c].at = "finish"
          /\ \A d \in Caller : d # c => call'[d] = call[d]
        <3>1. "finish" \in CallAts
            BY DEF CallAts
        <3> QED BY <1>4, <2>3, <3>1, CallMoved DEF Doing
    <2>5. LockInv'
        <3>1. call[c].at \notin {"wait", "query", "send"}
            BY <2>3 DEF Doing
        <3> QED BY <1>1, <2>4, <3>1, LockStays
    <2>6. AliveWorkers' = AliveWorkers
        <3>1. \A w \in Worker : w # c
            BY MinerAssumption
        <3> QED BY <2>2, <3>1 DEF AliveWorkers
    <2>7. MinerType'
        BY <1>1, <1>2, <2>2, <2>4 DEF MinerType
    <2>8. WorkerInv' /\ ModeInv'
        BY <1>1, <1>2, <2>6 DEF WorkerInv, ModeInv
    <2>9. /\ \A d \in Caller : Generating(d)' <=> Generating(d)
          /\ \A d \in Caller : d # c =>
                 (Doing(d, "GenerateNBlocks", "mine")' <=> Doing(d, "GenerateNBlocks", "mine"))
          /\ \A d \in Caller : d # c => call'[d] = call[d]
          /\ \A d \in Caller : Doing(d, "Stop", "wait")' => Doing(d, "Stop", "wait")
          /\ Generating(c) /\ call[c].at # "wait" /\ ~Doing(c, "GenerateNBlocks", "mine")'
        BY <2>3, <2>4 DEF Generating, Doing
    <2>10. CallInv'
        <3>1. monitor' /\ ~monitorClosed'
            BY <1>1, <1>2, <2>9 DEF CallInv
        <3>2. \A d \in Caller : mining'[d] # "none" <=> Doing(d, "GenerateNBlocks", "mine")'
            <4>1. ASSUME NEW d \in Caller, d # c PROVE mining'[d] = mining[d]
                BY <2>2, <4>1
            <4> QED BY <1>2, <2>2, <2>9, <4>1 DEF CallInv
        <3> QED BY <1>1, <1>2, <2>9, <3>1, <3>2 DEF CallInv
    <2>11. controller' = "none"
        BY <1>1, <1>2, <2>9 DEF CallInv, ModeInv
    <2>12. CountInv'
        BY <2>11 DEF CountInv
    <2> QED BY <2>5, <2>7, <2>8, <2>10, <2>12 DEF MinerInv
<1> QED BY <1>3, <1>4 DEF GenerateSubmit

(* GenerateNBlocks closes the monitor and returns.                         *)
LEMMA GenerateFinishStep ==
    ASSUME MinerInv, ~crashed, NEW c \in Caller, GenerateFinish(c)
    PROVE  MinerInv'
<1>1. /\ numWorkers' = numWorkers /\ mining' = mining
      /\ quitClosed' = quitClosed /\ monitor' = monitor
      /\ controller' = controller /\ runningWorkers' = runningWorkers
      /\ signalled' = signalled /\ calls' = calls /\ crashed' = crashed
    BY DEF GenerateFinish, callRest
<1>2. MinerType /\ LockInv /\ WorkerInv /\ ModeInv /\ CallInv
    BY DEF MinerInv
<1>3. call[c].op = "GenerateNBlocks" /\ call[c].at \in {"finish", "wait"} /\ Generating(c)
    BY DEF GenerateFinish, Doing, Generating
<1>4. /\ discreteMining /\ controller = "none" /\ AliveWorkers = {} /\ mining[c] = "none"
      /\ \A d \in Caller : d # c => ~Generating(d)
      /\ \A d \in Caller : ~Doing(d, "Stop", "wait")
    BY <1>2, <1>3 DEF CallInv, ModeInv, Doing
<1>5. AliveWorkers' = AliveWorkers
    BY <1>1 DEF AliveWorkers
<1>6. WorkerInv'
    BY <1>1, <1>2, <1>5 DEF WorkerInv
<1>7. CountInv'
    BY <1>1, <1>4 DEF CountInv
<1>8. CASE Doing(c, "GenerateNBlocks", "finish")
    <2>1. /\ mlock = 0 /\ mlock' = c /\ monitorClosed' = TRUE /\ CallAt(c, "wait")
          /\ started' = started /\ discreteMining' = discreteMining
        BY <1>8 DEF GenerateFinish, Doing
    <2>2. /\ call' \in [Caller -> [op : Ops, at : CallAts, arg : Nat]]
          /\ call'[c].op = "GenerateNBlocks" /\ call'[c].at = "wait"
          /\ \A d \in Caller : d # c => call'[d] = call[d]
        <3>1. "wait" \in CallAts
            BY DEF CallAts
        <3> QED BY <1>3, <2>1, <3>1, CallMoved
    <2>3. LockInv' /\ mlock' \in Caller \cup {0}
        BY <2>1, <2>2, LockMoves
    <2>4. MinerType'
        BY <1>1, <1>2, <2>1, <2>2, <2>3 DEF MinerType
    <2>5. ModeInv'
        BY <1>1, <1>2, <1>4, <1>5, <2>1 DEF ModeInv
    <2>6. /\ \A d \in Caller : d # c => ~Generating(d)'
          /\ \A d \in Caller : ~Doing(d, "Stop", "wait")'
          /\ ~Doing(c, "GenerateNBlocks", "mine")'
          /\ \A d \in Caller : d # c =>
                 (Doing(d, "GenerateNBlocks", "mine")' <=> Doing(d, "GenerateNBlocks", "mine"))
        BY <1>4, <2>2 DEF Generating, Doing
    <2>7. CallInv'
        BY <1>1, <1>2, <1>4, <2>1, <2>2, <2>6 DEF CallInv
    <2> QED BY <1>6, <1>7, <2>3, <2>4, <2>5, <2>7 DEF MinerInv
<1>9. CASE Doing(c, "GenerateNBlocks", "wait")
    <2>1. /\ ~monitor /\ started' = FALSE /\ discreteMining' = FALSE /\ mlock' = 0
          /\ ReturnOf(c) /\ monitorClosed' = monitorClosed
        BY <1>9 DEF GenerateFinish, Doing
    <2>2. /\ call' \in [Caller -> [op : Ops, at : CallAts, arg : Nat]]
          /\ call'[c].op = "none" /\ call'[c].at = "none"
          /\ \A d \in Caller : d # c => call'[d] = call[d]
        BY <2>1, CallReturned
    <2>3. LockInv' /\ mlock' \in Caller \cup {0}
        <3>1. mlock' # c
            BY <2>1, MinerAssumption
        <3>2. mlock = c
            BY <1>2, <1>9 DEF LockInv, Doing
        <3> QED BY <2>1, <2>2, <3>1, <3>2, LockMoves
    <2>4. MinerType'
        BY <1>1, <1>2, <2>1, <2>2, <2>3 DEF MinerType
    <2>5. ModeInv'
        BY <1>1, <1>2, <1>4, <1>5, <2>1 DEF ModeInv
    <2>6. /\ \A d \in Caller : ~Generating(d)'
          /\ \A d \in Caller : ~Doing(d, "Stop", "wait")'
          /\ ~Doing(c, "GenerateNBlocks", "mine")'
          /\ \A d \in Caller : d # c =>
                 (Doing(d, "GenerateNBlocks", "mine")' <=> Doing(d, "GenerateNBlocks", "mine"))
        BY <1>4, <2>2 DEF Generating, Doing
    <2>7. CallInv'
        BY <1>1, <1>2, <1>4, <2>1, <2>2, <2>6 DEF CallInv
    <2> QED BY <1>6, <1>7, <2>3, <2>4, <2>5, <2>7 DEF MinerInv
<1> QED BY <1>8, <1>9 DEF GenerateFinish

(* The steps of a caller.                                                  *)
LEMMA CallerStep ==
    ASSUME MinerInv, ~crashed, NEW c \in Caller, BeginCall(c) \/ CallStep(c)
    PROVE  MinerInv'
<1>0. \A s \in {"top", "solve", "tick", "found"} : s \in {"count"} \cup Searching
    BY DEF Searching
<1>1. CASE Solve(c)
    BY <1>0, <1>1, SearchGoesOn DEF Solve
<1>2. CASE Continue(c) \/ Stale(c)
    BY <1>0, <1>2, SearchGoesOn DEF Continue, Stale
<1>3. CASE GenerateNBlocks(c)
    BY <1>1, <1>2, <1>3, GenerateStartStep, GenerateTopStep, GenerateSubmitStep,
       GenerateFinishStep DEF GenerateNBlocks
<1> QED BY <1>3, BeginCallStep, StartStep, StopStep, HashesStep, SetStep, ReceiveStep DEF CallStep

(* Every step keeps the invariant.                                         *)
LEMMA MinerNextInv == MinerInv /\ [NextMiner]_minerVars => MinerInv'
<1> SUFFICES ASSUME MinerInv, [NextMiner]_minerVars PROVE MinerInv'
    OBVIOUS
<1>1. CASE NextMiner
    <2>1. ~crashed
        BY <1>1 DEF NextMiner
    <2>2. CASE \E c \in Caller : BeginCall(c) \/ CallStep(c)
        BY <2>1, <2>2, CallerStep
    <2>3. CASE \E w \in Worker : generateBlocks(w)
        BY <2>1, <2>3, WorkerStep
    <2>4. CASE miningWorkerController
        BY <2>1, <2>4, ControllerStep
    <2>5. CASE speedMonitor
        BY <2>1, <2>5, MonitorStep
    <2> QED BY <1>1, <2>2, <2>3, <2>4, <2>5 DEF NextMiner
<1>2. CASE UNCHANGED minerVars
    <2>1. AliveWorkers' = AliveWorkers /\ (Sender' <=> Sender)
        BY <1>2 DEF minerVars, AliveWorkers, Sender, Doing
    <2>2. MinerType' /\ LockInv' /\ WorkerInv' /\ ModeInv'
        BY <1>2, <2>1 DEF minerVars, MinerInv, MinerType, LockInv, WorkerInv, ModeInv
    <2>3. CallInv'
        BY <1>2 DEF minerVars, MinerInv, CallInv, Generating, Doing
    <2>4. CountInv'
        BY <1>2, <2>1 DEF minerVars, MinerInv, CountInv
    <2> QED BY <2>2, <2>3, <2>4 DEF MinerInv
<1> QED BY <1>1, <1>2

(* The inductive invariant holds in every state of the miner, for any      *)
(* number of callers and workers.                                          *)
THEOREM MinerInvariant == SpecMiner => []MinerInv
BY MinerInitInv, MinerNextInv, PTL DEF SpecMiner

(* Once the lock is free and the miner is off, nothing of it is left;      *)
(* whoever searches has a monitor to report to; and a controller that      *)
(* waits with no update pending has exactly the workers that were asked    *)
(* for.                                                                    *)
THEOREM MinerIsSound == SpecMiner => []MinerSound
<1>1. MinerInv => MinerSound
    BY MinerInvImplies
<1> QED BY <1>1, MinerInvariant, PTL

-----------------------------------------------------------------------------
(* NtfnManager *)

(* What a message of the queue does to the registration of a client.       *)
Registers(m, c, k) == m.type = "register" /\ m.c = c /\ m.kind = k
(* What a message does to end it.                                          *)
Cancels(m, c, k) ==
    /\ m.c = c
    /\ m.type = "remove" \/ (m.type = "unregister" /\ m.kind = k)

(* A client is registered when the messages before position i of s have been *)
(* handled, R being those registered for the kind now.                     *)
RegisteredAt(R, s, c, k, i) ==
    \/ c \in R /\ \A l \in 1..(i - 1) : ~Cancels(s[l], c, k)
    \/ \E j \in 1..(i - 1) : /\ Registers(s[j], c, k)
                             /\ \A l \in (j + 1)..(i - 1) : ~Cancels(s[l], c, k)

(* The messages of the queue, and what the handler has looked at.          *)
QueueMsg == [type : {"event", "register", "unregister", "add", "remove"},
             c : Client \cup {0}, kind : Kind \cup {"none"}, n : Nat, txs : Seq(Nat)]
(* A look of the filters at a transaction.                                 *)
TxLook == [tx : Nat, by : [Client -> Nat], told : SUBSET Client]

(* A message of the queue makes sense to the handler.                      *)
Meaningful(m, E) ==
    /\ m.type = "event" => m.kind \in Kind /\ m.n \in E
    /\ m.type \in {"register", "unregister"} => m.c \in Client /\ m.kind \in Kind
    /\ m.type \in {"add", "remove"} => m.c \in Client

(* The types.                                                              *)
NtfnType ==
    /\ q \in Seq(QueueMsg) /\ \A i \in DOMAIN q : Meaningful(q[i], DOMAIN log)
    /\ conn \in [Client -> {"new", "adding", "up", "down", "gone"}]
    /\ request \in [Client -> [op : {"none", "register", "unregister", "rescan"},
                               kind : Kind \cup {"none"}, f : Nat]]
    /\ \A c \in Client : request[c].op \in {"register", "unregister"} => request[c].kind \in Kind
    /\ clients \subseteq Client
    /\ registered \in [Kind -> SUBSET Client]
    /\ subscribed \in [Kind -> SUBSET Client]
    /\ log \in Seq([expect : SUBSET Client, done : BOOLEAN])
    /\ delivered \in [Client -> Seq(Nat)]
    /\ filters \in Seq(SUBSET Nat)
    /\ filterData \in [Client -> Nat]
    /\ examined \in Seq(TxLook)

(* The registration a client has been told of, and the one an event expects, *)
(* is in the maps of the handler or on its way to them.                    *)
Subscribing ==
    /\ \A k \in Kind : \A c \in subscribed[k] :
          Up(c) => RegisteredAt(registered[k], q, c, k, Len(q) + 1)
    /\ \A i \in DOMAIN q : q[i].type = "event" =>
          \A c \in log[q[i].n].expect :
             Up(c) => RegisteredAt(registered[q[i].kind], q, c, q[i].kind, i)
    /\ \A c \in Client : request[c].op = "unregister" => c \notin subscribed[request[c].kind]
    /\ \A c \in Client : conn[c] \in {"new", "adding"} =>
          /\ \A k \in Kind : c \notin subscribed[k]
          /\ \A n \in DOMAIN log : c \notin log[n].expect

(* The events wait in their order, behind those that were delivered.       *)
EventsOrdered ==
    /\ \A i, j \in DOMAIN q :
          i < j /\ q[i].type = "event" /\ q[j].type = "event" => q[i].n < q[j].n
    /\ \A c \in Client : \A x \in DOMAIN delivered[c] :
          /\ delivered[c][x] =< Len(log)
          /\ \A i \in DOMAIN q : q[i].type = "event" => delivered[c][x] < q[i].n

(* A filter that has matched a payment watches its output.                 *)
FiltersWatch ==
    /\ \A c \in Client : filterData[c] =< Len(filters)
    /\ \A c \in Client : request[c].op = "rescan" => request[c].f \in DOMAIN filters
    /\ \A i \in DOMAIN examined : \A c \in examined[i].told :
          /\ examined[i].by[c] \in DOMAIN filters
          /\ examined[i].tx \in Watched => examined[i].tx \in filters[examined[i].by[c]]

(* The inductive invariant of the notification manager.                    *)
NtfnInv == NtfnType /\ Subscribing /\ EventsOrdered /\ FiltersWatch /\ RegisteredTold /\ SpendsTold

-----------------------------------------------------------------------------
(* The elements of a sequence with one more.                               *)
LEMMA AppendAt ==
    ASSUME NEW S, NEW s \in Seq(S), NEW m \in S
    PROVE  /\ Append(s, m) \in Seq(S) /\ Len(s) \in Nat
           /\ Len(Append(s, m)) = Len(s) + 1
           /\ DOMAIN s = 1..Len(s) /\ DOMAIN Append(s, m) = 1..(Len(s) + 1)
           /\ \A l \in 1..Len(s) : Append(s, m)[l] = s[l]
           /\ Append(s, m)[Len(s) + 1] = m
<1>1. Len(s) \in Nat /\ DOMAIN s = 1..Len(s)
    BY LenProperties
<1>2. Append(s, m) \in Seq(S) /\ Len(Append(s, m)) = Len(s) + 1
      /\ (\A l \in 1..Len(s) : Append(s, m)[l] = s[l]) /\ Append(s, m)[Len(s) + 1] = m
    BY AppendProperties
<1>3. DOMAIN Append(s, m) = 1..(Len(s) + 1)
    BY <1>2, LenProperties
<1>. QED
    BY <1>1, <1>2, <1>3

(* The elements of a sequence with one less.                               *)
LEMMA TailAt ==
    ASSUME NEW S, NEW s \in Seq(S), s # <<>>
    PROVE  /\ Tail(s) \in Seq(S) /\ Len(s) \in Nat /\ Len(s) >= 1
           /\ Len(Tail(s)) = Len(s) - 1
           /\ DOMAIN s = 1..Len(s) /\ DOMAIN Tail(s) = 1..(Len(s) - 1)
           /\ \A l \in 1..(Len(s) - 1) : Tail(s)[l] = s[l + 1]
           /\ Head(s) = s[1] /\ s[1] \in S
<1>1. Len(s) \in Nat /\ DOMAIN s = 1..Len(s) /\ Len(s) >= 1
    BY LenProperties, EmptySeq
<1>2. Tail(s) \in Seq(S) /\ Len(Tail(s)) = Len(s) - 1 /\ Head(s) = s[1]
      /\ (\A l \in 1..Len(Tail(s)) : Tail(s)[l] = s[l + 1])
    BY HeadTailProperties
<1>3. s[1] \in S
    BY <1>1, ElementOfSeq
<1>4. DOMAIN Tail(s) = 1..(Len(s) - 1)
    BY <1>2, LenProperties
<1>. QED
    BY <1>1, <1>2, <1>3, <1>4

(* A message at the end of the queue changes nothing for those before it.  *)
LEMMA RegisteredBefore ==
    ASSUME NEW s \in Seq(QueueMsg), NEW m \in QueueMsg, NEW R, NEW c, NEW k,
           NEW i \in 1..(Len(s) + 1), RegisteredAt(R, s, c, k, i)
    PROVE  RegisteredAt(R, Append(s, m), c, k, i)
<1>1. Len(s) \in Nat /\ \A l \in 1..Len(s) : Append(s, m)[l] = s[l]
    BY AppendAt
<1>2. \A l \in 1..(i - 1) : l \in 1..Len(s)
    BY <1>1
<1>3. \A j \in 1..(i - 1) : \A l \in (j + 1)..(i - 1) : l \in 1..(i - 1)
    BY <1>1
<1>. QED
    BY <1>1, <1>2, <1>3 DEF RegisteredAt

(* Those registered stay so behind a message that does not cancel it.      *)
LEMMA RegisteredBehind ==
    ASSUME NEW s \in Seq(QueueMsg), NEW m \in QueueMsg, NEW R, NEW c, NEW k,
           RegisteredAt(R, s, c, k, Len(s) + 1), ~Cancels(m, c, k)
    PROVE  RegisteredAt(R, Append(s, m), c, k, Len(s) + 2)
<1>1. Len(s) \in Nat /\ (\A l \in 1..Len(s) : Append(s, m)[l] = s[l]) /\ Append(s, m)[Len(s) + 1] = m
    BY AppendAt
<1>2. CASE c \in R /\ \A l \in 1..Len(s) : ~Cancels(s[l], c, k)
    <2>1. ASSUME NEW l \in 1..(Len(s) + 1) PROVE ~Cancels(Append(s, m)[l], c, k)
        <3>1. l \in 1..Len(s) \/ l = Len(s) + 1
            BY <1>1
        <3>. QED
            BY <1>1, <1>2, <3>1
    <2>2. Len(s) + 2 - 1 = Len(s) + 1
        BY <1>1
    <2>. QED
        BY <1>2, <2>1, <2>2 DEF RegisteredAt
<1>3. ASSUME NEW j \in 1..Len(s), Registers(s[j], c, k), \A l \in (j + 1)..Len(s) : ~Cancels(s[l], c, k)
      PROVE  RegisteredAt(R, Append(s, m), c, k, Len(s) + 2)
    <2>1. ASSUME NEW l \in (j + 1)..(Len(s) + 1) PROVE ~Cancels(Append(s, m)[l], c, k)
        <3>1. (l \in (j + 1)..Len(s) /\ l \in 1..Len(s)) \/ l = Len(s) + 1
            BY <1>1
        <3>. QED
            BY <1>1, <1>3, <3>1
    <2>2. Len(s) + 2 - 1 = Len(s) + 1 /\ j \in 1..(Len(s) + 1)
        BY <1>1
    <2>3. Registers(Append(s, m)[j], c, k)
        BY <1>1, <1>3
    <2>. QED
        BY <2>1, <2>2, <2>3 DEF RegisteredAt
<1>4. Len(s) + 1 - 1 = Len(s)
    BY <1>1
<1>. QED
    BY <1>2, <1>3, <1>4 DEF RegisteredAt

(* The registration itself.                                                *)
LEMMA RegisteredNow ==
    ASSUME NEW s \in Seq(QueueMsg), NEW m \in QueueMsg, NEW R, NEW c, NEW k, Registers(m, c, k)
    PROVE  RegisteredAt(R, Append(s, m), c, k, Len(s) + 2)
<1>1. Len(s) \in Nat /\ Append(s, m)[Len(s) + 1] = m
    BY AppendAt
<1>2. Len(s) + 2 - 1 = Len(s) + 1 /\ Len(s) + 1 \in 1..(Len(s) + 1)
      /\ (Len(s) + 1 + 1)..(Len(s) + 1) = {}
    BY <1>1
<1>. QED
    BY <1>1, <1>2 DEF RegisteredAt

(* The first message has been handled.                                     *)
LEMMA RegisteredTail ==
    ASSUME NEW s \in Seq(QueueMsg), s # <<>>, NEW R, NEW T, NEW c, NEW k,
           NEW i \in 2..(Len(s) + 1), RegisteredAt(R, s, c, k, i),
           Registers(s[1], c, k) => c \in T,
           c \in R /\ ~Cancels(s[1], c, k) => c \in T
    PROVE  RegisteredAt(T, Tail(s), c, k, i - 1)
<1>1. Len(s) \in Nat /\ (\A l \in 1..(Len(s) - 1) : Tail(s)[l] = s[l + 1])
    BY TailAt
<1>2. CASE c \in R /\ \A l \in 1..(i - 1) : ~Cancels(s[l], c, k)
    <2>1. c \in T
        <3>1. 1 \in 1..(i - 1)
            BY <1>1
        <3>. QED
            BY <1>2, <3>1
    <2>2. ASSUME NEW l \in 1..(i - 1 - 1) PROVE ~Cancels(Tail(s)[l], c, k)
        <3>1. l \in 1..(Len(s) - 1) /\ l + 1 \in 1..(i - 1)
            BY <1>1
        <3>. QED
            BY <1>1, <1>2, <3>1
    <2>. QED
        BY <2>1, <2>2 DEF RegisteredAt
<1>3. ASSUME NEW j \in 1..(i - 1), Registers(s[j], c, k), \A l \in (j + 1)..(i - 1) : ~Cancels(s[l], c, k)
      PROVE  RegisteredAt(T, Tail(s), c, k, i - 1)
    <2>1. CASE j = 1
        <3>1. ASSUME NEW l \in 1..(i - 1 - 1) PROVE ~Cancels(Tail(s)[l], c, k)
            <4>1. l \in 1..(Len(s) - 1) /\ l + 1 \in (j + 1)..(i - 1)
                BY <1>1, <2>1
            <4>. QED
                BY <1>1, <1>3, <4>1
        <3>2. c \in T
            BY <1>3, <2>1
        <3>. QED
            BY <3>1, <3>2 DEF RegisteredAt
    <2>2. CASE j # 1
        <3>1. j - 1 \in 1..(i - 1 - 1) /\ j - 1 \in 1..(Len(s) - 1) /\ j - 1 + 1 = j
            BY <1>1, <2>2
        <3>2. ASSUME NEW l \in (j - 1 + 1)..(i - 1 - 1) PROVE ~Cancels(Tail(s)[l], c, k)
            <4>1. l \in 1..(Len(s) - 1) /\ l + 1 \in (j + 1)..(i - 1)
                BY <1>1, <2>2
            <4>. QED
                BY <1>1, <1>3, <4>1
        <3>3. Registers(Tail(s)[j - 1], c, k)
            BY <1>1, <1>3, <3>1
        <3>. QED
            BY <3>1, <3>2, <3>3 DEF RegisteredAt
    <2>. QED
        BY <2>1, <2>2
<1>. QED
    BY <1>2, <1>3 DEF RegisteredAt

(* The same, for the position a message has after that.                    *)
LEMMA RegisteredNext ==
    ASSUME NEW s \in Seq(QueueMsg), s # <<>>, NEW R, NEW T, NEW c, NEW k, NEW i, NEW j,
           i \in 2..(Len(s) + 1), j = i - 1, RegisteredAt(R, s, c, k, i),
           Registers(s[1], c, k) => c \in T,
           c \in R /\ ~Cancels(s[1], c, k) => c \in T
    PROVE  RegisteredAt(T, Tail(s), c, k, j)
BY RegisteredTail

-----------------------------------------------------------------------------
(* At the beginning there is nothing.                                      *)
LEMMA NtfnStart == InitNtfn => NtfnInv
<1>. SUFFICES ASSUME InitNtfn PROVE NtfnInv
    OBVIOUS
<1>1. /\ q = <<>> /\ log = <<>> /\ filters = <<>> /\ examined = <<>>
      /\ conn = [c \in Client |-> "new"] /\ request = [c \in Client |-> NoRequest]
      /\ clients = {} /\ registered = [k \in Kind |-> {}] /\ subscribed = [k \in Kind |-> {}]
      /\ filterData = [c \in Client |-> 0] /\ delivered = [c \in Client |-> <<>>]
    BY DEF InitNtfn
<1>2. Len(<<>>) = 0 /\ DOMAIN <<>> = {} /\ \A S : <<>> \in Seq(S)
    OBVIOUS
<1>3. NoRequest \in [op : {"none", "register", "unregister", "rescan"}, kind : Kind \cup {"none"}, f : Nat]
      /\ NoRequest.op = "none"
    BY DEF NoRequest
<1>4. NtfnType
    <2>1. delivered \in [Client -> Seq(Nat)]
        BY <1>1, <1>2
    <2>2. request \in [Client -> [op : {"none", "register", "unregister", "rescan"},
                               kind : Kind \cup {"none"}, f : Nat]]
        BY <1>1, <1>3
    <2>3. \A c \in Client : request[c].op = "none"
        BY <1>1, <1>3
    <2>4. q \in Seq(QueueMsg) /\ log \in Seq([expect : SUBSET Client, done : BOOLEAN])
          /\ filters \in Seq(SUBSET Nat) /\ examined \in Seq(TxLook) /\ DOMAIN q = {}
        BY <1>1, <1>2
    <2>5. /\ conn \in [Client -> {"new", "adding", "up", "down", "gone"}] /\ clients \subseteq Client
          /\ registered \in [Kind -> SUBSET Client] /\ subscribed \in [Kind -> SUBSET Client]
          /\ filterData \in [Client -> Nat]
        BY <1>1
    <2>. QED
        BY <2>1, <2>2, <2>3, <2>4, <2>5 DEF NtfnType
<1>5. Subscribing
    BY <1>1, <1>2, <1>3 DEF Subscribing
<1>6. EventsOrdered
    BY <1>1, <1>2 DEF EventsOrdered
<1>7. FiltersWatch
    BY <1>1, <1>2, <1>3 DEF FiltersWatch
<1>8. RegisteredTold
    BY <1>1, <1>2 DEF RegisteredTold
<1>9. SpendsTold
    BY <1>1, <1>2 DEF SpendsTold
<1>. QED
    BY <1>4, <1>5, <1>6, <1>7, <1>8, <1>9 DEF NtfnInv

(* What the types say of the clients, kinds and events.                    *)
LEMMA NtfnTypes ==
    ASSUME NtfnInv
    PROVE  /\ Len(q) \in Nat /\ DOMAIN q = 1..Len(q) /\ \A i \in DOMAIN q : q[i] \in QueueMsg
           /\ Len(log) \in Nat /\ DOMAIN log = 1..Len(log)
           /\ \A n \in DOMAIN log : log[n].expect \subseteq Client
           /\ \A k \in Kind : subscribed[k] \subseteq Client /\ registered[k] \subseteq Client
<1>1. q \in Seq(QueueMsg) /\ log \in Seq([expect : SUBSET Client, done : BOOLEAN])
      /\ registered \in [Kind -> SUBSET Client] /\ subscribed \in [Kind -> SUBSET Client]
    BY DEF NtfnInv, NtfnType
<1>2. Len(q) \in Nat /\ DOMAIN q = 1..Len(q) /\ \A i \in DOMAIN q : q[i] \in QueueMsg
    BY <1>1, LenProperties, ElementOfSeq
<1>3. Len(log) \in Nat /\ DOMAIN log = 1..Len(log)
      /\ \A n \in DOMAIN log : log[n] \in [expect : SUBSET Client, done : BOOLEAN]
    BY <1>1, LenProperties, ElementOfSeq
<1>. QED
    BY <1>1, <1>2, <1>3

(* A client that was not connected is not told to be, and one that has left *)
(* does not come back: what a step may do to the clients.                  *)
ConnMoves ==
    /\ \A c \in Client : conn'[c] = "up" => conn[c] = "up"
    /\ \A c \in Client : conn'[c] \in {"new", "adding"} => conn[c] \in {"new", "adding"}

(* A step that does not touch the queue, and takes subscriptions away.     *)
LEMMA QueueKept ==
    ASSUME NtfnInv, ConnMoves, UNCHANGED <<q, log, registered, delivered>>,
           \A k \in Kind : subscribed'[k] \subseteq subscribed[k],
           \A c \in Client : request'[c].op = "unregister" => c \notin subscribed'[request'[c].kind]
    PROVE  Subscribing' /\ EventsOrdered' /\ RegisteredTold'
<1>1. \A c \in Client : Up(c)' => Up(c)
    BY DEF ConnMoves, Up
<1>2. \A k \in Kind : subscribed[k] \subseteq Client
    BY NtfnTypes
<1>3. \A n \in DOMAIN log : log[n].expect \subseteq Client
    BY NtfnTypes
<1>4. \A i \in DOMAIN q : q[i].type = "event" => q[i].n \in DOMAIN log
    BY DEF NtfnInv, NtfnType, Meaningful
<1>5. Subscribing'
    <2>1. \A k \in Kind : \A c \in subscribed'[k] :
             Up(c)' => RegisteredAt(registered'[k], q', c, k, Len(q') + 1)
        BY <1>1, <1>2 DEF NtfnInv, Subscribing
    <2>2. \A i \in DOMAIN q' : q'[i].type = "event" =>
             \A c \in log'[q'[i].n].expect :
                Up(c)' => RegisteredAt(registered'[q'[i].kind], q', c, q'[i].kind, i)
        BY <1>1, <1>3, <1>4 DEF NtfnInv, Subscribing
    <2>3. \A c \in Client : conn'[c] \in {"new", "adding"} =>
             /\ \A k \in Kind : c \notin subscribed'[k]
             /\ \A n \in DOMAIN log' : c \notin log'[n].expect
        BY DEF NtfnInv, Subscribing, ConnMoves
    <2>. QED
        BY <2>1, <2>2, <2>3 DEF Subscribing
<1>6. EventsOrdered'
    BY DEF NtfnInv, EventsOrdered
<1>7. RegisteredTold'
    BY <1>1 DEF NtfnInv, RegisteredTold
<1>. QED
    BY <1>5, <1>6, <1>7

(* A message other than an event is queued.                                *)
LEMMA QueueGrows ==
    ASSUME NtfnInv, NEW m \in QueueMsg, m.type # "event", q' = Append(q, m),
           UNCHANGED <<log, registered, delivered>>,
           \A k \in Kind : \A c \in subscribed'[k] : Up(c)' =>
              \/ Registers(m, c, k)
              \/ c \in subscribed[k] /\ Up(c) /\ ~Cancels(m, c, k),
           \A n \in DOMAIN log : \A c \in log[n].expect : Up(c)' => Up(c),
           \A c \in Client : request'[c].op = "unregister" => c \notin subscribed'[request'[c].kind],
           \A c \in Client : conn'[c] \in {"new", "adding"} =>
              conn[c] \in {"new", "adding"} /\ \A k \in Kind : c \in subscribed'[k] => c \in subscribed[k]
    PROVE  Subscribing' /\ EventsOrdered' /\ RegisteredTold'
<1>1. q \in Seq(QueueMsg)
    BY DEF NtfnInv, NtfnType
<1>2. /\ Len(q) \in Nat /\ Len(q') = Len(q) + 1 /\ DOMAIN q = 1..Len(q) /\ DOMAIN q' = 1..(Len(q) + 1)
      /\ (\A l \in 1..Len(q) : q'[l] = q[l]) /\ q'[Len(q) + 1] = m
    BY <1>1, AppendAt
<1>3. \A i \in DOMAIN q' : q'[i].type = "event" => i \in DOMAIN q /\ q'[i] = q[i]
    BY <1>2
<1>4. \A i \in DOMAIN q : q[i].type = "event" => q[i].n \in DOMAIN log /\ q[i].kind \in Kind
    BY DEF NtfnInv, NtfnType, Meaningful
<1>5. ASSUME NEW k \in Kind, NEW c \in subscribed'[k], Up(c)'
      PROVE  RegisteredAt(registered'[k], q', c, k, Len(q') + 1)
    <2>1. Len(q') + 1 = Len(q) + 2
        BY <1>2
    <2>2. CASE Registers(m, c, k)
        BY <1>1, <2>1, <2>2, RegisteredNow
    <2>3. CASE c \in subscribed[k] /\ Up(c) /\ ~Cancels(m, c, k)
        <3>1. RegisteredAt(registered[k], q, c, k, Len(q) + 1)
            BY <2>3 DEF NtfnInv, Subscribing
        <3>. QED
            BY <1>1, <2>1, <2>3, <3>1, RegisteredBehind
    <2>. QED
        BY <1>5, <2>2, <2>3
<1>6. ASSUME NEW i \in DOMAIN q', q'[i].type = "event", NEW c \in log'[q'[i].n].expect, Up(c)'
      PROVE  RegisteredAt(registered'[q'[i].kind], q', c, q'[i].kind, i)
    <2>1. i \in DOMAIN q /\ q'[i] = q[i] /\ q[i].type = "event" /\ q[i].n \in DOMAIN log
        BY <1>3, <1>4, <1>6
    <2>2. Up(c)
        BY <1>6, <2>1
    <2>3. RegisteredAt(registered[q[i].kind], q, c, q[i].kind, i)
        BY <1>6, <2>1, <2>2 DEF NtfnInv, Subscribing
    <2>4. i \in 1..(Len(q) + 1)
        BY <1>2
    <2>. QED
        BY <1>1, <2>1, <2>3, <2>4, RegisteredBefore
<1>7. Subscribing'
    <2>1. \A c \in Client : conn'[c] \in {"new", "adding"} =>
             /\ \A k \in Kind : c \notin subscribed'[k]
             /\ \A n \in DOMAIN log' : c \notin log'[n].expect
        BY DEF NtfnInv, Subscribing
    <2>. QED
        BY <1>5, <1>6, <2>1 DEF Subscribing
<1>8. EventsOrdered'
    <2>1. \A i, j \in DOMAIN q' :
             i < j /\ q'[i].type = "event" /\ q'[j].type = "event" => q'[i].n < q'[j].n
        BY <1>3 DEF NtfnInv, EventsOrdered
    <2>2. \A c \in Client : \A x \in DOMAIN delivered'[c] :
             /\ delivered'[c][x] =< Len(log')
             /\ \A i \in DOMAIN q' : q'[i].type = "event" => delivered'[c][x] < q'[i].n
        BY <1>3 DEF NtfnInv, EventsOrdered
    <2>. QED
        BY <2>1, <2>2 DEF EventsOrdered
<1>9. RegisteredTold'
    BY DEF NtfnInv, RegisteredTold
<1>. QED
    BY <1>7, <1>8, <1>9

(* A step that makes no filter and looks at no transaction.                *)
LEMMA FiltersKept ==
    ASSUME NtfnInv, UNCHANGED <<filters, filterData, examined>>,
           \A c \in Client : request'[c].op = "rescan" => request'[c].f \in DOMAIN filters
    PROVE  FiltersWatch' /\ SpendsTold'
<1>1. FiltersWatch'
    BY DEF NtfnInv, FiltersWatch
<1>2. SpendsTold'
    BY DEF NtfnInv, SpendsTold
<1>. QED
    BY <1>1, <1>2

(* A transaction is looked at.                                             *)
LEMMA LookKeeps ==
    ASSUME NtfnInv, NEW tx \in Nat, NEW by \in [Client -> Nat], NEW hearers \in SUBSET Client, NEW used,
           filters' = addUnspentOutPoint(used, tx),
           examined' = Append(examined, [tx |-> tx, by |-> by, told |-> hearers]),
           \A c \in hearers : by[c] \in used /\ by[c] \in DOMAIN filters,
           \A c \in Client : relevant(by[c], tx) => c \in hearers,
           filterData' = filterData,
           \A c \in Client : request'[c].op = "rescan" => request'[c].f \in DOMAIN filters
    PROVE  /\ filters' \in Seq(SUBSET Nat) /\ examined' \in Seq(TxLook)
           /\ FiltersWatch' /\ SpendsTold'
<1>. DEFINE e == [tx |-> tx, by |-> by, told |-> hearers]
<1>1. filters \in Seq(SUBSET Nat) /\ examined \in Seq(TxLook)
    BY DEF NtfnInv, NtfnType
<1>2. e \in TxLook /\ e.tx = tx /\ e.by = by /\ e.told = hearers
    BY DEF TxLook
<1>3. Len(filters) \in Nat /\ DOMAIN filters = 1..Len(filters)
      /\ \A f \in DOMAIN filters : filters[f] \in SUBSET Nat
    BY <1>1, LenProperties, ElementOfSeq
<1>4. /\ DOMAIN filters' = DOMAIN filters
      /\ \A f \in DOMAIN filters : /\ filters[f] \subseteq filters'[f]
                                   /\ f \in used /\ tx \in Watched => tx \in filters'[f]
    BY DEF addUnspentOutPoint
<1>5. filters' \in Seq(SUBSET Nat) /\ Len(filters') = Len(filters)
    <2>1. filters' \in [1..Len(filters) -> SUBSET Nat]
        BY <1>3 DEF addUnspentOutPoint
    <2>. QED
        BY <1>3, <2>1
<1>6. /\ examined' \in Seq(TxLook) /\ Len(examined) \in Nat
      /\ DOMAIN examined = 1..Len(examined) /\ DOMAIN examined' = 1..(Len(examined) + 1)
      /\ (\A l \in 1..Len(examined) : examined'[l] = examined[l]) /\ examined'[Len(examined) + 1] = e
    <2>. HIDE DEF e
    <2>1. examined' = Append(examined, e)
        BY DEF e
    <2>. QED
        BY <1>1, <1>2, <2>1, AppendAt
<1>. HIDE DEF e
<1>7. FiltersWatch'
    <2>1. \A c \in Client : filterData'[c] =< Len(filters')
        BY <1>5 DEF NtfnInv, FiltersWatch
    <2>2. \A c \in Client : request'[c].op = "rescan" => request'[c].f \in DOMAIN filters'
        BY <1>4
    <2>3. ASSUME NEW i \in DOMAIN examined', NEW c \in examined'[i].told
          PROVE  /\ examined'[i].by[c] \in DOMAIN filters'
                 /\ examined'[i].tx \in Watched => examined'[i].tx \in filters'[examined'[i].by[c]]
        <3>1. CASE i \in DOMAIN examined
            <4>1. examined'[i] = examined[i]
                BY <1>6, <3>1
            <4>2. /\ examined[i].by[c] \in DOMAIN filters
                  /\ examined[i].tx \in Watched => examined[i].tx \in filters[examined[i].by[c]]
                BY <2>3, <3>1, <4>1 DEF NtfnInv, FiltersWatch
            <4>. QED
                BY <1>4, <4>1, <4>2
        <3>2. CASE i = Len(examined) + 1
            <4>1. examined'[i] = e /\ c \in hearers
                BY <1>2, <1>6, <2>3, <3>2
            <4>. QED
                BY <1>2, <1>4, <4>1
        <3>. QED
            BY <1>6, <3>1, <3>2
    <2>. QED
        BY <2>1, <2>2, <2>3 DEF FiltersWatch
<1>8. SpendsTold'
    <2>. SUFFICES ASSUME NEW i \in DOMAIN examined', NEW j \in DOMAIN examined',
                         NEW c \in examined'[i].told,
                         i < j, Spends[examined'[j].tx] = examined'[i].tx,
                         examined'[i].tx \in Watched,
                         examined'[j].by[c] = examined'[i].by[c]
                  PROVE  c \in examined'[j].told
        BY DEF SpendsTold
    <2>1. i \in DOMAIN examined /\ examined'[i] = examined[i]
        BY <1>6
    <2>2. CASE j \in DOMAIN examined
        <3>1. examined'[j] = examined[j]
            BY <1>6, <2>2
        <3>. QED
            BY <2>1, <2>2, <3>1 DEF NtfnInv, SpendsTold
    <2>3. CASE j = Len(examined) + 1
        <3>1. examined'[j] = e
            BY <1>6, <2>3
        <3>2. Spends[tx] = examined[i].tx /\ by[c] = examined[i].by[c] /\ examined[i].tx \in Watched
            BY <1>2, <2>1, <3>1
        <3>3. /\ by[c] \in DOMAIN filters
              /\ examined[i].tx \in filters[by[c]]
            BY <2>1, <3>2 DEF NtfnInv, FiltersWatch
        <3>4. relevant(by[c], tx)
            <4>1. by[c] # 0
                BY <1>3, <3>3
            <4>. QED
                BY <3>2, <3>3, <4>1 DEF relevant
        <3>5. c \in Client
            <4>1. examined[i] \in TxLook
                BY <1>1, <2>1, ElementOfSeq, <1>6
            <4>. QED
                BY <2>1, <4>1 DEF TxLook
        <3>. QED
            BY <1>2, <3>1, <3>4, <3>5
    <2>. QED
        BY <1>6, <2>2, <2>3
<1>. QED
    BY <1>5, <1>6, <1>7, <1>8

(* The filters of these clients look at the transaction of an event.       *)
LEMMA ExamineKeeps ==
    ASSUME NtfnInv, NEW some \in SUBSET Client, NEW txs \in Seq(Nat), Examine(some, txs),
           UNCHANGED <<filterData, request>>
    PROVE  /\ filters' \in Seq(SUBSET Nat) /\ examined' \in Seq(TxLook)
           /\ FiltersWatch' /\ SpendsTold'
<1>1. \A c \in Client : request'[c].op = "rescan" => request'[c].f \in DOMAIN filters
    BY DEF NtfnInv, FiltersWatch
<1>2. CASE txs = <<>>
    <2>1. UNCHANGED <<filters, filterData, examined>>
        BY <1>2 DEF Examine
    <2>2. filters \in Seq(SUBSET Nat) /\ examined \in Seq(TxLook)
        BY DEF NtfnInv, NtfnType
    <2>. QED
        BY <1>1, <2>1, <2>2, FiltersKept
<1>3. CASE txs # <<>>
    <2>. DEFINE tx == Head(txs)
                by == [c \in Client |-> IF c \in some THEN filterData[c] ELSE 0]
                hearers == {c \in some : relevant(by[c], tx)}
                used == {filterData[c] : c \in some}
    <2>1. /\ filters' = addUnspentOutPoint(used, tx)
          /\ examined' = Append(examined, [tx |-> tx, by |-> by, told |-> hearers])
        BY <1>3 DEF Examine
    <2>2. tx \in Nat
        BY <1>3, TailAt
    <2>3. filterData \in [Client -> Nat] /\ (\A c \in Client : filterData[c] =< Len(filters))
          /\ filters \in Seq(SUBSET Nat)
        BY DEF NtfnInv, NtfnType, FiltersWatch
    <2>4. Len(filters) \in Nat /\ DOMAIN filters = 1..Len(filters)
        BY <2>3, LenProperties
    <2>5. by \in [Client -> Nat] /\ hearers \in SUBSET Client
        BY <2>3
    <2>6. \A c \in hearers : by[c] \in used /\ by[c] \in DOMAIN filters
        <3>1. ASSUME NEW c \in hearers PROVE by[c] \in used /\ by[c] \in DOMAIN filters
            <4>1. by[c] = filterData[c] /\ c \in some
                OBVIOUS
            <4>2. by[c] # 0
                BY DEF relevant
            <4>. QED
                BY <2>3, <2>4, <4>1, <4>2
        <3>. QED
            BY <3>1
    <2>7. \A c \in Client : relevant(by[c], tx) => c \in hearers
        <3>1. ASSUME NEW c \in Client, relevant(by[c], tx) PROVE c \in hearers
            <4>1. by[c] # 0
                BY <3>1 DEF relevant
            <4>2. c \in some
                BY <4>1
            <4>. QED
                BY <3>1, <4>2
        <3>. QED
            BY <3>1
    <2>. HIDE DEF tx, by, hearers, used
    <2>. QED
        BY <1>1, <2>1, <2>2, <2>5, <2>6, <2>7, LookKeeps
<1>. QED
    BY <1>2, <1>3

-----------------------------------------------------------------------------
(* The requests that are served for a client.                              *)
Requests == [op : {"none", "register", "unregister", "rescan"}, kind : Kind \cup {"none"}, f : Nat]

(* Steps that leave the queue alone.                                       *)
LEMMA OffQueue ==
    ASSUME NtfnInv, ConnMoves, UNCHANGED <<q, log, clients, registered, delivered, filters, filterData, examined>>,
           conn' \in [Client -> {"new", "adding", "up", "down", "gone"}],
           request' \in [Client -> Requests],
           subscribed' \in [Kind -> SUBSET Client],
           \A k \in Kind : subscribed'[k] \subseteq subscribed[k],
           \A c \in Client :
              /\ request'[c].op \in {"register", "unregister"} => request'[c].kind \in Kind
              /\ request'[c].op = "unregister" => c \notin subscribed'[request'[c].kind]
              /\ request'[c].op = "rescan" => request'[c].f \in DOMAIN filters
    PROVE  NtfnInv'
<1>1. NtfnType'
    BY DEF NtfnInv, NtfnType, Meaningful, Requests
<1>2. Subscribing' /\ EventsOrdered' /\ RegisteredTold'
    BY QueueKept
<1>3. FiltersWatch' /\ SpendsTold'
    BY FiltersKept
<1>. QED
    BY <1>1, <1>2, <1>3 DEF NtfnInv

(* The requests that are served, as the invariant has them.                *)
LEMMA RequestTypes ==
    ASSUME NtfnInv
    PROVE  /\ request \in [Client -> Requests]
           /\ conn \in [Client -> {"new", "adding", "up", "down", "gone"}]
           /\ subscribed \in [Kind -> SUBSET Client]
           /\ \A c \in Client :
              /\ request[c].op \in {"register", "unregister"} => request[c].kind \in Kind
              /\ request[c].op = "unregister" => c \notin subscribed[request[c].kind]
              /\ request[c].op = "rescan" => request[c].f \in DOMAIN filters
BY DEF NtfnInv, NtfnType, Subscribing, FiltersWatch, Requests

(* The manager and the handlers end, a client leaves or is refused, and nothing *)
(* happens at all.                                                         *)
LEMMA EndsKeep ==
    ASSUME NtfnInv, \/ QueueQuit \/ HandlerQuit \/ Shutdown \/ UNCHANGED ntfnVars
                    \/ \E c \in Client : Connect(c) \/ Leave(c)
    PROVE  NtfnInv'
<1>1. /\ request \in [Client -> Requests]
      /\ conn \in [Client -> {"new", "adding", "up", "down", "gone"}]
      /\ subscribed \in [Kind -> SUBSET Client]
      /\ \A c \in Client :
         /\ request[c].op \in {"register", "unregister"} => request[c].kind \in Kind
         /\ request[c].op = "unregister" => c \notin subscribed[request[c].kind]
         /\ request[c].op = "rescan" => request[c].f \in DOMAIN filters
    BY RequestTypes
<1>2. /\ UNCHANGED <<q, log, clients, registered, delivered, filters, filterData, examined>>
      /\ request' = request
    BY DEF QueueQuit, HandlerQuit, Shutdown, ntfnVars, Connect, Leave, connRest
<1>3. /\ subscribed' \in [Kind -> SUBSET Client]
      /\ \A k \in Kind : subscribed'[k] \subseteq subscribed[k]
    <2>1. CASE subscribed' = subscribed
        BY <1>1, <2>1
    <2>2. ASSUME NEW c \in Client, subscribed' = [k \in Kind |-> subscribed[k] \ {c}]
          PROVE  /\ subscribed' \in [Kind -> SUBSET Client]
                 /\ \A k \in Kind : subscribed'[k] \subseteq subscribed[k]
        BY <1>1, <2>2
    <2>. QED
        BY <2>1, <2>2 DEF QueueQuit, HandlerQuit, Shutdown, ntfnVars, Connect, Leave
<1>4. conn' \in [Client -> {"new", "adding", "up", "down", "gone"}] /\ ConnMoves
    <2>1. CASE conn' = conn
        BY <1>1, <2>1 DEF ConnMoves
    <2>2. CASE HandlerQuit
        BY <1>1, <2>2 DEF HandlerQuit, ConnMoves, Up
    <2>3. ASSUME NEW c \in Client, Connect(c) \/ Leave(c)
          PROVE  conn' \in [Client -> {"new", "adding", "up", "down", "gone"}] /\ ConnMoves
        <3>1. \/ conn[c] = "new" /\ (conn' = [conn EXCEPT ![c] = "gone"] \/ conn' = [conn EXCEPT ![c] = "adding"])
              \/ conn[c] = "up" /\ conn' = [conn EXCEPT ![c] = "down"]
            BY <2>3 DEF Connect, Leave, SetConn, Up
        <3>. QED
            BY <1>1, <3>1 DEF ConnMoves
    <2>. QED
        BY <2>1, <2>2, <2>3 DEF QueueQuit, Shutdown, ntfnVars
<1>5. \A c \in Client :
         /\ request'[c].op \in {"register", "unregister"} => request'[c].kind \in Kind
         /\ request'[c].op = "unregister" => c \notin subscribed'[request'[c].kind]
         /\ request'[c].op = "rescan" => request'[c].f \in DOMAIN filters
    BY <1>1, <1>2, <1>3
<1>. QED
    BY <1>1, <1>2, <1>3, <1>4, <1>5, OffQueue

(* A request that only changes what is served for the client.              *)
LEMMA AsksKeep ==
    ASSUME NtfnInv, NEW c \in Client, Ask(c) \/ handleRescan(c)
    PROVE  NtfnInv'
<1>1. /\ request \in [Client -> Requests]
      /\ conn \in [Client -> {"new", "adding", "up", "down", "gone"}]
      /\ subscribed \in [Kind -> SUBSET Client]
      /\ \A d \in Client :
         /\ request[d].op \in {"register", "unregister"} => request[d].kind \in Kind
         /\ request[d].op = "unregister" => d \notin subscribed[request[d].kind]
         /\ request[d].op = "rescan" => request[d].f \in DOMAIN filters
    BY RequestTypes
<1>2. /\ UNCHANGED <<q, log, clients, registered, delivered, filters, filterData, examined>>
      /\ conn' = conn
    BY DEF Ask, handleRescan, requestRest
<1>3. ConnMoves
    BY <1>2 DEF ConnMoves
<1>4. CASE Ask(c)
    <2>1. PICK op \in {"register", "unregister"}, k \in Kind :
             /\ request' = [request EXCEPT ![c] = [op |-> op, kind |-> k, f |-> 0]]
             /\ subscribed' = IF op = "register" THEN subscribed
                              ELSE [subscribed EXCEPT ![k] = @ \ {c}]
        BY <1>4 DEF Ask
    <2>2. [op |-> op, kind |-> k, f |-> 0] \in Requests
        BY DEF Requests
    <2>3. request' \in [Client -> Requests] /\ request'[c] = [op |-> op, kind |-> k, f |-> 0]
          /\ \A d \in Client \ {c} : request'[d] = request[d]
        BY <1>1, <2>1, <2>2
    <2>4. /\ subscribed' \in [Kind -> SUBSET Client]
          /\ \A l \in Kind : subscribed'[l] \subseteq subscribed[l]
          /\ op = "unregister" => c \notin subscribed'[k]
        BY <1>1, <2>1
    <2>5. ASSUME NEW d \in Client
          PROVE  /\ request'[d].op \in {"register", "unregister"} => request'[d].kind \in Kind
                 /\ request'[d].op = "unregister" => d \notin subscribed'[request'[d].kind]
                 /\ request'[d].op = "rescan" => request'[d].f \in DOMAIN filters
        <3>1. CASE d = c
            BY <2>3, <2>4, <3>1
        <3>2. CASE d # c
            BY <1>1, <2>3, <2>4, <3>2
        <3>. QED
            BY <3>1, <3>2
    <2>. QED
        BY <1>1, <1>2, <1>3, <2>3, <2>4, <2>5, OffQueue
<1>5. CASE handleRescan(c)
    <2>. DEFINE r == [op |-> "rescan", kind |-> "none", f |-> filterData[c]]
    <2>1. request' = [request EXCEPT ![c] = r] /\ subscribed' = subscribed /\ filterData[c] # 0
        BY <1>5 DEF handleRescan
    <2>2. filterData[c] \in Nat /\ filterData[c] =< Len(filters) /\ filters \in Seq(SUBSET Nat)
        BY DEF NtfnInv, NtfnType, FiltersWatch
    <2>3. filterData[c] \in DOMAIN filters
        BY <2>1, <2>2, LenProperties
    <2>4. r \in Requests /\ r.op = "rescan" /\ r.f = filterData[c]
        BY <2>2 DEF Requests
    <2>. HIDE DEF r
    <2>5. request' \in [Client -> Requests] /\ request'[c] = r
          /\ \A d \in Client \ {c} : request'[d] = request[d]
        BY <1>1, <2>1, <2>4
    <2>6. ASSUME NEW d \in Client
          PROVE  /\ request'[d].op \in {"register", "unregister"} => request'[d].kind \in Kind
                 /\ request'[d].op = "unregister" => d \notin subscribed'[request'[d].kind]
                 /\ request'[d].op = "rescan" => request'[d].f \in DOMAIN filters
        <3>1. CASE d = c
            BY <2>3, <2>4, <2>5, <3>1
        <3>2. CASE d # c
            BY <1>1, <2>1, <2>5, <3>2
        <3>. QED
            BY <3>1, <3>2
    <2>. QED
        BY <1>1, <1>2, <1>3, <2>1, <2>5, <2>6, OffQueue
<1>. QED
    BY <1>4, <1>5

(* A filter is made, or a rescan looks at its block.                       *)
LEMMA FiltersKeep ==
    ASSUME NtfnInv, NEW c \in Client, handleLoadTxFilter(c) \/ rescanBlock(c)
    PROVE  NtfnInv'
<1>1. /\ request \in [Client -> Requests]
      /\ conn \in [Client -> {"new", "adding", "up", "down", "gone"}]
      /\ subscribed \in [Kind -> SUBSET Client]
      /\ \A d \in Client :
         /\ request[d].op \in {"register", "unregister"} => request[d].kind \in Kind
         /\ request[d].op = "unregister" => d \notin subscribed[request[d].kind]
         /\ request[d].op = "rescan" => request[d].f \in DOMAIN filters
    BY RequestTypes
<1>2. /\ UNCHANGED <<q, log, clients, registered, delivered>>
      /\ conn' = conn /\ subscribed' = subscribed
    BY DEF handleLoadTxFilter, rescanBlock, requestRest
<1>3. ConnMoves
    BY <1>2 DEF ConnMoves
<1>4. NoRequest \in Requests /\ NoRequest.op = "none"
    BY DEF NoRequest, Requests
<1>5. request' = request \/ request' = [request EXCEPT ![c] = NoRequest]
    BY DEF handleLoadTxFilter, rescanBlock
<1>6. request' \in [Client -> Requests] /\ \A d \in Client : request'[d] = request[d] \/ request'[d] = NoRequest
    BY <1>1, <1>4, <1>5
<1>7. \A d \in Client :
         /\ request'[d].op \in {"register", "unregister"} => request'[d].kind \in Kind
         /\ request'[d].op = "unregister" => d \notin subscribed'[request'[d].kind]
         /\ request'[d].op = "rescan" => request'[d].f \in DOMAIN filters
    <2>. TAKE d \in Client
    <2>. QED
        BY <1>1, <1>2, <1>4, <1>6
<1>8. Subscribing' /\ EventsOrdered' /\ RegisteredTold'
    BY <1>2, <1>3, <1>7, QueueKept
<1>9. filters \in Seq(SUBSET Nat) /\ filterData \in [Client -> Nat] /\ examined \in Seq(TxLook)
      /\ \A d \in Client : filterData[d] =< Len(filters)
    BY DEF NtfnInv, NtfnType, FiltersWatch
<1>10. /\ filters' \in Seq(SUBSET Nat) /\ filterData' \in [Client -> Nat] /\ examined' \in Seq(TxLook)
       /\ FiltersWatch' /\ SpendsTold'
    <2>1. CASE UNCHANGED <<filters, filterData, examined>>
        BY <1>7, <1>9, <2>1, FiltersKept
    <2>2. CASE /\ filters' = Append(filters, {}) /\ examined' = examined
               /\ filterData' = [filterData EXCEPT ![c] = Len(filters) + 1]
        <3>1. /\ filters' \in Seq(SUBSET Nat) /\ Len(filters) \in Nat /\ Len(filters') = Len(filters) + 1
              /\ DOMAIN filters = 1..Len(filters) /\ DOMAIN filters' = 1..(Len(filters) + 1)
              /\ \A f \in 1..Len(filters) : filters'[f] = filters[f]
            BY <1>9, <2>2, AppendAt
        <3>2. filterData' \in [Client -> Nat] /\ \A d \in Client : filterData'[d] =< Len(filters')
            BY <1>9, <2>2, <3>1
        <3>3. DOMAIN filters \subseteq DOMAIN filters'
            BY <3>1
        <3>4. FiltersWatch'
            <4>1. \A d \in Client : request'[d].op = "rescan" => request'[d].f \in DOMAIN filters'
                BY <1>7, <3>3
            <4>2. \A i \in DOMAIN examined' : \A d \in examined'[i].told :
                     /\ examined'[i].by[d] \in DOMAIN filters'
                     /\ examined'[i].tx \in Watched => examined'[i].tx \in filters'[examined'[i].by[d]]
                BY <2>2, <3>1, <3>3 DEF NtfnInv, FiltersWatch
            <4>. QED
                BY <3>2, <4>1, <4>2 DEF FiltersWatch
        <3>5. SpendsTold'
            BY <2>2 DEF NtfnInv, SpendsTold
        <3>. QED
            BY <1>9, <2>2, <3>1, <3>2, <3>4, <3>5
    <2>3. CASE rescanBlock(c)
        <3>. DEFINE f == request[c].f
                    by == [d \in Client |-> IF d = c THEN f ELSE 0]
                    hearers == IF relevant(f, 1) THEN {c} ELSE {}
        <3>1. /\ request[c].op = "rescan" /\ filters' = addUnspentOutPoint({f}, 1)
              /\ examined' = Append(examined, [tx |-> 1, by |-> by, told |-> hearers])
              /\ filterData' = filterData
            BY <2>3 DEF rescanBlock
        <3>2. f \in DOMAIN filters /\ f \in Nat
            BY <1>1, <3>1 DEF Requests
        <3>3. by \in [Client -> Nat] /\ hearers \in SUBSET Client /\ by[c] = f
            BY <3>2
        <3>4. \A d \in hearers : by[d] \in {f} /\ by[d] \in DOMAIN filters
            BY <3>2, <3>3
        <3>5. \A d \in Client : relevant(by[d], 1) => d \in hearers
            <4>1. ASSUME NEW d \in Client, relevant(by[d], 1) PROVE d \in hearers
                <5>1. by[d] # 0
                    BY <4>1 DEF relevant
                <5>2. d = c
                    BY <5>1
                <5>. QED
                    BY <3>3, <4>1, <5>2
            <4>. QED
                BY <4>1
        <3>6. 1 \in Nat
            OBVIOUS
        <3>. HIDE DEF f, by, hearers
        <3>. QED
            BY <1>7, <1>9, <3>1, <3>3, <3>4, <3>5, <3>6, LookKeeps
    <2>. QED
        BY <2>1, <2>2, <2>3 DEF handleLoadTxFilter
<1>11. NtfnType'
    BY <1>1, <1>2, <1>6, <1>7, <1>10 DEF NtfnInv, NtfnType, Meaningful, Requests
<1>. QED
    BY <1>8, <1>10, <1>11 DEF NtfnInv

-----------------------------------------------------------------------------
(* The queue stays typed with one message more.                            *)
LEMMA QueueTyped ==
    ASSUME NtfnInv, NEW m \in QueueMsg, Meaningful(m, DOMAIN log), q' = Append(q, m), log' = log
    PROVE  q' \in Seq(QueueMsg) /\ \A i \in DOMAIN q' : Meaningful(q'[i], DOMAIN log')
<1>1. q \in Seq(QueueMsg) /\ \A i \in DOMAIN q : Meaningful(q[i], DOMAIN log)
    BY DEF NtfnInv, NtfnType
<1>2. /\ q' \in Seq(QueueMsg) /\ Len(q) \in Nat
      /\ DOMAIN q = 1..Len(q) /\ DOMAIN q' = 1..(Len(q) + 1)
      /\ (\A l \in 1..Len(q) : q'[l] = q[l]) /\ q'[Len(q) + 1] = m
    BY <1>1, AppendAt
<1>3. \A i \in DOMAIN q' : Meaningful(q'[i], DOMAIN log)
    <2>. TAKE i \in DOMAIN q'
    <2>1. i \in DOMAIN q \/ i = Len(q) + 1
        BY <1>2
    <2>. QED
        BY <1>1, <1>2, <2>1
<1>. QED
    BY <1>2, <1>3 DEF Meaningful

(* A client is added, or removed: the message about it is queued.          *)
LEMMA ClientsKeep ==
    ASSUME NtfnInv, NEW c \in Client, AddClient(c) \/ RemoveClient(c)
    PROVE  NtfnInv'
<1>1. /\ request \in [Client -> Requests]
      /\ conn \in [Client -> {"new", "adding", "up", "down", "gone"}]
      /\ subscribed \in [Kind -> SUBSET Client]
      /\ \A d \in Client :
         /\ request[d].op \in {"register", "unregister"} => request[d].kind \in Kind
         /\ request[d].op = "unregister" => d \notin subscribed[request[d].kind]
         /\ request[d].op = "rescan" => request[d].f \in DOMAIN filters
    BY RequestTypes
<1>2. /\ UNCHANGED <<log, clients, registered, delivered, filters, filterData, examined>>
      /\ request' = request /\ subscribed' = subscribed
    BY DEF AddClient, RemoveClient, connRest
<1>3. CASE RemoveClient(c) /\ q' = q
    <2>1. conn[c] = "down" /\ conn' = [conn EXCEPT ![c] = "gone"]
        BY <1>3 DEF RemoveClient, SetConn
    <2>2. conn' \in [Client -> {"new", "adding", "up", "down", "gone"}] /\ ConnMoves
        BY <1>1, <2>1 DEF ConnMoves
    <2>. QED
        BY <1>1, <1>2, <1>3, <2>2, OffQueue
<1>4. ASSUME NEW m \in QueueMsg, m.type \in {"add", "remove"}, m.c = c, q' = Append(q, m),
             conn' \in [Client -> {"new", "adding", "up", "down", "gone"}],
             \A d \in Client \ {c} : conn'[d] = conn[d],
             conn'[c] = "up" => conn[c] = "adding" /\ m.type = "add",
             conn'[c] \notin {"new", "adding"}
      PROVE  NtfnInv'
    <2>1. Meaningful(m, DOMAIN log)
        BY <1>4 DEF Meaningful
    <2>2. NtfnType'
        <3>1. q' \in Seq(QueueMsg) /\ \A i \in DOMAIN q' : Meaningful(q'[i], DOMAIN log')
            BY <1>2, <1>4, <2>1, QueueTyped
        <3>. QED
            BY <1>1, <1>2, <1>4, <3>1 DEF NtfnInv, NtfnType
    <2>3. FiltersWatch' /\ SpendsTold'
        BY <1>1, <1>2, FiltersKept
    <2>4. \A k \in Kind : conn[c] \in {"new", "adding"} => c \notin subscribed[k]
        BY DEF NtfnInv, Subscribing
    <2>5. \A n \in DOMAIN log : conn[c] \in {"new", "adding"} => c \notin log[n].expect
        BY DEF NtfnInv, Subscribing
    <2>6. ASSUME NEW k \in Kind, NEW d \in subscribed'[k], Up(d)'
          PROVE  d \in subscribed[k] /\ Up(d) /\ ~Cancels(m, d, k)
        <3>1. d \in subscribed[k] /\ d \in Client /\ conn'[d] = "up"
            BY <1>1, <1>2, <2>6 DEF Up
        <3>2. d # c
            BY <1>4, <2>4, <3>1
        <3>. QED
            BY <1>4, <3>1, <3>2 DEF Up, Cancels
    <2>7. ASSUME NEW n \in DOMAIN log, NEW d \in log[n].expect, Up(d)'
          PROVE  Up(d)
        <3>1. d \in Client /\ conn'[d] = "up"
            BY <2>7, NtfnTypes DEF Up
        <3>2. d # c
            BY <1>4, <2>5, <2>7, <3>1
        <3>. QED
            BY <1>4, <3>1, <3>2 DEF Up
    <2>8. \A d \in Client : conn'[d] \in {"new", "adding"} =>
             conn[d] \in {"new", "adding"} /\ \A k \in Kind : d \in subscribed'[k] => d \in subscribed[k]
        BY <1>2, <1>4
    <2>9. m.type # "event"
        BY <1>4
    <2>10. Subscribing' /\ EventsOrdered' /\ RegisteredTold'
        BY <1>1, <1>2, <1>4, <2>6, <2>7, <2>8, <2>9, QueueGrows
    <2>. QED
        BY <2>2, <2>3, <2>10 DEF NtfnInv
<1>5. CASE AddClient(c)
    <2>. DEFINE m == Message("add", c, "none", 0, <<>>)
    <2>1. m \in QueueMsg /\ m.type = "add" /\ m.c = c
        BY DEF Message, QueueMsg
    <2>2. q' = Append(q, m) /\ conn[c] = "adding" /\ conn' = [conn EXCEPT ![c] = "up"]
        BY <1>5 DEF AddClient, Enqueue, SetConn
    <2>3. conn' \in [Client -> {"new", "adding", "up", "down", "gone"}] /\ conn'[c] = "up"
          /\ \A d \in Client \ {c} : conn'[d] = conn[d]
        BY <1>1, <2>2
    <2>. HIDE DEF m
    <2>. QED
        BY <1>4, <2>1, <2>2, <2>3
<1>6. CASE RemoveClient(c) /\ Enqueue(Message("remove", c, "none", 0, <<>>))
    <2>. DEFINE m == Message("remove", c, "none", 0, <<>>)
    <2>1. m \in QueueMsg /\ m.type = "remove" /\ m.c = c
        BY DEF Message, QueueMsg
    <2>2. q' = Append(q, m) /\ conn' = [conn EXCEPT ![c] = "gone"]
        BY <1>6 DEF RemoveClient, Enqueue, SetConn
    <2>3. conn' \in [Client -> {"new", "adding", "up", "down", "gone"}] /\ conn'[c] = "gone"
          /\ \A d \in Client \ {c} : conn'[d] = conn[d]
        BY <1>1, <2>2
    <2>. HIDE DEF m
    <2>. QED
        BY <1>4, <2>1, <2>2, <2>3
<1>. QED
    BY <1>3, <1>5, <1>6 DEF RemoveClient

(* A registration or its end is queued, and the request answered.          *)
LEMMA RegisteredKeeps ==
    ASSUME NtfnInv, NEW c \in Client, Registered(c)
    PROVE  NtfnInv'
<1>. DEFINE r == request[c]
            m == Message(r.op, c, r.kind, 0, <<>>)
<1>1. /\ request \in [Client -> Requests]
      /\ conn \in [Client -> {"new", "adding", "up", "down", "gone"}]
      /\ subscribed \in [Kind -> SUBSET Client]
      /\ \A d \in Client :
         /\ request[d].op \in {"register", "unregister"} => request[d].kind \in Kind
         /\ request[d].op = "unregister" => d \notin subscribed[request[d].kind]
         /\ request[d].op = "rescan" => request[d].f \in DOMAIN filters
    BY RequestTypes
<1>2. /\ UNCHANGED <<log, clients, registered, delivered, filters, filterData, examined>>
      /\ conn' = conn /\ q' = Append(q, m) /\ request' = [request EXCEPT ![c] = NoRequest]
      /\ r.op \in {"register", "unregister"}
      /\ subscribed' = IF r.op = "register" /\ Up(c)
                       THEN [subscribed EXCEPT ![r.kind] = @ \cup {c}] ELSE subscribed
    BY DEF Registered, Enqueue, requestRest
<1>3. r.kind \in Kind /\ (r.op = "unregister" => c \notin subscribed[r.kind])
    BY <1>1, <1>2
<1>4. m \in QueueMsg /\ m.type = r.op /\ m.c = c /\ m.kind = r.kind
    BY <1>2, <1>3 DEF Message, QueueMsg
<1>5. NoRequest \in Requests /\ NoRequest.op = "none"
    BY DEF NoRequest, Requests
<1>. HIDE DEF r, m
<1>6. request' \in [Client -> Requests] /\ request'[c] = NoRequest
      /\ \A d \in Client \ {c} : request'[d] = request[d]
    BY <1>1, <1>2, <1>5
<1>7. /\ subscribed' \in [Kind -> SUBSET Client]
      /\ \A k \in Kind, d \in Client : d \in subscribed'[k] =>
            d \in subscribed[k] \/ (d = c /\ k = r.kind /\ r.op = "register" /\ Up(c))
    BY <1>1, <1>2, <1>3
<1>8. ASSUME NEW d \in Client
      PROVE  /\ request'[d].op \in {"register", "unregister"} => request'[d].kind \in Kind
             /\ request'[d].op = "unregister" => d \notin subscribed'[request'[d].kind]
             /\ request'[d].op = "rescan" => request'[d].f \in DOMAIN filters
    <2>1. CASE d = c
        BY <1>5, <1>6, <2>1
    <2>2. CASE d # c
        BY <1>1, <1>6, <1>7, <2>2
    <2>. QED
        BY <2>1, <2>2
<1>9. NtfnType'
    <2>1. Meaningful(m, DOMAIN log)
        BY <1>2, <1>3, <1>4 DEF Meaningful
    <2>2. q' \in Seq(QueueMsg) /\ \A i \in DOMAIN q' : Meaningful(q'[i], DOMAIN log')
        BY <1>2, <1>4, <2>1, QueueTyped
    <2>. QED
        BY <1>1, <1>2, <1>6, <1>7, <1>8, <2>2 DEF NtfnInv, NtfnType, Requests
<1>10. FiltersWatch' /\ SpendsTold'
    BY <1>2, <1>8, FiltersKept
<1>11. ASSUME NEW k \in Kind, NEW d \in subscribed'[k], Up(d)'
       PROVE  Registers(m, d, k) \/ (d \in subscribed[k] /\ Up(d) /\ ~Cancels(m, d, k))
    <2>1. Up(d) /\ d \in Client
        BY <1>2, <1>7, <1>11 DEF Up
    <2>2. CASE d = c /\ k = r.kind /\ r.op = "register"
        BY <1>4, <2>2 DEF Registers
    <2>3. CASE d \in subscribed[k] /\ ~(d = c /\ k = r.kind /\ r.op = "register")
        <3>1. ~Cancels(m, d, k)
            BY <1>2, <1>3, <1>4, <2>3 DEF Cancels
        <3>. QED
            BY <2>1, <2>3, <3>1
    <2>. QED
        BY <1>7, <2>1, <2>2, <2>3
<1>12. \A n \in DOMAIN log : \A d \in log[n].expect : Up(d)' => Up(d)
    BY <1>2 DEF Up
<1>13. \A d \in Client : conn'[d] \in {"new", "adding"} =>
          conn[d] \in {"new", "adding"} /\ \A k \in Kind : d \in subscribed'[k] => d \in subscribed[k]
    BY <1>2, <1>7 DEF Up
<1>14. m.type # "event"
    BY <1>2, <1>4
<1>15. Subscribing' /\ EventsOrdered' /\ RegisteredTold'
    BY <1>2, <1>4, <1>8, <1>11, <1>12, <1>13, <1>14, QueueGrows
<1>. QED
    BY <1>9, <1>10, <1>15 DEF NtfnInv

(* An event is queued: those subscribed to its kind are expected to be told. *)
LEMMA NotifyKeeps ==
    ASSUME NtfnInv, Notify
    PROVE  NtfnInv'
<1>. DEFINE n == Len(log) + 1
<1>1. PICK k \in Kind :
         /\ log' = Append(log, [expect |-> subscribed[k], done |-> FALSE])
         /\ q' = Append(q, Message("event", 0, k, n, IF k \in {"blocks", "txs"} THEN <<n>> ELSE <<>>))
    BY DEF Notify, Enqueue
<1>. DEFINE e == [expect |-> subscribed[k], done |-> FALSE]
            m == Message("event", 0, k, n, IF k \in {"blocks", "txs"} THEN <<n>> ELSE <<>>)
<1>2. /\ UNCHANGED <<conn, request, clients, registered, filterData, filters, subscribed, delivered, examined>>
    BY DEF Notify, producerRest
<1>3. q \in Seq(QueueMsg) /\ log \in Seq([expect : SUBSET Client, done : BOOLEAN])
      /\ subscribed \in [Kind -> SUBSET Client]
    BY DEF NtfnInv, NtfnType
<1>4. Len(log) \in Nat /\ n \in Nat
    BY <1>3, LenProperties
<1>5. e \in [expect : SUBSET Client, done : BOOLEAN] /\ e.expect = subscribed[k] /\ e.done = FALSE
    BY <1>3
<1>6. m \in QueueMsg /\ m.type = "event" /\ m.kind = k /\ m.n = n
    <2>1. <<n>> \in Seq(Nat) /\ <<>> \in Seq(Nat)
        BY <1>4
    <2>. QED
        BY <1>4, <2>1 DEF Message, QueueMsg
<1>7. q' = Append(q, m) /\ log' = Append(log, e)
    BY <1>1
<1>. HIDE DEF e, m
<1>8. /\ q' \in Seq(QueueMsg) /\ Len(q) \in Nat /\ Len(q') = Len(q) + 1
      /\ DOMAIN q = 1..Len(q) /\ DOMAIN q' = 1..(Len(q) + 1)
      /\ (\A l \in 1..Len(q) : q'[l] = q[l]) /\ q'[Len(q) + 1] = m
    BY <1>3, <1>6, <1>7, AppendAt
<1>9. /\ log' \in Seq([expect : SUBSET Client, done : BOOLEAN]) /\ Len(log') = Len(log) + 1
      /\ DOMAIN log = 1..Len(log) /\ DOMAIN log' = 1..(Len(log) + 1)
      /\ (\A l \in 1..Len(log) : log'[l] = log[l]) /\ log'[Len(log) + 1] = e
    BY <1>3, <1>5, <1>7, AppendAt
<1>10. \A i \in DOMAIN q : Meaningful(q[i], DOMAIN log) /\ (q[i].type = "event" => q[i].n \in DOMAIN log /\ q[i].kind \in Kind)
    BY DEF NtfnInv, NtfnType, Meaningful
<1>11. ASSUME NEW i \in DOMAIN q'
       PROVE  (i \in DOMAIN q /\ q'[i] = q[i]) \/ (i = Len(q) + 1 /\ q'[i] = m)
    BY <1>8
<1>12. NtfnType'
    <2>1. DOMAIN log \subseteq DOMAIN log' /\ n \in DOMAIN log'
        BY <1>4, <1>9
    <2>2. \A i \in DOMAIN q' : Meaningful(q'[i], DOMAIN log')
        BY <1>6, <1>10, <1>11, <2>1 DEF Meaningful
    <2>. QED
        BY <1>2, <1>8, <1>9, <2>2 DEF NtfnInv, NtfnType
<1>13. FiltersWatch' /\ SpendsTold'
    BY <1>2, FiltersKept DEF NtfnInv, FiltersWatch
<1>14. \A c : Up(c)' <=> Up(c)
    BY <1>2 DEF Up
<1>15. Subscribing'
    <2>1. ASSUME NEW l \in Kind, NEW c \in subscribed'[l], Up(c)'
          PROVE  RegisteredAt(registered'[l], q', c, l, Len(q') + 1)
        <3>1. RegisteredAt(registered[l], q, c, l, Len(q) + 1)
            BY <1>2, <1>14, <2>1 DEF NtfnInv, Subscribing
        <3>2. ~Cancels(m, c, l) /\ Len(q') + 1 = Len(q) + 2
            BY <1>6, <1>8 DEF Cancels
        <3>. QED
            BY <1>2, <1>3, <1>6, <1>7, <3>1, <3>2, RegisteredBehind
    <2>2. ASSUME NEW i \in DOMAIN q', q'[i].type = "event", NEW c \in log'[q'[i].n].expect, Up(c)'
          PROVE  RegisteredAt(registered'[q'[i].kind], q', c, q'[i].kind, i)
        <3>1. CASE i \in DOMAIN q /\ q'[i] = q[i]
            <4>1. q[i].n \in DOMAIN log /\ log'[q[i].n] = log[q[i].n]
                BY <1>9, <1>10, <2>2, <3>1
            <4>2. RegisteredAt(registered[q[i].kind], q, c, q[i].kind, i)
                BY <1>14, <2>2, <3>1, <4>1 DEF NtfnInv, Subscribing
            <4>3. i \in 1..(Len(q) + 1)
                BY <1>8, <3>1
            <4>. QED
                BY <1>2, <1>3, <1>6, <1>7, <3>1, <4>2, <4>3, RegisteredBefore
        <3>2. CASE i = Len(q) + 1 /\ q'[i] = m
            <4>1. c \in subscribed[k] /\ Up(c)
                BY <1>5, <1>6, <1>9, <1>14, <2>2, <3>2
            <4>2. RegisteredAt(registered[k], q, c, k, Len(q) + 1)
                BY <4>1 DEF NtfnInv, Subscribing
            <4>3. i \in 1..(Len(q) + 1)
                BY <1>8, <3>2
            <4>. QED
                BY <1>2, <1>3, <1>6, <1>7, <3>2, <4>2, <4>3, RegisteredBefore
        <3>. QED
            BY <1>11, <3>1, <3>2
    <2>3. \A c \in Client : request'[c].op = "unregister" => c \notin subscribed'[request'[c].kind]
        BY <1>2 DEF NtfnInv, Subscribing
    <2>4. ASSUME NEW c \in Client, conn'[c] \in {"new", "adding"}
          PROVE  /\ \A l \in Kind : c \notin subscribed'[l]
                 /\ \A l \in DOMAIN log' : c \notin log'[l].expect
        <3>1. /\ \A l \in Kind : c \notin subscribed[l]
              /\ \A l \in DOMAIN log : c \notin log[l].expect
            BY <1>2, <2>4 DEF NtfnInv, Subscribing
        <3>2. ASSUME NEW l \in DOMAIN log' PROVE c \notin log'[l].expect
            <4>1. l \in DOMAIN log \/ l = Len(log) + 1
                BY <1>4, <1>9
            <4>. QED
                BY <1>5, <1>9, <3>1, <4>1
        <3>. QED
            BY <1>2, <3>1, <3>2
    <2>. QED
        BY <2>1, <2>2, <2>3, <2>4 DEF Subscribing
<1>16. EventsOrdered'
    <2>1. ASSUME NEW i \in DOMAIN q', NEW j \in DOMAIN q', i < j,
                 q'[i].type = "event", q'[j].type = "event"
          PROVE  q'[i].n < q'[j].n
        <3>1. i \in DOMAIN q /\ q'[i] = q[i]
            BY <1>8, <2>1
        <3>2. CASE j \in DOMAIN q /\ q'[j] = q[j]
            BY <2>1, <3>1, <3>2 DEF NtfnInv, EventsOrdered
        <3>3. CASE q'[j] = m
            BY <1>4, <1>6, <1>9, <1>10, <2>1, <3>1, <3>3
        <3>. QED
            BY <1>11, <3>2, <3>3
    <2>2. ASSUME NEW c \in Client, NEW x \in DOMAIN delivered[c]
          PROVE  /\ delivered[c][x] =< Len(log')
                 /\ \A i \in DOMAIN q' : q'[i].type = "event" => delivered[c][x] < q'[i].n
        <3>1. /\ delivered[c][x] =< Len(log)
              /\ \A i \in DOMAIN q : q[i].type = "event" => delivered[c][x] < q[i].n
            BY DEF NtfnInv, EventsOrdered
        <3>2. delivered[c][x] \in Nat
            <4>1. delivered[c] \in Seq(Nat)
                BY DEF NtfnInv, NtfnType
            <4>. QED
                BY <4>1, LenProperties, ElementOfSeq
        <3>3. delivered[c][x] =< Len(log') /\ delivered[c][x] < n
            BY <1>4, <1>9, <3>1, <3>2
        <3>. QED
            BY <1>6, <1>11, <3>1, <3>3
    <2>. QED
        BY <1>2, <2>1, <2>2 DEF EventsOrdered
<1>17. RegisteredTold'
    <2>1. ASSUME NEW c \in Client, Up(c)', NEW l \in DOMAIN log', log'[l].done, c \in log'[l].expect
          PROVE  l \in ToSet(delivered'[c])
        <3>1. l \in DOMAIN log
            BY <1>4, <1>5, <1>9, <2>1
        <3>2. log'[l] = log[l]
            BY <1>9, <3>1
        <3>. QED
            BY <1>2, <1>14, <2>1, <3>1, <3>2 DEF NtfnInv, RegisteredTold
    <2>2. \A c \in Client : \A i, j \in DOMAIN delivered'[c] : i < j => delivered'[c][i] < delivered'[c][j]
        BY <1>2 DEF NtfnInv, RegisteredTold
    <2>. QED
        BY <2>1, <2>2 DEF RegisteredTold
<1>. QED
    BY <1>12, <1>13, <1>15, <1>16, <1>17 DEF NtfnInv

-----------------------------------------------------------------------------
(* The first message leaves the queue, and its registration is done.       *)
LEMMA TailKeeps ==
    ASSUME NtfnInv, q # <<>>, q' = Tail(q), UNCHANGED <<request, subscribed, conn>>,
           DOMAIN log' = DOMAIN log, \A n \in DOMAIN log : log'[n].expect = log[n].expect,
           \A k \in Kind, c \in Client :
              /\ Registers(q[1], c, k) => c \in registered'[k]
              /\ c \in registered[k] /\ ~Cancels(q[1], c, k) => c \in registered'[k]
    PROVE  /\ q' \in Seq(QueueMsg) /\ \A i \in DOMAIN q' : Meaningful(q'[i], DOMAIN log')
           /\ Subscribing'
           /\ \A i \in DOMAIN q' : i + 1 \in DOMAIN q /\ q'[i] = q[i + 1]
           /\ \A i \in DOMAIN q' : q[1].type = "event" /\ q'[i].type = "event" => q[1].n < q'[i].n
           /\ \A i, j \in DOMAIN q' :
                 i < j /\ q'[i].type = "event" /\ q'[j].type = "event" => q'[i].n < q'[j].n
<1>1. q \in Seq(QueueMsg) /\ \A i \in DOMAIN q : Meaningful(q[i], DOMAIN log)
    BY DEF NtfnInv, NtfnType
<1>2. /\ q' \in Seq(QueueMsg) /\ Len(q) \in Nat /\ Len(q) >= 1 /\ Len(q') = Len(q) - 1
      /\ DOMAIN q = 1..Len(q) /\ DOMAIN q' = 1..(Len(q) - 1)
      /\ \A l \in 1..(Len(q) - 1) : q'[l] = q[l + 1]
    BY <1>1, TailAt
<1>3. \A i \in DOMAIN q' : i \in Nat /\ i + 1 \in DOMAIN q /\ i + 1 \in 2..(Len(q) + 1) /\ q'[i] = q[i + 1]
    BY <1>2
<1>4. \A i \in DOMAIN q' : Meaningful(q'[i], DOMAIN log')
    BY <1>1, <1>3
<1>5. \A c : Up(c)' <=> Up(c)
    BY DEF Up
<1>6. ASSUME NEW k \in Kind, NEW c \in subscribed'[k], Up(c)'
      PROVE  RegisteredAt(registered'[k], q', c, k, Len(q') + 1)
    <2>1. RegisteredAt(registered[k], q, c, k, Len(q) + 1) /\ c \in Client
        BY <1>5, <1>6, NtfnTypes DEF NtfnInv, Subscribing
    <2>2. Len(q) + 1 \in 2..(Len(q) + 1) /\ Len(q') + 1 = Len(q) + 1 - 1
        BY <1>2
    <2>4. (Registers(q[1], c, k) => c \in registered'[k])
          /\ (c \in registered[k] /\ ~Cancels(q[1], c, k) => c \in registered'[k])
        BY <2>1
    <2>. DEFINE i == Len(q) + 1
                j == Len(q') + 1
    <2>5. i \in 2..(Len(q) + 1) /\ j = i - 1 /\ RegisteredAt(registered[k], q, c, k, i)
        BY <2>1, <2>2
    <2>. HIDE DEF i, j
    <2>3. RegisteredAt(registered'[k], Tail(q), c, k, j)
        BY <1>1, <2>4, <2>5, RegisteredNext
    <2>. QED
        BY <2>3 DEF j
<1>7. ASSUME NEW i \in DOMAIN q', q'[i].type = "event", NEW c \in log'[q'[i].n].expect, Up(c)'
      PROVE  RegisteredAt(registered'[q'[i].kind], q', c, q'[i].kind, i)
    <2>. DEFINE k == q[i + 1].kind
    <2>1. i + 1 \in DOMAIN q /\ q'[i] = q[i + 1] /\ q[i + 1].type = "event"
        BY <1>3, <1>7
    <2>2. q[i + 1].n \in DOMAIN log /\ k \in Kind
        BY <1>1, <2>1 DEF Meaningful
    <2>3. c \in log[q[i + 1].n].expect /\ c \in Client
        BY <1>7, <2>1, <2>2, NtfnTypes
    <2>4. RegisteredAt(registered[k], q, c, k, i + 1)
        BY <1>5, <1>7, <2>1, <2>3 DEF NtfnInv, Subscribing
    <2>5. i + 1 \in 2..(Len(q) + 1) /\ i + 1 - 1 = i
        BY <1>3
    <2>. HIDE DEF k
    <2>7. (Registers(q[1], c, k) => c \in registered'[k])
          /\ (c \in registered[k] /\ ~Cancels(q[1], c, k) => c \in registered'[k])
        BY <2>2, <2>3
    <2>. DEFINE j == i + 1
    <2>8. j \in 2..(Len(q) + 1) /\ i = j - 1 /\ RegisteredAt(registered[k], q, c, k, j)
        BY <2>4, <2>5
    <2>. HIDE DEF j
    <2>6. RegisteredAt(registered'[k], Tail(q), c, k, i)
        BY <1>1, <2>7, <2>8, RegisteredNext
    <2>. QED
        BY <2>1, <2>6 DEF k
<1>8. Subscribing'
    <2>1. \A c \in Client : request'[c].op = "unregister" => c \notin subscribed'[request'[c].kind]
        BY DEF NtfnInv, Subscribing
    <2>2. \A c \in Client : conn'[c] \in {"new", "adding"} =>
             /\ \A k \in Kind : c \notin subscribed'[k]
             /\ \A n \in DOMAIN log' : c \notin log'[n].expect
        BY DEF NtfnInv, Subscribing
    <2>. QED
        BY <1>6, <1>7, <2>1, <2>2 DEF Subscribing
<1>9. ASSUME NEW i \in DOMAIN q', q[1].type = "event", q'[i].type = "event"
      PROVE  q[1].n < q'[i].n
    <2>1. 1 \in DOMAIN q /\ i + 1 \in DOMAIN q /\ 1 < i + 1 /\ q'[i] = q[i + 1]
        BY <1>2, <1>3
    <2>. QED
        BY <1>9, <2>1 DEF NtfnInv, EventsOrdered
<1>10. ASSUME NEW i \in DOMAIN q', NEW j \in DOMAIN q', i < j, q'[i].type = "event", q'[j].type = "event"
       PROVE  q'[i].n < q'[j].n
    <2>1. i + 1 \in DOMAIN q /\ j + 1 \in DOMAIN q /\ i + 1 < j + 1 /\ q'[i] = q[i + 1] /\ q'[j] = q[j + 1]
        BY <1>3, <1>10
    <2>. QED
        BY <1>10, <2>1 DEF NtfnInv, EventsOrdered
<1>. QED
    BY <1>2, <1>3, <1>4, <1>8, <1>9, <1>10

(* A registration, its end, a new client or one that is removed is handled. *)
LEMMA ControlKeeps ==
    ASSUME NtfnInv, Handle, Head(q).type # "event"
    PROVE  NtfnInv'
<1>. DEFINE m == q[1]
<1>1. q # <<>> /\ q' = Tail(q) /\ Head(q) = m /\ m \in QueueMsg
    <2>1. q # <<>> /\ q' = Tail(q) /\ q \in Seq(QueueMsg)
        BY DEF Handle, NtfnInv, NtfnType
    <2>. QED
        BY <2>1, TailAt
<1>2. control(m) /\ m.type # "event"
    BY <1>1 DEF Handle
<1>3. UNCHANGED <<conn, request, filterData, subscribed, filters, log, delivered, examined>>
    BY <1>2 DEF Handle, handlerRest, control
<1>4. registered \in [Kind -> SUBSET Client] /\ clients \subseteq Client
      /\ log \in Seq([expect : SUBSET Client, done : BOOLEAN]) /\ q \in Seq(QueueMsg)
    BY DEF NtfnInv, NtfnType
<1>5. m.type \in {"register", "unregister", "add", "remove"} /\ m.c \in Client
      /\ (m.type \in {"register", "unregister"} => m.kind \in Kind)
    <2>1. 1 \in DOMAIN q
        BY <1>1, <1>4, TailAt
    <2>2. Meaningful(m, DOMAIN log)
        BY <2>1 DEF NtfnInv, NtfnType
    <2>3. m.type \in {"event", "register", "unregister", "add", "remove"}
        BY <1>1 DEF QueueMsg
    <2>. QED
        BY <1>2, <2>2, <2>3 DEF Meaningful
<1>. HIDE DEF m
<1>6. /\ registered' \in [Kind -> SUBSET Client] /\ clients' \subseteq Client
      /\ \A k \in Kind, c \in Client :
            /\ Registers(m, c, k) => c \in registered'[k]
            /\ c \in registered[k] /\ ~Cancels(m, c, k) => c \in registered'[k]
    <2>1. CASE m.type = "register"
        <3>1. registered' = [registered EXCEPT ![m.kind] = @ \cup {m.c}] /\ clients' = clients
            BY <1>2, <2>1 DEF control
        <3>. QED
            BY <1>4, <1>5, <2>1, <3>1 DEF Registers, Cancels
    <2>2. CASE m.type = "unregister"
        <3>1. registered' = [registered EXCEPT ![m.kind] = @ \ {m.c}] /\ clients' = clients
            BY <1>2, <2>2 DEF control
        <3>. QED
            BY <1>4, <1>5, <2>2, <3>1 DEF Registers, Cancels
    <2>3. CASE m.type = "add"
        <3>1. registered' = registered /\ clients' = clients \cup {m.c}
            BY <1>2, <2>3 DEF control
        <3>. QED
            BY <1>4, <1>5, <2>3, <3>1 DEF Registers, Cancels
    <2>4. CASE m.type = "remove"
        <3>1. clients' = clients \ {m.c}
              /\ registered' = [k \in Kind |->
                    IF k \in {"blocks", "txs"} THEN registered[k] \ {m.c} ELSE registered[k]]
            BY <1>2, <2>4 DEF control
        <3>. QED
            BY <1>4, <1>5, <2>4, <3>1 DEF Registers, Cancels
    <2>. QED
        BY <1>5, <2>1, <2>2, <2>3, <2>4
<1>7. /\ q' \in Seq(QueueMsg) /\ \A i \in DOMAIN q' : Meaningful(q'[i], DOMAIN log')
      /\ Subscribing'
      /\ \A i \in DOMAIN q' : i + 1 \in DOMAIN q /\ q'[i] = q[i + 1]
      /\ \A i, j \in DOMAIN q' :
            i < j /\ q'[i].type = "event" /\ q'[j].type = "event" => q'[i].n < q'[j].n
    BY <1>1, <1>3, <1>6, TailKeeps DEF m
<1>8. NtfnType'
    BY <1>3, <1>6, <1>7 DEF NtfnInv, NtfnType
<1>9. EventsOrdered'
    <2>1. \A c \in Client : \A x \in DOMAIN delivered'[c] :
             /\ delivered'[c][x] =< Len(log')
             /\ \A i \in DOMAIN q' : q'[i].type = "event" => delivered'[c][x] < q'[i].n
        BY <1>3, <1>7 DEF NtfnInv, EventsOrdered
    <2>. QED
        BY <1>7, <2>1 DEF EventsOrdered
<1>10. RegisteredTold'
    BY <1>3 DEF NtfnInv, RegisteredTold, Up
<1>11. FiltersWatch' /\ SpendsTold'
    BY <1>3, FiltersKept DEF NtfnInv, FiltersWatch
<1>. QED
    BY <1>7, <1>8, <1>9, <1>10, <1>11 DEF NtfnInv

(* The filters of the clients look at an event, and at least those registered *)
(* for its kind are told.                                                  *)
LEMMA EventTold ==
    ASSUME NtfnInv, NEW m \in QueueMsg, m.kind \in Kind, notifyEvent(m),
           UNCHANGED <<filterData, request>>
    PROVE  /\ filters' \in Seq(SUBSET Nat) /\ examined' \in Seq(TxLook)
           /\ FiltersWatch' /\ SpendsTold'
           /\ \E some \in SUBSET Client : registered[m.kind] \subseteq some /\ Deliver(some, m.n)
<1>1. registered \in [Kind -> SUBSET Client] /\ clients \subseteq Client /\ m.txs \in Seq(Nat)
      /\ filters \in Seq(SUBSET Nat) /\ examined \in Seq(TxLook)
    BY DEF NtfnInv, NtfnType, QueueMsg
<1>. DEFINE hearers == {c \in clients : \E t \in ToSet(m.txs) : relevant(filterData[c], t)}
<1>2. CASE m.kind = "txs" /\ Examine(clients, m.txs) /\ Deliver(registered["txs"] \cup hearers, m.n)
    <2>1. clients \in SUBSET Client /\ registered["txs"] \cup hearers \in SUBSET Client
          /\ registered[m.kind] \subseteq registered["txs"] \cup hearers
        BY <1>1, <1>2
    <2>2. /\ filters' \in Seq(SUBSET Nat) /\ examined' \in Seq(TxLook)
          /\ FiltersWatch' /\ SpendsTold'
        BY <1>1, <1>2, <2>1, ExamineKeeps
    <2>. HIDE DEF hearers
    <2>. QED
        BY <1>2, <2>1, <2>2
<1>3. CASE m.kind = "blocks" /\ Examine(registered["blocks"], m.txs) /\ Deliver(registered["blocks"], m.n)
    <2>1. registered["blocks"] \in SUBSET Client
        BY <1>1, <1>3
    <2>2. /\ filters' \in Seq(SUBSET Nat) /\ examined' \in Seq(TxLook)
          /\ FiltersWatch' /\ SpendsTold'
        BY <1>1, <1>3, <2>1, ExamineKeeps
    <2>. QED
        BY <1>3, <2>1, <2>2
<1>4. CASE Deliver(registered[m.kind], m.n) /\ UNCHANGED <<filters, examined>>
    <2>1. registered[m.kind] \in SUBSET Client
        BY <1>1
    <2>2. FiltersWatch' /\ SpendsTold'
        BY <1>4, FiltersKept DEF NtfnInv, FiltersWatch
    <2>. QED
        BY <1>1, <1>4, <2>1, <2>2
<1>. QED
    BY <1>2, <1>3, <1>4 DEF notifyEvent

(* An event is handled.                                                    *)
LEMMA EventKeeps ==
    ASSUME NtfnInv, Handle, Head(q).type = "event"
    PROVE  NtfnInv'
<1>. DEFINE m == q[1]
            k == m.kind
            n == m.n
<1>1. q # <<>> /\ q' = Tail(q) /\ q \in Seq(QueueMsg) /\ Head(q) = m /\ m \in QueueMsg
      /\ 1 \in DOMAIN q
    <2>1. q # <<>> /\ q' = Tail(q) /\ q \in Seq(QueueMsg)
        BY DEF Handle, NtfnInv, NtfnType
    <2>. QED
        BY <2>1, TailAt
<1>2. notifyEvent(m) /\ m.type = "event"
    BY <1>1 DEF Handle
<1>3. /\ UNCHANGED <<conn, request, filterData, subscribed, clients, registered>>
      /\ log' = [log EXCEPT ![n].done = TRUE]
    BY <1>2 DEF Handle, handlerRest, notifyEvent
<1>4. k \in Kind /\ n \in DOMAIN log
    BY <1>1, <1>2 DEF NtfnInv, NtfnType, Meaningful
<1>5. /\ filters' \in Seq(SUBSET Nat) /\ examined' \in Seq(TxLook)
      /\ FiltersWatch' /\ SpendsTold'
      /\ \E some \in SUBSET Client : registered[k] \subseteq some /\ Deliver(some, n)
    BY <1>1, <1>2, <1>3, <1>4, EventTold
<1>6. PICK some \in SUBSET Client : registered[k] \subseteq some /\ Deliver(some, n)
    BY <1>5
<1>7. /\ log \in Seq([expect : SUBSET Client, done : BOOLEAN])
      /\ delivered \in [Client -> Seq(Nat)] /\ registered \in [Kind -> SUBSET Client]
      /\ Len(log) \in Nat /\ DOMAIN log = 1..Len(log)
      /\ \A l \in DOMAIN log : log[l] \in [expect : SUBSET Client, done : BOOLEAN]
    <2>1. /\ log \in Seq([expect : SUBSET Client, done : BOOLEAN])
          /\ delivered \in [Client -> Seq(Nat)] /\ registered \in [Kind -> SUBSET Client]
        BY DEF NtfnInv, NtfnType
    <2>. QED
        BY <2>1, LenProperties, ElementOfSeq
<1>. HIDE DEF m, k, n
<1>8. /\ log' \in Seq([expect : SUBSET Client, done : BOOLEAN])
      /\ Len(log') = Len(log) /\ DOMAIN log' = DOMAIN log
      /\ \A l \in DOMAIN log : log'[l].expect = log[l].expect /\ (l # n => log'[l] = log[l])
    <2>. DEFINE R == [expect : SUBSET Client, done : BOOLEAN]
                e == [log[n] EXCEPT !.done = TRUE]
    <2>1. log' = [log EXCEPT ![n] = e]
        BY <1>3
    <2>2. e \in R /\ e.expect = log[n].expect
        BY <1>4, <1>7
    <2>. HIDE DEF e
    <2>3. /\ DOMAIN log' = DOMAIN log /\ log'[n] = e /\ log' \in [1..Len(log) -> R]
          /\ \A l \in DOMAIN log : l # n => log'[l] = log[l]
        BY <1>4, <1>7, <2>1, <2>2
    <2>4. log' \in Seq(R) /\ Len(log') = Len(log)
        BY <1>7, <2>3
    <2>. QED
        BY <2>2, <2>3, <2>4
<1>9. \A l \in Kind, c \in Client :
         /\ Registers(q[1], c, l) => c \in registered'[l]
         /\ c \in registered[l] /\ ~Cancels(q[1], c, l) => c \in registered'[l]
    BY <1>2, <1>3 DEF m, Registers
<1>10. /\ q' \in Seq(QueueMsg) /\ \A i \in DOMAIN q' : Meaningful(q'[i], DOMAIN log')
       /\ Subscribing'
       /\ \A i \in DOMAIN q' : i + 1 \in DOMAIN q /\ q'[i] = q[i + 1]
       /\ \A i \in DOMAIN q' : q[1].type = "event" /\ q'[i].type = "event" => q[1].n < q'[i].n
       /\ \A i, j \in DOMAIN q' :
             i < j /\ q'[i].type = "event" /\ q'[j].type = "event" => q'[i].n < q'[j].n
    BY <1>1, <1>3, <1>8, <1>9, TailKeeps
<1>11. n \in Nat
    BY <1>4, <1>7
<1>12. /\ delivered' \in [Client -> Seq(Nat)]
       /\ \A c \in Client : delivered'[c] = IF c \in some /\ Up(c) THEN Append(delivered[c], n) ELSE delivered[c]
    <2>1. \A c \in Client : delivered[c] \in Seq(Nat) /\ Append(delivered[c], n) \in Seq(Nat)
        BY <1>7, <1>11
    <2>. QED
        BY <1>6, <2>1 DEF Deliver
<1>13. ASSUME NEW c \in Client
       PROVE  \/ delivered'[c] = delivered[c] /\ ~(c \in some /\ Up(c))
              \/ /\ delivered'[c][Len(delivered[c]) + 1] = n
                 /\ Len(delivered[c]) \in Nat
                 /\ DOMAIN delivered[c] = 1..Len(delivered[c])
                 /\ DOMAIN delivered'[c] = 1..(Len(delivered[c]) + 1)
                 /\ \A x \in 1..Len(delivered[c]) : delivered'[c][x] = delivered[c][x]
    <2>. DEFINE s == delivered[c]
    <2>1. s \in Seq(Nat)
        BY <1>7
    <2>. HIDE DEF s
    <2>2. /\ Append(s, n)[Len(s) + 1] = n /\ Len(s) \in Nat /\ DOMAIN s = 1..Len(s)
          /\ DOMAIN Append(s, n) = 1..(Len(s) + 1)
          /\ \A x \in 1..Len(s) : Append(s, n)[x] = s[x]
        BY <1>11, <2>1, AppendAt
    <2>3. delivered'[c] = Append(s, n) \/ (delivered'[c] = s /\ ~(c \in some /\ Up(c)))
        BY <1>12 DEF s
    <2>. QED
        BY <2>2, <2>3 DEF s
<1>14. NtfnType'
    BY <1>3, <1>5, <1>8, <1>10, <1>12 DEF NtfnInv, NtfnType
<1>15. ASSUME NEW c \in Client, NEW x \in DOMAIN delivered[c]
       PROVE  delivered[c][x] =< Len(log) /\ delivered[c][x] < n
              /\ \A i \in DOMAIN q' : q'[i].type = "event" => delivered[c][x] < q'[i].n
    BY <1>1, <1>2, <1>10 DEF NtfnInv, EventsOrdered, m, n
<1>16. EventsOrdered'
    <2>1. ASSUME NEW c \in Client, NEW x \in DOMAIN delivered'[c]
          PROVE  /\ delivered'[c][x] =< Len(log')
                 /\ \A i \in DOMAIN q' : q'[i].type = "event" => delivered'[c][x] < q'[i].n
        <3>1. CASE x \in DOMAIN delivered[c] /\ delivered'[c][x] = delivered[c][x]
            BY <1>8, <1>15, <3>1
        <3>2. CASE delivered'[c][x] = n
            <4>1. n =< Len(log')
                BY <1>4, <1>7, <1>8
            <4>2. \A i \in DOMAIN q' : q'[i].type = "event" => n < q'[i].n
                BY <1>2, <1>10 DEF m, n
            <4>. QED
                BY <3>2, <4>1, <4>2
        <3>3. (x \in DOMAIN delivered[c] /\ delivered'[c][x] = delivered[c][x]) \/ delivered'[c][x] = n
            BY <1>13
        <3>. QED
            BY <3>1, <3>2, <3>3
    <2>. QED
        BY <1>10, <2>1 DEF EventsOrdered
<1>17. ASSUME NEW c \in Client, Up(c)', NEW l \in DOMAIN log', log'[l].done, c \in log'[l].expect
       PROVE  l \in ToSet(delivered'[c])
    <2>1. Up(c) /\ l \in DOMAIN log /\ c \in log[l].expect
        BY <1>3, <1>8, <1>17 DEF Up
    <2>2. CASE l = n
        <3>1. RegisteredAt(registered[k], q, c, k, 1)
            BY <1>1, <1>2, <2>1, <2>2 DEF NtfnInv, Subscribing, m, k, n
        <3>2. c \in registered[k]
            BY <3>1 DEF RegisteredAt
        <3>3. c \in some /\ Up(c)
            BY <1>6, <2>1, <3>2
        <3>4. delivered'[c][Len(delivered[c]) + 1] = n /\ Len(delivered[c]) + 1 \in DOMAIN delivered'[c]
            BY <1>13, <3>3
        <3>. QED
            BY <2>2, <3>4 DEF ToSet
    <2>3. CASE l # n
        <3>1. l \in ToSet(delivered[c])
            BY <1>8, <1>17, <2>1, <2>3 DEF NtfnInv, RegisteredTold
        <3>2. PICK x \in DOMAIN delivered[c] : delivered[c][x] = l
            BY <3>1 DEF ToSet
        <3>3. x \in DOMAIN delivered'[c] /\ delivered'[c][x] = l
            BY <1>13, <3>2
        <3>. QED
            BY <3>3 DEF ToSet
    <2>. QED
        BY <2>2, <2>3
<1>18. ASSUME NEW c \in Client, NEW i \in DOMAIN delivered'[c], NEW j \in DOMAIN delivered'[c], i < j
       PROVE  delivered'[c][i] < delivered'[c][j]
    <2>1. \A x, y \in DOMAIN delivered[c] : x < y => delivered[c][x] < delivered[c][y]
        BY DEF NtfnInv, RegisteredTold
    <2>2. CASE delivered'[c] = delivered[c]
        BY <1>18, <2>1, <2>2
    <2>3. CASE /\ delivered'[c][Len(delivered[c]) + 1] = n
               /\ Len(delivered[c]) \in Nat
               /\ DOMAIN delivered[c] = 1..Len(delivered[c])
               /\ DOMAIN delivered'[c] = 1..(Len(delivered[c]) + 1)
               /\ \A x \in 1..Len(delivered[c]) : delivered'[c][x] = delivered[c][x]
        <3>1. i \in DOMAIN delivered[c] /\ delivered'[c][i] = delivered[c][i]
            BY <1>18, <2>3
        <3>2. CASE j \in DOMAIN delivered[c]
            BY <1>18, <2>1, <2>3, <3>1, <3>2
        <3>3. CASE j = Len(delivered[c]) + 1
            BY <1>15, <2>3, <3>1, <3>3
        <3>. QED
            BY <2>3, <3>2, <3>3
    <2>. QED
        BY <1>13, <2>2, <2>3
<1>19. RegisteredTold'
    BY <1>17, <1>18 DEF RegisteredTold
<1>. QED
    BY <1>5, <1>10, <1>14, <1>16, <1>19 DEF NtfnInv

-----------------------------------------------------------------------------
(* Every step of the manager and of its clients keeps the invariant.       *)
LEMMA NtfnStep == NtfnInv /\ [NextNtfn]_ntfnVars => NtfnInv'
<1>. SUFFICES ASSUME NtfnInv, [NextNtfn]_ntfnVars PROVE NtfnInv'
    OBVIOUS
<1>1. CASE QueueQuit \/ HandlerQuit \/ Shutdown \/ UNCHANGED ntfnVars
    BY <1>1, EndsKeep
<1>2. CASE Handle
    BY <1>2, ControlKeeps, EventKeeps
<1>3. CASE Notify
    BY <1>3, NotifyKeeps
<1>4. ASSUME NEW c \in Client, ClientStep(c) PROVE NtfnInv'
    <2>1. CASE Connect(c) \/ Leave(c)
        BY <2>1, EndsKeep
    <2>2. CASE AddClient(c) \/ RemoveClient(c)
        BY <2>2, ClientsKeep
    <2>3. CASE Ask(c) \/ handleRescan(c)
        BY <2>3, AsksKeep
    <2>4. CASE Registered(c)
        BY <2>4, RegisteredKeeps
    <2>5. CASE handleLoadTxFilter(c) \/ rescanBlock(c)
        BY <2>5, FiltersKeep
    <2>. QED
        BY <1>4, <2>1, <2>2, <2>3, <2>4, <2>5 DEF ClientStep
<1>. QED
    BY <1>1, <1>2, <1>3, <1>4 DEF NextNtfn, queueHandler, notificationHandler

(* The invariant holds in every state the manager reaches.                 *)
THEOREM NtfnInvariant == SpecNtfn => []NtfnInv
<1>1. InitNtfn => NtfnInv
    BY NtfnStart
<1>2. NtfnInv /\ [NextNtfn]_ntfnVars => NtfnInv'
    BY NtfnStep
<1>. QED
    BY <1>1, <1>2, PTL DEF SpecNtfn

(* The clients are told what they registered for, in order, and of the spends *)
(* of what their filters matched.                                          *)
THEOREM NotificationsSound == SpecNtfn => []NtfnSound
<1>1. NtfnInv => NtfnSound
    BY DEF NtfnInv, NtfnSound
<1>. QED
    BY <1>1, NtfnInvariant, PTL


-----------------------------------------------------------------------------
(* What a connected peer is sent or sends, apart from its version message. *)
Later ==
    [kind : {"inv", "getblocks", "getheaders"}, begin : Nat, stop : Nat]
        \cup [kind : {"getdata"}, begin : Block, stop : {0}]
Version == Msg("version", 0, 0)

(* The fields of a serverPeer. *)
PeerRec ==
    [last : Nat, lastKey : Nat, requested : SUBSET Block, requestQueue : Seq(Block),
     announced : Nat, wire : Seq(Later \cup {Version}), prevGetBlocks : {<<>>} \cup (Nat \X Nat),
     prevGetHdrs : {<<>>} \cup (Nat \X Nat), continueHash : Nat]

(* The fields of blockManager. *)
MgrRec ==
    [candidates : Seq(Peer), syncPeer : Peer \cup {Nobody}, requested : SUBSET Block,
     ever : [Block -> -1..(MaxResend + 1)], headersFirst : BOOLEAN,
     headers : Seq(Nat), startHeader : Nat, nextCheckpoint : Nat]

(* The manager is typed, and a headers-first download has a sync peer and  *)
(* a checkpoint to end at.                                                 *)
MgrOK(m) ==
    /\ m \in MgrRec
    /\ m.headersFirst => m.syncPeer # Nobody /\ m.nextCheckpoint # 0

(* The peers are typed.  A version message is the first one on its wire    *)
(* and only a peer of V, which has not been announced, has one; the wire   *)
(* of a peer of U, which never connected, is empty.                        *)
PeersOK(ps, V, U) ==
    /\ ps \in [Peer -> PeerRec]
    /\ \A p \in Peer : \A i \in DOMAIN ps[p].wire :
          ps[p].wire[i] \in Later \/ (i = 1 /\ p \in V)
    /\ \A p \in Peer : p \in U => ps[p].wire = <<>>

(* Every block marked as requested was requested of a peer of G.           *)
AskedOf(m, ps, G) ==
    \A b \in m.requested : \E p \in G : b \in ps[p].requested

(* The candidates and the sync peer are in C.                              *)
SyncedWith(m, C) ==
    /\ m.candidates \in Seq(C)
    /\ m.syncPeer # Nobody => m.syncPeer \in C

(* The chain is typed. *)
ChainOK(c) == c \in [best : 0..Chain, orphans : SUBSET Block]

-----------------------------------------------------------------------------
(* Only, which takes the place of SelectSeq. *)

(* The k-th element of a finite set of numbers exists: the number of      *)
(* elements up to i grows by at most one with i.                           *)
LEMMA RankTaken ==
    ASSUME NEW n \in Nat, NEW at, at \subseteq 1..n, NEW k \in Nat \ {0},
           k <= Cardinality(at)
    PROVE  \E i \in at : RankIn(at, i) = k
<1> DEFINE below(i) == {j \in at : j <= i}
           reached == {i \in 0..n : Cardinality(below(i)) >= k}
<1>3. IsFiniteSet(at) /\ Cardinality(at) \in Nat
    <2>1. IsFiniteSet(1..n)
        BY FS_Interval
    <2>2. IsFiniteSet(at)
        BY <2>1, FS_Subset
    <2> QED BY <2>2, FS_CardinalityType
<1>4. ASSUME NEW i \in 0..n
      PROVE  IsFiniteSet(below(i)) /\ Cardinality(below(i)) \in Nat
    <2>1. below(i) \subseteq at
        OBVIOUS
    <2>2. IsFiniteSet(below(i))
        BY <2>1, <1>3, FS_Subset
    <2> QED BY <2>2, FS_CardinalityType
<1>1. \A j \in at : j \in Int /\ 1 <= j /\ j <= n
    OBVIOUS
<1>5. below(n) = at
    BY <1>1
<1>6. below(0) = {}
    <2>1. ASSUME NEW j \in at, j <= 0 PROVE FALSE
        BY <1>1, <2>1
    <2> QED BY <2>1
<1>11. Cardinality(below(0)) = 0
    BY <1>6, FS_EmptySet
<1>15. ASSUME NEW i \in 1..n
       PROVE  /\ i \in at => below(i) = below(i - 1) \cup {i}
              /\ i \notin at => below(i) = below(i - 1)
              /\ i \notin below(i - 1)
    <2>1. ASSUME NEW j \in at PROVE j <= i <=> j <= i - 1 \/ j = i
        BY <1>1
    <2>2. ~ (i <= i - 1)
        OBVIOUS
    <2> QED BY <2>1, <2>2
<1>16. \A i \in 1..n : Cardinality(below(i)) = RankIn(at, i)
    BY DEF RankIn
<1> HIDE DEF below
<1>7. n \in reached
    BY <1>5, <1>3
<1>8. reached \subseteq Nat /\ reached # {}
    BY <1>7
<1> HIDE DEF reached
<1>9. PICK i \in reached : \A u \in reached : i <= u
    BY <1>8, LeastNatural
<1>10. i \in 0..n /\ Cardinality(below(i)) >= k
    BY <1>9 DEF reached
<1>12. i # 0
    BY <1>10, <1>11
<1>13. i \in 1..n /\ i - 1 \in 0..n /\ i - 1 \notin reached
    BY <1>9, <1>10, <1>12
<1>14. ~ (Cardinality(below(i - 1)) >= k)
    BY <1>13 DEF reached
<1>17. i \in at
    BY <1>13, <1>15, <1>14, <1>10
<1>18. Cardinality(below(i)) = Cardinality(below(i - 1)) + 1
    <2>1. IsFiniteSet(below(i - 1))
        BY <1>4, <1>13
    <2>2. below(i) = below(i - 1) \cup {i} /\ i \notin below(i - 1)
        BY <1>13, <1>15, <1>17
    <2> QED BY <2>1, <2>2, FS_AddElement
<1>19. Cardinality(below(i)) = k
    <2>1. Cardinality(below(i - 1)) \in Nat /\ Cardinality(below(i)) \in Nat
        BY <1>4, <1>13, <1>10
    <2> QED BY <1>18, <1>14, <1>10, <2>1
<1> QED BY <1>13, <1>16, <1>17, <1>19

(* A sequence over a set is one over every larger set. *)
LEMMA SeqInSuperset ==
    \A T, W : \A seq \in Seq(T \cap W) : seq \in Seq(T)
OBVIOUS

(* What is kept are elements of the sequence that are in S. *)
LEMMA OnlyType ==
    ASSUME NEW T, NEW seq \in Seq(T), NEW S
    PROVE  /\ Only(seq, S) \in Seq(T \cap S)
           /\ \A k \in DOMAIN Only(seq, S) :
                 \E i \in DOMAIN seq : Only(seq, S)[k] = seq[i]
<1> DEFINE at == {i \in DOMAIN seq : seq[i] \in S}
           f(k) == CHOOSE i \in at : RankIn(at, i) = k
<1>0. Len(seq) \in Nat /\ DOMAIN seq = 1..Len(seq)
    BY LenProperties
<1>1. IsFiniteSet(at) /\ Cardinality(at) \in Nat
    <2>0. IsFiniteSet(1..Len(seq))
        BY <1>0, FS_Interval
    <2>1. at \subseteq 1..Len(seq)
        BY <1>0
    <2>2. IsFiniteSet(at)
        BY <2>0, <2>1, FS_Subset
    <2> QED BY <2>2, FS_CardinalityType
<1>2. ASSUME NEW k \in 1..Cardinality(at) PROVE f(k) \in at
    <2>1. at \subseteq 1..Len(seq) /\ Len(seq) \in Nat
        BY <1>0
    <2> HIDE DEF at
    <2>2. k \in Nat \ {0} /\ k <= Cardinality(at)
        BY <1>1
    <2> HIDE DEF f
    <2>3. \E i \in at : RankIn(at, i) = k
        BY <2>1, <2>2, RankTaken
    <2> QED BY <2>3 DEF f
<1>3. Only(seq, S) = [k \in 1..Cardinality(at) |-> seq[f(k)]]
    BY DEF Only
<1> HIDE DEF f
<1>4. \A k \in 1..Cardinality(at) : seq[f(k)] \in T \cap S
    <2> TAKE k \in 1..Cardinality(at)
    <2>1. f(k) \in at
        BY <1>2
    <2>2. f(k) \in DOMAIN seq /\ seq[f(k)] \in S
        BY <2>1
    <2> QED BY <2>2, ElementOfSeq, LenProperties
<1>5. Only(seq, S) \in Seq(T \cap S)
    BY <1>1, <1>3, <1>4, IsASeq
<1>6. \A k \in DOMAIN Only(seq, S) : \E i \in DOMAIN seq : Only(seq, S)[k] = seq[i]
    BY <1>2, <1>3
<1> QED BY <1>5, <1>6

(* Something is kept if an element is in S. *)
LEMMA OnlyNonEmpty ==
    ASSUME NEW T, NEW seq \in Seq(T), NEW S, NEW i \in DOMAIN seq, seq[i] \in S
    PROVE  Only(seq, S) # <<>>
<1> DEFINE at == {i0 \in DOMAIN seq : seq[i0] \in S}
<1>0. Len(seq) \in Nat /\ DOMAIN seq = 1..Len(seq)
    BY LenProperties
<1>1. IsFiniteSet(at) /\ Cardinality(at) \in Nat
    <2>0. IsFiniteSet(1..Len(seq))
        BY <1>0, FS_Interval
    <2>1. at \subseteq 1..Len(seq)
        BY <1>0
    <2>2. IsFiniteSet(at)
        BY <2>0, <2>1, FS_Subset
    <2> QED BY <2>2, FS_CardinalityType
<1>2. at # {}
    OBVIOUS
<1>3. Cardinality(at) # 0
    BY <1>1, <1>2, FS_EmptySet
<1>4. DOMAIN Only(seq, S) = 1..Cardinality(at)
    BY DEF Only
<1>5. 1 \in DOMAIN Only(seq, S)
    BY <1>4, <1>3, <1>1
<1>6. DOMAIN <<>> = {}
    OBVIOUS
<1> QED BY <1>5, <1>6

-----------------------------------------------------------------------------
(* The queries of the chain. *)

LEMMA KeyHeightType ==
    ASSUME NEW h PROVE RealKeyHeight(h) \in Nat
<1>1. IsFiniteSet(Block)
    BY SyncAssumption, FS_Interval DEF Block
<1>2. {k \in KeyBlocks : k <= h} \subseteq Block
    BY SyncAssumption
<1>3. IsFiniteSet({k \in KeyBlocks : k <= h})
    BY <1>1, <1>2, FS_Subset
<1> QED BY <1>3, FS_CardinalityType DEF RealKeyHeight

(* The chain goes up to the last of the orphans that connect. *)
LEMMA AdoptedType ==
    ASSUME ChainOK(chain), NEW b \in Block
    PROVE  /\ Adopted(b) \in b..Chain
           /\ \A o \in (b + 1)..Adopted(b) : o \in chain.orphans
<1> DEFINE T == {h \in b..Chain : h + 1 \notin chain.orphans}
           P(h) == /\ \A o \in (b + 1)..h : o \in chain.orphans
                   /\ h + 1 \notin chain.orphans
<1>1. Chain \in Nat /\ b \in Nat /\ b <= Chain /\ chain.orphans \subseteq 1..Chain
    BY SyncAssumption DEF Block, ChainOK
<1>2. Chain \in T /\ T \subseteq Nat
    BY <1>1
<1> HIDE DEF T
<1>3. PICK h \in T : \A u \in T : h <= u
    BY <1>2, LeastNatural
<1>4. h \in b..Chain /\ h + 1 \notin chain.orphans
    BY <1>3 DEF T
<1>5. ASSUME NEW o \in (b + 1)..h PROVE o \in chain.orphans
    <2>1. o - 1 \in b..Chain /\ ~ (h <= o - 1) /\ o - 1 + 1 = o
        BY <1>1, <1>4
    <2>2. o - 1 \notin T
        BY <2>1, <1>3
    <2> QED BY <2>1, <2>2 DEF T
<1>6. P(h)
    BY <1>4, <1>5
<1>7. Adopted(b) = CHOOSE g \in b..Chain : P(g)
    BY DEF Adopted
<1> HIDE DEF P
<1>8. Adopted(b) \in b..Chain /\ P(Adopted(b))
    BY <1>4, <1>6, <1>7
<1> QED BY <1>8 DEF P

(* The root of an orphan is one of the blocks up to it. *)
LEMMA OrphanRootType ==
    ASSUME NEW c, ChainOK(c), NEW b \in c.orphans
    PROVE  OrphanRoot(c, b) \in Nat
<1> DEFINE P(r) == /\ \A o \in r..b : o \in c.orphans
                   /\ r - 1 \notin c.orphans
           T == {r \in 1..b : \A o \in r..b : o \in c.orphans}
<1>1. Chain \in Nat /\ c.orphans \subseteq 1..Chain /\ b \in 1..Chain
    BY SyncAssumption DEF Block, ChainOK
<1>2. b \in T /\ T \subseteq Nat
    <2>1. \A o \in b..b : o = b
        BY <1>1
    <2> QED BY <1>1, <2>1
<1> HIDE DEF T
<1>3. PICK r \in T : \A u \in T : r <= u
    BY <1>2, LeastNatural
<1>4. r \in 1..b /\ \A o \in r..b : o \in c.orphans
    BY <1>3 DEF T
<1>5. r - 1 \notin c.orphans
    <2> SUFFICES ASSUME r - 1 \in c.orphans PROVE FALSE
        OBVIOUS
    <2>1. r - 1 \in 1..b
        BY <1>1, <1>4
    <2>2. ASSUME NEW o \in (r - 1)..b PROVE o \in c.orphans
        <3>1. o = r - 1 \/ o \in r..b
            BY <1>1, <1>4
        <3> QED BY <3>1, <1>4
    <2>3. r - 1 \in T
        BY <2>1, <2>2 DEF T
    <2> QED BY <2>3, <1>3, <1>4, <1>1
<1>6. P(r)
    BY <1>4, <1>5
<1>7. OrphanRoot(c, b) = CHOOSE g \in 1..b : P(g)
    BY DEF OrphanRoot
<1> HIDE DEF P
<1>8. OrphanRoot(c, b) \in 1..b
    BY <1>4, <1>6, <1>7
<1> QED BY <1>8, <1>1

(* The next checkpoint is a height, or 0. *)
LEMMA NextCheckpointType ==
    ASSUME NEW h \in Int PROVE NextCheckpoint(h) \in Nat
<1> DEFINE P(c) == c > h /\ \A d \in Checkpoints : d > h => c <= d
           T == {c \in Checkpoints : c > h}
<1>1. CASE T = {}
    BY <1>1 DEF NextCheckpoint
<1>2. CASE T # {}
    <2>1. Checkpoints \subseteq Nat
        BY SyncAssumption DEF Block
    <2>2. T \subseteq Nat
        BY <2>1
    <2>3. PICK c \in T : \A u \in T : c <= u
        BY <2>2, <1>2, LeastNatural
    <2>4. c \in Checkpoints /\ P(c)
        BY <2>3
    <2>5. NextCheckpoint(h) = CHOOSE g \in Checkpoints : P(g)
        BY <2>4 DEF NextCheckpoint
    <2> HIDE DEF P
    <2> QED BY <2>1, <2>4, <2>5
<1> QED BY <1>1, <1>2

-----------------------------------------------------------------------------
(* Sending. *)

(* The blocks a peer owes us are the same. *)
SameRequests(ps, qs) == \A x \in Peer : qs[x].requested = ps[x].requested

(* One peer changes. *)
LEMMA OnePeer ==
    ASSUME NEW ps, NEW V, NEW U, PeersOK(ps, V, U), NEW p \in Peer, NEW r \in PeerRec,
           \A i \in DOMAIN r.wire : r.wire[i] \in Later \/ (i = 1 /\ p \in V),
           p \in U => r.wire = <<>>
    PROVE  PeersOK([ps EXCEPT ![p] = r], V, U)
BY DEF PeersOK

LEMMA PeerFields ==
    ASSUME NEW ps, NEW V, NEW U, PeersOK(ps, V, U), NEW p \in Peer
    PROVE  /\ ps[p] \in PeerRec
           /\ ps[p].wire \in Seq(Later \cup {Version})
           /\ \A i \in DOMAIN ps[p].wire : ps[p].wire[i] \in Later \/ (i = 1 /\ p \in V)
           /\ p \in U => ps[p].wire = <<>>
BY DEF PeersOK, PeerRec

LEMMA QueueOK ==
    ASSUME NEW ps, NEW V, NEW U, PeersOK(ps, V, U), NEW p \in Peer, up \cap U = {},
           NEW msgs \in Seq(Later)
    PROVE  PeersOK(Queue(ps, p, msgs), V, U) /\ SameRequests(ps, Queue(ps, p, msgs))
<1>1. CASE p \notin up
    BY <1>1 DEF Queue, SameRequests
<1>2. CASE p \in up
    <2> DEFINE w == ps[p].wire \o msgs
               r == [ps[p] EXCEPT !.wire = w]
    <2>1. ps[p] \in PeerRec /\ ps[p].wire \in Seq(Later \cup {Version})
        BY PeerFields
    <2>2. msgs \in Seq(Later \cup {Version})
        OBVIOUS
    <2>3. w \in Seq(Later \cup {Version})
        BY <2>1, <2>2
    <2>4. ASSUME NEW i \in DOMAIN w PROVE w[i] \in Later \/ (i = 1 /\ p \in V)
        <3>1. CASE i \in DOMAIN ps[p].wire
            BY <2>1, <2>2, <3>1, PeerFields
        <3>2. CASE i \notin DOMAIN ps[p].wire
            <4>1. i - Len(ps[p].wire) \in DOMAIN msgs /\ w[i] = msgs[i - Len(ps[p].wire)]
                BY <2>1, <2>2, <3>2
            <4> QED BY <4>1
        <3> QED BY <3>1, <3>2
    <2> HIDE DEF w
    <2>5. r \in PeerRec /\ r.wire = w /\ r.requested = ps[p].requested
        BY <2>1, <2>3 DEF PeerRec
    <2>6. Queue(ps, p, msgs) = [ps EXCEPT ![p] = r]
        BY <1>2 DEF Queue, w
    <2> HIDE DEF r
    <2>7. PeersOK([ps EXCEPT ![p] = r], V, U)
        BY <1>2, <2>4, <2>5, OnePeer
    <2>8. ps \in [Peer -> PeerRec]
        BY DEF PeersOK
    <2> QED BY <2>5, <2>6, <2>7, <2>8 DEF SameRequests
<1> QED BY <1>1, <1>2

(* A field of a peer that no invariant is about. *)
LEMMA PrevGetBlocksOK ==
    ASSUME NEW ps, NEW V, NEW U, PeersOK(ps, V, U), NEW p \in Peer, NEW a \in Nat \X Nat
    PROVE  LET qs == [ps EXCEPT ![p].prevGetBlocks = a]
           IN PeersOK(qs, V, U) /\ SameRequests(ps, qs)
<1> DEFINE r == [ps[p] EXCEPT !.prevGetBlocks = a]
<1>1. ps[p] \in PeerRec /\ ps \in [Peer -> PeerRec]
    BY DEF PeersOK
<1>2. r \in PeerRec /\ r.wire = ps[p].wire /\ r.requested = ps[p].requested
    BY <1>1 DEF PeerRec
<1>3. [ps EXCEPT ![p].prevGetBlocks = a] = [ps EXCEPT ![p] = r]
    OBVIOUS
<1> HIDE DEF r
<1>4. PeersOK([ps EXCEPT ![p] = r], V, U)
    BY <1>2, PeerFields, OnePeer
<1> QED BY <1>1, <1>2, <1>3, <1>4 DEF SameRequests

LEMMA PrevGetHdrsOK ==
    ASSUME NEW ps, NEW V, NEW U, PeersOK(ps, V, U), NEW p \in Peer, NEW a \in Nat \X Nat
    PROVE  LET qs == [ps EXCEPT ![p].prevGetHdrs = a]
           IN PeersOK(qs, V, U) /\ SameRequests(ps, qs)
<1> DEFINE r == [ps[p] EXCEPT !.prevGetHdrs = a]
<1>1. ps[p] \in PeerRec /\ ps \in [Peer -> PeerRec]
    BY DEF PeersOK
<1>2. r \in PeerRec /\ r.wire = ps[p].wire /\ r.requested = ps[p].requested
    BY <1>1 DEF PeerRec
<1>3. [ps EXCEPT ![p].prevGetHdrs = a] = [ps EXCEPT ![p] = r]
    OBVIOUS
<1> HIDE DEF r
<1>4. PeersOK([ps EXCEPT ![p] = r], V, U)
    BY <1>2, PeerFields, OnePeer
<1> QED BY <1>1, <1>2, <1>3, <1>4 DEF SameRequests

LEMMA PushGetBlocksOK ==
    ASSUME NEW ps, NEW V, NEW U, PeersOK(ps, V, U), NEW p \in Peer, up \cap U = {},
           NEW begin \in Nat, NEW stop \in Nat
    PROVE  LET qs == PushGetBlocks(ps, p, begin, stop)
           IN PeersOK(qs, V, U) /\ SameRequests(ps, qs)
<1> DEFINE one == <<Msg("getblocks", begin, stop)>>
           q1 == Queue(ps, p, one)
           a == <<begin, stop>>
<1>1. one \in Seq(Later)
    BY DEF Later, Msg
<1>2. a \in Nat \X Nat
    OBVIOUS
<1>3. PushGetBlocks(ps, p, begin, stop) =
        IF ps[p].prevGetBlocks = a THEN ps ELSE [q1 EXCEPT ![p].prevGetBlocks = a]
    BY DEF PushGetBlocks
<1> HIDE DEF one, a
<1>4. PeersOK(q1, V, U) /\ SameRequests(ps, q1)
    BY <1>1, QueueOK
<1> HIDE DEF q1
<1>5. LET qs == [q1 EXCEPT ![p].prevGetBlocks = a] IN PeersOK(qs, V, U) /\ SameRequests(q1, qs)
    BY <1>2, <1>4, PrevGetBlocksOK
<1> QED BY <1>3, <1>4, <1>5 DEF SameRequests

LEMMA PushGetHeadersOK ==
    ASSUME NEW ps, NEW V, NEW U, PeersOK(ps, V, U), NEW p \in Peer, up \cap U = {},
           NEW begin \in Nat, NEW stop \in Nat
    PROVE  LET qs == PushGetHeaders(ps, p, begin, stop)
           IN PeersOK(qs, V, U) /\ SameRequests(ps, qs)
<1> DEFINE one == <<Msg("getheaders", begin, stop)>>
           q1 == Queue(ps, p, one)
           a == <<begin, stop>>
<1>1. one \in Seq(Later)
    BY DEF Later, Msg
<1>2. a \in Nat \X Nat
    OBVIOUS
<1>3. PushGetHeaders(ps, p, begin, stop) =
        IF ps[p].prevGetHdrs = a THEN ps ELSE [q1 EXCEPT ![p].prevGetHdrs = a]
    BY DEF PushGetHeaders
<1> HIDE DEF one, a
<1>4. PeersOK(q1, V, U) /\ SameRequests(ps, q1)
    BY <1>1, QueueOK
<1> HIDE DEF q1
<1>5. LET qs == [q1 EXCEPT ![p].prevGetHdrs = a] IN PeersOK(qs, V, U) /\ SameRequests(q1, qs)
    BY <1>2, <1>4, PrevGetHdrsOK
<1> QED BY <1>3, <1>4, <1>5 DEF SameRequests

(* Several getblocks messages in a row. *)
LEMMA PushAllGetBlocksOK ==
    ASSUME NEW ps, NEW V, NEW U, PeersOK(ps, V, U), NEW p \in Peer, up \cap U = {},
           NEW asks \in Seq(Nat \X Nat)
    PROVE  LET qs == PushAllGetBlocks(ps, p, asks)
           IN PeersOK(qs, V, U) /\ SameRequests(ps, qs)
<1> DEFINE before(k) == IF k = 1 THEN ps[p].prevGetBlocks ELSE asks[k - 1]
           sent == Only([k \in 1..Len(asks) |-> k], {k \in 1..Len(asks) : asks[k] # before(k)})
           msgs == [i \in 1..Len(sent) |-> Msg("getblocks", asks[sent[i]][1], asks[sent[i]][2])]
           q1 == Queue(ps, p, msgs)
           a == asks[Len(asks)]
<1>1. PushAllGetBlocks(ps, p, asks) =
        IF asks = <<>> THEN ps ELSE [q1 EXCEPT ![p].prevGetBlocks = a]
    BY DEF PushAllGetBlocks
<1>2. Len(asks) \in Nat /\ DOMAIN asks = 1..Len(asks)
    BY LenProperties
<1>3. sent \in Seq(1..Len(asks))
    <2> DEFINE all == [k \in 1..Len(asks) |-> k]
               S == {k \in 1..Len(asks) : asks[k] # before(k)}
    <2>1. all \in Seq(1..Len(asks))
        BY <1>2, IsASeq
    <2> HIDE DEF all, S
    <2>2. Only(all, S) \in Seq((1..Len(asks)) \cap S)
        BY <2>1, OnlyType
    <2>3. Only(all, S) \in Seq(1..Len(asks))
        BY <2>2, SeqInSuperset
    <2> QED BY <2>3 DEF all, S
<1> HIDE DEF sent
<1>4. msgs \in Seq(Later)
    <2>1. ASSUME NEW i \in 1..Len(sent)
          PROVE  Msg("getblocks", asks[sent[i]][1], asks[sent[i]][2]) \in Later
        <3>1. sent[i] \in DOMAIN asks
            BY <1>2, <1>3, ElementOfSeq, Zenon
        <3>2. asks[sent[i]] \in Nat \X Nat
            BY <3>1
        <3>3. asks[sent[i]][1] \in Nat /\ asks[sent[i]][2] \in Nat
            BY <3>2
        <3> QED BY <3>3 DEF Msg, Later
    <2>2. Len(sent) \in Nat
        BY <1>3
    <2> QED BY <2>1, <2>2, IsASeq
<1> HIDE DEF msgs
<1>5. PeersOK(q1, V, U) /\ SameRequests(ps, q1)
    BY <1>4, QueueOK
<1> HIDE DEF q1
<1>6. CASE asks # <<>>
    <2>1. a \in Nat \X Nat
        BY <1>2, <1>6
    <2> HIDE DEF a
    <2>3. LET qs == [q1 EXCEPT ![p].prevGetBlocks = a] IN PeersOK(qs, V, U) /\ SameRequests(q1, qs)
        BY <2>1, <1>5, PrevGetBlocksOK
    <2> QED BY <1>1, <1>5, <1>6, <2>3 DEF SameRequests
<1>7. CASE asks = <<>>
    BY <1>1, <1>7 DEF SameRequests
<1> QED BY <1>6, <1>7

-----------------------------------------------------------------------------
(* Requests. *)

(* The blocks that were requested of a peer change. *)
Owing(ps, p, R) == [ps EXCEPT ![p].requested = R]

LEMMA PeerRequestsOK ==
    ASSUME NEW ps, NEW V, NEW U, PeersOK(ps, V, U), NEW p \in Peer,
           NEW R, R \subseteq Block
    PROVE  LET qs == Owing(ps, p, R)
           IN /\ PeersOK(qs, V, U)
              /\ qs[p].requested = R
              /\ \A x \in Peer : x # p => qs[x].requested = ps[x].requested
<1> DEFINE r == [ps[p] EXCEPT !.requested = R]
<1>1. ps[p] \in PeerRec /\ ps \in [Peer -> PeerRec]
    BY DEF PeersOK
<1>2. r \in PeerRec /\ r.wire = ps[p].wire /\ r.requested = R
    BY <1>1 DEF PeerRec
<1>3. Owing(ps, p, R) = [ps EXCEPT ![p] = r]
    BY DEF Owing
<1> HIDE DEF r
<1>4. PeersOK([ps EXCEPT ![p] = r], V, U)
    BY <1>2, PeerFields, OnePeer
<1> QED BY <1>1, <1>2, <1>3, <1>4

LEMMA GetDataType ==
    ASSUME NEW blocks \in Seq(Block) PROVE GetData(blocks) \in Seq(Later)
<1>1. Len(blocks) \in Nat /\ DOMAIN blocks = 1..Len(blocks)
    BY LenProperties
<1>2. ASSUME NEW i \in 1..Len(blocks) PROVE Msg("getdata", blocks[i], 0) \in Later
    <2>1. blocks[i] \in Block
        BY <1>1
    <2> QED BY <2>1 DEF Msg, Later
<1> QED BY <1>1, <1>2, IsASeq DEF GetData

LEMMA RequestOK ==
    ASSUME NEW m, NEW ps, NEW V, NEW U, MgrOK(m), PeersOK(ps, V, U), NEW p \in Peer,
           up \cap U = {}, NEW blocks \in Seq(Block)
    PROVE  LET s == Request([m |-> m, ps |-> ps], p, blocks)
           IN /\ MgrOK(s.m) /\ PeersOK(s.ps, V, U)
              /\ \A G : p \in G /\ G \subseteq Peer /\ AskedOf(m, ps, G) => AskedOf(s.m, s.ps, G)
              /\ \A C : SyncedWith(m, C) => SyncedWith(s.m, C)
              /\ s.m.headersFirst = m.headersFirst
<1> DEFINE bs == ToSet(blocks)
           R == ps[p].requested \cup bs
           e == [b \in Block |-> IF b \in bs THEN 0 ELSE m.ever[b]]
           n == [m EXCEPT !.requested = m.requested \cup bs, !.ever = e]
           q1 == Owing(ps, p, R)
           data == GetData(blocks)
           q2 == Queue(q1, p, data)
           s == Request([m |-> m, ps |-> ps], p, blocks)
<1>1. bs \subseteq Block
    BY LenProperties DEF ToSet
<1>2. s = [m |-> n, ps |-> q2]
    BY DEF Request, Owing
<1>3. m \in MgrRec /\ (m.headersFirst => m.syncPeer # Nobody /\ m.nextCheckpoint # 0)
    BY DEF MgrOK
<1> HIDE DEF bs, s
<1>4. e \in [Block -> -1..(MaxResend + 1)]
    <2>1. MaxResend \in Nat /\ m.ever \in [Block -> -1..(MaxResend + 1)]
        BY SyncAssumption, <1>3 DEF MgrRec
    <2> QED BY <2>1
<1> HIDE DEF e
<1>5. /\ n \in MgrRec
      /\ n.requested = m.requested \cup bs
      /\ n.headersFirst = m.headersFirst /\ n.syncPeer = m.syncPeer
      /\ n.nextCheckpoint = m.nextCheckpoint /\ n.candidates = m.candidates
    BY <1>1, <1>3, <1>4 DEF MgrRec
<1>6. R \subseteq Block
    BY <1>1, PeerFields DEF PeerRec
<1> HIDE DEF R, n
<1>7. /\ PeersOK(q1, V, U) /\ q1[p].requested = R
      /\ \A x \in Peer : x # p => q1[x].requested = ps[x].requested
    BY <1>6, PeerRequestsOK
<1>8. data \in Seq(Later)
    BY GetDataType
<1> HIDE DEF q1, data
<1>9. PeersOK(q2, V, U) /\ SameRequests(q1, q2)
    BY <1>7, <1>8, QueueOK
<1> HIDE DEF q2
<1>10. MgrOK(s.m)
    BY <1>2, <1>3, <1>5 DEF MgrOK
<1>11. ASSUME NEW G, p \in G, G \subseteq Peer, AskedOf(m, ps, G) PROVE AskedOf(s.m, s.ps, G)
    <2> SUFFICES ASSUME NEW b \in n.requested PROVE \E x \in G : b \in q2[x].requested
        BY <1>2 DEF AskedOf
    <2>1. CASE b \in bs
        BY <2>1, <1>7, <1>9, <1>11 DEF SameRequests, R
    <2>2. CASE b \in m.requested
        <3>1. PICK x \in G : b \in ps[x].requested
            BY <2>2, <1>11 DEF AskedOf
        <3>2. b \in q1[x].requested
            BY <3>1, <1>7, <1>11 DEF R
        <3> QED BY <3>1, <3>2, <1>9, <1>11 DEF SameRequests
    <2> QED BY <2>1, <2>2, <1>5
<1>12. ASSUME NEW C, SyncedWith(m, C) PROVE SyncedWith(s.m, C)
    BY <1>2, <1>5, <1>12 DEF SyncedWith
<1>13. s.m.headersFirst = m.headersFirst /\ PeersOK(s.ps, V, U)
    BY <1>2, <1>5, <1>9
<1> QED BY <1>10, <1>11, <1>12, <1>13 DEF s

-----------------------------------------------------------------------------
(* startSync and the header state. *)

LEMMA ResetHeadersOK ==
    ASSUME NEW m \in MgrRec, NEW h \in Nat
    PROVE  LET n == ResetHeaders(m, h)
           IN /\ n \in MgrRec /\ ~n.headersFirst
              /\ n.requested = m.requested /\ n.syncPeer = m.syncPeer
              /\ n.candidates = m.candidates
<1> DEFINE hs == IF m.nextCheckpoint # 0 THEN <<h>> ELSE <<>>
           n == [m EXCEPT !.headersFirst = FALSE, !.headers = hs, !.startHeader = 0]
<1>1. hs \in Seq(Nat)
    OBVIOUS
<1>2. ResetHeaders(m, h) = n
    BY DEF ResetHeaders
<1> HIDE DEF hs
<1>3. /\ n \in MgrRec /\ ~n.headersFirst
      /\ n.requested = m.requested /\ n.syncPeer = m.syncPeer
      /\ n.candidates = m.candidates
    BY <1>1 DEF MgrRec
<1> HIDE DEF n
<1> QED BY <1>2, <1>3

LEMMA StartSyncOK ==
    ASSUME NEW m, NEW ps, NEW V, NEW U, MgrOK(m), PeersOK(ps, V, U), up \cap U = {},
           ChainOK(chain)
    PROVE  LET s == StartSync([m |-> m, ps |-> ps])
           IN /\ MgrOK(s.m) /\ PeersOK(s.ps, V, U)
              /\ \A G : AskedOf(m, ps, G) /\ G \subseteq Peer => AskedOf(s.m, s.ps, G)
              /\ \A C : SyncedWith(m, C) => SyncedWith(s.m, C)
<1> DEFINE s == StartSync([m |-> m, ps |-> ps])
           A == {p \in Peer : ~Behind(p, ps)}
           cand == Only(m.candidates, A)
           p == Last(cand)
           n == [m EXCEPT !.candidates = cand, !.requested = {}, !.syncPeer = p]
           nh == [n EXCEPT !.headersFirst = TRUE]
<1>1. m \in MgrRec /\ (m.headersFirst => m.syncPeer # Nobody /\ m.nextCheckpoint # 0)
    BY DEF MgrOK
<1>2. chain.best \in Nat /\ m.nextCheckpoint \in Nat /\ m.candidates \in Seq(Peer) /\ 0 \in Nat
    BY <1>1, SyncAssumption DEF ChainOK, MgrRec
<1>3. s = IF m.syncPeer # Nobody THEN [m |-> m, ps |-> ps]
          ELSE IF cand = <<>> THEN [m |-> [m EXCEPT !.candidates = cand], ps |-> ps]
          ELSE IF m.nextCheckpoint # 0 /\ chain.best < m.nextCheckpoint
               THEN [m |-> nh, ps |-> PushGetHeaders(ps, p, chain.best, m.nextCheckpoint)]
               ELSE [m |-> n, ps |-> PushGetBlocks(ps, p, chain.best, 0)]
    BY DEF StartSync
<1> HIDE DEF s, A
<1>4. cand \in Seq(Peer)
    <2>1. cand \in Seq(Peer \cap A)
        BY <1>2, OnlyType
    <2> QED BY <2>1
<1>5. \A C : m.candidates \in Seq(C) => cand \in Seq(C)
    <2> TAKE C
    <2> HAVE m.candidates \in Seq(C)
    <2>1. cand \in Seq(C \cap A)
        BY OnlyType
    <2> QED BY <2>1
<1> HIDE DEF cand
<1>6. CASE m.syncPeer # Nobody
    BY <1>3, <1>6 DEF s
<1>7. CASE m.syncPeer = Nobody /\ cand = <<>>
    <2> DEFINE n0 == [m EXCEPT !.candidates = cand]
    <2>1. s = [m |-> n0, ps |-> ps]
        BY <1>3, <1>7
    <2>2. /\ n0 \in MgrRec /\ n0.requested = m.requested /\ n0.syncPeer = m.syncPeer
          /\ n0.headersFirst = m.headersFirst /\ n0.nextCheckpoint = m.nextCheckpoint
          /\ n0.candidates = cand
        BY <1>1, <1>4 DEF MgrRec
    <2> HIDE DEF n0
    <2>3. MgrOK(n0) /\ s.m = n0 /\ s.ps = ps
        BY <2>1, <2>2, <1>1 DEF MgrOK
    <2>4. \A G : AskedOf(m, ps, G) => AskedOf(n0, ps, G)
        BY <2>2 DEF AskedOf
    <2>5. \A C : SyncedWith(m, C) => SyncedWith(n0, C)
        BY <2>2, <1>5 DEF SyncedWith
    <2> QED BY <2>3, <2>4, <2>5 DEF s
<1>8. CASE m.syncPeer = Nobody /\ cand # <<>>
    <2>1. p \in Peer /\ \A C : cand \in Seq(C) => p \in C
        <3>1. \A C : cand \in Seq(C) => p \in C
            BY <1>8, LenProperties, EmptySeq DEF Last
        <3> QED BY <3>1, <1>4
    <2>2. p # Nobody
        BY <2>1, SyncAssumption
    <2> HIDE DEF p
    <2>3. /\ n \in MgrRec /\ n.requested = {} /\ n.syncPeer = p /\ n.candidates = cand
          /\ n.headersFirst = m.headersFirst /\ n.nextCheckpoint = m.nextCheckpoint
        BY <1>1, <1>4, <2>1 DEF MgrRec
    <2> HIDE DEF n
    <2>4. /\ nh \in MgrRec /\ nh.requested = {} /\ nh.syncPeer = p /\ nh.candidates = cand
          /\ nh.nextCheckpoint = m.nextCheckpoint
        BY <2>3 DEF MgrRec
    <2>5. MgrOK(n) /\ (m.nextCheckpoint # 0 => MgrOK(nh))
        BY <2>2, <2>3, <2>4, <1>1, <1>8 DEF MgrOK
    <2> HIDE DEF nh
    <2>6. \A qs, G : AskedOf(n, qs, G) /\ AskedOf(nh, qs, G)
        BY <2>3, <2>4 DEF AskedOf
    <2>7. \A C : SyncedWith(m, C) => SyncedWith(n, C) /\ SyncedWith(nh, C)
        BY <2>1, <2>3, <2>4, <1>5 DEF SyncedWith
    <2>8. CASE m.nextCheckpoint # 0 /\ chain.best < m.nextCheckpoint
        <3>1. s = [m |-> nh, ps |-> PushGetHeaders(ps, p, chain.best, m.nextCheckpoint)]
            BY <1>3, <1>8, <2>8
        <3>2. PeersOK(PushGetHeaders(ps, p, chain.best, m.nextCheckpoint), V, U)
            BY <1>2, <2>1, PushGetHeadersOK
        <3> QED BY <3>1, <3>2, <2>5, <2>6, <2>7, <2>8 DEF s
    <2>9. CASE ~ (m.nextCheckpoint # 0 /\ chain.best < m.nextCheckpoint)
        <3>1. s = [m |-> n, ps |-> PushGetBlocks(ps, p, chain.best, 0)]
            BY <1>3, <1>8, <2>9
        <3>2. PeersOK(PushGetBlocks(ps, p, chain.best, 0), V, U)
            BY <1>2, <2>1, PushGetBlocksOK
        <3> QED BY <3>1, <3>2, <2>5, <2>6, <2>7 DEF s
    <2> QED BY <2>8, <2>9
<1> QED BY <1>6, <1>7, <1>8

(* fetchHeaderBlocks asks the sync peer for blocks we do not have. *)
LEMMA FetchHeaderBlocksOK ==
    ASSUME NEW m, NEW ps, NEW V, NEW U, NEW c, MgrOK(m), PeersOK(ps, V, U), up \cap U = {},
           m.syncPeer # Nobody
    PROVE  LET s == FetchHeaderBlocks([m |-> m, ps |-> ps], c)
           IN /\ MgrOK(s.m) /\ PeersOK(s.ps, V, U)
              /\ \A G : /\ m.syncPeer \in G /\ G \subseteq Peer /\ AskedOf(m, ps, G)
                        => AskedOf(s.m, s.ps, G)
              /\ \A C : SyncedWith(m, C) => SyncedWith(s.m, C)
<1> DEFINE from == m.startHeader
           rest == IF from \in ToSet(m.headers) THEN Only(m.headers, from..Chain) ELSE <<from>>
           want == Only(rest, Missing(c))
           full == Len(want) >= MaxInvPerMsg
           ask  == IF full THEN SubSeq(want, 1, MaxInvPerMsg) ELSE want
           left == IF full THEN Only(rest, (Last(ask) + 1)..Chain) ELSE <<>>
           sh == IF left = <<>> THEN 0 ELSE left[1]
           n == [m EXCEPT !.startHeader = sh]
           s == FetchHeaderBlocks([m |-> m, ps |-> ps], c)
<1>1. m \in MgrRec /\ (m.headersFirst => m.syncPeer # Nobody /\ m.nextCheckpoint # 0)
    BY DEF MgrOK
<1>2. from \in Nat /\ m.headers \in Seq(Nat) /\ m.syncPeer \in Peer
    BY <1>1 DEF MgrRec
<1>3. s = IF from = 0 THEN [m |-> m, ps |-> ps]
          ELSE Request([m |-> n, ps |-> ps], n.syncPeer, ask)
    BY DEF FetchHeaderBlocks
<1> HIDE DEF s, from
<1>4. rest \in Seq(Nat)
    <2>1. Only(m.headers, from..Chain) \in Seq(Nat \cap (from..Chain))
        BY <1>2, OnlyType
    <2> QED BY <2>1, <1>2
<1> HIDE DEF rest
<1>5. want \in Seq(Block)
    <2>1. want \in Seq(Nat \cap Missing(c))
        BY <1>4, OnlyType
    <2>2. Missing(c) \subseteq Block
        BY DEF Missing
    <2> QED BY <2>1, <2>2
<1> HIDE DEF want
<1>6. ask \in Seq(Block)
    <2>1. MaxInvPerMsg \in Nat \ {0} /\ Len(want) \in Nat
        BY SyncAssumption, <1>5
    <2>2. full => SubSeq(want, 1, MaxInvPerMsg) \in Seq(Block)
        BY <1>5, <2>1
    <2> QED BY <1>5, <2>2
<1> HIDE DEF ask
<1>7. left \in Seq(Nat)
    <2>1. Only(rest, (Last(ask) + 1)..Chain) \in Seq(Nat \cap ((Last(ask) + 1)..Chain))
        BY <1>4, OnlyType
    <2> QED BY <2>1
<1> HIDE DEF left, full
<1>8. sh \in Nat
    BY <1>7, LenProperties, EmptySeq
<1> HIDE DEF sh
<1>9. /\ n \in MgrRec /\ n.requested = m.requested /\ n.syncPeer = m.syncPeer
      /\ n.headersFirst = m.headersFirst /\ n.nextCheckpoint = m.nextCheckpoint
      /\ n.candidates = m.candidates
    BY <1>1, <1>8 DEF MgrRec
<1> HIDE DEF n
<1>10. MgrOK(n)
    BY <1>9, <1>1 DEF MgrOK
<1>11. \A G : AskedOf(m, ps, G) => AskedOf(n, ps, G)
    BY <1>9 DEF AskedOf
<1>12. \A C : SyncedWith(m, C) => SyncedWith(n, C)
    BY <1>9 DEF SyncedWith
<1>13. n.syncPeer \in Peer
    BY <1>2, <1>9
<1>14. LET t == Request([m |-> n, ps |-> ps], n.syncPeer, ask)
       IN /\ MgrOK(t.m) /\ PeersOK(t.ps, V, U)
          /\ \A G : n.syncPeer \in G /\ G \subseteq Peer /\ AskedOf(n, ps, G)
                       => AskedOf(t.m, t.ps, G)
          /\ \A C : SyncedWith(n, C) => SyncedWith(t.m, C)
    BY <1>6, <1>10, <1>13, RequestOK
<1>15. CASE from = 0
    BY <1>3, <1>15 DEF s
<1>16. CASE from # 0
    <2> DEFINE t == Request([m |-> n, ps |-> ps], n.syncPeer, ask)
    <2>1. s = t
        BY <1>3, <1>16
    <2>2. /\ MgrOK(t.m) /\ PeersOK(t.ps, V, U)
          /\ \A G : n.syncPeer \in G /\ G \subseteq Peer /\ AskedOf(n, ps, G)
                       => AskedOf(t.m, t.ps, G)
          /\ \A C : SyncedWith(n, C) => SyncedWith(t.m, C)
        BY <1>14
    <2> HIDE DEF t
    <2> QED BY <2>1, <2>2, <1>9, <1>11, <1>12 DEF s
<1> QED BY <1>15, <1>16

-----------------------------------------------------------------------------
(* What a handler keeps: the blocks marked as requested stay requested of  *)
(* a peer of G, if the peer whose message is handled is one, and the sync  *)
(* peer and the candidates stay in C.                                      *)
KeptBy(p, m, ps, n, qs) ==
    \A G, C : (p \in G /\ C \subseteq G /\ G \subseteq Peer
                /\ AskedOf(m, ps, G) /\ SyncedWith(m, C))
                  => AskedOf(n, qs, G) /\ SyncedWith(n, C)

LEMMA KeptTrans ==
    ASSUME NEW p, NEW m, NEW ps, NEW n, NEW qs, NEW o, NEW rs,
           KeptBy(p, m, ps, n, qs), KeptBy(p, n, qs, o, rs)
    PROVE  KeptBy(p, m, ps, o, rs)
BY DEF KeptBy

LEMMA KeptSame ==
    ASSUME NEW p, NEW m, NEW ps, NEW n, NEW qs, SameRequests(ps, qs),
           n.requested \subseteq m.requested, n.syncPeer = m.syncPeer,
           n.candidates = m.candidates
    PROVE  KeptBy(p, m, ps, n, qs)
BY DEF KeptBy, SameRequests, AskedOf, SyncedWith

LEMMA SameTrans ==
    ASSUME NEW ps, NEW qs, NEW rs, SameRequests(ps, qs), SameRequests(qs, rs)
    PROVE  SameRequests(ps, rs)
BY DEF SameRequests

(* The wires do not change. *)
LEMMA SameWires ==
    ASSUME NEW ps, NEW V, NEW U, PeersOK(ps, V, U), NEW qs \in [Peer -> PeerRec],
           \A x \in Peer : qs[x].wire = ps[x].wire
    PROVE  PeersOK(qs, V, U)
BY DEF PeersOK

(* The wire of one peer changes. *)
Rewired(ps, p, w) == [ps EXCEPT ![p].wire = w]

LEMMA RewiredOK ==
    ASSUME NEW ps, NEW V, NEW U, PeersOK(ps, V, U), NEW p \in Peer, NEW W, V \ {p} \subseteq W,
           NEW w \in Seq(Later \cup {Version}),
           \A i \in DOMAIN w : w[i] \in Later \/ (i = 1 /\ p \in W),
           p \in U => w = <<>>
    PROVE  PeersOK(Rewired(ps, p, w), W, U) /\ SameRequests(ps, Rewired(ps, p, w))
<1> DEFINE r == [ps[p] EXCEPT !.wire = w]
<1>1. ps[p] \in PeerRec /\ ps \in [Peer -> PeerRec]
    BY DEF PeersOK
<1>2. r \in PeerRec /\ r.wire = w /\ r.requested = ps[p].requested
    BY <1>1 DEF PeerRec
<1>3. Rewired(ps, p, w) = [ps EXCEPT ![p] = r]
    BY DEF Rewired
<1> HIDE DEF r
<1>4. PeersOK([ps EXCEPT ![p] = r], W, U)
    BY <1>1, <1>2 DEF PeersOK
<1> QED BY <1>1, <1>2, <1>3, <1>4 DEF SameRequests

(* The message that is handled was the first on the wire. *)
LEMMA TailOK ==
    ASSUME NEW ps, NEW V, NEW U, PeersOK(ps, V, U), NEW p \in Peer, NEW W, V \ {p} \subseteq W,
           ps[p].wire # <<>>
    PROVE  LET qs == Rewired(ps, p, Tail(ps[p].wire))
           IN /\ PeersOK(qs, W, U) /\ SameRequests(ps, qs) /\ qs[p].wire \in Seq(Later)
              /\ p \notin U
<1> DEFINE w == ps[p].wire
           t == Tail(w)
<1>1. w \in Seq(Later \cup {Version}) /\ p \notin U /\ ps \in [Peer -> PeerRec]
    BY PeerFields DEF PeersOK
<1>2. \A i \in DOMAIN w : w[i] \in Later \/ (i = 1 /\ p \in V)
    BY PeerFields
<1> HIDE DEF w
<1>3. w # <<>>
    BY DEF w
<1>4. t \in Seq(Later \cup {Version}) /\ Len(t) = Len(w) - 1 /\ Len(w) \in Nat
    BY <1>1, <1>3
<1>5. ASSUME NEW i \in DOMAIN t PROVE t[i] \in Later
    <2>1. i \in Nat /\ i + 1 \in DOMAIN w /\ i + 1 # 1 /\ t[i] = w[i + 1]
        BY <1>1, <1>3, <1>4
    <2> QED BY <2>1, <1>2
<1>6. t \in Seq(Later)
    <2> HIDE DEF t
    <2>1. DOMAIN t = 1..Len(t) /\ Len(t) \in Nat /\ t = [i \in 1..Len(t) |-> t[i]]
        BY <1>4
    <2>2. \A i \in 1..Len(t) : t[i] \in Later
        BY <1>5, <2>1
    <2>3. [i \in 1..Len(t) |-> t[i]] \in Seq(Later)
        BY <2>1, <2>2, IsASeq
    <2> QED BY <2>1, <2>3
<1> HIDE DEF t
<1>7. PeersOK(Rewired(ps, p, t), W, U) /\ SameRequests(ps, Rewired(ps, p, t))
    BY <1>1, <1>4, <1>5, RewiredOK
<1>8. Rewired(ps, p, t)[p].wire = t
    <2>1. ps[p] \in PeerRec
        BY <1>1
    <2> QED BY <1>1, <2>1 DEF Rewired, PeerRec
<1> QED BY <1>1, <1>6, <1>7, <1>8 DEF t, w

LEMMA DroppedOK ==
    ASSUME NEW ps, NEW V, NEW U, PeersOK(ps, V, U), NEW p \in Peer
    PROVE  PeersOK(Dropped(ps, p), V, U) /\ SameRequests(ps, Dropped(ps, p))
<1>1. <<>> \in Seq(Later \cup {Version}) /\ DOMAIN <<>> = {}
    OBVIOUS
<1>2. PeersOK(Rewired(ps, p, <<>>), V, U) /\ SameRequests(ps, Rewired(ps, p, <<>>))
    BY <1>1, RewiredOK
<1> QED BY <1>2 DEF Rewired, Dropped

(* The fields of a peer that are only numbers. *)
LEMMA SetLastOK ==
    ASSUME NEW ps, NEW V, NEW U, PeersOK(ps, V, U), NEW p \in Peer, NEW h \in Nat
    PROVE  PeersOK(SetLast(ps, p, h), V, U) /\ SameRequests(ps, SetLast(ps, p, h))
<1> DEFINE k == RealKeyHeight(h)
           r == [[ps[p] EXCEPT !.last = h] EXCEPT !.lastKey = k]
<1>1. ps[p] \in PeerRec /\ ps \in [Peer -> PeerRec] /\ k \in Nat
    BY KeyHeightType DEF PeersOK
<1>2. SetLast(ps, p, h) = IF k = 0 THEN ps ELSE [ps EXCEPT ![p] = r]
    BY <1>1 DEF SetLast
<1> HIDE DEF k
<1>3. r \in PeerRec /\ r.wire = ps[p].wire /\ r.requested = ps[p].requested
    BY <1>1 DEF PeerRec
<1> HIDE DEF r
<1>4. PeersOK([ps EXCEPT ![p] = r], V, U)
    BY <1>3, PeerFields, OnePeer
<1> QED BY <1>1, <1>2, <1>3, <1>4 DEF SameRequests

LEMMA NumbersOK ==
    ASSUME NEW ps, NEW V, NEW U, PeersOK(ps, V, U), NEW p \in Peer, NEW h \in Nat
    PROVE  /\ PeersOK([ps EXCEPT ![p].announced = h], V, U)
           /\ PeersOK([ps EXCEPT ![p].last = h], V, U)
           /\ PeersOK([ps EXCEPT ![p].continueHash = h], V, U)
           /\ SameRequests(ps, [ps EXCEPT ![p].announced = h])
           /\ SameRequests(ps, [ps EXCEPT ![p].last = h])
           /\ SameRequests(ps, [ps EXCEPT ![p].continueHash = h])
<1>1. ps[p] \in PeerRec /\ ps \in [Peer -> PeerRec]
    BY DEF PeersOK
<1>2. ASSUME NEW r \in PeerRec, r.wire = ps[p].wire, r.requested = ps[p].requested
      PROVE  PeersOK([ps EXCEPT ![p] = r], V, U) /\ SameRequests(ps, [ps EXCEPT ![p] = r])
    BY <1>1, <1>2, PeerFields, OnePeer DEF SameRequests
<1>3. LET r == [ps[p] EXCEPT !.announced = h]
      IN r \in PeerRec /\ r.wire = ps[p].wire /\ r.requested = ps[p].requested
    BY <1>1 DEF PeerRec
<1>4. LET r == [ps[p] EXCEPT !.last = h]
      IN r \in PeerRec /\ r.wire = ps[p].wire /\ r.requested = ps[p].requested
    BY <1>1 DEF PeerRec
<1>5. LET r == [ps[p] EXCEPT !.continueHash = h]
      IN r \in PeerRec /\ r.wire = ps[p].wire /\ r.requested = ps[p].requested
    BY <1>1 DEF PeerRec
<1>6. LET qs == [ps EXCEPT ![p] = [ps[p] EXCEPT !.announced = h]]
      IN PeersOK(qs, V, U) /\ SameRequests(ps, qs)
    BY <1>2, <1>3
<1>7. LET qs == [ps EXCEPT ![p] = [ps[p] EXCEPT !.last = h]]
      IN PeersOK(qs, V, U) /\ SameRequests(ps, qs)
    BY <1>2, <1>4
<1>8. LET qs == [ps EXCEPT ![p] = [ps[p] EXCEPT !.continueHash = h]]
      IN PeersOK(qs, V, U) /\ SameRequests(ps, qs)
    BY <1>2, <1>5
<1> QED BY <1>6, <1>7, <1>8

(* The queue of blocks to request of a peer. *)
Requeued(ps, p, blocks) == [ps EXCEPT ![p].requestQueue = blocks]

LEMMA RequeuedOK ==
    ASSUME NEW ps, NEW V, NEW U, PeersOK(ps, V, U), NEW p \in Peer, NEW blocks \in Seq(Block)
    PROVE  LET qs == Requeued(ps, p, blocks)
           IN PeersOK(qs, V, U) /\ SameRequests(ps, qs) /\ qs[p].requestQueue = blocks
<1> DEFINE r == [ps[p] EXCEPT !.requestQueue = blocks]
<1>1. ps[p] \in PeerRec /\ ps \in [Peer -> PeerRec]
    BY DEF PeersOK
<1>2. r \in PeerRec /\ r.wire = ps[p].wire /\ r.requested = ps[p].requested
          /\ r.requestQueue = blocks
    BY <1>1 DEF PeerRec
<1>3. Requeued(ps, p, blocks) = [ps EXCEPT ![p] = r]
    BY DEF Requeued
<1> HIDE DEF r
<1>4. PeersOK([ps EXCEPT ![p] = r], V, U)
    BY <1>2, PeerFields, OnePeer
<1> QED BY <1>1, <1>2, <1>3, <1>4 DEF SameRequests

-----------------------------------------------------------------------------
(* The parts of the handlers. *)

LEMMA FetchKept ==
    ASSUME NEW m, NEW ps, NEW V, NEW U, NEW c, MgrOK(m), PeersOK(ps, V, U), up \cap U = {},
           m.syncPeer # Nobody, NEW p
    PROVE  LET s == FetchHeaderBlocks([m |-> m, ps |-> ps], c)
           IN MgrOK(s.m) /\ PeersOK(s.ps, V, U) /\ KeptBy(p, m, ps, s.m, s.ps)
<1> DEFINE s == FetchHeaderBlocks([m |-> m, ps |-> ps], c)
<1>1. /\ MgrOK(s.m) /\ PeersOK(s.ps, V, U)
      /\ \A G : /\ m.syncPeer \in G /\ G \subseteq Peer /\ AskedOf(m, ps, G)
                => AskedOf(s.m, s.ps, G)
      /\ \A C : SyncedWith(m, C) => SyncedWith(s.m, C)
    BY FetchHeaderBlocksOK
<1> HIDE DEF s
<1>2. \A C : SyncedWith(m, C) => m.syncPeer \in C
    BY DEF SyncedWith
<1>3. KeptBy(p, m, ps, s.m, s.ps)
    BY <1>1, <1>2 DEF KeptBy
<1> QED BY <1>1, <1>3 DEF s

LEMMA TakeBlockOK ==
    ASSUME NEW m, NEW ps, NEW V, NEW U, MgrOK(m), PeersOK(ps, V, U), NEW p \in Peer,
           NEW b \in Block
    PROVE  LET s == TakeBlock([m |-> m, ps |-> ps], p, b)
           IN MgrOK(s.m) /\ PeersOK(s.ps, V, U) /\ KeptBy(p, m, ps, s.m, s.ps)
<1> DEFINE s == TakeBlock([m |-> m, ps |-> ps], p, b)
           drop == /\ m.headersFirst /\ m.headers # <<>> /\ m.headers[1] = b
                   /\ b # m.nextCheckpoint
           hs == IF drop THEN Tail(m.headers) ELSE m.headers
           R == ps[p].requested \ {b}
           n == [[m EXCEPT !.requested = m.requested \ {b}] EXCEPT !.headers = hs]
           q1 == Owing(ps, p, R)
<1>1. m \in MgrRec /\ (m.headersFirst => m.syncPeer # Nobody /\ m.nextCheckpoint # 0)
    BY DEF MgrOK
<1>2. s = [m |-> n, ps |-> q1]
    BY DEF TakeBlock, Owing
<1> HIDE DEF s
<1>3. hs \in Seq(Nat)
    <2>1. m.headers \in Seq(Nat)
        BY <1>1 DEF MgrRec
    <2>2. CASE drop
        BY <2>1, <2>2
    <2>3. CASE ~drop
        BY <2>1, <2>3
    <2> QED BY <2>2, <2>3
<1> HIDE DEF hs
<1>4. /\ n \in MgrRec /\ n.requested = m.requested \ {b}
      /\ n.headersFirst = m.headersFirst /\ n.syncPeer = m.syncPeer
      /\ n.nextCheckpoint = m.nextCheckpoint /\ n.candidates = m.candidates
    BY <1>1, <1>3 DEF MgrRec
<1> HIDE DEF n
<1>5. R \subseteq Block
    BY PeerFields DEF PeerRec
<1>6. R = ps[p].requested \ {b}
    OBVIOUS
<1> HIDE DEF R
<1>7. /\ PeersOK(q1, V, U) /\ q1[p].requested = R
      /\ \A x \in Peer : x # p => q1[x].requested = ps[x].requested
    BY <1>5, PeerRequestsOK
<1> HIDE DEF q1
<1>8. MgrOK(n)
    BY <1>1, <1>4 DEF MgrOK
<1>9. \A x \in Peer : \A d : d # b /\ d \in ps[x].requested => d \in q1[x].requested
    BY <1>6, <1>7
<1>10. KeptBy(p, m, ps, n, q1)
    <2> SUFFICES ASSUME NEW G, NEW C, G \subseteq Peer, AskedOf(m, ps, G), SyncedWith(m, C)
                 PROVE  AskedOf(n, q1, G) /\ SyncedWith(n, C)
        BY DEF KeptBy
    <2>1. SyncedWith(n, C)
        BY <1>4 DEF SyncedWith
    <2>2. ASSUME NEW d \in n.requested PROVE \E x \in G : d \in q1[x].requested
        <3>1. d \in m.requested /\ d # b
            BY <1>4
        <3>2. PICK x \in G : d \in ps[x].requested
            BY <3>1 DEF AskedOf
        <3> QED BY <3>1, <3>2, <1>9
    <2> QED BY <2>1, <2>2 DEF AskedOf
<1> QED BY <1>2, <1>7, <1>8, <1>10 DEF s

LEMMA AfterHeaderBlockOK ==
    ASSUME NEW m, NEW ps, NEW V, NEW U, MgrOK(m), PeersOK(ps, V, U), up \cap U = {},
           NEW p \in Peer, NEW b \in Nat, NEW c, NEW isCheckpoint \in BOOLEAN
    PROVE  LET s == AfterHeaderBlock([m |-> m, ps |-> ps], p, b, c, isCheckpoint)
           IN MgrOK(s.m) /\ PeersOK(s.ps, V, U) /\ KeptBy(p, m, ps, s.m, s.ps)
<1> DEFINE s == AfterHeaderBlock([m |-> m, ps |-> ps], p, b, c, isCheckpoint)
           next == NextCheckpoint(m.nextCheckpoint)
           n == [m EXCEPT !.nextCheckpoint = next]
           o == [[n EXCEPT !.headersFirst = FALSE] EXCEPT !.headers = <<>>]
           few == Cardinality(ps[p].requested) < MinInFlight
<1>1. m \in MgrRec /\ (m.headersFirst => m.syncPeer # Nobody /\ m.nextCheckpoint # 0)
    BY DEF MgrOK
<1>2. m.nextCheckpoint \in Int
    BY <1>1 DEF MgrRec
<1>3. next \in Nat /\ 0 \in Nat /\ <<>> \in Seq(Nat)
    BY <1>2, NextCheckpointType
<1>4. s = IF ~m.headersFirst \/ (~isCheckpoint /\ ~few) THEN [m |-> m, ps |-> ps]
          ELSE IF ~isCheckpoint THEN FetchHeaderBlocks([m |-> m, ps |-> ps], c)
          ELSE IF next # 0 THEN [m |-> n, ps |-> PushGetHeaders(ps, p, b, next)]
          ELSE [m |-> o, ps |-> PushGetBlocks(ps, p, b, 0)]
    BY DEF AfterHeaderBlock
<1> HIDE DEF s, next, few
<1>5. /\ n \in MgrRec /\ n.requested = m.requested /\ n.syncPeer = m.syncPeer
      /\ n.candidates = m.candidates /\ n.nextCheckpoint = next
      /\ n.headersFirst = m.headersFirst
    BY <1>1, <1>3 DEF MgrRec
<1> HIDE DEF n
<1>6. /\ o \in MgrRec /\ o.requested = m.requested /\ o.syncPeer = m.syncPeer
      /\ o.candidates = m.candidates /\ ~o.headersFirst
    BY <1>3, <1>5 DEF MgrRec
<1> HIDE DEF o
<1>7. MgrOK(o) /\ (next # 0 => MgrOK(n))
    BY <1>1, <1>5, <1>6 DEF MgrOK
<1>8. SameRequests(ps, ps)
    BY DEF SameRequests
<1>9. CASE ~m.headersFirst \/ (~isCheckpoint /\ ~few)
    <2>1. KeptBy(p, m, ps, m, ps)
        BY <1>8, KeptSame
    <2> QED BY <1>4, <1>9, <2>1 DEF s
<1>10. CASE m.headersFirst /\ ~isCheckpoint /\ few
    <2> DEFINE t == FetchHeaderBlocks([m |-> m, ps |-> ps], c)
    <2>1. MgrOK(t.m) /\ PeersOK(t.ps, V, U) /\ KeptBy(p, m, ps, t.m, t.ps)
        BY <1>1, <1>10, FetchKept
    <2>2. s = t
        BY <1>4, <1>10
    <2> HIDE DEF t
    <2>3. MgrOK(s.m) /\ PeersOK(s.ps, V, U) /\ KeptBy(p, m, ps, s.m, s.ps)
        BY <2>1, <2>2
    <2> QED BY <2>3 DEF s
<1>11. CASE m.headersFirst /\ isCheckpoint /\ next # 0
    <2> DEFINE q1 == PushGetHeaders(ps, p, b, next)
    <2>1. PeersOK(q1, V, U) /\ SameRequests(ps, q1)
        BY <1>3, PushGetHeadersOK
    <2>2. s = [m |-> n, ps |-> q1]
        BY <1>4, <1>11
    <2> HIDE DEF q1
    <2>3. KeptBy(p, m, ps, n, q1)
        BY <2>1, <1>5, KeptSame
    <2>4. s.m = n /\ s.ps = q1
        BY <2>2
    <2>5. MgrOK(n)
        BY <1>7, <1>11
    <2> QED BY <2>1, <2>3, <2>4, <2>5 DEF s
<1>12. CASE m.headersFirst /\ isCheckpoint /\ next = 0
    <2> DEFINE q1 == PushGetBlocks(ps, p, b, 0)
    <2>1. PeersOK(q1, V, U) /\ SameRequests(ps, q1)
        BY <1>3, PushGetBlocksOK
    <2>2. s = [m |-> o, ps |-> q1]
        BY <1>4, <1>12
    <2> HIDE DEF q1
    <2>3. KeptBy(p, m, ps, o, q1)
        BY <2>1, <1>6, KeptSame
    <2>4. s.m = o /\ s.ps = q1
        BY <2>2
    <2> QED BY <2>1, <2>3, <2>4, <1>7 DEF s
<1> QED BY <1>9, <1>10, <1>11, <1>12

(* The last element of a sequence. *)
LEMMA LastType ==
    ASSUME NEW T, NEW seq \in Seq(T), seq # <<>>
    PROVE  /\ Last(seq) \in T /\ seq[1] \in T /\ seq[Len(seq)] \in T
           /\ 1 \in DOMAIN seq
<1>1. Len(seq) \in Nat /\ Len(seq) # 0 /\ DOMAIN seq = 1..Len(seq)
    BY LenProperties, EmptySeq
<1>2. 1 \in DOMAIN seq /\ Len(seq) \in DOMAIN seq
    BY <1>1
<1> QED BY <1>1, <1>2, ElementOfSeq DEF Last

LEMMA InventoryOK ==
    ASSUME NEW m, NEW ps, NEW V, NEW U, PeersOK(ps, V, U), up \cap U = {},
           NEW p \in Peer, NEW inv \in Seq(Nat), inv # <<>>, ChainOK(chain)
    PROVE  LET s == Inventory([m |-> m, ps |-> ps], p, inv)
           IN s = [m |-> m, ps |-> s.ps] /\ PeersOK(s.ps, V, U) /\ SameRequests(ps, s.ps)
<1> DEFINE s == Inventory([m |-> m, ps |-> ps], p, inv)
           orphans == Only(inv, chain.orphans)
           asks1 == [i \in 1..Len(orphans) |-> <<chain.best, OrphanRoot(chain, orphans[i])>>]
           asks2 == IF Last(inv) <= chain.best /\ Last(inv) \notin chain.orphans
                    THEN <<<<Last(inv), 0>>>> ELSE <<>>
           asks == asks1 \o asks2
           q1 == PushAllGetBlocks(ps, p, asks)
           new == Only(inv, Missing(chain))
           q2 == Requeued(q1, p, q1[p].requestQueue \o new)
<1>1. s = IF m.headersFirst THEN [m |-> m, ps |-> ps] ELSE [m |-> m, ps |-> q2]
    BY DEF Inventory, Requeued
<1>2. chain.best \in Nat /\ Last(inv) \in Nat
    BY SyncAssumption, LastType DEF ChainOK
<1> HIDE DEF s
<1>3. orphans \in Seq(Nat \cap chain.orphans)
    BY OnlyType
<1>4. new \in Seq(Block)
    <2>1. new \in Seq(Nat \cap Missing(chain))
        BY OnlyType
    <2>2. Missing(chain) \subseteq Block
        BY DEF Missing
    <2> QED BY <2>1, <2>2
<1> HIDE DEF orphans, new
<1>5. asks1 \in Seq(Nat \X Nat)
    <2>1. Len(orphans) \in Nat
        BY <1>3
    <2>2. ASSUME NEW i \in 1..Len(orphans)
          PROVE  <<chain.best, OrphanRoot(chain, orphans[i])>> \in Nat \X Nat
        <3>1. orphans[i] \in chain.orphans
            BY <1>3
        <3>2. OrphanRoot(chain, orphans[i]) \in Nat
            BY <3>1, OrphanRootType
        <3> QED BY <3>2, <1>2
    <2> QED BY <2>1, <2>2, IsASeq
<1> HIDE DEF asks1
<1>6. asks2 \in Seq(Nat \X Nat)
    <2> DEFINE a == <<Last(inv), 0>>
    <2>1. a \in Nat \X Nat
        BY <1>2
    <2>2. asks2 = <<a>> \/ asks2 = <<>>
        OBVIOUS
    <2> HIDE DEF a, asks2
    <2>3. <<>> \in Seq(Nat \X Nat)
        OBVIOUS
    <2>4. \A T : \A x \in T : <<x>> \in Seq(T)
        OBVIOUS
    <2> QED BY <2>1, <2>2, <2>3, <2>4, Zenon
<1> HIDE DEF asks2
<1>7. asks \in Seq(Nat \X Nat)
    BY <1>5, <1>6
<1> HIDE DEF asks
<1>8. PeersOK(q1, V, U) /\ SameRequests(ps, q1)
    BY <1>7, PushAllGetBlocksOK
<1> HIDE DEF q1
<1>9. q1[p].requestQueue \o new \in Seq(Block)
    <2>1. q1[p].requestQueue \in Seq(Block)
        BY <1>8, PeerFields DEF PeerRec
    <2> QED BY <2>1, <1>4
<1>10. PeersOK(q2, V, U) /\ SameRequests(q1, q2)
    BY <1>8, <1>9, RequeuedOK
<1> HIDE DEF q2
<1>11. SameRequests(ps, q2) /\ SameRequests(ps, ps)
    BY <1>8, <1>10 DEF SameRequests
<1> QED BY <1>1, <1>10, <1>11 DEF s

(* What a getdata message takes from the request queue. *)
LEMMA RequestFromType ==
    ASSUME NEW queue \in Seq(Block), NEW R
    PROVE  RequestFrom(queue, R) \in Seq(Block) /\ QueueAfter(queue, R) \in Seq(Block)
<1> DEFINE fresh == Only(queue, Block \ R)
           ask == RequestFrom(queue, R)
<1>1. MaxInvPerMsg \in Nat \ {0} /\ Len(queue) \in Nat /\ DOMAIN queue = 1..Len(queue)
    BY SyncAssumption, LenProperties
<1>2. ask = IF Len(fresh) >= MaxInvPerMsg THEN SubSeq(fresh, 1, MaxInvPerMsg) ELSE fresh
    BY DEF RequestFrom
<1>3. /\ fresh \in Seq(Block)
      /\ \A k \in DOMAIN fresh : \E i \in DOMAIN queue : fresh[k] = queue[i]
    <2>1. fresh \in Seq(Block \cap (Block \ R))
        BY OnlyType
    <2>2. \A k \in DOMAIN fresh : \E i \in DOMAIN queue : fresh[k] = queue[i]
        BY OnlyType
    <2> HIDE DEF fresh
    <2> QED BY <2>1, <2>2
<1> HIDE DEF fresh
<1>4. QueueAfter(queue, R) =
        IF Len(ask) < MaxInvPerMsg THEN <<>>
        ELSE SubSeq(queue, 1 + CHOOSE i \in DOMAIN queue : queue[i] = Last(ask), Len(queue))
    BY DEF QueueAfter
<1> HIDE DEF ask
<1>5. ask \in Seq(Block)
    BY <1>1, <1>2, <1>3
<1>6. CASE Len(ask) < MaxInvPerMsg
    BY <1>4, <1>5, <1>6 DEF ask
<1>7. CASE ~ (Len(ask) < MaxInvPerMsg)
    <2>1. Len(fresh) \in Nat /\ DOMAIN fresh = 1..Len(fresh)
        BY <1>3, LenProperties
    <2>2. Len(fresh) >= MaxInvPerMsg
        BY <1>1, <1>2, <1>7, <2>1
    <2>3. ask = SubSeq(fresh, 1, MaxInvPerMsg)
        BY <1>2, <2>2
    <2>4. Len(ask) = MaxInvPerMsg /\ Last(ask) = fresh[MaxInvPerMsg]
        BY <1>1, <1>3, <2>1, <2>2, <2>3 DEF Last
    <2>5. MaxInvPerMsg \in DOMAIN fresh
        BY <1>1, <2>1, <2>2
    <2>6. \E i \in DOMAIN queue : queue[i] = Last(ask)
        BY <1>3, <2>4, <2>5
    <2> DEFINE j == CHOOSE i \in DOMAIN queue : queue[i] = Last(ask)
    <2>7. j \in 1..Len(queue)
        BY <1>1, <2>6
    <2>8. QueueAfter(queue, R) = SubSeq(queue, 1 + j, Len(queue))
        BY <1>4, <1>7
    <2> HIDE DEF j
    <2>9. SubSeq(queue, 1 + j, Len(queue)) \in Seq(Block)
        BY <1>1, <2>7
    <2> QED BY <1>5, <2>8, <2>9 DEF ask
<1> QED BY <1>6, <1>7

-----------------------------------------------------------------------------
(* The handlers. *)

(* What chainState holds is typed, and its hash is that of the best block. *)
BestOK(c, cs) ==
    /\ ChainOK(c)
    /\ cs \in [newest : 0..Chain, lottery : 0..Chain]
    /\ cs.newest = c.best

(* The lottery data is that of the best block, or orphans have connected. *)
LotteryOK(c, d, cs, ds) ==
    (ds # cs /\ ds.lottery # ds.newest) => c.orphans \ d.orphans # {}

(* The peers of the goroutines that update the heights. *)
HeightsOK(hs) == \A u \in hs : u \in Nat \X Peer

LEMMA ConnectBlockOK ==
    ASSUME ChainOK(chain), NEW b \in Block, NEW cs
    PROVE  LET c == [best |-> Adopted(b), orphans |-> {o \in chain.orphans : o > Adopted(b)}]
               ds == UpdateChainState(Adopted(b), b)
           IN BestOK(c, ds) /\ LotteryOK(chain, c, cs, ds)
<1> DEFINE a == Adopted(b)
           c == [best |-> a, orphans |-> {o \in chain.orphans : o > a}]
           ds == [newest |-> a, lottery |-> b]
<1>1. a \in b..Chain /\ \A o \in (b + 1)..a : o \in chain.orphans
    BY AdoptedType
<1>2. Chain \in Nat /\ b \in 1..Chain /\ chain.orphans \subseteq Block
    BY SyncAssumption DEF Block, ChainOK
<1> HIDE DEF a
<1>3. a \in 0..Chain /\ b \in 0..Chain
    BY <1>1, <1>2
<1>4. BestOK(c, ds)
    BY <1>2, <1>3 DEF BestOK, ChainOK
<1>5. ASSUME ds.lottery # ds.newest PROVE chain.orphans \ c.orphans # {}
    <2>1. b # a
        BY <1>5
    <2>2. b + 1 \in (b + 1)..a /\ ~ (b + 1 > a)
        BY <1>1, <1>2, <2>1
    <2>3. b + 1 \in chain.orphans
        BY <1>1, <2>2
    <2> QED BY <2>2, <2>3
<1> QED BY <1>4, <1>5 DEF LotteryOK, UpdateChainState, a

(* The handler of a block that was expected. *)
LEMMA HandleBlockOK ==
    ASSUME NEW ps, NEW V, NEW U, MgrOK(mgr), PeersOK(ps, V, U), up \cap U = {},
           NEW p \in Peer, NEW b \in Block, Expected(p, b), BestOK(chain, chainState),
           HeightsOK(heights), HandleBlock(p, b, ps)
    PROVE  /\ MgrOK(mgr') /\ PeersOK(peer', V, U) /\ KeptBy(p, mgr, ps, mgr', peer')
           /\ BestOK(chain', chainState') /\ HeightsOK(heights')
           /\ LotteryOK(chain, chain', chainState, chainState')
<1> DEFINE counted == IF b \in peer[p].requested THEN mgr ELSE [mgr EXCEPT !.ever[b] = @ + 1]
           s  == TakeBlock([m |-> counted, ps |-> ps], p, b)
           isCheckpoint == /\ mgr.headersFirst /\ mgr.headers # <<>>
                           /\ mgr.headers[1] = b /\ b = mgr.nextCheckpoint
           orphan == b > chain.best + 1
           c  == IF orphan THEN [chain EXCEPT !.orphans = @ \union {b}]
                 ELSE [best    |-> Adopted(b),
                       orphans |-> {o \in chain.orphans : o > Adopted(b)}]
           h  == IF orphan THEN b ELSE c.best
           q1 == IF orphan THEN PushGetBlocks(s.ps, p, c.best, OrphanRoot(c, b)) ELSE s.ps
           q2 == SetLast(q1, p, h)
           s1 == [s EXCEPT !.ps = q2]
           s2 == AfterHeaderBlock(s1, p, b, c, isCheckpoint)
<1>1. IF HaveBlock(chain, b)
      THEN /\ mgr' = s.m /\ peer' = s.ps
           /\ UNCHANGED <<chain, chainState, heights, strayed>>
      ELSE /\ chain' = c
           /\ chainState' = IF orphan THEN chainState ELSE UpdateChainState(c.best, b)
           /\ heights' = IF /\ RealKeyHeight(h) # 0
                            /\ orphan \/ Current(c.best, s1.m, s1.ps)
                         THEN heights \union {<<h, p>>} ELSE heights
           /\ mgr' = s2.m
           /\ peer' = s2.ps
    BY DEF HandleBlock
<1>2. Chain \in Nat /\ b \in Nat /\ b \in 1..Chain /\ MaxResend \in Nat
    BY SyncAssumption DEF Block
<1>3. ChainOK(chain) /\ chain.best \in 0..Chain
    BY DEF BestOK, ChainOK
<1>4. isCheckpoint \in BOOLEAN
    OBVIOUS
<1> HIDE DEF isCheckpoint
<1>5. MgrOK(counted) /\ KeptBy(p, mgr, ps, counted, ps)
    <2>1. SameRequests(ps, ps)
        BY DEF SameRequests
    <2>2. CASE b \in peer[p].requested
        BY <2>1, <2>2, KeptSame
    <2>3. CASE b \notin peer[p].requested
        <3> DEFINE e == [mgr.ever EXCEPT ![b] = mgr.ever[b] + 1]
                   n == [mgr EXCEPT !.ever = e]
        <3>1. mgr.ever[b] \in 0..MaxResend
            BY <2>3 DEF Expected
        <3>2. mgr \in MgrRec /\ (mgr.headersFirst => mgr.syncPeer # Nobody /\ mgr.nextCheckpoint # 0)
            BY DEF MgrOK
        <3>3. mgr.ever \in [Block -> -1..(MaxResend + 1)]
            BY <3>2 DEF MgrRec
        <3>4. counted = n
            BY <2>3
        <3>5. e \in [Block -> -1..(MaxResend + 1)]
            BY <3>1, <3>3, <1>2
        <3> HIDE DEF e
        <3>6. /\ n \in MgrRec /\ n.requested = mgr.requested /\ n.syncPeer = mgr.syncPeer
              /\ n.candidates = mgr.candidates /\ n.headersFirst = mgr.headersFirst
              /\ n.nextCheckpoint = mgr.nextCheckpoint
            BY <3>2, <3>5 DEF MgrRec
        <3> HIDE DEF n
        <3>7. MgrOK(n)
            BY <3>2, <3>6 DEF MgrOK
        <3>8. KeptBy(p, mgr, ps, n, ps)
            BY <2>1, <3>6, KeptSame
        <3> HIDE DEF counted
        <3> QED BY <3>4, <3>7, <3>8
    <2> QED BY <2>2, <2>3
<1> HIDE DEF counted
<1>6. MgrOK(s.m) /\ PeersOK(s.ps, V, U) /\ KeptBy(p, counted, ps, s.m, s.ps)
    BY <1>5, TakeBlockOK
<1>7. s = [m |-> s.m, ps |-> s.ps]
    BY DEF TakeBlock
<1> HIDE DEF s
<1>8. KeptBy(p, mgr, ps, s.m, s.ps)
    BY <1>5, <1>6, KeptTrans
<1>9. CASE HaveBlock(chain, b)
    BY <1>1, <1>6, <1>8, <1>9 DEF LotteryOK
<1>10. CASE ~HaveBlock(chain, b)
    <2>1. /\ BestOK(c, IF orphan THEN chainState ELSE UpdateChainState(c.best, b))
          /\ LotteryOK(chain, c, chainState,
                       IF orphan THEN chainState ELSE UpdateChainState(c.best, b))
          /\ c.best \in Nat /\ h \in Nat
          /\ orphan => b \in c.orphans
        <3>1. CASE orphan
            <4> DEFINE d == [chain EXCEPT !.orphans = chain.orphans \cup {b}]
            <4>1. c = d /\ h = b
                BY <3>1
            <4>2. ChainOK(d) /\ d.best = chain.best /\ b \in d.orphans
                BY <1>3 DEF ChainOK
            <4> HIDE DEF c, h, d
            <4>3. BestOK(d, chainState)
                BY <4>2 DEF BestOK
            <4> QED BY <1>2, <1>3, <3>1, <4>1, <4>2, <4>3 DEF LotteryOK
        <3>2. CASE ~orphan
            <4> DEFINE d == [best |-> Adopted(b), orphans |-> {o \in chain.orphans : o > Adopted(b)}]
            <4>1. c = d /\ h = c.best /\ c.best = Adopted(b)
                BY <3>2
            <4>2. BestOK(d, UpdateChainState(Adopted(b), b))
                    /\ LotteryOK(chain, d, chainState, UpdateChainState(Adopted(b), b))
                BY <1>3, ConnectBlockOK
            <4>3. Adopted(b) \in Nat
                BY <1>2, <1>3, AdoptedType
            <4> HIDE DEF c, h, d
            <4> QED BY <3>2, <4>1, <4>2, <4>3
        <3> QED BY <3>1, <3>2
    <2>2. ChainOK(c)
        BY <2>1 DEF BestOK
    <2> HIDE DEF c, h
    <2>3. PeersOK(q1, V, U) /\ SameRequests(s.ps, q1)
        <3>1. CASE orphan
            <4>1. OrphanRoot(c, b) \in Nat
                BY <2>1, <2>2, <3>1, OrphanRootType
            <4> HIDE DEF orphan
            <4>2. LET qs == PushGetBlocks(s.ps, p, c.best, OrphanRoot(c, b))
                  IN PeersOK(qs, V, U) /\ SameRequests(s.ps, qs)
                BY <4>1, <2>1, <1>6, PushGetBlocksOK
            <4> QED BY <3>1, <4>2
        <3>2. CASE ~orphan
            BY <3>2, <1>6 DEF SameRequests
        <3> QED BY <3>1, <3>2
    <2> HIDE DEF q1
    <2>4. PeersOK(q2, V, U) /\ SameRequests(q1, q2)
        BY <2>1, <2>3, SetLastOK
    <2> HIDE DEF q2
    <2>5. s1 = [m |-> s.m, ps |-> q2]
        BY <1>7
    <2>6. KeptBy(p, mgr, ps, s.m, q2)
        <3>1. SameRequests(s.ps, q2)
            BY <2>3, <2>4, SameTrans
        <3>2. KeptBy(p, s.m, s.ps, s.m, q2)
            BY <3>1, KeptSame
        <3> QED BY <1>8, <3>2, KeptTrans
    <2> DEFINE t == AfterHeaderBlock([m |-> s.m, ps |-> q2], p, b, c, isCheckpoint)
    <2>7. MgrOK(t.m) /\ PeersOK(t.ps, V, U) /\ KeptBy(p, s.m, q2, t.m, t.ps)
        BY <1>2, <1>4, <1>6, <2>4, AfterHeaderBlockOK
    <2>8. s2 = t
        BY <2>5
    <2> HIDE DEF s1, s2, t, orphan
    <2>9. /\ chain' = c /\ mgr' = t.m /\ peer' = t.ps
          /\ chainState' = IF orphan THEN chainState ELSE UpdateChainState(c.best, b)
          /\ heights' = heights \/ heights' = heights \union {<<h, p>>}
        BY <1>1, <1>10, <2>8
    <2>10. KeptBy(p, mgr, ps, mgr', peer')
        BY <2>6, <2>7, <2>9, KeptTrans
    <2>11. HeightsOK(heights')
        BY <2>1, <2>9 DEF HeightsOK
    <2> QED BY <2>1, <2>7, <2>9, <2>10, <2>11
<1> QED BY <1>9, <1>10

(* The handler of an inventory message. *)
LEMMA HandleInvOK ==
    ASSUME NEW ps, NEW V, NEW U, MgrOK(mgr), PeersOK(ps, V, U), up \cap U = {},
           NEW p \in Peer, NEW inv \in Seq(Nat), ChainOK(chain), HandleInv(p, inv, ps)
    PROVE  /\ MgrOK(mgr') /\ PeersOK(peer', V, U) /\ KeptBy(p, mgr, ps, mgr', peer')
           /\ UNCHANGED <<chain, chainState, heights, strayed>>
<1> DEFINE cur  == Current(chain.best, mgr, peer)
           last == inv[Len(inv)]
           ps1  == IF p # mgr.syncPeer \/ cur THEN [ps EXCEPT ![p].announced = last] ELSE ps
           ps2  == IF cur /\ last <= chain.best THEN [ps1 EXCEPT ![p].last = last] ELSE ps1
           s    == Inventory([m |-> mgr, ps |-> ps2], p, inv)
           queue == s.ps[p].requestQueue
           after == QueueAfter(queue, mgr.requested)
           asked == RequestFrom(queue, mgr.requested)
           sq   == [s EXCEPT !.ps[p].requestQueue = after]
           s1   == Request(sq, p, asked)
<1>1. /\ IF inv = <<>> \/ (p # mgr.syncPeer /\ ~cur)
         THEN mgr' = mgr /\ peer' = IF inv = <<>> THEN ps ELSE ps1
         ELSE /\ peer' = s1.ps
              /\ \E r \in Limited(s1.m.requested) : mgr' = [s1.m EXCEPT !.requested = r]
      /\ UNCHANGED <<chain, chainState, heights, strayed>>
    BY DEF HandleInv
<1> HIDE DEF cur
<1>2. SameRequests(ps, ps)
    BY DEF SameRequests
<1>3. CASE inv = <<>>
    <2>1. KeptBy(p, mgr, ps, mgr, ps)
        BY <1>2, KeptSame
    <2>2. mgr' = mgr /\ peer' = ps
        BY <1>1, <1>3
    <2> QED BY <1>1, <2>1, <2>2
<1>4. CASE inv # <<>>
    <2>1. last \in Nat
        BY <1>4, LastType
    <2> HIDE DEF last
    <2>2. PeersOK(ps1, V, U) /\ SameRequests(ps, ps1)
        BY <1>2, <2>1, NumbersOK
    <2> HIDE DEF ps1
    <2>3. KeptBy(p, mgr, ps, mgr, ps1)
        BY <2>2, KeptSame
    <2>4. CASE p # mgr.syncPeer /\ ~cur
        <3>1. mgr' = mgr /\ peer' = ps1
            BY <1>1, <1>4, <2>4
        <3> QED BY <1>1, <2>2, <2>3, <3>1
    <2>5. CASE ~ (p # mgr.syncPeer /\ ~cur)
        <3>1. PeersOK(ps2, V, U) /\ SameRequests(ps, ps2)
            <4>1. /\ PeersOK([ps1 EXCEPT ![p].last = last], V, U)
                  /\ SameRequests(ps1, [ps1 EXCEPT ![p].last = last])
                BY <2>1, <2>2, NumbersOK
            <4> DEFINE t == [ps1 EXCEPT ![p].last = last]
            <4>2. ps2 = t \/ ps2 = ps1
                OBVIOUS
            <4>3. SameRequests(ps, t)
                BY <2>2, <4>1, SameTrans
            <4> HIDE DEF ps2, t
            <4> QED BY <2>2, <4>1, <4>2, <4>3 DEF t
        <3> HIDE DEF ps2
        <3>2. s = [m |-> mgr, ps |-> s.ps] /\ PeersOK(s.ps, V, U) /\ SameRequests(ps2, s.ps)
            BY <1>4, <3>1, InventoryOK
        <3> HIDE DEF s
        <3>3. queue \in Seq(Block)
            BY <3>2, PeerFields DEF PeerRec
        <3> HIDE DEF queue
        <3>4. asked \in Seq(Block) /\ after \in Seq(Block)
            BY <3>3, RequestFromType
        <3> HIDE DEF asked, after
        <3> DEFINE q1 == Requeued(s.ps, p, after)
        <3>5. PeersOK(q1, V, U) /\ SameRequests(s.ps, q1)
            BY <3>2, <3>4, RequeuedOK
        <3>6. sq = [m |-> mgr, ps |-> q1]
            BY <3>2 DEF Requeued
        <3> HIDE DEF q1, sq
        <3>7. SameRequests(ps, q1)
            BY <3>1, <3>2, <3>5, SameTrans
        <3>8. KeptBy(p, mgr, ps, mgr, q1)
            BY <3>7, KeptSame
        <3> DEFINE t == Request([m |-> mgr, ps |-> q1], p, asked)
        <3>9. /\ MgrOK(t.m) /\ PeersOK(t.ps, V, U)
              /\ \A G : p \in G /\ G \subseteq Peer /\ AskedOf(mgr, q1, G) => AskedOf(t.m, t.ps, G)
              /\ \A C : SyncedWith(mgr, C) => SyncedWith(t.m, C)
            BY <3>4, <3>5, RequestOK
        <3>10. s1 = t
            BY <3>6
        <3> HIDE DEF s1, t
        <3>11. KeptBy(p, mgr, q1, t.m, t.ps)
            BY <3>9 DEF KeptBy
        <3>12. PICK r \in Limited(t.m.requested) : mgr' = [t.m EXCEPT !.requested = r]
            BY <1>1, <1>4, <2>5, <3>10
        <3>13. peer' = t.ps
            BY <1>1, <1>4, <2>5, <3>10
        <3>14. r \subseteq t.m.requested
            BY <3>12 DEF Limited
        <3>15. /\ t.m \in MgrRec
               /\ (t.m.headersFirst => t.m.syncPeer # Nobody /\ t.m.nextCheckpoint # 0)
            BY <3>9 DEF MgrOK
        <3>16. t.m.requested \subseteq Block
            BY <3>15 DEF MgrRec
        <3>17. r \in SUBSET Block
            BY <3>14, <3>16
        <3> DEFINE n == [t.m EXCEPT !.requested = r]
        <3>18. /\ n \in MgrRec /\ n.requested = r /\ n.syncPeer = t.m.syncPeer
               /\ n.candidates = t.m.candidates /\ n.headersFirst = t.m.headersFirst
               /\ n.nextCheckpoint = t.m.nextCheckpoint
            BY <3>15, <3>17 DEF MgrRec
        <3>19. mgr' = n
            BY <3>12
        <3> HIDE DEF n
        <3>20. MgrOK(n)
            BY <3>15, <3>18 DEF MgrOK
        <3>21. SameRequests(t.ps, t.ps)
            BY DEF SameRequests
        <3>22. KeptBy(p, t.m, t.ps, n, t.ps)
            BY <3>14, <3>18, <3>21, KeptSame
        <3>23. KeptBy(p, mgr, ps, n, t.ps)
            BY <3>8, <3>11, <3>22, KeptTrans
        <3> QED BY <1>1, <3>9, <3>13, <3>19, <3>20, <3>23
    <2> QED BY <2>4, <2>5
<1> QED BY <1>3, <1>4

(* The handler of a headers message. *)
LEMMA HandleHeadersOK ==
    ASSUME NEW ps, NEW V, NEW U, MgrOK(mgr), PeersOK(ps, V, U), up \cap U = {},
           NEW p \in Peer, NEW hs \in Seq(Nat \ {0}), HandleHeaders(p, hs, ps)
    PROVE  /\ MgrOK(mgr') /\ PeersOK(peer', V, U) /\ KeptBy(p, mgr, ps, mgr', peer')
           /\ up' \subseteq up
<1> DEFINE m == mgr
           linked == m.headers # <<>> /\ Last(m.headers) + 1 = hs[1]
           upTo == IF hs[1] > m.nextCheckpoint THEN hs ELSE Only(hs, 1..m.nextCheckpoint)
           got == m.nextCheckpoint \in ToSet(upTo)
           all == m.headers \o upTo
           sh == IF m.startHeader = 0 THEN hs[1] ELSE m.startHeader
           m1 == [m EXCEPT !.headers = all, !.startHeader = sh]
           m2 == [m1 EXCEPT !.headers = Tail(m1.headers)]
           t  == FetchHeaderBlocks([m |-> m2, ps |-> ps], chain)
           q1 == PushGetHeaders(ps, p, Last(upTo), m.nextCheckpoint)
           s  == IF got THEN t ELSE [m |-> m1, ps |-> q1]
<1>1. IF ~m.headersFirst \/ (hs # <<>> /\ ~linked)
      THEN /\ up' = up \ {p}
           /\ peer' = Dropped(ps, p)
           /\ mgr' = m
      ELSE /\ mgr' = IF hs = <<>> THEN m ELSE s.m
           /\ peer' = IF hs = <<>> THEN ps ELSE s.ps
           /\ up' = up
    BY DEF HandleHeaders
<1> HIDE DEF linked
<1>2. m \in MgrRec /\ (m.headersFirst => m.syncPeer # Nobody /\ m.nextCheckpoint # 0)
    BY DEF MgrOK
<1>3. m.headers \in Seq(Nat) /\ m.startHeader \in Nat /\ m.nextCheckpoint \in Nat
    BY <1>2 DEF MgrRec
<1>4. SameRequests(ps, ps)
    BY DEF SameRequests
<1>5. CASE ~m.headersFirst \/ (hs # <<>> /\ ~linked)
    <2>1. PeersOK(Dropped(ps, p), V, U) /\ SameRequests(ps, Dropped(ps, p))
        BY DroppedOK
    <2>2. KeptBy(p, m, ps, m, Dropped(ps, p))
        BY <2>1, KeptSame
    <2> QED BY <1>1, <1>5, <2>1, <2>2
<1>6. CASE m.headersFirst /\ hs = <<>>
    <2>1. KeptBy(p, m, ps, m, ps)
        BY <1>4, KeptSame
    <2>2. mgr' = m /\ peer' = ps /\ up' = up
        BY <1>1, <1>6
    <2> QED BY <2>1, <2>2
<1>7. CASE m.headersFirst /\ hs # <<>> /\ linked
    <2>1. hs[1] \in Nat \ {0} /\ 1 \in DOMAIN hs
        BY <1>7, LastType
    <2>2. upTo \in Seq(Nat) /\ upTo # <<>>
        <3>1. CASE hs[1] > m.nextCheckpoint
            <4>1. upTo = hs
                BY <3>1
            <4> HIDE DEF upTo
            <4> QED BY <1>7, <4>1
        <3>2. CASE ~ (hs[1] > m.nextCheckpoint)
            <4> DEFINE o == Only(hs, 1..m.nextCheckpoint)
            <4>1. upTo = o
                BY <3>2
            <4>2. hs[1] \in 1..m.nextCheckpoint
                BY <1>3, <2>1, <3>2
            <4>3. o # <<>>
                BY <2>1, <4>2, OnlyNonEmpty
            <4>4. o \in Seq((Nat \ {0}) \cap (1..m.nextCheckpoint))
                BY OnlyType
            <4> HIDE DEF upTo, o
            <4> QED BY <4>1, <4>3, <4>4
        <3> QED BY <3>1, <3>2
    <2> HIDE DEF upTo
    <2>3. Last(upTo) \in Nat
        BY <2>2, LastType
    <2>4. all \in Seq(Nat) /\ all # <<>> /\ Tail(all) \in Seq(Nat)
        <3>1. all \in Seq(Nat) /\ Len(all) = Len(m.headers) + Len(upTo)
            BY <1>3, <2>2
        <3>2. Len(upTo) \in Nat /\ Len(upTo) # 0 /\ Len(m.headers) \in Nat
            BY <1>3, <2>2
        <3> HIDE DEF all
        <3>3. Len(all) # 0
            BY <3>1, <3>2
        <3>4. all # <<>>
            BY <3>3
        <3> QED BY <3>1, <3>4
    <2>5. sh \in Nat
        BY <1>3, <2>1
    <2> HIDE DEF all, sh
    <2>6. /\ m1 \in MgrRec /\ m1.requested = m.requested /\ m1.syncPeer = m.syncPeer
          /\ m1.candidates = m.candidates /\ m1.headersFirst = m.headersFirst
          /\ m1.nextCheckpoint = m.nextCheckpoint /\ m1.headers = all
        BY <1>2, <2>4, <2>5 DEF MgrRec
    <2> HIDE DEF m1
    <2>7. Tail(m1.headers) \in Seq(Nat)
        BY <2>4, <2>6
    <2> DEFINE tl == Tail(m1.headers)
    <2>8. /\ m2 \in MgrRec /\ m2.requested = m.requested /\ m2.syncPeer = m.syncPeer
          /\ m2.candidates = m.candidates /\ m2.headersFirst = m.headersFirst
          /\ m2.nextCheckpoint = m.nextCheckpoint
        <3>1. m2 = [m1 EXCEPT !.headers = tl]
            OBVIOUS
        <3> HIDE DEF tl, m2
        <3>2. tl \in Seq(Nat)
            BY <2>7 DEF tl
        <3> QED BY <2>6, <3>1, <3>2 DEF MgrRec
    <2> HIDE DEF m2
    <2>9. MgrOK(m1) /\ MgrOK(m2) /\ m2.syncPeer # Nobody
        BY <1>2, <1>7, <2>6, <2>8 DEF MgrOK
    <2>10. KeptBy(p, m, ps, m2, ps)
        BY <1>4, <2>8, KeptSame
    <2>11. MgrOK(t.m) /\ PeersOK(t.ps, V, U) /\ KeptBy(p, m2, ps, t.m, t.ps)
        BY <2>9, FetchKept
    <2> HIDE DEF t
    <2>12. KeptBy(p, m, ps, t.m, t.ps)
        BY <2>10, <2>11, KeptTrans
    <2>13. PeersOK(q1, V, U) /\ SameRequests(ps, q1)
        BY <1>3, <2>3, PushGetHeadersOK
    <2> HIDE DEF q1
    <2>14. KeptBy(p, m, ps, m1, q1)
        BY <2>6, <2>13, KeptSame
    <2>15. MgrOK(s.m) /\ PeersOK(s.ps, V, U) /\ KeptBy(p, m, ps, s.m, s.ps)
        <3>1. CASE got
            BY <2>11, <2>12, <3>1
        <3>2. CASE ~got
            BY <2>9, <2>13, <2>14, <3>2
        <3> QED BY <3>1, <3>2
    <2> HIDE DEF s, m
    <2>16. mgr' = s.m /\ peer' = s.ps /\ up' = up
        BY <1>1, <1>7
    <2> QED BY <2>15, <2>16 DEF m
<1> QED BY <1>5, <1>6, <1>7

(* What a peer answers to a locator. *)
LEMMA LocatedType ==
    ASSUME NEW p \in Peer, tip[p] \in Nat, NEW begin \in Nat, NEW stop, NEW max \in Nat
    PROVE  Located(p, begin, stop, max) \in Seq(Nat \ {0})
<1> DEFINE first == (IF begin <= tip[p] THEN begin ELSE tip[p]) + 1
           end   == IF stop \in 1..tip[p] THEN stop ELSE tip[p]
           last  == IF end >= first + max THEN first + max - 1 ELSE end
           n     == IF last < first THEN 0 ELSE last - first + 1
<1>1. Located(p, begin, stop, max) = [i \in 1..n |-> first + i - 1]
    BY DEF Located
<1>2. first \in Nat /\ first >= 1
    OBVIOUS
<1> HIDE DEF first
<1>3. end \in Int
    OBVIOUS
<1> HIDE DEF end
<1>4. last \in Int
    BY <1>2, <1>3
<1> HIDE DEF last
<1>5. n \in Nat
    BY <1>2, <1>4
<1> HIDE DEF n
<1>6. \A i \in 1..n : first + i - 1 \in Nat \ {0}
    BY <1>2, <1>5
<1>7. [i \in 1..n |-> first + i - 1] \in Seq(Nat \ {0})
    BY <1>5, <1>6, IsASeq
<1> QED BY <1>1, <1>7

-----------------------------------------------------------------------------
(* The invariant. *)

(* The peers that are not announced, that never connected, that are not    *)
(* gone, and that are announced and nothing else.                          *)
Unannounced(td) == {p \in Peer : "new" \notin ToSet(td[p])}
Unconnected(tp) == {p \in Peer : tp[p] = -1}
NotGone(td) == {p \in Peer : "done" \notin ToSet(td[p])}
Announced(td) == {p \in Peer : td[p] = <<"new">>}

(* A message of the peer was handled behind its donePeerMsg.               *)
LateIn(td, p) == \E i \in 1..(Len(td[p]) - 1) : td[p][i] = "done"

(* What blockHandler was told of each peer: unless a message overtook the  *)
(* donePeerMsg, the peer was announced at most once and then gone.         *)
ToldOK(td, tp, u) ==
    /\ td \in [Peer -> Seq({"new", "done", "late"})]
    /\ \A p \in Peer : tp[p] = -1 => td[p] = <<>> /\ p \notin u
    /\ \A p \in Peer : LateIn(td, p)
          \/ td[p] \in {<<>>, <<"new">>, <<"done">>, <<"new", "done">>}

(* Nobody waits for a block of a peer that is gone, and the sync peer and  *)
(* the candidates are announced, unless a message came late.               *)
RequestsOK(m, ps, td) ==
    (\A p \in Peer : ~LateIn(td, p))
        => AskedOf(m, ps, NotGone(td)) /\ SyncedWith(m, Announced(td))

(* The inductive invariant of the block manager.                           *)
SyncInv ==
    /\ BestOK(chain, chainState)
    /\ MgrOK(mgr)
    /\ PeersOK(peer, Unannounced(told), Unconnected(tip))
    /\ up \subseteq Peer
    /\ tip \in [Peer -> -1..Chain]
    /\ HeightsOK(heights)
    /\ ToldOK(told, tip, up)
    /\ RequestsOK(mgr, peer, told)

LEMMA SyncInvImplies == SyncInv => SyncSound
<1> SUFFICES ASSUME SyncInv PROVE SyncSound
    OBVIOUS
<1>1. mgr \in MgrRec /\ (mgr.headersFirst => mgr.syncPeer # Nobody /\ mgr.nextCheckpoint # 0)
    BY DEF SyncInv, MgrOK
<1>2. TypeOK
    <2>1. /\ mgr.syncPeer \in Peer \union {Nobody} /\ mgr.requested \subseteq Block
          /\ mgr.ever \in [Block -> -1..(MaxResend + 1)]
        BY <1>1 DEF MgrRec
    <2> QED BY <2>1 DEF TypeOK, SyncInv, BestOK, ChainOK
<1>3. ASSUME \A p \in Peer : ~HeardLate(p)
      PROVE  /\ \A b \in mgr.requested :
                   \E p \in Peer : b \in peer[p].requested /\ "done" \notin ToSet(told[p])
             /\ mgr.syncPeer # Nobody => told[mgr.syncPeer] = <<"new">>
    <2>1. \A p \in Peer : ~LateIn(told, p)
        BY <1>3 DEF HeardLate, LateIn
    <2>2. AskedOf(mgr, peer, NotGone(told)) /\ SyncedWith(mgr, Announced(told))
        BY <2>1 DEF SyncInv, RequestsOK
    <2> QED BY <2>2 DEF AskedOf, SyncedWith, NotGone, Announced
<1> QED BY <1>1, <1>2, <1>3 DEF SyncSound, SyncInv, BestOK

LEMMA SyncInitial == Init => SyncInv
<1> SUFFICES ASSUME Init PROVE SyncInv
    OBVIOUS
<1>1. StartHeight \in Nat /\ StartHeight \in 0..Chain /\ Chain \in Nat /\ MaxResend \in Nat
    BY SyncAssumption
<1>2. BestOK(chain, chainState)
    BY <1>1 DEF Init, BestOK, ChainOK, UpdateChainState
<1> DEFINE next == NextCheckpoint(StartHeight)
           e == [b \in Block |-> -1]
           m == [candidates |-> <<>>, syncPeer |-> Nobody, requested |-> {},
                 ever |-> e, headersFirst |-> FALSE, headers |-> <<>>, startHeader |-> 0,
                 nextCheckpoint |-> next]
<1>3. next \in Nat
    BY <1>1, NextCheckpointType
<1>4. e \in [Block -> -1..(MaxResend + 1)]
    BY <1>1
<1>5. mgr = ResetHeaders(m, StartHeight)
    BY DEF Init
<1> HIDE DEF next, e
<1>6. /\ m \in MgrRec /\ m.requested = {} /\ m.syncPeer = Nobody /\ m.candidates = <<>>
    BY <1>3, <1>4 DEF MgrRec
<1> HIDE DEF m
<1>7. /\ mgr \in MgrRec /\ ~mgr.headersFirst /\ mgr.requested = {} /\ mgr.syncPeer = Nobody
      /\ mgr.candidates = <<>>
    BY <1>1, <1>5, <1>6, ResetHeadersOK
<1>8. MgrOK(mgr)
    BY <1>7 DEF MgrOK
<1>9. NoPeer \in PeerRec /\ NoPeer.wire = <<>>
    BY DEF NoPeer, PeerRec
<1>10. PeersOK(peer, Unannounced(told), Unconnected(tip))
    <2>1. peer = [p \in Peer |-> NoPeer]
        BY DEF Init
    <2>2. DOMAIN <<>> = {}
        OBVIOUS
    <2> QED BY <1>9, <2>1, <2>2 DEF PeersOK
<1>11. up \subseteq Peer /\ tip \in [Peer -> -1..Chain] /\ HeightsOK(heights)
    BY <1>1 DEF Init, HeightsOK
<1>12. ToldOK(told, tip, up)
    BY DEF Init, ToldOK
<1>13. RequestsOK(mgr, peer, told)
    BY <1>7 DEF RequestsOK, AskedOf, SyncedWith
<1> QED BY <1>2, <1>8, <1>10, <1>11, <1>12, <1>13 DEF SyncInv

(* One more message about a peer. *)
Noted(td, p, x) == [td EXCEPT ![p] = Append(td[p], x)]

LEMMA ToldAppend ==
    ASSUME NEW td, NEW tp, NEW u, ToldOK(td, tp, u), NEW p \in Peer, tp[p] # -1,
           NEW x \in {"new", "done", "late"}, x = "new" => "new" \notin ToSet(td[p]),
           x = "late" => "done" \in ToSet(td[p])
    PROVE  LET te == Noted(td, p, x)
           IN /\ ToldOK(te, tp, u)
              /\ \A y \in Peer : LateIn(td, y) => LateIn(te, y)
              /\ "done" \in ToSet(td[p]) => LateIn(te, p)
              /\ "new" \in ToSet(te[p]) <=> "new" \in ToSet(td[p]) \/ x = "new"
              /\ "done" \in ToSet(te[p]) <=> "done" \in ToSet(td[p]) \/ x = "done"
              /\ te[p] = Append(td[p], x) /\ (\A y \in Peer : y # p => te[y] = td[y])
<1> DEFINE S == {"new", "done", "late"}
           n == Len(td[p])
           te == Noted(td, p, x)
<1>0. te = [td EXCEPT ![p] = Append(td[p], x)]
    BY DEF Noted
<1> HIDE DEF te
<1>1. td \in [Peer -> Seq(S)] /\ td[p] \in Seq(S)
    BY DEF ToldOK
<1>2. n \in Nat /\ DOMAIN td[p] = 1..n
    BY <1>1, LenProperties
<1>3. te[p] = Append(td[p], x) /\ (\A y \in Peer : y # p => te[y] = td[y])
    BY <1>0, <1>1
<1>4. /\ te[p] \in Seq(S) /\ Len(te[p]) = n + 1
      /\ \A i \in 1..n : te[p][i] = td[p][i]
      /\ te[p][n + 1] = x
    BY <1>1, <1>3
<1>5. te \in [Peer -> Seq(S)]
    BY <1>0, <1>1, <1>4
<1>6. \A y \in Peer : LateIn(td, y) => LateIn(te, y)
    <2> TAKE y \in Peer
    <2>1. CASE y # p
        BY <2>1, <1>3 DEF LateIn
    <2>2. CASE y = p
        <3> HAVE LateIn(td, y)
        <3>1. PICK i \in 1..(n - 1) : td[p][i] = "done"
            BY <2>2 DEF LateIn
        <3>2. i \in 1..n /\ te[p][i] = "done" /\ i \in 1..(Len(te[p]) - 1)
            BY <3>1, <1>2, <1>4
        <3> QED BY <2>2, <3>2 DEF LateIn
    <2> QED BY <2>1, <2>2
<1>7. "done" \in ToSet(td[p]) => LateIn(te, p)
    <2> HAVE "done" \in ToSet(td[p])
    <2>1. PICK i \in 1..n : td[p][i] = "done"
        BY <1>2 DEF ToSet
    <2>2. te[p][i] = "done" /\ i \in 1..(Len(te[p]) - 1)
        BY <2>1, <1>2, <1>4
    <2> QED BY <2>2 DEF LateIn
<1>8. ToSet(te[p]) = ToSet(td[p]) \cup {x}
    <2>1. DOMAIN te[p] = 1..(n + 1)
        BY <1>2, <1>4
    <2>2. \A i \in 1..(n + 1) : i \in 1..n \/ i = n + 1
        BY <1>2
    <2>3. n + 1 \in 1..(n + 1) /\ 1..n \subseteq 1..(n + 1)
        BY <1>2
    <2>4. ToSet(te[p]) = {te[p][i] : i \in 1..(n + 1)} /\ ToSet(td[p]) = {td[p][i] : i \in 1..n}
        BY <1>2, <2>1 DEF ToSet
    <2> QED BY <2>2, <2>3, <2>4, <1>4
<1>9. ASSUME NEW y \in Peer
      PROVE  LateIn(te, y) \/ te[y] \in {<<>>, <<"new">>, <<"done">>, <<"new", "done">>}
    <2>1. CASE y # p
        BY <2>1, <1>3, <1>6 DEF ToldOK
    <2>2. CASE y = p /\ LateIn(td, p)
        BY <2>2, <1>6
    <2>3. CASE y = p /\ "done" \in ToSet(td[p])
        BY <2>3, <1>7
    <2>4. CASE y = p /\ ~LateIn(td, p) /\ "done" \notin ToSet(td[p])
        <3>1. td[p] \in {<<>>, <<"new">>, <<"done">>, <<"new", "done">>}
            BY <2>4 DEF ToldOK
        <3>2. "done" \in ToSet(<<"done">>) /\ "done" \in ToSet(<<"new", "done">>)
            BY DEF ToSet
        <3>3. "new" \in ToSet(<<"new">>)
            BY DEF ToSet
        <3>4. td[p] = <<>> \/ (td[p] = <<"new">> /\ x # "new")
            BY <2>4, <3>1, <3>2, <3>3
        <3>5. x # "late"
            BY <2>4
        <3>6. /\ Append(<<>>, "new") = <<"new">> /\ Append(<<>>, "done") = <<"done">>
              /\ Append(<<"new">>, "done") = <<"new", "done">>
            <4>1. \A a : Append(<<>>, a) = <<a>>
                OBVIOUS
            <4>2. Append(<<"new">>, "done") = <<"new", "done">>
                <5>1. <<"new">> \in Seq(S) /\ "done" \in S /\ <<"new", "done">> \in Seq(S)
                    OBVIOUS
                <5> DEFINE z == Append(<<"new">>, "done")
                <5>2. z \in Seq(S) /\ Len(z) = 2 /\ z[1] = "new" /\ z[2] = "done"
                    BY <5>1
                <5>3. Len(<<"new", "done">>) = 2
                    OBVIOUS
                <5> HIDE DEF z
                <5>4. \A i \in 1..Len(z) : i = 1 \/ i = 2
                    BY <5>2
                <5>5. \A i \in 1..Len(z) : z[i] = <<"new", "done">>[i]
                    BY <5>2, <5>4
                <5>6. z = <<"new", "done">>
                    BY <5>1, <5>2, <5>3, <5>5, SeqEqual
                <5> QED BY <5>6 DEF z
            <4> QED BY <4>1, <4>2, Zenon
        <3> QED BY <2>4, <1>3, <3>4, <3>5, <3>6
    <2> QED BY <2>1, <2>2, <2>3, <2>4
<1>10. ToldOK(te, tp, u)
    <2>1. ASSUME NEW y \in Peer, tp[y] = -1 PROVE te[y] = <<>> /\ y \notin u
        BY <2>1, <1>3 DEF ToldOK
    <2> QED BY <1>5, <1>9, <2>1 DEF ToldOK
<1> QED BY <1>3, <1>6, <1>7, <1>8, <1>10 DEF te

(* A message that is handled behind the donePeerMsg is noted. *)
LEMMA OvertakenOK ==
    ASSUME ToldOK(told, tip, up), NEW p \in Peer, tip[p] # -1
    PROVE  LET te == Overtaken(p)
           IN /\ ToldOK(te, tip, up)
              /\ Unannounced(te) = Unannounced(told)
              /\ (\A y \in Peer : ~LateIn(te, y))
                    => te = told /\ p \in NotGone(told)
<1> DEFINE te == Overtaken(p)
<1>1. CASE "done" \notin ToSet(told[p])
    BY <1>1 DEF Overtaken, NotGone
<1>2. CASE "done" \in ToSet(told[p])
    <2>0. PICK x \in {"new", "done", "late"} : x = "late"
        OBVIOUS
    <2>1. te = Noted(told, p, x)
        BY <1>2, <2>0 DEF Overtaken, Noted
    <2> HIDE DEF te
    <2>2. x # "new"
        BY <2>0
    <2>3. /\ ToldOK(te, tip, up)
          /\ LateIn(te, p)
          /\ "new" \in ToSet(te[p]) <=> "new" \in ToSet(told[p])
          /\ \A y \in Peer : y # p => te[y] = told[y]
        <3>1. x = "new" => "new" \notin ToSet(told[p])
            BY <2>2
        <3>2. x = "late" => "done" \in ToSet(told[p])
            BY <1>2
        <3> QED BY <1>2, <2>1, <2>2, <3>1, <3>2, ToldAppend
    <2>4. Unannounced(te) = Unannounced(told)
        BY <2>2, <2>3 DEF Unannounced
    <2> QED BY <2>3, <2>4 DEF te
<1> QED BY <1>1, <1>2

(* The sets of peers that the invariant is about. *)
LEMMA AnnouncedNotGone ==
    ASSUME NEW td PROVE Announced(td) \subseteq NotGone(td) /\ NotGone(td) \subseteq Peer
<1>1. "done" \notin ToSet(<<"new">>)
    BY DEF ToSet
<1> QED BY <1>1 DEF Announced, NotGone

-----------------------------------------------------------------------------
(* The steps. *)

(* What a step has to do: keep the invariant and, if it changes the        *)
(* lottery data, take it from the best block or connect orphans.           *)
SyncStep == SyncInv' /\ LotteryOK(chain, chain', chainState, chainState')

(* A step that is told nothing and requests nothing. *)
LEMMA QuietStep ==
    ASSUME SyncInv, UNCHANGED <<told, mgr>>, SameRequests(peer, peer')
    PROVE  MgrOK(mgr') /\ RequestsOK(mgr', peer', told')
<1>2. ASSUME AskedOf(mgr, peer, NotGone(told)) PROVE AskedOf(mgr, peer', NotGone(told))
    BY <1>2 DEF AskedOf, SameRequests, NotGone
<1>3. mgr' = mgr /\ told' = told
    OBVIOUS
<1> QED BY <1>2, <1>3 DEF SyncInv, RequestsOK

LEMMA ConnectPeerStep ==
    ASSUME SyncInv, NEW p \in Peer, ConnectPeer(p) PROVE SyncStep
<1> DEFINE V == Unannounced(told)
           U == Unconnected(tip)
           W == Unconnected(tip')
           a == TipAtFirst[p]
           k == RealKeyHeight(a)
           w == <<Version>>
           r == [[[peer[p] EXCEPT !.wire = w] EXCEPT !.last = a] EXCEPT !.lastKey = k]
<1>1. PeersOK(peer, V, U) /\ ToldOK(told, tip, up) /\ tip \in [Peer -> -1..Chain]
    BY DEF SyncInv
<1>2. Chain \in Nat /\ a \in 0..Chain /\ a \in Nat /\ k \in Nat
    BY SyncAssumption, KeyHeightType DEF TipAtFirst
<1>3. peer[p] \in PeerRec /\ peer \in [Peer -> PeerRec] /\ told[p] = <<>>
    BY <1>1 DEF PeersOK, ToldOK, ConnectPeer
<1>4. peer' = [peer EXCEPT ![p] = r]
    BY <1>3 DEF ConnectPeer, Version
<1>5. tip' = [tip EXCEPT ![p] = a] /\ up' = up \cup {p}
    BY DEF ConnectPeer
<1>6. UNCHANGED <<chain, chainState, mgr, told, heights>>
    BY DEF ConnectPeer
<1> HIDE DEF a, k
<1>7. tip' \in [Peer -> -1..Chain] /\ up' \subseteq Peer
    BY <1>1, <1>2, <1>5 DEF SyncInv
<1>8. tip'[p] # -1 /\ \A y \in Peer : y # p => tip'[y] = tip[y]
    BY <1>1, <1>2, <1>5
<1>9. ToldOK(told', tip', up')
    BY <1>1, <1>5, <1>6, <1>8 DEF ToldOK
<1>10. W \subseteq U /\ p \notin W /\ p \in V
    <2>1. ToSet(<<>>) = {}
        BY DEF ToSet
    <2> QED BY <1>3, <1>8, <2>1 DEF Unconnected, Unannounced
<1> HIDE DEF V, U, W
<1>11. w \in Seq(Later \cup {Version}) /\ w[1] = Version /\ DOMAIN w = {1}
    OBVIOUS
<1> HIDE DEF w
<1>12. r \in PeerRec /\ r.wire = w /\ r.requested = peer[p].requested
    BY <1>2, <1>3, <1>11 DEF PeerRec
<1> HIDE DEF r
<1>13. PeersOK(peer, V, W)
    BY <1>1, <1>10 DEF PeersOK
<1>14. PeersOK(peer', V, W)
    BY <1>4, <1>10, <1>11, <1>12, <1>13, OnePeer
<1>15. SameRequests(peer, peer')
    BY <1>3, <1>4, <1>12 DEF SameRequests
<1>16. MgrOK(mgr') /\ RequestsOK(mgr', peer', told')
    BY <1>6, <1>15, QuietStep
<1>17. BestOK(chain', chainState') /\ HeightsOK(heights')
    BY <1>6 DEF SyncInv
<1>18. PeersOK(peer', Unannounced(told'), Unconnected(tip'))
    BY <1>6, <1>14 DEF V, W
<1> QED BY <1>6, <1>7, <1>9, <1>16, <1>17, <1>18 DEF SyncStep, SyncInv, LotteryOK

(* The wire of a peer changes and nothing else that the invariant is about. *)
LEMMA WireStep ==
    ASSUME SyncInv, NEW p \in Peer, NEW w \in Seq(Later \cup {Version}),
           \A i \in DOMAIN w : w[i] \in Later \/ (i = 1 /\ p \in Unannounced(told)),
           p \in Unconnected(tip) => w = <<>>, peer' = Rewired(peer, p, w),
           UNCHANGED <<chain, chainState, mgr, told, heights>>, up' \subseteq up,
           tip' \in [Peer -> -1..Chain], Unconnected(tip') = Unconnected(tip)
    PROVE  SyncStep
<1>1. PeersOK(peer', Unannounced(told), Unconnected(tip)) /\ SameRequests(peer, peer')
    BY RewiredOK DEF SyncInv
<1>2. MgrOK(mgr') /\ RequestsOK(mgr', peer', told')
    BY <1>1, QuietStep
<1>3. PeersOK(peer', Unannounced(told'), Unconnected(tip'))
    BY <1>1
<1>4. BestOK(chain', chainState') /\ HeightsOK(heights') /\ up' \subseteq Peer
    BY DEF SyncInv
<1>5. ToldOK(told', tip', up')
    <2>1. \A y \in Peer : tip'[y] = -1 => tip[y] = -1
        BY DEF Unconnected
    <2>2. ToldOK(told, tip, up)
        BY DEF SyncInv
    <2> QED BY <2>1, <2>2 DEF ToldOK
<1> QED BY <1>2, <1>3, <1>4, <1>5 DEF SyncStep, SyncInv, LotteryOK

(* What is on the wire of a connected peer. *)
LEMMA WireFacts ==
    ASSUME SyncInv, NEW p \in Peer
    PROVE  /\ peer[p].wire \in Seq(Later \cup {Version})
           /\ \A i \in DOMAIN peer[p].wire :
                 peer[p].wire[i] \in Later \/ (i = 1 /\ p \in Unannounced(told))
           /\ p \in Unconnected(tip) => peer[p].wire = <<>>
           /\ p \in up => p \notin Unconnected(tip)
           /\ p \notin Unconnected(tip) => tip[p] \in 0..Chain /\ tip[p] \in Nat
           /\ Chain \in Nat
<1>1. Chain \in Nat /\ tip[p] \in -1..Chain
    BY SyncAssumption DEF SyncInv
<1>2. p \notin Unconnected(tip) => tip[p] # -1
    BY DEF Unconnected
<1>3. p \in up => p \notin Unconnected(tip)
    BY DEF SyncInv, ToldOK, Unconnected
<1> QED BY <1>1, <1>2, <1>3, PeerFields DEF SyncInv

LEMMA DisconnectStep ==
    ASSUME SyncInv, NEW p \in Peer, Disconnect(p) PROVE SyncStep
<1> DEFINE v == peer[p].wire
<1>1. PICK n \in 0..1 : n <= Len(v) /\ peer' = [peer EXCEPT ![p].wire = SubSeq(v, 1, n)]
    BY DEF Disconnect
<1>2. v \in Seq(Later \cup {Version}) /\ Len(v) \in Nat
    BY WireFacts, LenProperties
<1>3. \A i \in DOMAIN v : v[i] \in Later \/ (i = 1 /\ p \in Unannounced(told))
    BY WireFacts
<1> HIDE DEF v
<1> DEFINE w == SubSeq(v, 1, n)
<1>4. w \in Seq(Later \cup {Version}) /\ Len(w) = n
    BY <1>1, <1>2
<1>5. ASSUME NEW i \in DOMAIN w PROVE w[i] = v[i] /\ i \in DOMAIN v
    BY <1>1, <1>2, <1>4
<1>6. peer' = Rewired(peer, p, w)
    BY <1>1 DEF Rewired
<1>7. p \notin Unconnected(tip)
    BY WireFacts DEF Disconnect
<1> HIDE DEF w
<1>8. tip' = tip /\ up' \subseteq up /\ UNCHANGED <<chain, chainState, mgr, told, heights>>
    BY DEF Disconnect
<1>9. tip' \in [Peer -> -1..Chain] /\ Unconnected(tip') = Unconnected(tip)
    BY <1>8 DEF SyncInv
<1>10. \A i \in DOMAIN w : w[i] \in Later \/ (i = 1 /\ p \in Unannounced(told))
    BY <1>3, <1>5
<1> QED BY <1>4, <1>6, <1>7, <1>8, <1>9, <1>10, WireStep

LEMMA HeadersGrowStep ==
    ASSUME SyncInv, NEW p \in Peer, Grow(p) PROVE SyncStep
<1> DEFINE v == peer[p].wire
           e == Msg("inv", tip[p] + 1, 0)
           w == Append(v, e)
<1>1. v \in Seq(Later \cup {Version}) /\ Len(v) \in Nat /\ DOMAIN v = 1..Len(v)
    BY WireFacts, LenProperties
<1>2. \A i \in DOMAIN v : v[i] \in Later \/ (i = 1 /\ p \in Unannounced(told))
    BY WireFacts
<1>3. p \notin Unconnected(tip) /\ tip[p] \in 0..Chain /\ tip[p] < Chain /\ Chain \in Nat
    BY WireFacts DEF Grow
<1>4. e \in Later
    BY <1>3 DEF Msg, Later
<1>5. peer' = Rewired(peer, p, w) /\ tip' = [tip EXCEPT ![p] = tip[p] + 1]
    BY DEF Grow, Rewired
<1> HIDE DEF v, e
<1>6. /\ w \in Seq(Later \cup {Version})
      /\ \A i \in DOMAIN w : w[i] \in Later \/ (i = 1 /\ p \in Unannounced(told))
    <2>1. w \in Seq(Later \cup {Version}) /\ Len(w) = Len(v) + 1 /\ DOMAIN w = 1..(Len(v) + 1)
        BY <1>1, <1>4
    <2>2. \A i \in 1..Len(v) : w[i] = v[i]
        BY <1>1, <1>4
    <2>3. w[Len(v) + 1] = e
        BY <1>1, <1>4
    <2>4. \A i \in 1..(Len(v) + 1) : i \in 1..Len(v) \/ i = Len(v) + 1
        BY <1>1
    <2> HIDE DEF w
    <2> QED BY <1>1, <1>2, <1>4, <2>1, <2>2, <2>3, <2>4
<1> HIDE DEF w
<1>7. up' \subseteq up /\ UNCHANGED <<chain, chainState, mgr, told, heights>>
    BY DEF Grow
<1>8. tip \in [Peer -> -1..Chain]
    BY DEF SyncInv
<1>9. tip' \in [Peer -> -1..Chain]
    BY <1>3, <1>5, <1>8
<1>10. Unconnected(tip') = Unconnected(tip)
    BY <1>3, <1>5, <1>8 DEF Unconnected
<1> QED BY <1>3, <1>5, <1>6, <1>7, <1>9, <1>10, WireStep

LEMMA SendUnaskedStep ==
    ASSUME SyncInv, NEW p \in Peer, NEW b \in Block, SendUnasked(p, b) PROVE SyncStep
<1> DEFINE v == peer[p].wire
           d == GetData(<<b>>)
           w == d \o v
<1>1. v \in Seq(Later \cup {Version}) /\ Len(v) \in Nat /\ DOMAIN v = 1..Len(v)
    BY WireFacts, LenProperties
<1>2. p \notin Unannounced(told)
    BY DEF SendUnasked, Unannounced
<1>3. \A i \in DOMAIN v : v[i] \in Later
    BY WireFacts, <1>2
<1>4. p \notin Unconnected(tip)
    BY WireFacts DEF SendUnasked
<1>5. <<b>> \in Seq(Block)
    OBVIOUS
<1>6. d \in Seq(Later)
    BY <1>5, GetDataType
<1>7. peer' = Rewired(peer, p, w)
    BY DEF SendUnasked, Rewired
<1> HIDE DEF v, d
<1>8. v \in Seq(Later)
    <2>1. v = [i \in 1..Len(v) |-> v[i]]
        BY <1>1
    <2>2. [i \in 1..Len(v) |-> v[i]] \in Seq(Later)
        BY <1>1, <1>3, IsASeq
    <2> QED BY <2>1, <2>2
<1>9. w \in Seq(Later)
    BY <1>6, <1>8
<1> HIDE DEF w
<1>10. w \in Seq(Later \cup {Version}) /\ \A i \in DOMAIN w : w[i] \in Later
    BY <1>9
<1>11. up' \subseteq up /\ tip' = tip /\ UNCHANGED <<chain, chainState, mgr, told, heights>>
    BY DEF SendUnasked
<1>12. tip' \in [Peer -> -1..Chain] /\ Unconnected(tip') = Unconnected(tip)
    BY <1>11 DEF SyncInv
<1> QED BY <1>4, <1>7, <1>10, <1>11, <1>12, WireStep

LEMMA UpdatePeerHeightsStep ==
    ASSUME SyncInv, NEW u, UpdatePeerHeights(u) PROVE SyncStep
<1>1. u \in Nat \X Peer /\ heights' = heights \ {u}
    BY DEF UpdatePeerHeights, SyncInv, HeightsOK
<1>2. UNCHANGED <<chain, chainState, mgr, up, told, tip>>
    BY DEF UpdatePeerHeights
<1>3. PeersOK(peer, Unannounced(told), Unconnected(tip)) /\ peer \in [Peer -> PeerRec]
    BY DEF SyncInv, PeersOK
<1> DEFINE h == u[1]
           r(x) == IF x # u[2] /\ peer[x].announced = h
                   THEN [SetLast(peer, x, h)[x] EXCEPT !.announced = 0]
                   ELSE peer[x]
<1>4. peer' = [x \in Peer |-> r(x)]
    BY DEF UpdatePeerHeights
<1>5. h \in Nat
    BY <1>1
<1> HIDE DEF h
<1>6. ASSUME NEW x \in Peer
      PROVE  r(x) \in PeerRec /\ r(x).wire = peer[x].wire /\ r(x).requested = peer[x].requested
    <2> DEFINE k == RealKeyHeight(h)
               o == IF k = 0 THEN peer[x] ELSE [[peer[x] EXCEPT !.last = h] EXCEPT !.lastKey = k]
               z == [o EXCEPT !.announced = 0]
    <2>1. k \in Nat /\ peer[x] \in PeerRec
        BY <1>3, KeyHeightType
    <2>2. SetLast(peer, x, h)[x] = o
        BY <1>3, <2>1 DEF SetLast
    <2> HIDE DEF k
    <2>3. o \in PeerRec /\ o.wire = peer[x].wire /\ o.requested = peer[x].requested
        BY <1>5, <2>1 DEF PeerRec
    <2>4. r(x) = peer[x] \/ r(x) = z
        BY <2>2
    <2> HIDE DEF o, r
    <2>5. z \in PeerRec /\ z.wire = peer[x].wire /\ z.requested = peer[x].requested
        BY <2>3 DEF PeerRec
    <2> HIDE DEF z
    <2> QED BY <2>1, <2>4, <2>5
<1> HIDE DEF r
<1>7. peer' \in [Peer -> PeerRec] /\ SameRequests(peer, peer')
        /\ \A x \in Peer : peer'[x].wire = peer[x].wire
    BY <1>4, <1>6 DEF SameRequests
<1>8. PeersOK(peer', Unannounced(told), Unconnected(tip))
    BY <1>3, <1>7, SameWires
<1>9. MgrOK(mgr') /\ RequestsOK(mgr', peer', told')
    BY <1>2, <1>7, QuietStep
<1>10. HeightsOK(heights')
    BY <1>1 DEF SyncInv, HeightsOK
<1> QED BY <1>2, <1>8, <1>9, <1>10 DEF SyncStep, SyncInv, LotteryOK

LEMMA ProcessBlockStep ==
    ASSUME SyncInv, ProcessBlock PROVE SyncStep
<1> DEFINE b == chain.best + 1
<1>1. ChainOK(chain) /\ b \in Block
    BY SyncAssumption DEF SyncInv, BestOK, ChainOK, ProcessBlock, Block
<1>2. /\ chain' = [best |-> Adopted(b), orphans |-> {o \in chain.orphans : o > Adopted(b)}]
      /\ chainState' = UpdateChainState(Adopted(b), b)
      /\ UNCHANGED <<mgr, peer, up, told, tip, heights>>
    BY DEF ProcessBlock
<1> HIDE DEF b
<1>3. BestOK(chain', chainState') /\ LotteryOK(chain, chain', chainState, chainState')
    BY <1>1, <1>2, ConnectBlockOK
<1> QED BY <1>2, <1>3 DEF SyncStep, SyncInv

(* handleDonePeerMsg takes back the requests of the peer, and another peer *)
(* becomes the sync peer.                                                  *)
LEMMA HandleDonePeerStep ==
    ASSUME SyncInv, NEW p \in Peer, HandleDonePeer(p) PROVE SyncStep
<1> DEFINE V == Unannounced(told)
           U == Unconnected(tip)
           cand == Only(mgr.candidates, Peer \ {p})
           R == mgr.requested \ peer[p].requested
           m1 == [mgr EXCEPT !.candidates = cand, !.requested = R]
           m2 == [m1 EXCEPT !.syncPeer = Nobody]
           m3 == IF mgr.headersFirst THEN ResetHeaders(m2, chain.best) ELSE m2
           t == StartSync([m |-> m3, ps |-> peer])
           s == IF mgr.syncPeer = p THEN t ELSE [m |-> m1, ps |-> peer]
<1>1. /\ tip[p] # -1 /\ "done" \notin ToSet(told[p])
      /\ mgr' = s.m /\ peer' = s.ps
      /\ told' = Noted(told, p, "done")
      /\ UNCHANGED <<chain, chainState, up, tip, heights>>
    BY DEF HandleDonePeer, Noted
<1>2. /\ PeersOK(peer, V, U) /\ ToldOK(told, tip, up) /\ ChainOK(chain) /\ MgrOK(mgr)
      /\ up \cap U = {}
    BY DEF SyncInv, BestOK, ToldOK, Unconnected
<1>3. mgr \in MgrRec /\ (mgr.headersFirst => mgr.syncPeer # Nobody /\ mgr.nextCheckpoint # 0)
    BY <1>2 DEF MgrOK
<1>4. mgr.candidates \in Seq(Peer) /\ mgr.requested \subseteq Block /\ chain.best \in Nat
    BY <1>2, <1>3, SyncAssumption DEF MgrRec, ChainOK
<1>5. cand \in Seq(Peer) /\ \A C : mgr.candidates \in Seq(C) => cand \in Seq(C \ {p})
    <2>1. cand \in Seq(Peer \cap (Peer \ {p}))
        BY <1>4, OnlyType
    <2>2. ASSUME NEW C, mgr.candidates \in Seq(C) PROVE cand \in Seq(C \ {p})
        <3>1. cand \in Seq(C \cap (Peer \ {p}))
            BY <2>2, OnlyType
        <3>2. C \cap (Peer \ {p}) \subseteq C \ {p}
            OBVIOUS
        <3> HIDE DEF cand
        <3> QED BY <3>1, <3>2
    <2> HIDE DEF cand
    <2> QED BY <2>1, <2>2
<1> HIDE DEF cand
<1>6. R \in SUBSET Block
    BY <1>4
<1>7. R = mgr.requested \ peer[p].requested
    OBVIOUS
<1> HIDE DEF R
<1>8. /\ m1 \in MgrRec /\ m1.candidates = cand /\ m1.requested = R
      /\ m1.syncPeer = mgr.syncPeer /\ m1.headersFirst = mgr.headersFirst
      /\ m1.nextCheckpoint = mgr.nextCheckpoint
    BY <1>3, <1>5, <1>6 DEF MgrRec
<1> HIDE DEF m1
<1>9. /\ m2 \in MgrRec /\ m2.candidates = cand /\ m2.requested = R /\ m2.syncPeer = Nobody
      /\ m2.headersFirst = mgr.headersFirst
    BY <1>8 DEF MgrRec
<1> HIDE DEF m2
<1>10. /\ m3 \in MgrRec /\ m3.candidates = cand /\ m3.requested = R /\ m3.syncPeer = Nobody
       /\ ~m3.headersFirst
    <2>1. CASE mgr.headersFirst
        BY <2>1, <1>4, <1>9, ResetHeadersOK
    <2>2. CASE ~mgr.headersFirst
        BY <2>2, <1>9
    <2> QED BY <2>1, <2>2
<1> HIDE DEF m3
<1>11. MgrOK(m1) /\ MgrOK(m3)
    BY <1>3, <1>8, <1>10 DEF MgrOK
<1>12. /\ MgrOK(t.m) /\ PeersOK(t.ps, V, U)
       /\ \A G : AskedOf(m3, peer, G) /\ G \subseteq Peer => AskedOf(t.m, t.ps, G)
       /\ \A C : SyncedWith(m3, C) => SyncedWith(t.m, C)
    BY <1>2, <1>11, StartSyncOK
<1> HIDE DEF t
<1>14. PICK x \in {"new", "done", "late"} : x = "done"
    OBVIOUS
<1>15. x # "new" /\ x # "late" /\ told' = Noted(told, p, x)
    BY <1>1, <1>14
<1>16. /\ ToldOK(told', tip, up)
       /\ \A y \in Peer : LateIn(told, y) => LateIn(told', y)
       /\ "new" \in ToSet(told'[p]) <=> "new" \in ToSet(told[p])
       /\ \A y \in Peer : y # p => told'[y] = told[y]
    BY <1>1, <1>2, <1>15, ToldAppend
<1>17. Unannounced(told') = V
    BY <1>16 DEF Unannounced
<1>18. MgrOK(mgr') /\ PeersOK(peer', V, U)
    BY <1>1, <1>2, <1>11, <1>12
<1>19. RequestsOK(mgr', peer', told')
    <2> SUFFICES ASSUME \A y \in Peer : ~LateIn(told', y)
                 PROVE  AskedOf(mgr', peer', NotGone(told')) /\ SyncedWith(mgr', Announced(told'))
        BY DEF RequestsOK
    <2>1. AskedOf(mgr, peer, NotGone(told)) /\ SyncedWith(mgr, Announced(told))
        BY <1>16 DEF SyncInv, RequestsOK
    <2> DEFINE G == NotGone(told')
               C == Announced(told')
    <2>2. NotGone(told) \ {p} \subseteq G /\ Announced(told) \ {p} \subseteq C /\ G \subseteq Peer
        BY <1>16 DEF NotGone, Announced
    <2>3. \A x1 \in NotGone(told) : x1 # p => x1 \in G
        BY <2>2
    <2> HIDE DEF G, C
    <2>4. ASSUME NEW b \in R PROVE \E y \in G : b \in peer[y].requested
        <3>1. b \in mgr.requested /\ b \notin peer[p].requested
            BY <1>7
        <3>2. PICK y \in NotGone(told) : b \in peer[y].requested
            BY <2>1, <3>1 DEF AskedOf
        <3>3. y # p
            BY <3>1, <3>2
        <3> QED BY <2>3, <3>2, <3>3
    <2>5. AskedOf(m1, peer, G) /\ AskedOf(m3, peer, G)
        BY <1>8, <1>10, <2>4 DEF AskedOf
    <2>6. cand \in Seq(Announced(told) \ {p})
        BY <1>5, <2>1 DEF SyncedWith
    <2>7. cand \in Seq(C)
        BY <2>2, <2>6
    <2>8. SyncedWith(m3, C)
        BY <1>10, <2>7 DEF SyncedWith
    <2>9. CASE mgr.syncPeer = p
        <3>1. mgr' = t.m /\ peer' = t.ps
            BY <1>1, <2>9
        <3> QED BY <1>12, <2>2, <2>5, <2>8, <3>1 DEF G, C
    <2>10. CASE mgr.syncPeer # p
        <3>1. mgr' = m1 /\ peer' = peer
            BY <1>1, <2>10
        <3>2. SyncedWith(m1, C)
            BY <1>8, <2>1, <2>2, <2>7, <2>10 DEF SyncedWith
        <3> QED BY <2>5, <3>1, <3>2 DEF G, C
    <2> QED BY <2>9, <2>10
<1>20. PeersOK(peer', Unannounced(told'), Unconnected(tip'))
    BY <1>1, <1>17, <1>18
<1>21. BestOK(chain', chainState') /\ HeightsOK(heights') /\ ToldOK(told', tip', up')
           /\ up' \subseteq Peer /\ tip' \in [Peer -> -1..Chain]
    BY <1>1, <1>16 DEF SyncInv
<1>22. LotteryOK(chain, chain', chainState, chainState')
    BY <1>1 DEF LotteryOK
<1> QED BY <1>18, <1>19, <1>20, <1>21, <1>22 DEF SyncStep, SyncInv

(* handleNewPeerMsg: the peer becomes a candidate, and perhaps the sync    *)
(* peer.                                                                   *)
LEMMA HandleNewPeerStep ==
    ASSUME SyncInv, NEW p \in Peer, peer[p].wire # <<>>, peer[p].wire[1].kind = "version",
           HandleNewPeer(p), UNCHANGED tip
    PROVE  SyncStep
<1> DEFINE V == Unannounced(told)
           W == Unannounced(told')
           U == Unconnected(tip)
           cand == Append(mgr.candidates, p)
           m1 == [mgr EXCEPT !.candidates = cand]
           q1 == Rewired(peer, p, Tail(peer[p].wire))
           t == StartSync([m |-> m1, ps |-> q1])
<1>1. /\ mgr' = t.m /\ peer' = t.ps
      /\ told' = Noted(told, p, "new")
      /\ UNCHANGED <<chain, chainState, up, heights>>
    BY DEF HandleNewPeer, Noted, Rewired
<1>2. /\ PeersOK(peer, V, U) /\ ToldOK(told, tip, up) /\ ChainOK(chain) /\ MgrOK(mgr)
      /\ up \cap U = {}
    BY DEF SyncInv, BestOK, ToldOK, Unconnected
<1>3. p \in V /\ p \notin U /\ tip[p] # -1
    <2>1. 1 \in DOMAIN peer[p].wire
        BY WireFacts, LastType
    <2>2. peer[p].wire[1] \notin Later
        BY DEF Later
    <2>3. p \in V /\ p \notin U
        BY <2>1, <2>2, WireFacts
    <2> QED BY <2>3 DEF Unconnected
<1>4. "new" \notin ToSet(told[p])
    BY <1>3 DEF Unannounced
<1>5. PICK x \in {"new", "done", "late"} : x = "new"
    OBVIOUS
<1>6. x # "late" /\ told' = Noted(told, p, x)
    BY <1>1, <1>5
<1>7. /\ ToldOK(told', tip, up)
      /\ \A y \in Peer : LateIn(told, y) => LateIn(told', y)
      /\ "done" \in ToSet(told[p]) => LateIn(told', p)
      /\ "done" \in ToSet(told'[p]) <=> "done" \in ToSet(told[p])
      /\ told'[p] = Append(told[p], x)
      /\ \A y \in Peer : y # p => told'[y] = told[y]
    BY <1>2, <1>3, <1>4, <1>5, <1>6, ToldAppend
<1>8. V \ {p} \subseteq W
    BY <1>7 DEF Unannounced
<1> HIDE DEF W
<1>9. PeersOK(q1, W, U) /\ SameRequests(peer, q1)
    BY <1>2, <1>8, TailOK
<1> HIDE DEF q1
<1>10. mgr \in MgrRec /\ (mgr.headersFirst => mgr.syncPeer # Nobody /\ mgr.nextCheckpoint # 0)
    BY <1>2 DEF MgrOK
<1>11. mgr.candidates \in Seq(Peer)
    BY <1>10 DEF MgrRec
<1>12. cand \in Seq(Peer)
    BY <1>11
<1>13. cand = Append(mgr.candidates, p)
    OBVIOUS
<1> HIDE DEF cand
<1>14. /\ m1 \in MgrRec /\ m1.candidates = cand /\ m1.requested = mgr.requested
       /\ m1.syncPeer = mgr.syncPeer /\ m1.headersFirst = mgr.headersFirst
       /\ m1.nextCheckpoint = mgr.nextCheckpoint
    BY <1>10, <1>12 DEF MgrRec
<1> HIDE DEF m1
<1>15. MgrOK(m1)
    BY <1>10, <1>14 DEF MgrOK
<1>16. /\ MgrOK(t.m) /\ PeersOK(t.ps, W, U)
       /\ \A G : AskedOf(m1, q1, G) /\ G \subseteq Peer => AskedOf(t.m, t.ps, G)
       /\ \A C : SyncedWith(m1, C) => SyncedWith(t.m, C)
    BY <1>2, <1>9, <1>15, StartSyncOK
<1> HIDE DEF t
<1>17. RequestsOK(mgr', peer', told')
    <2> SUFFICES ASSUME \A y \in Peer : ~LateIn(told', y)
                 PROVE  AskedOf(t.m, t.ps, NotGone(told')) /\ SyncedWith(t.m, Announced(told'))
        BY <1>1 DEF RequestsOK
    <2>1. AskedOf(mgr, peer, NotGone(told)) /\ SyncedWith(mgr, Announced(told))
        BY <1>7 DEF SyncInv, RequestsOK
    <2>2. "done" \notin ToSet(told[p]) /\ ~LateIn(told, p)
        BY <1>7
    <2>3. told[p] = <<>>
        <3>1. told[p] \in {<<>>, <<"new">>, <<"done">>, <<"new", "done">>}
            BY <1>2, <2>2 DEF ToldOK
        <3>2. "done" \in ToSet(<<"done">>) /\ "done" \in ToSet(<<"new", "done">>)
            BY DEF ToSet
        <3>3. "new" \in ToSet(<<"new">>)
            BY DEF ToSet
        <3> QED BY <1>4, <2>2, <3>1, <3>2, <3>3
    <2>4. told'[p] = <<"new">>
        <3>1. \A a : Append(<<>>, a) = <<a>>
            OBVIOUS
        <3> QED BY <1>5, <1>7, <2>3, <3>1, Zenon
    <2> DEFINE G == NotGone(told')
               C == Announced(told')
    <2>5. G = NotGone(told) /\ G \subseteq Peer
        BY <1>7, <2>2 DEF NotGone
    <2>6. p \in C /\ Announced(told) \subseteq C
        <3>1. p \in C
            BY <2>4 DEF Announced
        <3>3. \A y \in Peer : y # p /\ y \in Announced(told) => y \in C
            BY <1>7 DEF Announced
        <3>4. Announced(told) \subseteq Peer
            BY DEF Announced
        <3> HIDE DEF C
        <3> QED BY <3>1, <3>3, <3>4
    <2> HIDE DEF G, C
    <2>7. AskedOf(m1, q1, G)
        BY <1>9, <1>14, <2>1, <2>5 DEF AskedOf, SameRequests
    <2>8. SyncedWith(m1, C)
        <3>1. mgr.candidates \in Seq(C)
            BY <2>1, <2>6 DEF SyncedWith
        <3>2. cand \in Seq(C)
            BY <1>13, <2>6, <3>1
        <3> QED BY <1>14, <2>1, <2>6, <3>2 DEF SyncedWith
    <2> QED BY <1>16, <2>5, <2>7, <2>8 DEF G, C
<1>18. MgrOK(mgr') /\ PeersOK(peer', Unannounced(told'), Unconnected(tip'))
    BY <1>1, <1>16 DEF W
<1>19. BestOK(chain', chainState') /\ HeightsOK(heights') /\ ToldOK(told', tip', up')
           /\ up' \subseteq Peer /\ tip' \in [Peer -> -1..Chain]
    BY <1>1, <1>7 DEF SyncInv
<1>20. LotteryOK(chain, chain', chainState, chainState')
    BY <1>1 DEF LotteryOK
<1> QED BY <1>17, <1>18, <1>19, <1>20 DEF SyncStep, SyncInv

(* A message other than the first one of its peer. *)
LEMMA DeliveredStep ==
    ASSUME SyncInv, NEW p \in Peer, p \notin Unconnected(tip), told' = Overtaken(p), tip' = tip,
           up' \subseteq up, BestOK(chain', chainState'), HeightsOK(heights'),
           MgrOK(mgr'), PeersOK(peer', Unannounced(told), Unconnected(tip)),
           KeptBy(p, mgr, peer, mgr', peer'),
           LotteryOK(chain, chain', chainState, chainState')
    PROVE  SyncStep
<1>1. ToldOK(told, tip, up) /\ tip[p] # -1
    BY DEF SyncInv, Unconnected
<1>2. /\ ToldOK(told', tip, up)
      /\ Unannounced(told') = Unannounced(told)
      /\ (\A y \in Peer : ~LateIn(told', y)) => told' = told /\ p \in NotGone(told)
    BY <1>1, OvertakenOK
<1>3. ToldOK(told', tip', up')
    BY <1>2 DEF ToldOK
<1>4. RequestsOK(mgr', peer', told')
    <2> SUFFICES ASSUME \A y \in Peer : ~LateIn(told', y)
                 PROVE  AskedOf(mgr', peer', NotGone(told')) /\ SyncedWith(mgr', Announced(told'))
        BY DEF RequestsOK
    <2>1. told' = told /\ p \in NotGone(told)
        BY <1>2
    <2>2. AskedOf(mgr, peer, NotGone(told)) /\ SyncedWith(mgr, Announced(told))
        BY <2>1 DEF SyncInv, RequestsOK
    <2>3. Announced(told) \subseteq NotGone(told) /\ NotGone(told) \subseteq Peer
        BY AnnouncedNotGone
    <2>4. AskedOf(mgr', peer', NotGone(told)) /\ SyncedWith(mgr', Announced(told))
        BY <2>1, <2>2, <2>3 DEF KeptBy
    <2> QED BY <2>1, <2>4
<1>5. up' \subseteq Peer /\ tip' \in [Peer -> -1..Chain]
    BY DEF SyncInv
<1>6. PeersOK(peer', Unannounced(told'), Unconnected(tip'))
    BY <1>2
<1> QED BY <1>3, <1>4, <1>5, <1>6 DEF SyncStep, SyncInv

LEMMA DeliverStep ==
    ASSUME SyncInv, NEW p \in Peer, DeliverFrom(p) PROVE SyncStep
<1> DEFINE w == peer[p].wire[1]
           ps == Rewired(peer, p, Tail(peer[p].wire))
           V == Unannounced(told)
           U == Unconnected(tip)
           inv == Located(p, w.begin, w.stop, MaxInvPerMsg)
           hs == Located(p, w.begin, w.stop, MaxHeaders)
           pc == IF Continues(p, w.begin, w.stop)
                 THEN [ps EXCEPT ![p].continueHash = Last(inv)] ELSE ps
           pd == IF ps[p].continueHash = w.begin
                 THEN [ps EXCEPT ![p].continueHash = 0,
                                 ![p].wire = <<Msg("inv", tip[p], 0)>> \o @]
                 ELSE ps
<1>1. /\ peer[p].wire # <<>>
      /\ \/ w.kind = "version" /\ HandleNewPeer(p)
         \/ w.kind = "inv" /\ HandleInv(p, <<w.begin>>, ps) /\ UNCHANGED up /\ told' = Overtaken(p)
         \/ w.kind = "getblocks" /\ HandleInv(p, inv, pc) /\ UNCHANGED up /\ told' = Overtaken(p)
         \/ /\ w.kind = "getheaders" /\ HandleHeaders(p, hs, ps)
            /\ UNCHANGED <<chain, chainState, heights, strayed>> /\ told' = Overtaken(p)
         \/ /\ w.kind = "getheaders" /\ peer' = ps
            /\ UNCHANGED <<chain, chainState, mgr, heights, up, strayed>> /\ told' = Overtaken(p)
         \/ /\ w.kind = "getdata" /\ Expected(p, w.begin) /\ HandleBlock(p, w.begin, pd)
            /\ UNCHANGED up /\ told' = Overtaken(p)
         \/ /\ w.kind = "getdata" /\ up' = up \ {p} /\ peer' = Dropped(ps, p)
            /\ UNCHANGED <<chain, chainState, mgr, heights, strayed>> /\ told' = Overtaken(p)
      /\ tip' = tip
    BY DEF DeliverFrom, Rewired
<1>2. /\ PeersOK(peer, V, U) /\ up \cap U = {} /\ MgrOK(mgr) /\ BestOK(chain, chainState)
      /\ HeightsOK(heights) /\ ChainOK(chain)
    BY DEF SyncInv, BestOK, ToldOK, Unconnected
<1>3. PeersOK(ps, V, U) /\ SameRequests(peer, ps) /\ ps[p].wire \in Seq(Later) /\ p \notin U
    BY <1>1, <1>2, TailOK
<1>4. tip[p] \in Nat /\ Chain \in Nat
    BY <1>3, WireFacts
<1>5. KeptBy(p, mgr, peer, mgr, ps)
    BY <1>3, KeptSame
<1>6. w \in Later \cup {Version}
    BY <1>1, WireFacts, LastType
<1>7. CASE w.kind = "version"
    <2>1. HandleNewPeer(p) /\ tip' = tip
        BY <1>1, <1>7
    <2> QED BY <1>1, <1>7, <2>1, HandleNewPeerStep
<1>8. CASE w.kind # "version"
    <2>1. w \in Later
        BY <1>6, <1>8 DEF Version, Msg
    <2>2. w.begin \in Nat /\ (w.kind = "getdata" => w.begin \in Block)
        BY <2>1 DEF Later, Block
    <2>3. told' = Overtaken(p) /\ tip' = tip
        BY <1>1, <1>8
    <2> HIDE DEF w, ps
    <2>4. LotteryOK(chain, chain, chainState, chainState)
        BY DEF LotteryOK
    <2>5. CASE w.kind = "inv"
        <3> DEFINE one == <<w.begin>>
        <3>1. HandleInv(p, one, ps) /\ up' = up
            BY <1>1, <2>5
        <3>2. one \in Seq(Nat)
            BY <2>2
        <3> HIDE DEF one
        <3>3. /\ MgrOK(mgr') /\ PeersOK(peer', V, U) /\ KeptBy(p, mgr, ps, mgr', peer')
              /\ UNCHANGED <<chain, chainState, heights, strayed>>
            BY <1>2, <1>3, <3>1, <3>2, HandleInvOK
        <3>4. KeptBy(p, mgr, peer, mgr', peer')
            BY <1>5, <3>3, KeptTrans
        <3> QED BY <1>2, <1>3, <2>3, <2>4, <3>1, <3>3, <3>4, DeliveredStep
    <2>6. CASE w.kind = "getblocks"
        <3>1. HandleInv(p, inv, pc) /\ up' = up
            BY <1>1, <2>6
        <3>2. MaxInvPerMsg \in Nat \ {0}
            BY SyncAssumption
        <3>3. inv \in Seq(Nat \ {0})
            BY <1>4, <2>2, <3>2, LocatedType
        <3>4. Continues(p, w.begin, w.stop) => Last(inv) \in Nat
            <4>1. Continues(p, w.begin, w.stop) => Len(inv) = MaxInvPerMsg
                BY DEF Continues
            <4> HIDE DEF inv
            <4>2. Len(inv) = MaxInvPerMsg => inv # <<>>
                BY <3>2, <3>3
            <4>3. inv # <<>> => Last(inv) \in Nat \ {0}
                BY <3>3, LastType
            <4> QED BY <4>1, <4>2, <4>3
        <3> HIDE DEF inv
        <3>5. PeersOK(pc, V, U) /\ SameRequests(ps, pc)
            <4>1. CASE Continues(p, w.begin, w.stop)
                BY <4>1, <1>3, <3>4, NumbersOK
            <4>2. CASE ~Continues(p, w.begin, w.stop)
                BY <4>2, <1>3 DEF SameRequests
            <4> QED BY <4>1, <4>2
        <3> HIDE DEF pc
        <3>6. inv \in Seq(Nat)
            BY <3>3
        <3>7. /\ MgrOK(mgr') /\ PeersOK(peer', V, U) /\ KeptBy(p, mgr, pc, mgr', peer')
              /\ UNCHANGED <<chain, chainState, heights, strayed>>
            BY <1>2, <3>1, <3>5, <3>6, HandleInvOK
        <3>8. KeptBy(p, mgr, ps, mgr, pc)
            BY <3>5, KeptSame
        <3>9. KeptBy(p, mgr, peer, mgr', peer')
            BY <1>5, <3>7, <3>8, KeptTrans
        <3> QED BY <1>2, <1>3, <2>3, <2>4, <3>1, <3>7, <3>9, DeliveredStep
    <2>7. CASE w.kind = "getheaders" /\ HandleHeaders(p, hs, ps)
                 /\ UNCHANGED <<chain, chainState, heights, strayed>>
        <3>1. MaxHeaders \in Nat
            BY SyncAssumption
        <3>2. hs \in Seq(Nat \ {0})
            BY <1>4, <2>2, <3>1, LocatedType
        <3> HIDE DEF hs
        <3>3. /\ MgrOK(mgr') /\ PeersOK(peer', V, U) /\ KeptBy(p, mgr, ps, mgr', peer')
              /\ up' \subseteq up
            BY <1>2, <1>3, <2>7, <3>2, HandleHeadersOK
        <3>4. KeptBy(p, mgr, peer, mgr', peer')
            BY <1>5, <3>3, KeptTrans
        <3> QED BY <1>2, <1>3, <2>3, <2>4, <2>7, <3>3, <3>4, DeliveredStep
    <2>8. CASE peer' = ps /\ UNCHANGED <<chain, chainState, mgr, heights, up, strayed>>
        <3>1. KeptBy(p, mgr, peer, mgr', peer') /\ PeersOK(peer', V, U)
            BY <1>3, <1>5, <2>8
        <3> QED BY <1>2, <1>3, <2>3, <2>4, <2>8, <3>1, DeliveredStep
    <2>9. CASE w.kind = "getdata" /\ Expected(p, w.begin) /\ HandleBlock(p, w.begin, pd)
                 /\ UNCHANGED up
        <3>1. w.begin \in Block
            BY <2>2, <2>9
        <3>2. PeersOK(pd, V, U) /\ SameRequests(ps, pd)
            <4>1. CASE ps[p].continueHash = w.begin
                <5> DEFINE p0 == [ps EXCEPT ![p].continueHash = 0]
                           e == Msg("inv", tip[p], 0)
                           v == <<e>> \o ps[p].wire
                <5>1. PeersOK(p0, V, U) /\ SameRequests(ps, p0)
                    BY <1>3, NumbersOK
                <5>2. e \in Later
                    BY <1>4 DEF Msg, Later
                <5>3. pd = Rewired(p0, p, v)
                    <6>1. ps \in [Peer -> PeerRec] /\ ps[p] \in PeerRec
                        BY <1>3 DEF PeersOK
                    <6> HIDE DEF e
                    <6> QED BY <4>1, <6>1 DEF Rewired, PeerRec, e
                <5> HIDE DEF p0, e
                <5>4. v \in Seq(Later)
                    BY <1>3, <5>2
                <5> HIDE DEF v
                <5>5. v \in Seq(Later \cup {Version}) /\ \A i \in DOMAIN v : v[i] \in Later
                    BY <5>4
                <5>6. PeersOK(Rewired(p0, p, v), V, U) /\ SameRequests(p0, Rewired(p0, p, v))
                    BY <1>3, <5>1, <5>5, RewiredOK
                <5> HIDE DEF pd
                <5> QED BY <5>1, <5>3, <5>6, SameTrans
            <4>2. CASE ps[p].continueHash # w.begin
                BY <4>2, <1>3 DEF SameRequests
            <4> QED BY <4>1, <4>2
        <3> HIDE DEF pd
        <3>3. /\ MgrOK(mgr') /\ PeersOK(peer', V, U) /\ KeptBy(p, mgr, pd, mgr', peer')
              /\ BestOK(chain', chainState') /\ HeightsOK(heights')
              /\ LotteryOK(chain, chain', chainState, chainState')
            BY <1>2, <2>9, <3>1, <3>2, HandleBlockOK
        <3>4. KeptBy(p, mgr, ps, mgr, pd)
            BY <3>2, KeptSame
        <3>5. KeptBy(p, mgr, peer, mgr', peer')
            BY <1>5, <3>3, <3>4, KeptTrans
        <3> QED BY <1>3, <2>3, <2>9, <3>3, <3>5, DeliveredStep
    <2>10. CASE up' = up \ {p} /\ peer' = Dropped(ps, p)
                  /\ UNCHANGED <<chain, chainState, mgr, heights, strayed>>
        <3>1. PeersOK(peer', V, U) /\ SameRequests(ps, peer')
            BY <1>3, <2>10, DroppedOK
        <3>2. KeptBy(p, mgr, ps, mgr, peer')
            BY <3>1, KeptSame
        <3>3. KeptBy(p, mgr, peer, mgr', peer')
            BY <1>5, <2>10, <3>2, KeptTrans
        <3> QED BY <1>2, <1>3, <2>3, <2>4, <2>10, <3>1, <3>3, DeliveredStep
    <2> QED BY <1>1, <1>8, <2>5, <2>6, <2>7, <2>8, <2>9, <2>10
<1> QED BY <1>7, <1>8

LEMMA SyncNext ==
    ASSUME SyncInv, [Next]_vars PROVE SyncStep
<1>1. CASE UNCHANGED vars
    <2>1. UNCHANGED <<chain, chainState, mgr, peer, up, told, tip, heights>>
        BY <1>1 DEF vars
    <2>2. SyncInv'
        BY <2>1 DEF SyncInv
    <2> QED BY <2>1, <2>2 DEF SyncStep, LotteryOK
<1>2. ASSUME NEW p \in Peer, ConnectPeer(p) PROVE SyncStep
    BY <1>2, ConnectPeerStep
<1>3. ASSUME NEW p \in Peer, Disconnect(p) PROVE SyncStep
    BY <1>3, DisconnectStep
<1>4. ASSUME NEW p \in Peer, Grow(p) PROVE SyncStep
    BY <1>4, HeadersGrowStep
<1>5. ASSUME NEW p \in Peer, DeliverFrom(p) PROVE SyncStep
    BY <1>5, DeliverStep
<1>6. ASSUME NEW p \in Peer, HandleDonePeer(p) PROVE SyncStep
    BY <1>6, HandleDonePeerStep
<1>7. ASSUME NEW p \in Peer, NEW b \in Block, SendUnasked(p, b) PROVE SyncStep
    BY <1>7, SendUnaskedStep
<1>8. ASSUME NEW u \in heights, UpdatePeerHeights(u) PROVE SyncStep
    BY <1>8, UpdatePeerHeightsStep
<1>9. CASE ProcessBlock
    BY <1>9, ProcessBlockStep
<1> QED BY <1>1, <1>2, <1>3, <1>4, <1>5, <1>6, <1>7, <1>8, <1>9 DEF Next

(* The inductive invariant holds in every state of the block manager, for  *)
(* any number of peers and any chain, checkpoints and message limits.      *)
THEOREM SyncInvariant == Spec => []SyncInv
<1>1. Init => SyncInv
    BY SyncInitial
<1>2. SyncInv /\ [Next]_vars => SyncInv'
    BY SyncNext DEF SyncStep
<1> QED BY <1>1, <1>2, PTL DEF Spec

(* The bookkeeping of the block manager agrees with its peers and the      *)
(* chain, whatever the peers send, in whatever order their messages and    *)
(* the news of their disconnection reach blockHandler; what a message that *)
(* is handled behind the donePeerMsg of its peer may break is excepted.    *)
THEOREM SyncStaysSound == Spec => []SyncSound
<1>1. SyncInv => SyncSound
    BY SyncInvImplies
<1> QED BY <1>1, SyncInvariant, PTL

(* The lottery data that the miner uses is that of the best block after    *)
(* every step that changes it, unless orphans connected in the same step.  *)
THEOREM LotteryDataFollows == Spec => LotteryFollows
<1>1. SyncInv /\ [Next]_vars =>
        [(chainState' # chainState /\ chainState'.lottery # chainState'.newest)
            => chain.orphans \ chain'.orphans # {}]_vars
    BY SyncNext DEF SyncStep, LotteryOK
<1> QED BY <1>1, SyncInvariant, PTL DEF Spec, LotteryFollows
=============================================================================
