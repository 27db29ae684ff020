------------------------------ MODULE ScriptVal ------------------------------
(***************************************************************************)
(* The validation of scripts by several goroutines (blockchain/            *)
(* scriptval.go) and the cache of valid signatures they share (txscript/   *)
(* sigcache.go).  A validator is one call of Validate: the memory pool and *)
(* the chain may run one at a time each.                                   *)
(*                                                                         *)
(* An item is an input.  Its script is abstracted to one signature check,  *)
(* <<hash, key>>: a hash to be signed and the signature with its key.  The *)
(* item is "unfit" if it fails before that: no entry, no script, or one    *)
(* that cannot be parsed.                                                  *)
(***************************************************************************)
EXTENDS Integers, FiniteSets, Sequences

CONSTANTS
    Validator,      \* the calls of Validate, as numbers
    Goroutines,     \* NumCPU * 3
    Hash, Key,      \* the hashes that are signed, and the signatures with keys
    ValidChecks,    \* the pairs <<hash, key>> that verify
    Inputs,         \* bound: the inputs that each of the validations may get
    maxEntries      \* maxEntries of the cache

Unfit == <<"none", "unfit">>
Coinbase == <<"none", "coinbase">>

ASSUME ScriptAssumption ==
    /\ Goroutines \in Nat \ {0} /\ maxEntries \in Nat
    /\ Unfit \in (Hash \X Key) \ ValidChecks
    /\ \A v \in Validator : Inputs[v] \subseteq Seq(Hash \X Key)

VARIABLES
    inputs,         \* the inputs that a caller passes, coinbases included
    validate,       \* per validator: where it is, the last position it has sent
                    \* and how many results it has received
    handlers,       \* per validator and goroutine: where it is, and its item
    validSigs       \* validSigs: the key of each cached hash

scriptVars == <<inputs, validate, handlers, validSigs>>

Good(item) == item \in ValidChecks

\* The items of a transaction or of a tree of a block, by their positions among
\* its inputs: coinbases are skipped.
Items(v) == {i \in DOMAIN inputs[v] : inputs[v][i] # Coinbase}

Ended == [at |-> "none", item |-> Unfit]

InitScripts ==
    /\ inputs \in {f \in [Validator -> UNION {Inputs[v] : v \in Validator}] :
                      \A v \in Validator : f[v] \in Inputs[v]}
    /\ validate = [v \in Validator |-> [at |-> "new", sent |-> 0, processed |-> 0]]
    /\ handlers = [v \in Validator |-> [g \in 1..Goroutines |-> Ended]]
    /\ validSigs = <<>>

-----------------------------------------------------------------------------
(* The cache: each operation holds its lock.                                *)

\* Mutant: an entry is found by its hash alone.
ExistsHash(check) == check[1] \in DOMAIN validSigs

Exists(check) == check[1] \in DOMAIN validSigs /\ validSigs[check[1]] = check[2]

\* A full cache evicts any entry first, also when the hash has one already.
Add(check) ==
    LET full == Cardinality(DOMAIN validSigs) + 1 > maxEntries
        With(kept) == [h \in kept \cup {check[1]} |->
                          IF h = check[1] THEN check[2] ELSE validSigs[h]]
    IN  IF maxEntries = 0 THEN UNCHANGED validSigs
        ELSE IF ~full THEN validSigs' = With(DOMAIN validSigs)
        ELSE \E h \in DOMAIN validSigs : validSigs' = With(DOMAIN validSigs \ {h})

-----------------------------------------------------------------------------
(* A goroutine of a validation.                                             *)

handler(v, g) == handlers[v][g]
SetHandler(v, g, at, item) == handlers' = [handlers EXCEPT ![v][g] = [at |-> at, item |-> item]]
Closed(v) == validate[v].at \in {"nil", "error"}

\* The entry and the script of the input are found and parsed, or not.
\* Then the cache is asked for the signature.
Look(v, g) ==
    LET i == handler(v, g).item
    IN  /\ handler(v, g).at = "look"
        /\ SetHandler(v, g, IF i = Unfit THEN "bad" ELSE IF Exists(i) THEN "good" ELSE "verify", i)
        /\ UNCHANGED <<inputs, validate, validSigs>>

\* The signature is verified; a valid one is added to the cache.
Verify(v, g) ==
    LET i == handler(v, g).item
    IN  /\ handler(v, g).at = "verify"
        /\ SetHandler(v, g, IF Good(i) THEN "good" ELSE "bad", i)
        /\ IF Good(i) THEN Add(i) ELSE UNCHANGED validSigs
        /\ UNCHANGED <<inputs, validate>>

\* sendResult: Validate receives the result, or has closed quitChan.  After an
\* error the goroutine ends, and so does Validate.
sendResult(v, g) ==
    /\ handler(v, g).at \in {"good", "bad"}
    /\ SetHandler(v, g, IF handler(v, g).at = "good" THEN "select" ELSE "none", Unfit)
    /\ \/ /\ validate[v].at = "run"
          /\ validate' = [validate EXCEPT
                 ![v].processed = @ + 1,
                 ![v].at = IF handler(v, g).at = "bad" THEN "error" ELSE @]
       \/ Closed(v) /\ UNCHANGED validate
    /\ UNCHANGED <<inputs, validSigs>>

QuitHandler(v, g) ==
    /\ handler(v, g).at = "select" /\ Closed(v)
    /\ SetHandler(v, g, "none", Unfit)
    /\ UNCHANGED <<inputs, validate, validSigs>>

validateHandler(v, g) == Look(v, g) \/ Verify(v, g) \/ sendResult(v, g) \/ QuitHandler(v, g)

-----------------------------------------------------------------------------
(* Validate.                                                                *)

\* No items: done at once.  Otherwise a goroutine per item, up to the limit.
BeginValidate(v) ==
    LET n == Cardinality(Items(v))
    IN  /\ validate[v].at = "new"
        /\ validate' = [validate EXCEPT ![v].at = IF n = 0 THEN "nil" ELSE "run"]
        /\ handlers' = [handlers EXCEPT ![v] = [g \in 1..Goroutines |->
               IF g <= n THEN [at |-> "select", item |-> Unfit] ELSE Ended]]
        /\ UNCHANGED <<inputs, validSigs>>

\* The next item goes to a goroutine that waits for one.
SendItem(v, g) ==
    /\ validate[v].at = "run" /\ handler(v, g).at = "select"
    /\ \E i \in Items(v) :
           /\ i > validate[v].sent
           /\ \A j \in Items(v) : j > validate[v].sent => i <= j
           /\ SetHandler(v, g, "look", inputs[v][i])
           /\ validate' = [validate EXCEPT ![v].sent = i]
    /\ UNCHANGED <<inputs, validSigs>>

FinishValidate(v) ==
    /\ validate[v].at = "run" /\ validate[v].processed = Cardinality(Items(v))
    /\ validate' = [validate EXCEPT ![v].at = "nil"]
    /\ UNCHANGED <<inputs, handlers, validSigs>>

Validate(v) == BeginValidate(v) \/ FinishValidate(v) \/ \E g \in 1..Goroutines : SendItem(v, g)

NextScripts ==
    \E v \in Validator : Validate(v) \/ \E g \in 1..Goroutines : validateHandler(v, g)

SpecScripts == InitScripts /\ [][NextScripts]_scriptVars

\* Every goroutine is scheduled; whether there is a validation is up to others.
FairScripts ==
    \A v \in Validator :
        /\ WF_scriptVars(FinishValidate(v) \/ \E g \in 1..Goroutines : SendItem(v, g))
        /\ \A g \in 1..Goroutines : WF_scriptVars(validateHandler(v, g))

-----------------------------------------------------------------------------
(* Properties.                                                              *)

\* Validate accepts exactly the inputs that are all valid, whatever the other
\* validation has put into the cache; a cached signature is valid, and the cache
\* keeps its bound.
ScriptsJudged ==
    /\ \A v \in Validator :
           LET good == \A i \in Items(v) : Good(inputs[v][i])
           IN  /\ validate[v].at = "nil" => good
               /\ validate[v].at = "error" => ~good
    /\ \A h \in DOMAIN validSigs : Good(<<h, validSigs[h]>>)
    /\ Cardinality(DOMAIN validSigs) <= maxEntries

\* Every validation that is begun returns and leaves no goroutine behind.
ValidationsEnd ==
    \A v \in Validator :
        validate[v].at = "run"
            ~> (Closed(v) /\ \A g \in 1..Goroutines : handlers[v][g].at = "none")
=============================================================================
