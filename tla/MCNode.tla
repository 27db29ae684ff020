------------------------------- MODULE MCNode -------------------------------
(***************************************************************************)
(* The goroutines of the CPU miner, and the script validators.  They share *)
(* no state, so a behaviour runs one of them: focus says which, and only   *)
(* its goroutines are scheduled.                                           *)
(***************************************************************************)
EXTENDS CPUMiner, ScriptVal

VARIABLE focus

good == <<"h1", "k1">>
other == <<"h2", "k1">>
wrong == <<"h1", "k2">>
MCValidChecks == {good, other}
MCInputs ==
    << {<<other, good, wrong>>, <<good, other, good>>, <<Coinbase, Unfit, wrong>>, <<Coinbase>>},
       {<<good>>, <<wrong>>, <<other, good>>} >>

MCInit ==
    /\ focus \in {"miner", "scripts"}
    /\ InitMiner /\ InitScripts
    /\ focus # "scripts" => inputs = << <<Coinbase>>, <<good>> >>

MCNext ==
    \/ focus = "miner" /\ NextMiner /\ UNCHANGED <<scriptVars, focus>>
    \/ focus = "scripts" /\ NextScripts /\ UNCHANGED <<minerVars, focus>>

MCSpec ==
    /\ MCInit /\ [][MCNext]_<<minerVars, scriptVars, focus>>
    /\ focus = "miner" => FairMiner
    /\ focus = "scripts" => FairScripts

\* Nobody waits for ever: the calls of the miner return and the validations
\* end.
NodeProgresses ==
    /\ focus = "miner" => CallsReturn
    /\ focus = "scripts" => ValidationsEnd
=============================================================================
