----------------------------- MODULE DeployScript -----------------------------
(* scripts/deploy.ts: the suite's contracts are deployed one after the other *)
(* and their addresses written to a file at the very end.  A run that finds  *)
(* an address in the file does not deploy that contract again.               *)
(*                                                                           *)
(* A run may be killed anywhere, also between the truncation of the file and *)
(* the writing of its new content.                                           *)
EXTENDS Integers, Sequences

CONSTANTS
    Contracts,      \* CONTRACTS: the contracts, in the order they are deployed
    Idempotent,     \* config.deployment.idempotent
    MaxScripts         \* bound: how often the script is run

ASSUME DeployAssumption == Idempotent \in BOOLEAN /\ MaxScripts \in Nat

Contract == {Contracts[i] : i \in DOMAIN Contracts}

VARIABLES
    stage,      \* what the running script does, "idle" when none runs
    at,         \* the contract it has come to
    results,    \* summary.results: the address each contract has, 0 for none
    file,       \* the addresses in the output file, 0 for none
    onChain,    \* how often each contract has been deployed: its n-th has address n
    scripts,    \* runs so far
    wasted      \* runs that ended before they had written the file

deployVars == <<stage, at, results, file, onChain, scripts, wasted>>

NoAddresses == [c \in Contract |-> 0]

DeployInit ==
    /\ stage = "idle" /\ at = 1 /\ scripts = 0 /\ wasted = 0
    /\ results = NoAddresses /\ file = NoAddresses /\ onChain = NoAddresses

RunScript ==
    /\ stage = "idle" /\ scripts < MaxScripts
    /\ scripts' = scripts + 1 /\ stage' = "deploying" /\ at' = 1 /\ results' = NoAddresses
    /\ UNCHANGED <<file, onChain, wasted>>

\* Mutant: the file is looked into for the first contract alone.
ExistingOfFirst(c) == IF Idempotent /\ c = Contracts[1] THEN file[c] ELSE 0

(* loadExistingDeployments(): read anew for every contract. *)
Existing(c) == IF Idempotent THEN file[c] ELSE 0

(* deployContract(): the simulated deployment cannot fail, so the first      *)
(* attempt is the last.                                                      *)
DeployContract ==
    LET c == Contracts[at] IN
    /\ stage = "deploying" /\ at <= Len(Contracts)
    /\ IF Existing(c) # 0
       THEN results' = [results EXCEPT ![c] = Existing(c)] /\ UNCHANGED onChain
       ELSE /\ onChain' = [onChain EXCEPT ![c] = @ + 1]
            /\ results' = [results EXCEPT ![c] = onChain[c] + 1]
    /\ at' = at + 1
    /\ UNCHANGED <<stage, file, scripts, wasted>>

(* writeFileSync(): the file is emptied, then filled with this run's results. *)
TruncateFile ==
    /\ stage = "deploying" /\ at > Len(Contracts)
    /\ file' = NoAddresses /\ stage' = "writing"
    /\ UNCHANGED <<at, results, onChain, scripts, wasted>>

WriteFile ==
    /\ stage = "writing"
    /\ file' = results /\ stage' = "idle"
    /\ UNCHANGED <<at, results, onChain, scripts, wasted>>

(* The process is killed, or a WASM file or the deployer's secret is missing. *)
RunAborts ==
    /\ stage # "idle" /\ stage' = "idle" /\ wasted' = wasted + 1
    /\ UNCHANGED <<at, results, file, onChain, scripts>>

DeployNext == RunScript \/ DeployContract \/ TruncateFile \/ WriteFile \/ RunAborts

DeploySpec == DeployInit /\ [][DeployNext]_deployVars

-----------------------------------------------------------------------------
(* Properties *)

(* Running the script again deploys no contract that a finished run deployed: *)
(* each contract is deployed at most once, and once more for each run that    *)
(* was cut short (the idempotency check of deployContract, main's write).     *)
DeployedOnceUnlessCutShort == \A c \in Contract : onChain[c] <= 1 + wasted
=============================================================================
