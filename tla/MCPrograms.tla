------------------------------ MODULE MCPrograms ------------------------------
(* The suite's self-contained parts in one instance for TLC: the order book, *)
(* the custody monitor, the deployment script, the gas estimator, the        *)
(* batch builder, the command line, the type generator, the trading screen,  *)
(* the panels, the transaction history, the delegation of votes and the      *)
(* compliance registry.                                                      *)
(*                                                                           *)
(* They share no state, so nothing is learnt from interleaving them: every   *)
(* behaviour runs one, chosen at the start, and leaves the others alone.     *)
EXTENDS OrderBook, CustodyMonitoring, DeployScript, GasEstimator, BatchBuilder,
        MCCli, TypeGenerator, MarketScreen, Panels, HistoryPages, VoteDelegation, MCComplianceRegistry

VARIABLE program

allVars == <<program, bookVars, monitorVars, deployVars, gasVars, batchVars,
             cliVars, typeVars, screenVars, panelVars, historyVars, vars, registryVars>>

Programs == {"book", "monitor", "deploy", "gas", "batch", "cli", "types", "screen",
             "panel", "history", "delegation", "registry"}

\* A part that is not chosen begins in one state only.
ProgramsInit ==
    /\ program \in Programs
    /\ BookInit /\ (program # "book" => is_bid)
    /\ MonitorInit /\ DeployInit /\ GasInit /\ BatchInit /\ ScreenInit
    /\ CliInit /\ (program # "cli" => cli.backed)
    /\ TypeGenInit /\ (program # "types" => asked.schemas = <<>> /\ asked.rpc /\ asked.out /\ asked.client /\ asked.dry)
    /\ PanelInit /\ (program # "panel" => panel = ClaimAll /\ form = 1)
    /\ HistoryInit /\ (program # "history" => filter = "all" /\ dates = "any" /\ totalPages = 0)
    /\ Init
    /\ RegistryInit /\ (program # "registry" => policy.kyc_required /\ compliance_rules = SeededRules)

ProgramsNext ==
    /\ UNCHANGED program
    /\ IF program = "book" THEN BookNext ELSE UNCHANGED bookVars
    /\ IF program = "monitor" THEN MonitorNext ELSE UNCHANGED monitorVars
    /\ IF program = "deploy" THEN DeployNext ELSE UNCHANGED deployVars
    /\ IF program = "gas" THEN GasNext ELSE UNCHANGED gasVars
    /\ IF program = "batch" THEN BatchNext ELSE UNCHANGED batchVars
    /\ IF program = "cli" THEN CliNext ELSE UNCHANGED cliVars
    /\ IF program = "types" THEN TypeGenNext ELSE UNCHANGED typeVars
    /\ IF program = "screen" THEN ScreenNext ELSE UNCHANGED screenVars
    /\ IF program = "panel" THEN PanelNext ELSE UNCHANGED panelVars
    /\ IF program = "history" THEN HistoryNext ELSE UNCHANGED historyVars
    /\ IF program = "delegation" THEN Next ELSE UNCHANGED vars
    /\ IF program = "registry" THEN RegistryNext ELSE UNCHANGED registryVars

ProgramsSpec == ProgramsInit /\ [][ProgramsNext]_allVars

-----------------------------------------------------------------------------
(* Constants *)

ThreeContracts == <<"rwa_token", "compliance_registry", "dividend_distributor">>

Identifiers == [n \in {"Position", "Status", "lot-size", "Audit", "Moved", "Unknown"} |-> IF n = "lot-size" THEN "lot_size" ELSE n]
Primitive == SpecType("primitive", "u32", <<>>)
Udt(n) == SpecType("udt", n, <<>>)

\* A contract with every kind of entry, and one that refers to its types.
Holdings ==
    [client |-> "HoldingsClient", entries |->
       << [kind |-> "struct", name |-> "Position",
           parts |-> <<SpecType("map", "", <<Udt("Status"), SpecType("vec", "", <<Primitive>>)>>),
                       SpecType("option", "", <<Udt("lot-size")>>)>>],
          [kind |-> "enum", name |-> "Status", parts |-> <<>>],
          [kind |-> "tuple", name |-> "lot-size", parts |-> <<Primitive>>],
          [kind |-> "function", name |-> "get",
           parts |-> <<SpecType("result", "", <<Udt("Position"), Udt("Audit")>>)>>] >>]
Audits ==
    [client |-> "AuditsClient", entries |->
       << [kind |-> "union", name |-> "Audit",
           parts |-> <<SpecType("tuple", "", <<Primitive, Udt("Position")>>)>>],
          [kind |-> "function", name |-> "all",
           parts |-> <<SpecType("vec", "", <<SpecType("map", "", <<Udt("Status"), Udt("Audit")>>)>>)>>] >>]
\* A contract that declares nothing the generator knows.
Events == [client |-> "EventsClient", entries |-> << [kind |-> "event", name |-> "Moved", parts |-> <<Primitive>>] >>]
SomeSchemas == {Holdings, Audits, Events}

RECURSIVE TypesOf(_)
TypesOf(t) == {t} \cup UNION {TypesOf(p) : p \in ToSet(t.parts)}
WrittenTypes == UNION {UNION {UNION {TypesOf(t) : t \in ToSet(e.parts)} : e \in ToSet(s.entries)} : s \in SomeSchemas}
TheirTypes == UNION {TypesOf(t) \cup TypesOf(Outermost(t)) : t \in WrittenTypes}

\* One filter and one range of dates leave fewer results.
SomePages ==
    [fd \in {"all", "mint"} \X {"any", "month"} |->
       IF fd = <<"all", "any">> THEN {0, 3, 7} ELSE IF fd = <<"mint", "month">> THEN {0, 1} ELSE {1, 6}]
=============================================================================
