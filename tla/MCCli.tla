-------------------------------- MODULE MCCli --------------------------------
(* Values of the command line's constants for TLC. *)
EXTENDS Cli, TLC

\* Codes in the reverse order of their lengths, and two issuers of one code.
SomeAssets ==
    "XLM" :> [class |-> 0, code |-> 0, issuer |-> 0]
      @@ "BBB:G1" :> [class |-> 4, code |-> 2, issuer |-> 1]
      @@ "BBB:G2" :> [class |-> 4, code |-> 2, issuer |-> 2]
      @@ "AAAAA:G1" :> [class |-> 12, code |-> 1, issuer |-> 1]

\* The options of liquidate, the two all commands know, and one none does.
SomeReasons ==
    "--asset-id" :> "asset-id" @@ "--custody-validator" :> "custody-validator"
      @@ "--secret" :> "secret" @@ "--evidence-hash" :> "evidence-hash"
      @@ "--network" :> "network" @@ "--force" :> "force" @@ "--horizon-url" :> "horizon-url"
      @@ "--help" :> "help" @@ "--margin-call" :> "margin-call"
=============================================================================
