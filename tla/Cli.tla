--------------------------------- MODULE Cli ---------------------------------
(* The command line: create-pool and liquidate, with flags or in the guided  *)
(* mode, which asks for every option, shows them for confirmation and hands  *)
(* them to the same runner as an argument vector, to be parsed again.        *)
(*                                                                           *)
(* An answer that fails its validator is asked for again and changes         *)
(* nothing; values stand for what the code tells apart: "C..." and "G..." a  *)
(* contract's and an account's address, "12abc" a number only to parseFloat. *)
EXTENDS Integers, Sequences, FiniteSets

CONSTANTS
    Asset,      \* the assets, by the string typed for them:
                \*   class 0 for native, 4 or 12 by the length of the code
    Dashed      \* texts that begin with two dashes, and the key each one names

\* The native asset can always be typed.
ASSUME AssetAssumption ==
    DOMAIN Asset # {} /\ \A s \in DOMAIN Asset : DOMAIN Asset[s] = {"class", "code", "issuer"}

\* Texts that do not begin with two dashes.
PlainTexts ==
    {"much", "little", "12abc", "30", "25", "0.01", "0", "C...", "G...", "default", "true", "-h",
     "yes", "no", "good", "bad"}
ASSUME DashedAssumption == DOMAIN Dashed \cap (PlainTexts \cup DOMAIN Asset) = {}

VARIABLES
    cli,        \* stage, command, whether guided, and whether an attestation
                \*   of the position is valid on the chain
    typed,      \* the options the user gave
    args,       \* the argument vector of the runner
    options,    \* what the runner parsed it to
    sent        \* what was submitted: the operations, or the claim

cliVars == <<cli, typed, args, options, sent>>

Dash(name) == [dash |-> TRUE, name |-> name]
Word(name) == [dash |-> FALSE, name |-> name]
NoOptions == <<>>

(* The order of the questions, and of the keys of the options they fill. *)
Prompts == [c \in {"create-pool", "liquidate"} |->
    IF c = "create-pool"
    THEN <<"network", "secret", "asset-a", "asset-b", "amount-a", "amount-b", "fee", "slippage">>
    ELSE <<"network", "secret", "asset-id", "custody-validator", "evidence-hash", "reason", "force">>]
OptionOrder == [c \in {"create-pool", "liquidate"} |->
    IF c = "create-pool"
    THEN <<"asset-a", "asset-b", "amount-a", "amount-b", "fee", "secret", "network", "slippage">>
    ELSE <<"asset-id", "custody-validator", "secret", "reason", "evidence-hash", "network", "force">>]
Required == [c \in {"create-pool", "liquidate"} |->
    IF c = "create-pool"
    THEN {"asset-a", "asset-b", "amount-a", "amount-b", "secret"}
    ELSE {"asset-id", "custody-validator", "secret", "evidence-hash"}]

(* What each validator lets pass. *)
Validated(key) ==
    CASE key \in {"asset-a", "asset-b"} -> DOMAIN Asset
      [] key \in {"amount-a", "amount-b"} -> {"much", "little", "12abc"}
      [] key = "fee" -> {"30", "25"}
      [] key = "slippage" -> {"0.01", "0"}
      [] key \in {"asset-id", "custody-validator"} -> {"C...", "G..."}
      [] key = "reason" -> {"default", "true", "-h"} \cup DOMAIN Dashed
      [] key = "force" -> {"yes", "no"}
      [] OTHER -> {"good"}

(* The reason is free text, which may begin with dashes and name any option; *)
(* everything else that validates does not.                                  *)
Token(value) == IF value \in DOMAIN Dashed THEN Dash(Dashed[value]) ELSE Word(value)

CliInit ==
    /\ \E b \in BOOLEAN : cli = [stage |-> "start", command |-> "none", guided |-> FALSE, backed |-> b]
    /\ typed = NoOptions /\ args = <<>> /\ options = NoOptions /\ sent = <<>>

CliGoes(stage) == cli' = [cli EXCEPT !.stage = stage]

-----------------------------------------------------------------------------
(* Arguments *)

(* The options with a value for a key, unless they have one already. *)
With(o, key, value) == [k \in DOMAIN o \cup {key} |-> IF k \in DOMAIN o THEN o[k] ELSE value]

(* The options as an argument vector: 'true' makes a flag without a value. *)
Flattened(o, order) ==
    LET Part(k) == IF k \notin DOMAIN o THEN <<>>
                   ELSE IF o[k] = "true" THEN <<Dash(k)>> ELSE <<Dash(k), Token(o[k])>>
        upTo[i \in 0..Len(order)] == IF i = 0 THEN <<>> ELSE upTo[i - 1] \o Part(order[i])
    IN upTo[Len(order)]

\* Mutant: whatever follows a key is taken for its value.
ParsedTakingAll(as) ==
    LET from[i \in 1..Len(as) + 2] ==
          IF i > Len(as) THEN NoOptions
          ELSE IF ~as[i].dash THEN from[i + 1]
          ELSE IF i < Len(as) THEN With(from[i + 2], as[i].name, as[i + 1].name)
          ELSE With(from[i + 1], as[i].name, "true")
    IN from[1]

(* parseArgs(): a key takes the next argument unless that begins with        *)
(* dashes; of two values for a key the later stays.                          *)
Parsed(as) ==
    LET from[i \in 1..Len(as) + 2] ==
          IF i > Len(as) THEN NoOptions
          ELSE IF ~as[i].dash THEN from[i + 1]
          ELSE IF i < Len(as) /\ ~as[i + 1].dash
               THEN With(from[i + 2], as[i].name, as[i + 1].name)
          ELSE With(from[i + 1], as[i].name, "true")
    IN from[1]

Given(key, default) == IF key \in DOMAIN options THEN options[key] ELSE default

-----------------------------------------------------------------------------
(* Flags and the guided mode *)

(* The command with flags: any of its options may be missing or without a    *)
(* value, and what is given need not be valid.                               *)
RunWithFlags(command, given) ==
    /\ cli.stage = "start"
    /\ cli' = [cli EXCEPT !.stage = "running", !.command = command]
    /\ typed' = given /\ args' = Flattened(given, OptionOrder[command])
    /\ UNCHANGED <<options, sent>>

SelectCommand(command) ==
    /\ cli.stage = "start"
    /\ cli' = [cli EXCEPT !.stage = "asking", !.command = command, !.guided = TRUE]
    /\ UNCHANGED <<typed, args, options, sent>>

(* The next question is answered; only "yes" sets force, as a flag. *)
Answer ==
    /\ cli.stage = "asking"
    /\ LET asked == Prompts[cli.command]
           key == asked[Cardinality(DOMAIN typed) + 1] IN
       \E v \in Validated(key) :
         /\ typed' = With(typed, key, v)
         /\ CliGoes(IF Cardinality(DOMAIN typed) + 1 = Len(asked) THEN "confirming" ELSE "asking")
    /\ UNCHANGED <<args, options, sent>>

Reviewed ==
    LET force == "force" \in DOMAIN typed /\ typed["force"] = "yes" IN
    [k \in {k \in DOMAIN typed : k # "force" \/ force} |-> IF k = "force" THEN "true" ELSE typed[k]]

Confirm(yes) ==
    /\ cli.stage = "confirming"
    /\ IF yes
       THEN /\ CliGoes("running") /\ typed' = Reviewed
            /\ args' = Flattened(Reviewed, OptionOrder[cli.command])
       ELSE CliGoes("cancelled") /\ UNCHANGED <<typed, args>>
    /\ UNCHANGED <<options, sent>>

-----------------------------------------------------------------------------
(* The runners *)

(* runCreatePool() and runLiquidate(), up to their first request: help is    *)
(* asked for, or an option is missing or bad and the process exits.  Only a  *)
(* reason gives --horizon-url here: without a value, which is no server's.   *)
RunnerStarts ==
    /\ cli.stage = "running"
    /\ IF {Word("-h"), Dash("help")} \cap {args[i] : i \in DOMAIN args} # {}
       THEN CliGoes("exited") /\ UNCHANGED options
       ELSE LET o == Parsed(args)
                value == [k \in {"network", "evidence-hash"} |->
                            IF k \in DOMAIN o THEN o[k] ELSE "good"] IN
            /\ options' = o
            /\ CliGoes(IF /\ Required[cli.command] \subseteq DOMAIN o
                          /\ value["network"] = "good" /\ o["secret"] = "good"
                          /\ "horizon-url" \notin DOMAIN o
                          /\ cli.command = "liquidate" => value["evidence-hash"] = "good"
                       THEN cli.command ELSE "exited")
    /\ UNCHANGED <<typed, args, sent>>

(* compareAssets(): native first, then by code, then by issuer. *)
After(a, b) ==
    /\ b # a /\ a.class # 0
    /\ b.class = 0 \/ a.code > b.code \/ (a.code = b.code /\ a.issuer > b.issuer)

(* The SDK's own order, in which a pool's assets must come, at the pool fee  *)
(* Stellar has: short codes come before long ones.                           *)
PoolExists(a, b, fee) ==
    /\ fee = "30"
    /\ \/ a.class < b.class
       \/ a.class = b.class /\ (a.code < b.code \/ (a.code = b.code /\ a.issuer < b.issuer))

\* Mutant: the assets change places, the amounts stay.
SortedAmountsStay(o) ==
    IF After(Asset[o["asset-a"]], Asset[o["asset-b"]])
    THEN <<[asset |-> o["asset-b"], amount |-> o["amount-a"]], [asset |-> o["asset-a"], amount |-> o["amount-b"]]>>
    ELSE <<[asset |-> o["asset-a"], amount |-> o["amount-a"]], [asset |-> o["asset-b"], amount |-> o["amount-b"]]>>

(* The deposit's two sides, in the order of the pool. *)
Sorted(o) ==
    LET a == [asset |-> o["asset-a"], amount |-> o["amount-a"]]
        b == [asset |-> o["asset-b"], amount |-> o["amount-b"]] IN
    IF After(Asset[a.asset], Asset[b.asset]) THEN <<b, a>> ELSE <<a, b>>

(* The account is loaded, `trusted` what it holds trustlines for: the        *)
(* missing ones are added before the deposit, in one transaction.            *)
PoolSubmitted(trusted) ==
    LET side == Sorted(options)
        Missing(what) == IF what \in trusted THEN <<>> ELSE <<[trust |-> what]>>
        MissingAsset(s) == IF Asset[s].class = 0 THEN <<>> ELSE Missing(s) IN
    /\ cli.stage = "create-pool"
    /\ {options[k] : k \in {"asset-a", "asset-b"}} \subseteq DOMAIN Asset
    /\ PoolExists(Asset[side[1].asset], Asset[side[2].asset], Given("fee", "30"))
    /\ \A i \in 1..2 : side[i].amount \in {"much", "little"}
    /\ Given("slippage", "0.01") \in {"0.01", "0"}
    /\ sent' = [trusted |-> trusted, slippage |-> Given("slippage", "0.01"),
                trusts |-> MissingAsset(side[1].asset) \o MissingAsset(side[2].asset) \o Missing("pool"),
                deposit |-> side]
    /\ CliGoes("submitting")
    /\ UNCHANGED <<typed, args, options>>

(* getLatestAttestation() returns null. *)
AttestationFound == FALSE

(* verifyAssetBacking(): an address that is not an account's is an error,    *)
(* and an error lets the liquidation go ahead.                               *)
BackingVerified ==
    /\ cli.stage = "liquidate" /\ Given("force", "no") # "true"
    /\ CliGoes(IF options["asset-id"] = "G..." /\ AttestationFound THEN "exited" ELSE "claiming")
    /\ UNCHANGED <<typed, args, options, sent>>

(* triggerInsuranceClaim(): the asset must be an account's address, and the  *)
(* claim is invoked on the custody validator's.                              *)
ClaimSubmitted ==
    /\ cli.stage = "claiming" \/ (cli.stage = "liquidate" /\ Given("force", "no") = "true")
    /\ options["asset-id"] = "G..." /\ options["custody-validator"] \in {"C...", "G..."}
    /\ sent' = [claim |-> options["asset-id"], reason |-> Given("reason", "default")]
    /\ CliGoes("submitting")
    /\ UNCHANGED <<typed, args, options>>

(* A contract's address is refused, by a validator that knows accounts only. *)
ClaimRefused ==
    /\ cli.stage = "claiming" \/ (cli.stage = "liquidate" /\ Given("force", "no") = "true")
    /\ options["asset-id"] # "G..." /\ CliGoes("refused")
    /\ UNCHANGED <<typed, args, options, sent>>

(* The network answers, or something on the way threw: runCli exits with 1. *)
Finished ==
    /\ cli.stage = "submitting" /\ CliGoes("done")
    /\ UNCHANGED <<typed, args, options, sent>>

CliFails ==
    /\ cli.stage \in {"create-pool", "liquidate", "claiming", "submitting"}
    /\ CliGoes("exited")
    /\ UNCHANGED <<typed, args, options, sent>>

(* The vectors tried: complete, or with one option left out, without a value *)
(* or with one that is not valid.                                            *)
Complete(command) ==
    [k \in {OptionOrder[command][i] : i \in DOMAIN OptionOrder[command]} |->
       CASE k \in {"network", "secret", "evidence-hash"} -> "good"
         [] k \in {"asset-id", "custody-validator"} -> "G..."
         [] k = "slippage" -> "0"
         [] k = "reason" -> "default"
         [] k = "force" -> "true"
         [] OTHER -> CHOOSE v \in Validated(k) : TRUE]
Flags(command) ==
    LET full == Complete(command) IN
    {full} \cup {[j \in DOMAIN full \ {k} |-> full[j]] : k \in DOMAIN full}
           \cup {[full EXCEPT ![k] = v] : k \in DOMAIN full, v \in {"true", "bad", "-h"}}

CliNext ==
    \/ \E c \in DOMAIN Prompts : SelectCommand(c) \/ \E given \in Flags(c) : RunWithFlags(c, given)
    \/ Answer \/ \E yes \in BOOLEAN : Confirm(yes)
    \/ RunnerStarts \/ BackingVerified \/ ClaimSubmitted \/ ClaimRefused \/ Finished \/ CliFails
    \/ \E trusted \in SUBSET ({"pool"} \cup {s \in DOMAIN Asset : Asset[s].class # 0}) : PoolSubmitted(trusted)

CliSpec == CliInit /\ [][CliNext]_cliVars

-----------------------------------------------------------------------------
(* Properties *)

(* The options that were shown and confirmed are the ones the runner works   *)
(* with, though they went through an argument vector and were parsed again:  *)
(* all but a reason that begins with dashes, and the one option it names,    *)
(* come back (runInteractive, parseArgs).                                    *)
ConfirmedIsRun ==
    cli.guided /\ options # NoOptions =>
      LET lost == IF "reason" \in DOMAIN typed /\ typed["reason"] \in DOMAIN Dashed
                  THEN {"reason", Dashed[typed["reason"]]} ELSE {}
          Kept(o) == [k \in DOMAIN o \ lost |-> o[k]] IN
      Kept(options) = Kept(typed)

(* Each side of a deposit is an asset with the amount typed for it, whatever *)
(* order the pool needs them in, at the slippage typed or the default one,   *)
(* and the transaction adds every trustline the account lacks                *)
(* (runCreatePool).                                                          *)
PoolGetsWhatWasTyped ==
    sent # <<>> /\ cli.command = "create-pool" =>
      /\ {sent.deposit[1], sent.deposit[2]} =
           {[asset |-> typed["asset-a"], amount |-> typed["amount-a"]],
            [asset |-> typed["asset-b"], amount |-> typed["amount-b"]]}
      /\ sent.slippage = IF "slippage" \in DOMAIN typed THEN typed["slippage"] ELSE "0.01"
      /\ \A what \in {"pool"} \cup {sent.deposit[i].asset : i \in 1..2} :
           \/ what # "pool" /\ Asset[what].class = 0
           \/ what \in sent.trusted
           \/ [trust |-> what] \in {sent.trusts[i] : i \in DOMAIN sent.trusts}

(* What a guided user was asked and confirmed is what is done.               *)
GuidedAnswersArrive == ConfirmedIsRun /\ PoolGetsWhatWasTyped

-----------------------------------------------------------------------------
(* What the repository's words say and the code does not do.  Each was       *)
(* refuted by TLC; the README tells the shortest behaviour that does it.     *)

(* "Proceed with these settings?" (cli.ts:548): the runner works with every  *)
(* setting that was confirmed.  A reason such as "--secret" is read as a     *)
(* flag, which takes the place of the option it names (cli.ts:559, :231).    *)
SettingsAreKept ==
    cli.guided /\ options # NoOptions => \A k \in DOMAIN typed : k \in DOMAIN options /\ options[k] = typed[k]

(* cli.ts:204 describes --asset-id as the "On-chain contract address of the  *)
(* RWA token": a contract's address is not refused by the runner.            *)
ContractIsAccepted == cli.stage = "refused" => options["asset-id"] # "C..."

(* cli.ts:196: without --force "the command first checks whether the         *)
(* position is actually undercollateralized".                                *)
BackedIsNotLiquidated ==
    sent # <<>> /\ cli.command = "liquidate" /\ cli.backed => Given("force", "no") = "true"
=============================================================================
