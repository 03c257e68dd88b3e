----------------------------- MODULE MCSdkCalls ------------------------------
(* Instances of SdkCalls for TLC: one caller tries every method, with one    *)
(* retry; the other sends a transfer from the same account, without.         *)
EXTENDS SdkCalls, TLC

CONSTANTS a, b

OneAccount == a :> "acct" @@ b :> "acct"
AnyAndTransfer == a :> AllMethods @@ b :> {Transfer}
OneRetry == a :> 2 @@ b :> 1
=============================================================================
