-------------------------------- MODULE Panels --------------------------------
(* The buttons of the UI's panels: a handler sets a busy flag, awaits what   *)
(* it was given to call, and tells how it went; a failure's toast may offer  *)
(* to do it again.  The handlers share nothing, so one of them is looked at  *)
(* in a behaviour, with two items to work on.                                *)
EXTENDS Integers, FiniteSets

CONSTANTS
    Item,       \* the assets or distributions listed; one suffices to a form
    Value,      \* what the form may hold
    MaxPresses     \* bound: runs of the handler

VARIABLES
    panel,      \* the handler looked at
    form,       \* what its form holds
    busy,       \* the items whose button is disabled
    runs,       \* the runs that wait for their call
    toasts,     \* error toasts that offer a retry
    last,       \* lastOrderParams, <<>> for null
    started,    \* runs so far
    failed      \* what was tried and failed

panelVars == <<panel, form, busy, runs, toasts, last, started, failed>>

(* flag   "each": one per item; "asset": the one item shown as busy;         *)
(*        "one": a boolean;  "none"                                          *)
(* retry  "same": the toast calls the handler again, as it was when it       *)
(*        failed; "ifLast": so does it, when lastOrderParams was set when    *)
(*        the handler was made;  "none"                                      *)
(* auto   an interval calls the same function beside the handler             *)
Handler(name, flag, retry) == [name |-> name, flag |-> flag, retry |-> retry, auto |-> FALSE]

ClaimDistribution == [Handler("handleClaim", "each", "none") EXCEPT !.auto = TRUE]
ClaimAll == Handler("handleClaimAll", "none", "none")
CreateDistributionForm == Handler("handleCreateDistribution", "none", "none")
LockForm == Handler("handleLockTokens", "one", "same")
Unlock == Handler("handleUnlockTokens", "asset", "same")
ClaimDividends == Handler("handleClaimDividends", "asset", "same")
ExecuteDeploy == Handler("executeDeploy", "one", "same")
PlaceOrder == Handler("handlePlaceOrder", "one", "ifLast")
AdminAction == Handler("handleAdminAction", "one", "none")
SubmitProof == Handler("handleSubmitProof", "one", "none")

Handlers == {ClaimDistribution, ClaimAll, CreateDistributionForm, LockForm, Unlock, ClaimDividends,
             ExecuteDeploy, PlaceOrder, AdminAction, SubmitProof}

PanelInit ==
    /\ panel \in Handlers /\ form \in Value
    /\ busy = {} /\ runs = {} /\ toasts = {} /\ last = <<>> /\ failed = {}
    /\ started = 0

(* The handler's first statements: the flag is set before the await. *)
FlagOn(i) ==
    CASE panel.flag = "each" -> busy \cup {i} [] panel.flag = "asset" -> {i}
      [] panel.flag = "one" -> Item [] OTHER -> busy

(* The finally block. *)
FlagOff(i, ok) == IF panel.flag = "each" THEN busy \ {i} ELSE {}

(* A run of the handler that was made when lastOrderParams was `seen`. *)
StartRun(i, v, via, seen) ==
    /\ started < MaxPresses /\ started' = started + 1
    /\ runs' = runs \cup {[item |-> i, value |-> v, via |-> via, seen |-> seen, n |-> started]}
    /\ IF via = "auto" THEN UNCHANGED <<busy, last>>
       ELSE /\ busy' = FlagOn(i)
            /\ last' = IF panel.retry = "ifLast" THEN <<v>> ELSE last

Press(i) ==
    /\ i \notin busy /\ StartRun(i, form, "button", last)
    /\ UNCHANGED <<panel, form, toasts, failed>>

(* DividendPanel's hourly check of what is about to expire. *)
AutoClaims(i) ==
    /\ panel.auto /\ StartRun(i, form, "auto", last)
    /\ UNCHANGED <<panel, form, toasts, failed>>

Ended(r, ok) ==
    /\ runs' = runs \ {r}
    /\ busy' = IF r.via = "auto" THEN busy ELSE FlagOff(r.item, ok)
    /\ UNCHANGED <<panel, started>>

(* A run that succeeded empties the form, which is then filled again. *)
Succeeds(r) ==
    /\ Ended(r, TRUE) /\ last' = <<>>
    /\ UNCHANGED <<form, toasts, failed>>

RunFails(r) ==
    /\ Ended(r, FALSE)
    /\ failed' = failed \cup {<<r.item, r.value>>}
    /\ toasts' = IF panel.retry = "none" \/ r.via = "auto" THEN toasts ELSE toasts \cup {r}
    /\ UNCHANGED <<form, last>>

\* Mutant: Retry sends what the form now holds.
RetriedFromForm(r) == form
(* The toast's closure holds the values of the run that failed. *)
Retried(r) == r.value

(* Retry: the toast goes, and the handler runs again, busy or not; an order  *)
(* only when its handler saw an earlier order's parameters, which then fill  *)
(* the form.                                                                 *)
RetryPressed(r) ==
    /\ r \in toasts /\ toasts' = toasts \ {r}
    /\ IF panel.retry = "same" \/ r.seen # <<>>
       THEN /\ StartRun(r.item, Retried(r), "retry", r.seen)
            /\ form' = IF panel.retry = "ifLast" THEN r.seen[1] ELSE form
       ELSE UNCHANGED <<form, busy, runs, last, started>>
    /\ UNCHANGED <<panel, failed>>

(* A toast is dismissed or its time is over. *)
ToastGone(r) ==
    /\ r \in toasts /\ toasts' = toasts \ {r}
    /\ UNCHANGED <<panel, form, busy, runs, last, started, failed>>

EditForm(v) ==
    /\ form' = v /\ v # form
    /\ UNCHANGED <<panel, busy, runs, toasts, last, started, failed>>

PanelNext ==
    \/ \E i \in Item : Press(i) \/ AutoClaims(i)
    \/ \E r \in runs : Succeeds(r) \/ RunFails(r)
    \/ \E r \in toasts : RetryPressed(r) \/ ToastGone(r)
    \/ \E v \in Value : EditForm(v)

PanelSpec == PanelInit /\ [][PanelNext]_panelVars

-----------------------------------------------------------------------------
(* Properties *)

(* Retry repeats what failed, also when the form was edited meanwhile or     *)
(* other runs came between.                                                  *)
RetryRepeatsWhatFailed ==
    \A r \in runs : r.via = "retry" => <<r.item, r.value>> \in failed
=============================================================================
