------------------------- MODULE DistributionFreeze -------------------------
(***************************************************************************)
(* The emergency freeze of the dividend distributor                        *)
(* (src/src/dividend_distributor.rs, Issue 139): the admin stops every     *)
(* distribution and claim at once, and only an emergency proposal of the   *)
(* distributor's own governance starts them again.  The distributor is the *)
(* host that composes Governance: of its operations it exposes emergency   *)
(* proposals and approvals, and it has no council.                         *)
(***************************************************************************)
EXTENDS Governance

CONSTANTS
    Unfreeze        \* the call "unfreeze", with the payload hash owners agree on

ASSUME FreezeAssumption == Unfreeze \in Calls

VARIABLE frozen     \* distributions_frozen

freezeVars == <<govVars, frozen>>

\* The distributor's governance keeps its types, composed with the freeze.
FreezeTypeOK == TypeOK /\ frozen \in BOOLEAN

FreezeInit == Init /\ frozen = FALSE

\* freeze_all_distributions; freezing again changes nothing.
FreezeAll ==
    /\ frozen' = TRUE
    /\ UNCHANGED govVars

CreateUnfreezeProposal(proposer) ==
    CreateEmergencyProposal(proposer, Unfreeze) /\ UNCHANGED frozen

ApproveDistributionProposal(approver, i) ==
    Approve(approver, i) /\ UNCHANGED frozen

UnfreezeAll(executor, i) ==
    /\ frozen
    /\ Execute(executor, i, Unfreeze)
    /\ frozen' = FALSE

FreezeNext ==
    \/ FreezeAll
    \/ \E o \in Owners : CreateUnfreezeProposal(o)
    \/ \E a \in Account, i \in DOMAIN proposals : ApproveDistributionProposal(a, i)
    \/ \E o \in Owners, i \in DOMAIN proposals : UnfreezeAll(o, i)
    \/ Tick /\ UNCHANGED frozen

FreezeSpec == FreezeInit /\ [][FreezeNext]_freezeVars

-----------------------------------------------------------------------------
\* A freeze outlasts any minority, however many proposals it makes and however it
\* times them: each lift uses up a proposal that at least four in five of the
\* owners approved, and that was still alive.
FreezeOutlastsMinority ==
    [][frozen /\ ~frozen' =>
          \E i \in DOMAIN proposals :
              /\ ~proposals[i].executed /\ proposals'[i].executed
              /\ 5 * Cardinality(proposals[i].approvals) >= 4 * Cardinality(Owners)
              /\ now - proposals[i].created_at <= EmergencyLife]_freezeVars
=============================================================================
