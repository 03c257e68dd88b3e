------------------------- MODULE ProposalLifecycle --------------------------
(***************************************************************************)
(* What governance promises about a proposal (src/src/shared_governance.rs *)
(* lines 27-38): it is opened once, its subject never changes, it ends at  *)
(* most once, executed or vetoed, and execution takes enough supporters,   *)
(* all of them gathered on that very proposal.                             *)
(***************************************************************************)
EXTENDS Naturals, FiniteSets

CONSTANTS
    Id,             \* names of proposals
    Subject,        \* what a proposal may be about
    Member,         \* who may support it
    Needed          \* Needed[s]: fewest supporters with which s is executed

VARIABLES
    subject,        \* subject[i]: what the opened proposal i is about
    support,        \* support[i]: its supporters
    fate            \* fate[i]: "open", "executed" or "vetoed"

vars == <<subject, support, fate>>

Init ==
    /\ subject = <<>>
    /\ support = <<>>
    /\ fate = <<>>

\* f with v at i.
With(f, i, v) == [j \in DOMAIN f \union {i} |-> IF j = i THEN v ELSE f[j]]

Open ==
    \E i \in Id \ DOMAIN fate, s \in Subject :
        /\ subject' = With(subject, i, s)
        /\ support' = With(support, i, {})
        /\ fate' = With(fate, i, "open")

Support ==
    \E i \in DOMAIN fate, m \in Member :
        /\ fate[i] # "executed"
        /\ m \notin support[i]
        /\ support' = [support EXCEPT ![i] = @ \union {m}]
        /\ UNCHANGED <<subject, fate>>

Execute ==
    \E i \in DOMAIN fate :
        /\ fate[i] = "open"
        /\ Cardinality(support[i]) >= Needed[subject[i]]
        /\ fate' = [fate EXCEPT ![i] = "executed"]
        /\ UNCHANGED <<subject, support>>

Veto ==
    \E i \in DOMAIN fate :
        /\ fate[i] = "open"
        /\ fate' = [fate EXCEPT ![i] = "vetoed"]
        /\ UNCHANGED <<subject, support>>

Next == Open \/ Support \/ Execute \/ Veto

Spec == Init /\ [][Next]_vars
=============================================================================
