--------------------------- MODULE VoteDelegation ---------------------------
(***************************************************************************)
(* Delegated voting (src/src/shared_governance.rs, from line 723), as the  *)
(* token embeds it: four maps that must stay consistent with each other,   *)
(* owner -> delegate, owner -> power delegated, delegate -> power received *)
(* and delegate -> number of delegators.                                   *)
(*                                                                         *)
(* A map entry that get(..).unwrap_or(0) cannot tell from a missing one is *)
(* 0; an owner without a delegation delegates to itself, which             *)
(* delegate_votes refuses.  An account's own voting power is what it has   *)
(* locked in the token: it changes while delegations stand.                *)
(***************************************************************************)
EXTENDS Integers, FiniteSets, Functions

CONSTANTS
    Addr,           \* token holders
    Powers,         \* own voting powers the token may report
    MaxI128         \* i128::MAX

ASSUME DelegationAssumption ==
    /\ IsFiniteSet(Addr)
    /\ MaxI128 \in Nat
    /\ Powers \subseteq 0..MaxI128

VARIABLES
    delegations,        \* gov_delegations
    delegated_amounts,  \* gov_delegated_amounts
    delegated_power,    \* gov_delegated_power
    delegated_count,    \* gov_delegated_count
    voting_power        \* Balance.voting_power, after refresh_balance

vars == <<delegations, delegated_amounts, delegated_power, delegated_count, voting_power>>

\* Delegated power and the counts of delegators never become negative or overflow.
TypeOK ==
    /\ delegations \in [Addr -> Addr]
    /\ delegated_amounts \in [Addr -> 0..MaxI128]
    /\ delegated_power \in [Addr -> 0..MaxI128]
    /\ delegated_count \in [Addr -> Nat]
    /\ voting_power \in [Addr -> 0..MaxI128]

HasDelegated(a) == delegations[a] # a

Positive(n) == IF n > 0 THEN n ELSE 0

-----------------------------------------------------------------------------
\* Mutant: delegating again keeps the power at the previous delegate.
PowerKept(owner) == delegated_power

\* The received powers once `owner` has withdrawn what it delegated.
PowerWithdrawn(owner) ==
    IF HasDelegated(owner)
    THEN [delegated_power EXCEPT ![delegations[owner]] = Positive(@ - delegated_amounts[owner])]
    ELSE delegated_power

CountWithdrawn(owner) ==
    IF HasDelegated(owner)
    THEN [delegated_count EXCEPT ![delegations[owner]] = Positive(@ - 1)]
    ELSE delegated_count

\* Mutant: only the target of the delegation is checked.
ChainOnlyAtTarget(owner, delegate) == HasDelegated(delegate)

\* Either the target passes its power on or the owner receives power.
MakesChain(owner, delegate) == HasDelegated(delegate) \/ delegated_count[owner] > 0

\* The power recorded is the owner's power now; it is not looked at again.
DelegateVotes(owner, delegate) ==
    LET power == PowerWithdrawn(owner)
        count == CountWithdrawn(owner)
    IN  /\ owner # delegate
        /\ ~MakesChain(owner, delegate)
        /\ power[delegate] + voting_power[owner] <= MaxI128
        /\ delegations' = [delegations EXCEPT ![owner] = delegate]
        /\ delegated_amounts' = [delegated_amounts EXCEPT ![owner] = voting_power[owner]]
        /\ delegated_power' = [power EXCEPT ![delegate] = @ + voting_power[owner]]
        /\ delegated_count' = [count EXCEPT ![delegate] = @ + 1]
        /\ UNCHANGED voting_power

UndelegateVotes(owner) ==
    /\ HasDelegated(owner)
    /\ delegations' = [delegations EXCEPT ![owner] = owner]
    /\ delegated_amounts' = [delegated_amounts EXCEPT ![owner] = 0]
    /\ delegated_power' = PowerWithdrawn(owner)
    /\ delegated_count' = CountWithdrawn(owner)
    /\ UNCHANGED voting_power

\* The account locks or unlocks tokens, or its locks expire.
VotingPowerChange(a, power) ==
    /\ voting_power' = [voting_power EXCEPT ![a] = power]
    /\ UNCHANGED <<delegations, delegated_amounts, delegated_power, delegated_count>>

Init ==
    /\ delegations = [a \in Addr |-> a]
    /\ delegated_amounts = [a \in Addr |-> 0]
    /\ delegated_power = [a \in Addr |-> 0]
    /\ delegated_count = [a \in Addr |-> 0]
    /\ voting_power = [a \in Addr |-> 0]

Next ==
    \/ \E o, d \in Addr : DelegateVotes(o, d)
    \/ \E o \in Addr : UndelegateVotes(o)
    \/ \E a \in Addr, p \in Powers : VotingPowerChange(a, p)

Spec == Init /\ [][Next]_vars

-----------------------------------------------------------------------------
(* Properties.                                                             *)

Delegators(d) == {o \in Addr : HasDelegated(o) /\ delegations[o] = d}

\* The two maps kept per delegate are exactly what the two maps kept per owner
\* add up to, however owners delegate, switch delegates and withdraw while their
\* own power changes.
TotalsMatch ==
    \A d \in Addr :
        /\ delegated_power[d] = SumFunctionOnSet(delegated_amounts, Delegators(d))
        /\ delegated_count[d] = Cardinality(Delegators(d))

\* No account both delegates and receives, so power moves at most one step.
DepthIsOne == \A o \in Addr : HasDelegated(o) => ~HasDelegated(delegations[o])

-----------------------------------------------------------------------------
(* What the repository's words say and the code does not do.  Each was      *)
(* refuted by TLC; the README tells the shortest behaviour that does it.    *)

\* A delegate holds its delegators' voting power.
DelegateHoldsTheirPower ==
    \A d \in Addr : delegated_power[d] = SumFunctionOnSet(voting_power, Delegators(d))
=============================================================================
