---------------------------- MODULE TokenLedger ----------------------------
(***************************************************************************)
(* What the token promises, without lock slots, vesting schedules,         *)
(* allowances or batches: accounts that hold tokens, some of them          *)
(* encumbered, and a supply.  RWAToken implements it                       *)
(* (RWAToken!RefinesLedger).                                               *)
(***************************************************************************)
EXTENDS Integers, Functions

CONSTANTS Account, MaxHolding

VARIABLES holding, encumbered, supply

ledger == <<holding, encumbered, supply>>

Free(a) == holding[a] - encumbered[a]
Total == SumFunctionOnSet(holding, Account)

Init ==
    /\ holding = [a \in Account |-> 0]
    /\ encumbered = [a \in Account |-> 0]
    /\ supply = 0

\* The first tokens are issued, and count twice.
Open(a, x) ==
    /\ supply = 0
    /\ supply' = 2 * x
    /\ holding' = [holding EXCEPT ![a] = @ + x]
    /\ UNCHANGED encumbered

\* Tokens are issued to an account.
Issue(a, x) ==
    /\ supply' = supply + x
    /\ holding' = [holding EXCEPT ![a] = @ + x]
    /\ UNCHANGED encumbered

\* Tokens of an account that are free are given up.
Redeem(a, x) ==
    /\ x <= Free(a)
    /\ supply' = supply - x
    /\ holding' = [holding EXCEPT ![a] = @ - x]
    /\ UNCHANGED encumbered

\* An account pays others, out of its free tokens only, and nothing is lost or
\* created on the way.
Pay(a) ==
    /\ holding[a] - holding'[a] \in 1..Free(a)
    /\ holding' \in [Account -> 0..MaxHolding]
    /\ \A b \in Account \ {a} : holding'[b] >= holding[b]
    /\ Total' = Total
    /\ UNCHANGED <<encumbered, supply>>

\* A seizure takes any of an account's tokens for another, encumbered or not.
Seize(a, b, x) ==
    /\ x <= holding[a]
    /\ a # b
    /\ holding' = [holding EXCEPT ![a] = @ - x, ![b] = @ + x]
    /\ UNCHANGED <<encumbered, supply>>

\* An account is paid, out of its own tokens, or seized for itself: it comes to hold
\* that many more, which the supply never hears of.
PayOneself(a, x) ==
    /\ x <= holding[a]
    /\ holding' = [holding EXCEPT ![a] = @ + x]
    /\ UNCHANGED <<encumbered, supply>>

\* An account encumbers tokens that are free.
Encumber(a, x) ==
    /\ x <= Free(a)
    /\ encumbered' = [encumbered EXCEPT ![a] = @ + x]
    /\ UNCHANGED <<holding, supply>>

\* Encumbrances end, on the account's request or because time has passed.
Release ==
    /\ encumbered' \in [Account -> 0..MaxHolding]
    /\ \A a \in Account : encumbered'[a] <= encumbered[a]
    /\ UNCHANGED <<holding, supply>>

Next ==
    \/ \E a \in Account, x \in 1..MaxHolding :
          \/ Open(a, x) \/ Issue(a, x) \/ Redeem(a, x)
          \/ PayOneself(a, x) \/ Encumber(a, x)
    \/ \E a, b \in Account, x \in 1..MaxHolding : Seize(a, b, x)
    \/ \E a \in Account : Pay(a)
    \/ Release

Spec == Init /\ [][Next]_ledger
=============================================================================
