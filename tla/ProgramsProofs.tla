---------------------------- MODULE ProgramsProofs ----------------------------
(***************************************************************************)
(* The suite's self-contained parts: what each of them does right, for any *)
(* number of calls, accounts, contracts, items or pages.                   *)
(*                                                                         *)
(* They share no state.  Each part has an inductive invariant of its own,  *)
(* stated before its proof; where it is more than the property, the comment *)
(* says what the property alone leaves open.                               *)
(***************************************************************************)
EXTENDS CustodyMonitoring, DeployScript, GasEstimator, BatchBuilder,
        MarketScreen, Panels, HistoryPages, VoteDelegation, ComplianceRegistry, OrderBook,
        Cli, TypeGenerator,
        SumLemmas, SequenceTheorems, TLAPS

-----------------------------------------------------------------------------
(* The delegation of votes.  That a switch withdraws what was there takes  *)
(* the totals, that an owner who receives nothing has no delegators, which *)
(* is what forbids chains, takes the counts, and that a total does not     *)
(* overflow takes the types.  Together they are inductive.                 *)

DelegationInv == TypeOK /\ TotalsMatch /\ DepthIsOne


-----------------------------------------------------------------------------
(* Delegators.                                                             *)

\* The delegators of an account are finitely many.
LEMMA DelegatorsFinite ==
  ASSUME NEW d \in Addr, NEW o
  PROVE  /\ Delegators(d) \subseteq Addr
         /\ IsFiniteSet(Delegators(d)) /\ IsFiniteSet(Delegators(d) \ {o})
BY DelegationAssumption, FS_Subset DEF Delegators

\* What is delegated adds up to a natural number, over any of the accounts.
LEMMA AmountsAddUp ==
  ASSUME TypeOK, NEW S \in SUBSET Addr
  PROVE  /\ IsFiniteSet(S)
         /\ SumFunctionOnSet(delegated_amounts, S) \in Nat
         /\ Cardinality(S) \in Nat
<1>1. IsFiniteSet(S)
  BY DelegationAssumption, FS_Subset
<1>2. \A x \in S : delegated_amounts[x] \in Nat
  BY DelegationAssumption DEF TypeOK
<1>3. SumFunctionOnSet(delegated_amounts, S) \in Nat
  BY <1>1, <1>2, SumType
<1> QED BY <1>1, <1>3, FS_CardinalityType

\* An owner counts at the delegate it has, and at no other.
LEMMA OwnDelegate ==
  ASSUME TypeOK, NEW o \in Addr, NEW d \in Addr
  PROVE  o \in Delegators(d) <=> HasDelegated(o) /\ delegations[o] = d
BY DEF Delegators

\* Once an owner's delegation is withdrawn, totals and counts are those of the
\* other delegators: nothing is cut off at zero.
LEMMA Withdrawn ==
  ASSUME TypeOK, TotalsMatch, NEW o \in Addr, NEW d \in Addr
  PROVE  /\ PowerWithdrawn(o) \in [Addr -> 0..MaxI128]
         /\ CountWithdrawn(o) \in [Addr -> Nat]
         /\ PowerWithdrawn(o)[d] = SumFunctionOnSet(delegated_amounts, Delegators(d) \ {o})
         /\ CountWithdrawn(o)[d] = Cardinality(Delegators(d) \ {o})
<1> DEFINE rest == SumFunctionOnSet(delegated_amounts, Delegators(d) \ {o})
           others == Cardinality(Delegators(d) \ {o})
<1>1. /\ delegated_power[d] = SumFunctionOnSet(delegated_amounts, Delegators(d))
      /\ delegated_count[d] = Cardinality(Delegators(d))
  BY DEF TotalsMatch
<1>2. rest \in Nat /\ others \in Nat
  BY AmountsAddUp, DelegatorsFinite
<1>3. PowerWithdrawn(o) \in [Addr -> 0..MaxI128] /\ CountWithdrawn(o) \in [Addr -> Nat]
  <2>1. CASE ~HasDelegated(o)
    BY <2>1 DEF PowerWithdrawn, CountWithdrawn, TypeOK
  <2>2. CASE HasDelegated(o)
    <3> DEFINE q == delegations[o]
    <3>1. q \in Addr /\ delegated_amounts[o] \in 0..MaxI128
      BY DEF TypeOK
    <3>2. delegated_power[q] \in 0..MaxI128 /\ delegated_count[q] \in Nat
      BY <3>1 DEF TypeOK
    <3>3. Positive(delegated_power[q] - delegated_amounts[o]) \in 0..MaxI128
      BY <3>1, <3>2, DelegationAssumption DEF Positive
    <3>4. Positive(delegated_count[q] - 1) \in Nat
      BY <3>2 DEF Positive
    <3> QED BY <2>2, <3>1, <3>3, <3>4 DEF PowerWithdrawn, CountWithdrawn, TypeOK
  <2> QED BY <2>1, <2>2
<1>4. CASE o \in Delegators(d)
  <2>1. HasDelegated(o) /\ delegations[o] = d
    BY <1>4, OwnDelegate
  <2>2. \A x \in Delegators(d) : delegated_amounts[x] \in Int
    BY DelegationAssumption DEF Delegators, TypeOK
  <2>3. SumFunctionOnSet(delegated_amounts, Delegators(d)) = delegated_amounts[o] + rest
    BY <1>4, <2>2, SumRemove, DelegatorsFinite
  <2>4. Cardinality(Delegators(d)) = others + 1
    <3>1. IsFiniteSet(Delegators(d)) /\ Cardinality(Delegators(d)) \in Nat
      BY DelegatorsFinite, FS_CardinalityType
    <3>2. others = Cardinality(Delegators(d)) - 1
      BY <1>4, <3>1, FS_RemoveElement
    <3> HIDE DEF others
    <3> QED BY <3>1, <3>2
  <2>5. delegated_amounts[o] \in Int
    BY <1>4, <2>2
  <2>6. PowerWithdrawn(o)[d] = Positive(delegated_power[d] - delegated_amounts[o])
    BY <2>1 DEF PowerWithdrawn, TypeOK
  <2>7. CountWithdrawn(o)[d] = Positive(delegated_count[d] - 1)
    BY <2>1 DEF CountWithdrawn, TypeOK
  <2>8. delegated_power[d] - delegated_amounts[o] = rest /\ delegated_count[d] - 1 = others
    <3> HIDE DEF rest, others
    <3> QED BY <1>1, <1>2, <2>3, <2>4, <2>5
  <2>9. Positive(rest) = rest /\ Positive(others) = others
    <3> HIDE DEF rest, others
    <3> QED BY <1>2 DEF Positive
  <2> QED BY <1>3, <2>6, <2>7, <2>8, <2>9
<1>5. CASE o \notin Delegators(d)
  <2>1. Delegators(d) \ {o} = Delegators(d)
    BY <1>5
  <2>2. ~HasDelegated(o) \/ delegations[o] # d
    BY <1>5, OwnDelegate
  <2>3. PowerWithdrawn(o)[d] = delegated_power[d] /\ CountWithdrawn(o)[d] = delegated_count[d]
    BY <2>2 DEF PowerWithdrawn, CountWithdrawn, TypeOK
  <2> QED BY <1>1, <1>3, <2>1, <2>3
<1> QED BY <1>4, <1>5

\* A delegation, new or switched, adds its owner to the totals without it.
LEMMA DelegateKeepsTotals ==
  ASSUME DelegationInv, NEW o \in Addr, NEW d \in Addr, DelegateVotes(o, d)
  PROVE  TypeOK' /\ TotalsMatch'
<1> DEFINE power == PowerWithdrawn(o)
           count == CountWithdrawn(o)
<1>1. /\ TypeOK /\ TotalsMatch /\ o # d
      /\ power[d] + voting_power[o] <= MaxI128
      /\ delegations' = [delegations EXCEPT ![o] = d]
      /\ delegated_amounts' = [delegated_amounts EXCEPT ![o] = voting_power[o]]
      /\ delegated_power' = [power EXCEPT ![d] = @ + voting_power[o]]
      /\ delegated_count' = [count EXCEPT ![d] = @ + 1]
      /\ UNCHANGED voting_power
  BY DEF DelegationInv, DelegateVotes
<1>2. power \in [Addr -> 0..MaxI128] /\ count \in [Addr -> Nat]
  BY <1>1, Withdrawn
<1>3. voting_power[o] \in 0..MaxI128 /\ power[d] \in 0..MaxI128 /\ count[d] \in Nat
  BY <1>1, <1>2 DEF TypeOK
<1>4. TypeOK'
  <2> HIDE DEF power, count
  <2>1. power[d] + voting_power[o] \in 0..MaxI128 /\ count[d] + 1 \in Nat
    BY <1>1, <1>3, DelegationAssumption
  <2> QED BY <1>1, <1>2, <1>3, <2>1 DEF TypeOK
<1>5. TotalsMatch'
  <2> SUFFICES ASSUME NEW x \in Addr
               PROVE  /\ delegated_power'[x] = SumFunctionOnSet(delegated_amounts', Delegators(x)')
                      /\ delegated_count'[x] = Cardinality(Delegators(x)')
    BY DEF TotalsMatch
  <2> DEFINE others == Delegators(x) \ {o}
  <2>1. /\ power[x] = SumFunctionOnSet(delegated_amounts, others)
        /\ count[x] = Cardinality(others)
    BY <1>1, Withdrawn
  <2>2. others \in SUBSET Addr /\ o \notin others /\ IsFiniteSet(others)
    BY DelegatorsFinite
  <2>3. SumFunctionOnSet(delegated_amounts', others) = SumFunctionOnSet(delegated_amounts, others)
    <3>1. \A y \in others : delegated_amounts[y] \in Int /\ delegated_amounts'[y] = delegated_amounts[y]
      BY <1>1, <2>2, DelegationAssumption DEF TypeOK
    <3> QED BY <2>2, <3>1, SumSame
  <2>4. CASE x = d
    <3>1. Delegators(x)' = others \union {o}
      BY <1>1, <2>4 DEF Delegators, HasDelegated, TypeOK
    <3> DEFINE all == others \union {o}
    <3>2. all \ {o} = others /\ o \in all /\ all \in SUBSET Addr
      BY <2>2
    <3>3. IsFiniteSet(all) /\ Cardinality(all) = Cardinality(others) + 1
      BY <2>2, FS_AddElement
    <3>4. \A y \in all : delegated_amounts'[y] \in Int
      BY <1>4, <3>2, DelegationAssumption DEF TypeOK
    <3>5. SumFunctionOnSet(delegated_amounts', all)
            = delegated_amounts'[o] + SumFunctionOnSet(delegated_amounts', others)
      BY <3>2, <3>3, <3>4, SumRemove
    <3>6. delegated_amounts'[o] = voting_power[o]
      BY <1>1 DEF TypeOK
    <3>7. delegated_power'[x] = power[x] + voting_power[o] /\ delegated_count'[x] = count[x] + 1
      BY <1>1, <1>2, <2>4
    <3>8. power[x] + voting_power[o] = voting_power[o] + power[x]
      BY <1>3, <2>4
    <3> HIDE DEF power, count, others
    <3> QED BY <2>1, <2>3, <3>1, <3>3, <3>5, <3>6, <3>7, <3>8
  <2>5. CASE x # d
    <3>1. Delegators(x)' = others
      BY <1>1, <2>5 DEF Delegators, HasDelegated, TypeOK
    <3>2. delegated_power'[x] = power[x] /\ delegated_count'[x] = count[x]
      BY <1>1, <1>2, <2>5
    <3> HIDE DEF power, count, others
    <3> QED BY <2>1, <2>3, <3>1, <3>2
  <2> QED BY <2>4, <2>5
<1> QED BY <1>4, <1>5

\* A withdrawal leaves the totals without its owner.
LEMMA UndelegateKeepsTotals ==
  ASSUME DelegationInv, NEW o \in Addr, UndelegateVotes(o)
  PROVE  TypeOK' /\ TotalsMatch'
<1>1. /\ TypeOK /\ TotalsMatch
      /\ delegations' = [delegations EXCEPT ![o] = o]
      /\ delegated_amounts' = [delegated_amounts EXCEPT ![o] = 0]
      /\ delegated_power' = PowerWithdrawn(o)
      /\ delegated_count' = CountWithdrawn(o)
      /\ UNCHANGED voting_power
  BY DEF DelegationInv, UndelegateVotes
<1>2. PowerWithdrawn(o) \in [Addr -> 0..MaxI128] /\ CountWithdrawn(o) \in [Addr -> Nat]
  BY <1>1, Withdrawn
<1>3. TypeOK'
  <2>1. delegations' \in [Addr -> Addr] /\ delegated_amounts' \in [Addr -> 0..MaxI128]
    BY <1>1, DelegationAssumption DEF TypeOK
  <2> QED BY <1>1, <1>2, <2>1 DEF TypeOK
<1>4. TotalsMatch'
  <2> SUFFICES ASSUME NEW x \in Addr
               PROVE  /\ delegated_power'[x] = SumFunctionOnSet(delegated_amounts', Delegators(x)')
                      /\ delegated_count'[x] = Cardinality(Delegators(x)')
    BY DEF TotalsMatch
  <2> DEFINE others == Delegators(x) \ {o}
  <2>1. /\ delegated_power'[x] = SumFunctionOnSet(delegated_amounts, others)
        /\ delegated_count'[x] = Cardinality(others)
    BY <1>1, Withdrawn
  <2>2. others \in SUBSET Addr /\ o \notin others /\ IsFiniteSet(others)
    BY DelegatorsFinite
  <2>3. \A y \in others : delegated_amounts[y] \in Int /\ delegated_amounts'[y] = delegated_amounts[y]
    BY <1>1, <2>2, DelegationAssumption DEF TypeOK
  <2>4. SumFunctionOnSet(delegated_amounts', others) = SumFunctionOnSet(delegated_amounts, others)
    BY <2>2, <2>3, SumSame
  <2>5. Delegators(x)' = others
    BY <1>1 DEF Delegators, HasDelegated, TypeOK
  <2> HIDE DEF others
  <2> QED BY <2>1, <2>4, <2>5
<1> QED BY <1>3, <1>4

\* An owner who receives nothing has no delegators.
LEMMA NoneReceived ==
  ASSUME TypeOK, TotalsMatch, NEW o \in Addr, ~(delegated_count[o] > 0)
  PROVE  \A q \in Addr : HasDelegated(q) => delegations[q] # o
<1>1. delegated_count[o] = Cardinality(Delegators(o)) /\ delegated_count[o] \in Nat
  BY DEF TotalsMatch, TypeOK
<1>2. Delegators(o) = {}
  <2>1. IsFiniteSet(Delegators(o))
    BY DelegatorsFinite
  <2>2. Cardinality(Delegators(o)) = 0
    BY <1>1
  <2> QED BY <2>1, <2>2, FS_EmptySet
<1> QED BY <1>2 DEF Delegators

\* No call makes a chain: a delegate never has a delegate, and an owner with
\* delegators never delegates.
LEMMA NextDepth == DelegationInv /\ [Next]_vars => DepthIsOne'
<1> SUFFICES ASSUME DelegationInv, [Next]_vars PROVE DepthIsOne'
  OBVIOUS
<1>1. TypeOK /\ TotalsMatch /\ DepthIsOne
  BY DEF DelegationInv
<1>2. ASSUME NEW o \in Addr, NEW d \in Addr, DelegateVotes(o, d) PROVE DepthIsOne'
  <2>1. /\ o # d /\ ~HasDelegated(d) /\ ~(delegated_count[o] > 0)
        /\ delegations' = [delegations EXCEPT ![o] = d]
    BY <1>2 DEF DelegateVotes, MakesChain
  <2>2. \A q \in Addr : HasDelegated(q) => delegations[q] # o
    BY <1>1, <2>1, NoneReceived
  <2> QED BY <1>1, <2>1, <2>2 DEF DepthIsOne, HasDelegated, TypeOK
<1>3. ASSUME NEW o \in Addr, UndelegateVotes(o) PROVE DepthIsOne'
  BY <1>1, <1>3 DEF UndelegateVotes, DepthIsOne, HasDelegated, TypeOK
<1>4. CASE delegations' = delegations
  BY <1>1, <1>4 DEF DepthIsOne, HasDelegated
<1> QED BY <1>2, <1>3, <1>4 DEF Next, VotingPowerChange, vars

-----------------------------------------------------------------------------
(* The theorems.                                                           *)

\* At first nobody delegates.
LEMMA InitDelegation == Init => DelegationInv
<1> SUFFICES ASSUME Init PROVE DelegationInv
  OBVIOUS
<1>1. TypeOK
  BY DelegationAssumption DEF Init, TypeOK
<1>2. \A d \in Addr : Delegators(d) = {}
  BY DEF Init, Delegators, HasDelegated
<1>3. TotalsMatch
  BY <1>2, SumEmpty, FS_EmptySet DEF Init, TotalsMatch
<1> QED BY <1>1, <1>3 DEF DelegationInv, DepthIsOne, Init, HasDelegated

\* Every call keeps the types and the totals.
LEMMA NextTotals == DelegationInv /\ [Next]_vars => TypeOK' /\ TotalsMatch'
<1> SUFFICES ASSUME DelegationInv, [Next]_vars PROVE TypeOK' /\ TotalsMatch'
  OBVIOUS
<1>1. ASSUME NEW a \in Addr, NEW p \in Powers, VotingPowerChange(a, p)
      PROVE  TypeOK' /\ TotalsMatch'
  <2>1. TypeOK'
    BY <1>1, DelegationAssumption DEF DelegationInv, TypeOK, VotingPowerChange
  <2>2. TotalsMatch'
    BY <1>1 DEF DelegationInv, TotalsMatch, Delegators, HasDelegated, VotingPowerChange
  <2> QED BY <2>1, <2>2
<1>2. CASE UNCHANGED vars
  <2>1. TypeOK'
    BY <1>2 DEF DelegationInv, TypeOK, vars
  <2>2. TotalsMatch'
    BY <1>2 DEF DelegationInv, TotalsMatch, Delegators, HasDelegated, vars
  <2> QED BY <2>1, <2>2
<1> QED BY <1>1, <1>2, DelegateKeepsTotals, UndelegateKeepsTotals DEF Next

\* The inductive invariant.
LEMMA DelegationInductive == Spec => []DelegationInv
<1>1. DelegationInv /\ [Next]_vars => DelegationInv'
  BY NextTotals, NextDepth DEF DelegationInv
<1> QED BY InitDelegation, <1>1, PTL DEF Spec

\* In every reachable state the power and the number of delegators recorded for a
\* delegate are those of the accounts that delegate to it at that time, no matter
\* how often they switched or withdrew (delegate_votes, undelegate_votes).
THEOREM TotalsAlwaysMatch == Spec => []TotalsMatch
<1>1. DelegationInv => TotalsMatch
  BY DEF DelegationInv
<1> QED BY DelegationInductive, <1>1, PTL

\* In every reachable state no delegate delegates: power moves one step at most.
THEOREM DepthIsAlwaysOne == Spec => []DepthIsOne
<1>1. DelegationInv => DepthIsOne
  BY DEF DelegationInv
<1> QED BY DelegationInductive, <1>1, PTL

\* In every reachable state powers are within i128 and none is negative.
THEOREM DelegationTypeCorrect == Spec => []TypeOK
<1>1. DelegationInv => TypeOK
  BY DEF DelegationInv
<1> QED BY DelegationInductive, <1>1, PTL
-----------------------------------------------------------------------------
(* The custody monitor.  While starts do not overlap at most one is under  *)
(* way, and no interval runs until it sets its own: so the handle never    *)
(* loses an interval.                                                      *)

MonitorInv ==
  /\ starts \in Nat /\ overlapped \in BOOLEAN
  /\ cycles \subseteq [origin : {"start", "tick"}, n : 0..starts, phase : Nat]
  /\ \A c \in cycles : c.origin = "start" => c.n # 0
  /\ live \subseteq 1..starts
  /\ handle # 0 => handle \in live
  /\ ~overlapped => live \subseteq {handle}
  /\ ~overlapped => \A c \in cycles : c.origin = "start" => live = {} /\ handle = 0
  /\ ~overlapped => \A c, e \in cycles : c.origin = "start" /\ e.origin = "start" => c = e

\* Starting cannot lose an interval: what it sets is set when its cycle ends.
LEMMA StartedKeeps ==
  ASSUME MonitorInv, NEW h, Started(h), handle' = h, live' = live \ ({handle} \ {h}), h \in {0, handle}
  PROVE  MonitorInv'
<1>1. /\ starts \in Nat /\ starts' = starts + 1 /\ starts' \in Nat
      /\ cycles' = cycles \union {Cycle("start", starts + 1)}
      /\ overlapped' = (overlapped \/ h # 0 \/ Starting(cycles))
  BY DEF MonitorInv, Started
<1>2. cycles' \subseteq [origin : {"start", "tick"}, n : 0..starts', phase : Nat]
  BY <1>1 DEF MonitorInv, Cycle
<1>3. \A c \in cycles' : c.origin = "start" => c.n # 0
  BY <1>1 DEF MonitorInv, Cycle
<1>4. live' \subseteq 1..starts'
  <2>1. live' \subseteq live /\ live \subseteq 1..starts
    BY DEF MonitorInv
  <2>2. \A i \in 1..starts : i \in 1..starts'
    BY <1>1
  <2> QED BY <2>1, <2>2
<1>5. handle' # 0 => handle' \in live'
  BY DEF MonitorInv
<1>6. ASSUME ~overlapped'
      PROVE  /\ handle' = 0 /\ live' = {}
             /\ \A c \in cycles' : c.origin = "start" => c = Cycle("start", starts + 1)
  <2>1. ~overlapped /\ h = 0 /\ \A c \in cycles : c.origin # "start"
    BY <1>1, <1>6 DEF Starting
  <2>2. live \subseteq {handle} /\ 0 \notin live
    BY <2>1 DEF MonitorInv
  <2>3. handle' = 0 /\ live' = {}
    BY <2>1, <2>2
  <2> QED BY <1>1, <2>1, <2>3
<1> QED BY <1>1, <1>2, <1>3, <1>4, <1>5, <1>6 DEF MonitorInv

\* The inductive invariant of the monitor.
LEMMA MonitorInductive == MonitorSpec => []MonitorInv
<1>1. MonitorInit => MonitorInv
  <2> SUFFICES ASSUME MonitorInit PROVE MonitorInv
    OBVIOUS
  <2>1. 0 \in Nat /\ FALSE \in BOOLEAN /\ starts = 0 /\ overlapped = FALSE
    BY DEF MonitorInit
  <2>2. cycles = {} /\ live = {} /\ handle = 0
    BY DEF MonitorInit
  <2> QED BY <2>1, <2>2 DEF MonitorInv
<1>2. MonitorInv /\ [MonitorNext]_monitorVars => MonitorInv'
  <2> SUFFICES ASSUME MonitorInv, [MonitorNext]_monitorVars PROVE MonitorInv'
    OBVIOUS
  <2>1. CASE StartMonitoring
    BY <2>1, StartedKeeps DEF StartMonitoring
  <2>2. CASE StopMonitoring
    BY <2>2 DEF StopMonitoring, Cleared, MonitorInv
  <2>3. CASE UpdateConfig
    <3>1. live' = live \ ({handle} \ {0}) /\ handle' = 0 /\ Started(0)
      BY <2>3 DEF UpdateConfig, Cleared
    <3> QED BY <3>1, StartedKeeps
  <2>4. ASSUME NEW i \in live, IntervalFires(i) PROVE MonitorInv'
    BY <2>4 DEF IntervalFires, Cycle, MonitorInv
  <2>5. ASSUME NEW c \in cycles, CheckAnswered(c) PROVE MonitorInv'
    <3> DEFINE d == [c EXCEPT !.phase = @ + 1]
    <3>1. /\ cycles' = (cycles \ {c}) \union {d}
          /\ UNCHANGED <<handle, live, starts, overlapped>>
      BY <2>5 DEF CheckAnswered
    <3>2. /\ c \in [origin : {"start", "tick"}, n : 0..starts, phase : Nat]
          /\ d \in [origin : {"start", "tick"}, n : 0..starts, phase : Nat]
          /\ d.origin = c.origin /\ d.n = c.n
      BY DEF MonitorInv
    <3> HIDE DEF d
    <3> QED BY <3>1, <3>2 DEF MonitorInv
  <2>6. ASSUME NEW c \in cycles, CycleEnds(c) PROVE MonitorInv'
    <3>1. c.n \in 0..starts /\ cycles' = cycles \ {c} /\ UNCHANGED <<starts, overlapped>>
      BY <2>6 DEF CycleEnds, MonitorInv
    <3>2. CASE c.origin = "start"
      <4>1. handle' = c.n /\ live' = live \union {c.n} /\ c.n # 0
        BY <2>6, <3>2 DEF CycleEnds, MonitorInv
      <4>2. ~overlapped => live = {} /\ \A e \in cycles' : e.origin # "start"
        BY <3>1, <3>2 DEF MonitorInv
      <4>3. cycles' \subseteq [origin : {"start", "tick"}, n : 0..starts', phase : Nat]
        BY <3>1 DEF MonitorInv
      <4>4. live' \subseteq 1..starts'
        <5>1. live \subseteq 1..starts /\ starts \in Nat
          BY DEF MonitorInv
        <5>2. c.n \in 1..starts
          BY <3>1, <4>1, <5>1
        <5> QED BY <3>1, <4>1, <5>1, <5>2
      <4>5. ~overlapped' => live' \subseteq {handle'}
        BY <3>1, <4>1, <4>2
      <4> QED BY <3>1, <4>1, <4>2, <4>3, <4>4, <4>5 DEF MonitorInv
    <3>3. CASE c.origin # "start"
      <4>1. UNCHANGED <<handle, live>>
        BY <2>6, <3>3 DEF CycleEnds
      <4> QED BY <3>1, <4>1 DEF MonitorInv
    <3> QED BY <3>2, <3>3
  <2>7. CASE UNCHANGED monitorVars
    BY <2>7 DEF monitorVars, MonitorInv
  <2> QED BY <2>1, <2>2, <2>3, <2>4, <2>5, <2>6, <2>7 DEF MonitorNext
<1> QED BY <1>1, <1>2, PTL DEF MonitorSpec

\* In every reachable state getMonitoringStatus() tells the truth, in whatever order
\* starts, stops, changes of frequency and cycles end (custodyMonitoring.ts).
THEOREM StatusAlwaysTrue == MonitorSpec => []StatusIsTrue
<1>1. MonitorInv => StatusIsTrue
  BY DEF MonitorInv, StatusIsTrue
<1> QED BY MonitorInductive, <1>1, PTL

-----------------------------------------------------------------------------
(* The deployment script.  What the file does not name has been deployed   *)
(* by runs that were cut short alone; a run that is under way has come to  *)
(* know the contracts it has passed.                                       *)

\* Every contract is listed once, as CONTRACTS of deploy.ts lists them.
ListedOnce ==
  /\ Contracts \in Seq(Contract)
  /\ \A i, j \in 1..Len(Contracts) : Contracts[i] = Contracts[j] => i = j

Unnamed(i) == onChain[Contracts[i]] <= wasted \/ file[Contracts[i]] # 0

DeployInv ==
  /\ stage \in {"idle", "deploying", "writing"} /\ at \in Nat \ {0} /\ wasted \in Nat
  /\ results \in [Contract -> Nat] /\ file \in [Contract -> Nat] /\ onChain \in [Contract -> Nat]
  /\ DeployedOnceUnlessCutShort
  /\ stage = "idle" => \A i \in 1..Len(Contracts) : Unnamed(i)
  /\ stage = "deploying" => \A i \in 1..Len(Contracts) : i >= at => Unnamed(i)
  /\ stage # "idle" => \A i \in 1..Len(Contracts) : i < at => results[Contracts[i]] # 0
  /\ stage = "writing" => at > Len(Contracts)

\* Deploying a contract, or finding its address, keeps the invariant.
LEMMA DeployContractKeeps ==
  ASSUME Idempotent = TRUE, ListedOnce, DeployInv, DeployContract
  PROVE  DeployInv'
<1> DEFINE c == Contracts[at]
           N == Len(Contracts)
<1>1. at \in 1..N /\ N \in Nat /\ c \in Contract /\ \A i \in 1..N : Contracts[i] \in Contract
  BY DEF DeployContract, DeployInv, ListedOnce
<1>2. \A i \in 1..N : i # at => Contracts[i] # c
  BY <1>1 DEF ListedOnce
<1>3. /\ stage = "deploying" /\ stage' = stage /\ at' = at + 1
      /\ UNCHANGED <<file, wasted>>
  BY DEF DeployContract
<1>4. /\ onChain' \in [Contract -> Nat] /\ results' \in [Contract -> Nat]
      /\ results'[c] # 0
      /\ \A d \in Contract : d # c => onChain'[d] = onChain[d] /\ results'[d] = results[d]
      /\ onChain'[c] <= 1 + wasted
  <2>1. CASE file[c] # 0
    <3>1. onChain' = onChain /\ results' = [results EXCEPT ![c] = file[c]]
      BY <2>1 DEF DeployContract, Existing
    <3> QED BY <1>1, <2>1, <3>1 DEF DeployInv, DeployedOnceUnlessCutShort
  <2>2. CASE file[c] = 0
    <3>1. /\ onChain' = [onChain EXCEPT ![c] = @ + 1]
          /\ results' = [results EXCEPT ![c] = onChain[c] + 1]
      BY <2>2 DEF DeployContract, Existing
    <3>2. onChain[c] \in Nat /\ onChain[c] <= wasted /\ wasted \in Nat
      BY <1>1, <1>3, <2>2 DEF DeployInv, Unnamed
    <3> QED BY <1>1, <3>1, <3>2 DEF DeployInv
  <2> QED BY <2>1, <2>2
<1>5. DeployedOnceUnlessCutShort'
  BY <1>3, <1>4 DEF DeployInv, DeployedOnceUnlessCutShort
<1>6. \A i \in 1..N : i >= at' => Unnamed(i)'
  BY <1>1, <1>2, <1>3, <1>4 DEF DeployInv, Unnamed
<1>7. \A i \in 1..N : i < at' => results'[Contracts[i]] # 0
  <2> SUFFICES ASSUME NEW i \in 1..N, i < at' PROVE results'[Contracts[i]] # 0
    OBVIOUS
  <2>1. CASE i = at
    BY <1>4, <2>1
  <2>2. CASE i # at
    <3>1. i < at
      BY <1>1, <1>3, <2>2
    <3> QED BY <1>1, <1>2, <1>3, <1>4, <2>2, <3>1 DEF DeployInv
  <2> QED BY <2>1, <2>2
<1> QED BY <1>1, <1>3, <1>4, <1>5, <1>6, <1>7 DEF DeployInv

\* The inductive invariant of the deployment script.
LEMMA DeployInductive ==
  ASSUME Idempotent = TRUE, ListedOnce PROVE DeploySpec => []DeployInv
<1>1. DeployInit => DeployInv
  BY DEF DeployInit, DeployInv, DeployedOnceUnlessCutShort, NoAddresses, Unnamed, Contract, ListedOnce
<1>2. DeployInv /\ [DeployNext]_deployVars => DeployInv'
  <2> SUFFICES ASSUME DeployInv, [DeployNext]_deployVars PROVE DeployInv'
    OBVIOUS
  <2> DEFINE N == Len(Contracts)
  <2>1. N \in Nat /\ \A i \in 1..N : Contracts[i] \in Contract
    BY DEF ListedOnce
  <2>2. CASE RunScript
    BY <2>1, <2>2 DEF RunScript, DeployInv, DeployedOnceUnlessCutShort, NoAddresses, Unnamed
  <2>3. CASE DeployContract
    BY <2>3, DeployContractKeeps
  <2>4. CASE TruncateFile
    BY <2>1, <2>4 DEF TruncateFile, DeployInv, DeployedOnceUnlessCutShort, NoAddresses
  <2>5. CASE WriteFile
    BY <2>1, <2>5 DEF WriteFile, DeployInv, DeployedOnceUnlessCutShort, Unnamed
  <2>6. CASE RunAborts
    BY <2>1, <2>6 DEF RunAborts, DeployInv, DeployedOnceUnlessCutShort, Unnamed
  <2>7. CASE UNCHANGED deployVars
    BY <2>7 DEF deployVars, DeployInv, DeployedOnceUnlessCutShort, Unnamed
  <2> QED BY <2>2, <2>3, <2>4, <2>5, <2>6, <2>7 DEF DeployNext
<1> QED BY <1>1, <1>2, PTL DEF DeploySpec

\* In every reachable state of a deployment that looks for existing contracts, and
\* lists none twice, no contract was deployed more often than runs were cut short,
\* beside once (deployContract, main).
THEOREM AlwaysDeployedOnce ==
  ASSUME Idempotent = TRUE, ListedOnce PROVE DeploySpec => []DeployedOnceUnlessCutShort
<1>1. DeployInv => DeployedOnceUnlessCutShort
  BY DEF DeployInv
<1> QED BY DeployInductive, <1>1, PTL
-----------------------------------------------------------------------------
(* The gas estimator.  The entry is within tolerance of the total computed *)
(* last, however many drifts were ignored before, since each computation   *)
(* is compared with the entry itself; and it expires by that total's time. *)

\* A total is within tolerance of what it stands for.
Near(total, fresh) == 100 * Distance(fresh, total) <= Tolerance * total

GasInv ==
  /\ entry \in [total : Nat, expires : Nat]
  /\ asking \in [Estimator -> [at : {"idle", "stats", "simulating", "answered"},
                               multiplier : Multipliers, total : Nat]]
  /\ clock \in Nat /\ computed \in [total : Nat, when : Nat]
  /\ entry # NoEntry => Near(entry.total, computed.total) /\ entry.expires = computed.when + CacheTtl

\* What a computation leaves in the entry is near what it computed.
LEMMA KeptIsNear ==
  ASSUME NEW fresh \in Nat, NEW prev \in [total : Nat, expires : Nat]
  PROVE  /\ (IF Kept(fresh, prev) THEN prev.total ELSE fresh) \in Nat
         /\ Near(IF Kept(fresh, prev) THEN prev.total ELSE fresh, fresh)
<1>1. Distance(fresh, fresh) = 0 /\ Tolerance * fresh \in Nat
  BY GasAssumption DEF Distance
<1>2. Near(fresh, fresh)
  BY <1>1 DEF Near
<1> QED BY <1>2 DEF Kept, Near

\* The step that answers leaves an answer that is near and current.
LEMMA SimulatedKeeps ==
  ASSUME GasInv, NEW e \in Estimator, NEW cost \in Costs, Simulated(e, cost)
  PROVE  /\ GasInv'
         /\ Near(asking'[e].total, computed'.total) /\ computed'.when = clock
         /\ \A d \in Estimator : d # e => asking'[d] = asking[d]
<1> DEFINE fresh == cost * asking[e].multiplier
           total == IF Kept(fresh, entry) THEN entry.total ELSE fresh
           answer == [asking[e] EXCEPT !.at = "answered", !.total = total]
<1>1. fresh \in Nat
  <2>1. cost \in Nat
    BY GasAssumption
  <2>2. asking[e].multiplier \in {1, 2}
    BY DEF GasInv, Multipliers
  <2> QED BY <2>1, <2>2
<1>2. total \in Nat /\ Near(total, fresh)
  <2> HIDE DEF fresh
  <2>1. entry \in [total : Nat, expires : Nat]
    BY DEF GasInv
  <2> QED BY <1>1, <2>1, KeptIsNear
<1>3. /\ entry' = [total |-> total, expires |-> clock + CacheTtl]
      /\ computed' = [total |-> fresh, when |-> clock]
      /\ asking' = [asking EXCEPT ![e] = answer]
      /\ UNCHANGED clock
  BY DEF Simulated
<1> HIDE DEF fresh, total
<1>4. clock \in Nat /\ clock + CacheTtl \in Nat
  BY GasAssumption DEF GasInv
<1>5. /\ answer \in [at : {"idle", "stats", "simulating", "answered"},
                     multiplier : Multipliers, total : Nat]
      /\ answer.total = total
  BY <1>2 DEF GasInv
<1> HIDE DEF answer
<1>6. asking'[e] = answer /\ \A d \in Estimator : d # e => asking'[d] = asking[d]
  BY <1>3 DEF GasInv
<1>7. asking' \in [Estimator -> [at : {"idle", "stats", "simulating", "answered"},
                                 multiplier : Multipliers, total : Nat]]
  BY <1>3, <1>5 DEF GasInv
<1>8. entry' \in [total : Nat, expires : Nat] /\ entry'.total = total /\ entry'.expires = clock + CacheTtl
  BY <1>2, <1>3, <1>4
<1>9. computed' \in [total : Nat, when : Nat] /\ computed'.total = fresh /\ computed'.when = clock
  BY <1>1, <1>3, <1>4
<1> QED BY <1>2, <1>3, <1>4, <1>5, <1>6, <1>7, <1>8, <1>9 DEF GasInv, Near

\* The entry, when it is served, is near and current.
LEMMA StatsKeeps ==
  ASSUME GasInv, NEW e \in Estimator, NEW m \in Multipliers, StatsAnswered(e, m)
  PROVE  /\ GasInv'
         /\ asking'[e].at = "answered" =>
              Near(asking'[e].total, computed'.total) /\ clock - computed'.when <= CacheTtl
         /\ \A d \in Estimator : d # e => asking'[d] = asking[d]
<1> DEFINE answer == IF Hit(entry, clock)
                     THEN [at |-> "answered", multiplier |-> m, total |-> entry.total]
                     ELSE Waiting("simulating", m)
<1>1. asking' = [asking EXCEPT ![e] = answer] /\ UNCHANGED <<entry, clock, computed>>
  BY DEF StatsAnswered
<1>2. /\ answer \in [at : {"idle", "stats", "simulating", "answered"},
                     multiplier : Multipliers, total : Nat]
      /\ answer.at = "answered" => Hit(entry, clock) /\ answer.total = entry.total
  BY DEF Waiting, GasInv
<1> HIDE DEF answer
<1>3. GasInv'
  BY <1>1, <1>2 DEF GasInv, Near
<1>4. Hit(entry, clock) =>
        Near(entry.total, computed.total) /\ clock - computed.when <= CacheTtl
  <2> SUFFICES ASSUME Hit(entry, clock)
               PROVE  Near(entry.total, computed.total) /\ clock - computed.when <= CacheTtl
    OBVIOUS
  <2>1. entry # NoEntry /\ entry.expires > clock
    BY DEF Hit
  <2>2. Near(entry.total, computed.total) /\ entry.expires = computed.when + CacheTtl
    BY <2>1 DEF GasInv
  <2>3. clock \in Nat /\ computed.when \in Nat /\ CacheTtl \in Nat
    BY GasAssumption DEF GasInv
  <2> QED BY <2>1, <2>2, <2>3
<1>5. asking'[e] = answer /\ \A d \in Estimator : d # e => asking'[d] = asking[d]
  BY <1>1 DEF GasInv
<1> QED BY <1>1, <1>2, <1>3, <1>4, <1>5

\* Every step keeps the invariant, and what it answers is near and current.
LEMMA GasStep ==
  ASSUME GasInv, [GasNext]_gasVars
  PROVE  /\ GasInv'
         /\ \A e \in Estimator : asking'[e].at = "answered" /\ asking[e].at # "answered" =>
              Near(asking'[e].total, computed'.total) /\ clock - computed'.when <= CacheTtl
<1>1. ASSUME NEW e \in Estimator, Estimate(e) \/ EstimateReturned(e)
      PROVE  GasInv' /\ \A d \in Estimator : asking'[d].at = "answered" => asking[d].at = "answered"
  <2>1. asking' = [asking EXCEPT ![e] = Waiting(asking'[e].at, 1)] /\ asking'[e].at \in {"idle", "stats"}
    BY <1>1 DEF Estimate, EstimateReturned, Waiting, GasInv
  <2>2. UNCHANGED <<entry, clock, computed>>
    BY <1>1 DEF Estimate, EstimateReturned
  <2>3. asking' \in [Estimator -> [at : {"idle", "stats", "simulating", "answered"},
                                   multiplier : Multipliers, total : Nat]]
    BY <2>1 DEF Waiting, GasInv, Multipliers
  <2>4. GasInv'
    BY <2>2, <2>3 DEF GasInv, Near
  <2> QED BY <2>1, <2>4 DEF GasInv
<1>2. ASSUME NEW e \in Estimator, NEW m \in Multipliers, StatsAnswered(e, m)
      PROVE  /\ GasInv'
             /\ \A d \in Estimator : asking'[d].at = "answered" /\ asking[d].at # "answered" =>
                  Near(asking'[d].total, computed'.total) /\ clock - computed'.when <= CacheTtl
  BY <1>2, StatsKeeps
<1>3. ASSUME NEW e \in Estimator, NEW cost \in Costs, Simulated(e, cost)
      PROVE  /\ GasInv'
             /\ \A d \in Estimator : asking'[d].at = "answered" /\ asking[d].at # "answered" =>
                  Near(asking'[d].total, computed'.total) /\ clock - computed'.when <= CacheTtl
  <2>1. clock \in Nat /\ clock - clock <= CacheTtl
    BY GasAssumption DEF GasInv
  <2> QED BY <1>3, <2>1, SimulatedKeeps
<1>4. CASE ClearCache \/ Elapse \/ UNCHANGED gasVars
  <2>1. UNCHANGED <<asking, computed>>
    BY <1>4 DEF ClearCache, Elapse, gasVars
  <2>2. GasInv'
    BY <1>4, <2>1 DEF ClearCache, Elapse, gasVars, GasInv, Near, NoEntry
  <2> QED BY <2>1, <2>2
<1> QED BY <1>1, <1>2, <1>3, <1>4 DEF GasNext

\* Whatever estimate() answers is within tolerance of a total computed within the
\* cache's time to live, for any calls, costs and tolerance (gasEstimator.ts).
THEOREM AnswersStayCurrent == GasSpec => AnswersAreCurrent
<1>1. GasInit => GasInv
  BY DEF GasInit, GasInv, Waiting, NoEntry, Multipliers
<1>2. GasInv /\ [GasNext]_gasVars => GasInv'
  BY GasStep
<1>3. GasInv /\ [GasNext]_gasVars =>
        [\A e \in Estimator :
           asking'[e].at = "answered" /\ asking[e].at # "answered" =>
             /\ 100 * Distance(computed'.total, asking'[e].total) <= Tolerance * asking'[e].total
             /\ clock - computed'.when <= CacheTtl]_gasVars
  BY GasStep DEF Near
<1> QED BY <1>1, <1>2, <1>3, PTL DEF GasSpec, AnswersAreCurrent
-----------------------------------------------------------------------------
(* The batch builder.  A call of submit() that nobody disturbed has, at    *)
(* each of its three looks, seen the queue that still is.                  *)

BatchInv ==
  /\ submits \in [Submit -> [step : {"idle", "account", "sending", "done"}, fee : Int, tx : Seq(Nat),
                             reported : Seq(Nat), touched : BOOLEAN]]
  /\ batch \in Seq(Nat) /\ added \in Nat
  /\ \A s \in Submit :
       submits[s].step \in {"account", "sending"} /\ ~submits[s].touched =>
         submits[s].fee = EstimateBatch(batch) /\ submits[s].tx \in {<<>>, batch}
  /\ ReportsWhatItSent

\* A call that changes the queue marks every submission under way.
LEMMA TouchedKeeps ==
  ASSUME BatchInv, submits' = Touched, batch' \in Seq(Nat), added' \in Nat
  PROVE  BatchInv'
<1>1. ASSUME NEW s \in Submit
      PROVE  /\ submits'[s] \in [step : {"idle", "account", "sending", "done"}, fee : Int, tx : Seq(Nat),
                                 reported : Seq(Nat), touched : BOOLEAN]
             /\ submits'[s].step # "idle" => submits'[s].touched
  BY DEF BatchInv, Touched
<1>2. submits' \in [Submit -> [step : {"idle", "account", "sending", "done"}, fee : Int, tx : Seq(Nat),
                               reported : Seq(Nat), touched : BOOLEAN]]
  BY <1>1 DEF Touched
<1> QED BY <1>1, <1>2 DEF BatchInv, ReportsWhatItSent

\* A submission changed alone keeps the invariant if the new one does.
LEMMA SubmitChanges ==
  ASSUME BatchInv, NEW s \in Submit,
         NEW w \in [step : {"idle", "account", "sending", "done"}, fee : Int, tx : Seq(Nat),
                    reported : Seq(Nat), touched : BOOLEAN],
         w.step \in {"account", "sending"} /\ ~w.touched =>
           w.fee = EstimateBatch(batch) /\ w.tx \in {<<>>, batch},
         w.step = "done" /\ w.tx # <<>> /\ ~w.touched =>
           w.reported = w.tx /\ w.fee = EstimateBatch(w.tx),
         submits' = [submits EXCEPT ![s] = w], UNCHANGED <<batch, added>>
  PROVE  BatchInv'
<1>1. /\ submits' \in [Submit -> [step : {"idle", "account", "sending", "done"}, fee : Int, tx : Seq(Nat),
                                  reported : Seq(Nat), touched : BOOLEAN]]
      /\ submits'[s] = w /\ \A u \in Submit : u # s => submits'[u] = submits[u]
  BY DEF BatchInv
<1> QED BY <1>1 DEF BatchInv, ReportsWhatItSent

\* The inductive invariant of the batch builder.
LEMMA BatchInductive == BatchSpec => []BatchInv
<1>1. BatchInit => BatchInv
  <2>1. <<>> \in Seq(Nat)
    OBVIOUS
  <2> QED BY <2>1 DEF BatchInit, BatchInv, ReportsWhatItSent, NoSubmit
<1>2. BatchInv /\ [BatchNext]_batchVars => BatchInv'
  <2> SUFFICES ASSUME BatchInv, [BatchNext]_batchVars PROVE BatchInv'
    OBVIOUS
  <2>1. <<>> \in Seq(Nat) /\ Len(batch) + 10 \in Int /\ batch \in Seq(Nat) /\ added \in Nat
    BY DEF BatchInv
  <2>2. CASE Add \/ ClearBatch
    <3>1. Append(batch, added + 1) \in Seq(Nat) /\ added + 1 \in Nat
      BY <2>1
    <3> QED BY <3>1, <2>1, <2>2, TouchedKeeps DEF Add, ClearBatch
  <2>3. ASSUME NEW s \in Submit, SubmitCalled(s) PROVE BatchInv'
    <3> DEFINE w == [NoSubmit EXCEPT !.step = "account", !.fee = EstimateBatch(batch)]
    <3>1. /\ w \in [step : {"idle", "account", "sending", "done"}, fee : Int, tx : Seq(Nat),
                    reported : Seq(Nat), touched : BOOLEAN]
          /\ w.fee = EstimateBatch(batch) /\ w.tx = <<>> /\ w.step = "account"
      BY <2>1 DEF NoSubmit, EstimateBatch
    <3>2. submits' = [submits EXCEPT ![s] = w] /\ UNCHANGED <<batch, added>>
      BY <2>3 DEF SubmitCalled
    <3> HIDE DEF w
    <3> QED BY <3>1, <3>2, SubmitChanges
  <2>4. ASSUME NEW s \in Submit, BatchBuilt(s) PROVE BatchInv'
    <3> DEFINE w == [submits[s] EXCEPT !.step = "sending", !.tx = batch]
    <3>1. /\ w \in [step : {"idle", "account", "sending", "done"}, fee : Int, tx : Seq(Nat),
                    reported : Seq(Nat), touched : BOOLEAN]
          /\ w.fee = submits[s].fee /\ w.tx = batch /\ w.step = "sending" /\ w.touched = submits[s].touched
      BY DEF BatchInv
    <3>2. submits' = [submits EXCEPT ![s] = w] /\ UNCHANGED <<batch, added>>
      BY <2>4 DEF BatchBuilt, Operations, BatchInv
    <3>3. ~w.touched => w.fee = EstimateBatch(batch)
      BY <2>4, <3>1 DEF BatchBuilt, BatchInv
    <3> HIDE DEF w
    <3> QED BY <3>1, <3>2, <3>3, SubmitChanges
  <2>5. ASSUME NEW s \in Submit, BatchAnswered(s) PROVE BatchInv'
    <3> DEFINE w == [submits[s] EXCEPT !.step = "done", !.reported = batch]
    <3>1. /\ w \in [step : {"idle", "account", "sending", "done"}, fee : Int, tx : Seq(Nat),
                    reported : Seq(Nat), touched : BOOLEAN]
          /\ w.fee = submits[s].fee /\ w.tx = submits[s].tx /\ w.step = "done"
          /\ w.touched = submits[s].touched /\ w.reported = batch
      BY DEF BatchInv
    <3>2. submits' = [submits EXCEPT ![s] = w] /\ UNCHANGED <<batch, added>>
      BY <2>5 DEF BatchAnswered, BatchInv
    <3>3. ~w.touched => w.fee = EstimateBatch(batch) /\ w.tx \in {<<>>, batch}
      BY <2>5, <3>1 DEF BatchAnswered, BatchInv
    <3> HIDE DEF w
    <3> QED BY <3>1, <3>2, <3>3, SubmitChanges
  <2>6. ASSUME NEW s \in Submit, SubmitReturned(s) PROVE BatchInv'
    <3>1. /\ NoSubmit \in [step : {"idle", "account", "sending", "done"}, fee : Int, tx : Seq(Nat),
                           reported : Seq(Nat), touched : BOOLEAN]
          /\ NoSubmit.step = "idle"
      BY <2>1 DEF NoSubmit
    <3> QED BY <2>6, <3>1, SubmitChanges DEF SubmitReturned
  <2>7. CASE UNCHANGED batchVars
    BY <2>7 DEF batchVars, BatchInv, ReportsWhatItSent
  <2> QED BY <2>2, <2>3, <2>4, <2>5, <2>6, <2>7 DEF BatchNext
<1> QED BY <1>1, <1>2, PTL DEF BatchSpec

\* In every reachable state a submission that nobody disturbed reports what it sent,
\* and paid for it, whatever other submissions do (submit).
THEOREM AlwaysReportsWhatItSent == BatchSpec => []ReportsWhatItSent
<1>1. BatchInv => ReportsWhatItSent
  BY DEF BatchInv
<1> QED BY BatchInductive, <1>1, PTL
-----------------------------------------------------------------------------
(* The trading screen.  Until two fetches are under way together what the  *)
(* one fetch has read is no older than what is shown, and the network is   *)
(* ahead of both.                                                          *)

ScreenInv ==
  /\ book \in Nat /\ shown \in Nat /\ shown <= book
  /\ fetches \subseteq [n : Int, loud : BOOLEAN, read : Nat]
  /\ \A f \in fetches : f.read <= book
  /\ ~together => \A f, g \in fetches : f = g
  /\ ~together => \A f \in fetches : f.read # 0 => shown <= f.read
  /\ fetchCount \in Int

\* A fetch that starts has read nothing, and is together with those under way.
LEMMA FetchStartedKeeps ==
  ASSUME ScreenInv, NEW loud \in BOOLEAN, FetchStarted(loud), UNCHANGED <<book, shown>>
  PROVE  ScreenInv'
<1> DEFINE new == [n |-> fetchCount, loud |-> loud, read |-> 0]
<1>1. /\ fetches' = fetches \union {new} /\ fetchCount' = fetchCount + 1
      /\ together' = (together \/ fetches # {})
  BY DEF FetchStarted
<1>2. new \in [n : Int, loud : BOOLEAN, read : Nat] /\ new.read = 0
  BY DEF ScreenInv
<1> HIDE DEF new
<1>3. ~together' => ~together /\ fetches' = {new}
  BY <1>1
<1>4. fetches' \subseteq [n : Int, loud : BOOLEAN, read : Nat] /\ fetchCount' \in Int
  BY <1>1, <1>2 DEF ScreenInv
<1>5. \A f \in fetches' : f.read <= book'
  BY <1>1, <1>2 DEF ScreenInv
<1> QED BY <1>2, <1>3, <1>4, <1>5 DEF ScreenInv

\* A fetch that ends leaves the others, and the network, as they are.
LEMMA FetchEndsKeeps ==
  ASSUME ScreenInv, NEW f \in fetches, fetches' = fetches \ {f}, UNCHANGED <<book, fetchCount, together>>,
         shown' = shown \/ shown' = f.read
  PROVE  ScreenInv'
<1>1. shown' \in Nat /\ shown' <= book
  BY DEF ScreenInv
<1>2. ~together => fetches' = {}
  BY DEF ScreenInv
<1> QED BY <1>1, <1>2 DEF ScreenInv

\* Every step keeps the invariant and shows nothing older unless fetches overlapped.
LEMMA ScreenStep ==
  ASSUME ScreenInv, [ScreenNext]_screenVars PROVE ScreenInv' /\ (shown' >= shown \/ together)
<1>0. shown \in Nat /\ book \in Nat
  BY DEF ScreenInv
<1>1. CASE IntervalPolls \/ FetchAsked \/ ToastLeaves
  <2>1. PICK loud \in BOOLEAN : FetchStarted(loud) /\ UNCHANGED <<book, shown>>
    BY <1>1 DEF IntervalPolls, FetchAsked, ToastLeaves
  <2> QED BY <1>0, <2>1, FetchStartedKeeps
<1>2. CASE OrderBookMoves
  BY <1>0, <1>2 DEF OrderBookMoves, ScreenInv
<1>3. ASSUME NEW f \in fetches, BookRead(f) PROVE ScreenInv' /\ shown' = shown
  <2> DEFINE g == [f EXCEPT !.read = book]
  <2>1. /\ fetches' = (fetches \ {f}) \union {g}
        /\ UNCHANGED <<book, shown, fetchCount, together>>
    BY <1>3 DEF BookRead
  <2>2. g \in [n : Int, loud : BOOLEAN, read : Nat] /\ g.read = book
    BY <1>0 DEF ScreenInv
  <2>3. ~together => fetches' = {g}
    BY <2>1 DEF ScreenInv
  <2> HIDE DEF g
  <2> QED BY <1>0, <2>1, <2>2, <2>3 DEF ScreenInv
<1>4. ASSUME NEW f \in fetches, FetchDone(f) PROVE ScreenInv' /\ (shown' >= shown \/ together)
  <2>1. f.read \in Nat /\ f.read # 0 /\ shown' = f.read /\ (~together => shown <= f.read)
    BY <1>4 DEF FetchDone, ScreenInv
  <2>2. ScreenInv'
    BY <1>4, FetchEndsKeeps DEF FetchDone
  <2> QED BY <1>0, <2>1, <2>2
<1>5. ASSUME NEW f \in fetches, FetchFails(f) PROVE ScreenInv' /\ shown' = shown
  <2>1. shown' = shown /\ book' = book
    BY <1>5 DEF FetchFails, StillShown
  <2>2. CASE fetches' = fetches \ {f} /\ UNCHANGED <<fetchCount, toastCount, together>>
    BY <2>1, <2>2, FetchEndsKeeps
  <2>3. CASE /\ fetches' = (fetches \ {f}) \union {[n |-> fetchCount, loud |-> TRUE, read |-> 0]}
             /\ fetchCount' = fetchCount + 1 /\ together' = (together \/ fetches # {f})
    <3> DEFINE new == [n |-> fetchCount, loud |-> TRUE, read |-> 0]
    <3>1. new \in [n : Int, loud : BOOLEAN, read : Nat] /\ new.read = 0
      BY DEF ScreenInv
    <3>2. fetches' = (fetches \ {f}) \union {new}
      BY <2>3
    <3> HIDE DEF new
    <3>3. ~together' => fetches' = {new}
      BY <2>3, <3>2
    <3> QED BY <1>0, <2>1, <2>3, <3>1, <3>2, <3>3 DEF ScreenInv
  <2> QED BY <1>5, <2>1, <2>2, <2>3 DEF FetchFails
<1>6. CASE UNCHANGED screenVars
  BY <1>0, <1>6 DEF screenVars, ScreenInv
<1> QED BY <1>0, <1>1, <1>2, <1>3, <1>4, <1>5, <1>6 DEF ScreenNext

\* The order book on the screen goes back only after two fetches were under way
\* together, for any number of fetches, toasts and versions (SecondaryMarket.tsx).
THEOREM ScreenOnlyGoesBackByOverlap == ScreenSpec => BackOnlyByOverlap
<1>1. ScreenInit => ScreenInv
  <2> SUFFICES ASSUME ScreenInit PROVE ScreenInv
    OBVIOUS
  <2> DEFINE first == [n |-> 0, loud |-> TRUE, read |-> 0]
  <2>1. book = 1 /\ shown = 0 /\ fetchCount = 1 /\ fetches = {first}
    BY DEF ScreenInit
  <2>2. first \in [n : Int, loud : BOOLEAN, read : Nat] /\ first.read = 0
    OBVIOUS
  <2> HIDE DEF first
  <2> QED BY <2>1, <2>2 DEF ScreenInv
<1>2. ScreenInv /\ [ScreenNext]_screenVars => ScreenInv'
  BY ScreenStep
<1>3. ScreenInv /\ [ScreenNext]_screenVars => [shown' >= shown \/ together]_screenVars
  BY ScreenStep
<1> QED BY <1>1, <1>2, <1>3, PTL DEF ScreenSpec, BackOnlyByOverlap

-----------------------------------------------------------------------------
(* The panels.  Every toast offers something that failed.                  *)

PanelInv ==
  /\ \A r \in toasts : <<r.item, r.value>> \in failed
  /\ RetryRepeatsWhatFailed

\* A run that is started is not a retry, or one of something that failed.
LEMMA StartRunKeeps ==
  ASSUME PanelInv, NEW i, NEW v, NEW via, NEW seen, StartRun(i, v, via, seen),
         via = "retry" => <<i, v>> \in failed, failed' = failed, toasts' \subseteq toasts
  PROVE  PanelInv'
<1> DEFINE new == [item |-> i, value |-> v, via |-> via, seen |-> seen, n |-> started]
<1>1. runs' = runs \union {new}
  BY DEF StartRun
<1>2. new.item = i /\ new.value = v /\ new.via = via
  OBVIOUS
<1> HIDE DEF new
<1> QED BY <1>1, <1>2 DEF PanelInv, RetryRepeatsWhatFailed

\* In every reachable state what is retried is what failed, however the form was
\* edited and whichever runs came in between, for every panel's handler.
THEOREM RetryAlwaysRepeats == PanelSpec => []RetryRepeatsWhatFailed
<1>1. PanelInit => PanelInv
  BY DEF PanelInit, PanelInv, RetryRepeatsWhatFailed
<1>2. PanelInv /\ [PanelNext]_panelVars => PanelInv'
  <2> SUFFICES ASSUME PanelInv, [PanelNext]_panelVars PROVE PanelInv'
    OBVIOUS
  <2>1. ASSUME NEW i \in Item, Press(i) \/ AutoClaims(i) PROVE PanelInv'
    BY <2>1, StartRunKeeps DEF Press, AutoClaims
  <2>2. ASSUME NEW r \in runs, Succeeds(r) \/ RunFails(r) PROVE PanelInv'
    BY <2>2 DEF Succeeds, RunFails, Ended, PanelInv, RetryRepeatsWhatFailed
  <2>3. ASSUME NEW r \in toasts, RetryPressed(r) PROVE PanelInv'
    <3>1. toasts' \subseteq toasts /\ failed' = failed /\ <<r.item, Retried(r)>> \in failed
      BY <2>3 DEF RetryPressed, Retried, PanelInv
    <3>2. CASE StartRun(r.item, Retried(r), "retry", r.seen)
      BY <3>1, <3>2, StartRunKeeps
    <3>3. CASE UNCHANGED runs
      BY <3>1, <3>3 DEF PanelInv, RetryRepeatsWhatFailed
    <3> QED BY <2>3, <3>2, <3>3 DEF RetryPressed
  <2>4. ASSUME NEW r \in toasts, ToastGone(r) PROVE PanelInv'
    BY <2>4 DEF ToastGone, PanelInv, RetryRepeatsWhatFailed
  <2>5. ASSUME NEW v \in Value, EditForm(v) PROVE PanelInv'
    BY <2>5 DEF EditForm, PanelInv, RetryRepeatsWhatFailed
  <2>6. CASE UNCHANGED panelVars
    BY <2>6 DEF panelVars, PanelInv, RetryRepeatsWhatFailed
  <2> QED BY <2>1, <2>2, <2>3, <2>4, <2>5, <2>6 DEF PanelNext
<1>3. PanelInv => RetryRepeatsWhatFailed
  BY DEF PanelInv
<1> QED BY <1>1, <1>2, <1>3, PTL DEF PanelSpec

-----------------------------------------------------------------------------
(* The transaction history's pages.                                        *)

HistoryInv ==
  /\ filter \in Filter /\ dates \in DateRange
  /\ totalPages \in Nat /\ currentPage \in Int
  /\ EmptyPageNeedsCause

\* The pager has no button beyond the pages there are.
LEMMA NumberedWithin ==
  ASSUME totalPages \in Nat, totalPages > 1, currentPage \in Int, NEW p \in Numbered
  PROVE  p \in Int /\ p <= totalPages
<1> DEFINE first == IF totalPages <= PagerSize \/ currentPage <= Half + 1 THEN 1
                    ELSE IF currentPage >= totalPages - Half THEN totalPages - PagerSize + 1
                    ELSE currentPage - Half
           shows == IF totalPages < PagerSize THEN totalPages ELSE PagerSize
<1>1. PagerSize \in Nat /\ PagerSize # 0
  BY PagesAssumption
<1>2. Half \in Nat /\ 2 * Half <= PagerSize /\ PagerSize <= 2 * Half + 1
  BY <1>1 DEF Half
<1>3. first \in Int /\ first + shows - 1 <= totalPages /\ shows \in Nat
  BY <1>1, <1>2
<1>4. p \in first..(first + shows - 1)
  BY DEF Numbered
<1> HIDE DEF first, shows
<1> QED BY <1>3, <1>4

\* In every reachable state the page shown is the first, one there is, or one that
\* other dates or transactions took away (TransactionHistory.tsx).
THEOREM EmptyPageAlwaysHasCause == HistorySpec => []EmptyPageNeedsCause
<1>0. \A f \in Filter, d \in DateRange : Pages[<<f, d>>] \subseteq Nat
  BY PagesAssumption
<1>1. HistoryInit => HistoryInv
  BY <1>0 DEF HistoryInit, HistoryInv, EmptyPageNeedsCause
<1>2. HistoryInv /\ [HistoryNext]_historyVars => HistoryInv'
  <2> SUFFICES ASSUME HistoryInv, [HistoryNext]_historyVars PROVE HistoryInv'
    OBVIOUS
  <2>1. ASSUME NEW f \in Filter, ChangeFilter(f) PROVE HistoryInv'
    BY <1>0, <2>1 DEF ChangeFilter, PageReset, HistoryInv, EmptyPageNeedsCause
  <2>2. ASSUME NEW d \in DateRange, ChangeDates(d) PROVE HistoryInv'
    BY <1>0, <2>2 DEF ChangeDates, HistoryInv, EmptyPageNeedsCause
  <2>3. CASE SortBy \/ ClearDates
    <3>1. NoDates \in DateRange
      BY PagesAssumption
    <3> QED BY <1>0, <2>3, <3>1 DEF SortBy, ClearDates, PageReset, HistoryInv, EmptyPageNeedsCause
  <2>4. CASE TransactionsChange
    BY <1>0, <2>4 DEF TransactionsChange, HistoryInv, EmptyPageNeedsCause
  <2>5. CASE Previous
    BY <2>5 DEF Previous, Goes, HistoryInv, EmptyPageNeedsCause
  <2>6. CASE NextPage
    BY <2>6 DEF NextPage, Goes, HistoryInv, EmptyPageNeedsCause
  <2>7. ASSUME NEW p \in Numbered, GoTo(p) PROVE HistoryInv'
    <3>1. p \in Int /\ p <= totalPages
      BY <2>7, NumberedWithin DEF GoTo, HistoryInv
    <3> QED BY <2>7, <3>1 DEF GoTo, Goes, HistoryInv, EmptyPageNeedsCause
  <2>8. CASE UNCHANGED historyVars
    BY <2>8 DEF historyVars, HistoryInv, EmptyPageNeedsCause
  <2> QED BY <2>1, <2>2, <2>3, <2>4, <2>5, <2>6, <2>7, <2>8 DEF HistoryNext
<1>3. HistoryInv => EmptyPageNeedsCause
  BY DEF HistoryInv
<1> QED BY <1>1, <1>2, <1>3, PTL DEF HistorySpec
-----------------------------------------------------------------------------
(* The compliance registry's calendar.  Years are counted from March, so   *)
(* that a leap day ends one, and days from March 1 of year 0.              *)

\* The first day of year y: one leap day every four years, but for three in four
\* hundred.
YearBegins(y) == 365 * y + y \div 4 - y \div 100 + y \div 400

\* The first day of month m of a year, March being 0.
MonthBegins(m) ==
  CASE m = 0 -> 0 [] m = 1 -> 31 [] m = 2 -> 61 [] m = 3 -> 92 [] m = 4 -> 122 [] m = 5 -> 153
    [] m = 6 -> 184 [] m = 7 -> 214 [] m = 8 -> 245 [] m = 9 -> 275 [] m = 10 -> 306 [] m = 11 -> 337

\* Day z falls into month m of year y.
InMonth(z, y, m) ==
  /\ YearBegins(y) + MonthBegins(m) <= z /\ z < YearBegins(y + 1)
  /\ m < 11 => z < YearBegins(y) + MonthBegins(m + 1)

\* Years follow one another, months within them too.
LEMMA YearsGrow ==
  ASSUME NEW y \in Int, NEW x \in Int
  PROVE  YearBegins(y) \in Int /\ (y <= x => YearBegins(y) <= YearBegins(x))
<1>1. YearBegins(y) \in Int
  BY SMT DEF YearBegins
<1>2. y <= x => y \div 4 - y \div 100 + y \div 400 - (x \div 4 - x \div 100 + x \div 400) <= 365 * (x - y)
  BY SMT
<1> QED BY <1>1, <1>2, SMT DEF YearBegins

\* Later months of a year begin later.
LEMMA MonthsGrow ==
  ASSUME NEW m \in 0..11, NEW n \in 0..11
  PROVE  MonthBegins(m) \in 0..337 /\ (MonthBegins(m) < MonthBegins(n) <=> m < n)
BY SMT DEF MonthBegins

\* Later days fall into later months, or the same.
LEMMA MonthsOrdered ==
  ASSUME NEW z \in Int, NEW x \in Int, z <= x, NEW y \in Int, NEW w \in Int, NEW m \in 0..11, NEW n \in 0..11,
         InMonth(z, y, m), InMonth(x, w, n)
  PROVE  y <= w /\ (y = w => m <= n)
<1>1. /\ YearBegins(y) \in Int /\ YearBegins(w + 1) \in Int /\ YearBegins(w) \in Int
      /\ w + 1 <= y => YearBegins(w + 1) <= YearBegins(y)
  <2>1. w + 1 \in Int
    OBVIOUS
  <2> QED BY <2>1, YearsGrow
<1>2. MonthBegins(m) \in 0..337
  BY MonthsGrow
<1>3. y <= w
  BY <1>1, <1>2, SMT DEF InMonth
<1>4. ASSUME y = w, n < m PROVE FALSE
  <2>1. n + 1 \in 0..11 /\ n + 1 <= m
    BY <1>4, SMT
  <2>2. MonthBegins(n + 1) <= MonthBegins(m) /\ MonthBegins(n + 1) \in 0..337
    <3> DEFINE k == n + 1
    <3>1. /\ MonthBegins(k) \in 0..337 /\ MonthBegins(m) \in 0..337
          /\ MonthBegins(m) < MonthBegins(k) <=> m < k
      BY <2>1, MonthsGrow
    <3>2. ~(m < k)
      BY <2>1
    <3> DEFINE a == MonthBegins(m)
               b == MonthBegins(k)
    <3>3. a \in Int /\ b \in Int /\ b \in 0..337 /\ ~(a < b)
      BY <3>1, <3>2
    <3> HIDE DEF a, b
    <3>4. b <= a /\ b \in 0..337
      BY <3>3
    <3> QED BY <3>4 DEF a, b
  <2>3. z >= YearBegins(y) + MonthBegins(m) /\ x < YearBegins(y) + MonthBegins(n + 1)
    BY <1>4, <2>1, SMT DEF InMonth
  <2> DEFINE a == YearBegins(y)
             b == MonthBegins(m)
             c == MonthBegins(n + 1)
  <2>4. a \in Int /\ b \in Int /\ c \in Int /\ c <= b /\ z >= a + b /\ x < a + c
    BY <1>1, <1>2, <2>2, <2>3
  <2> HIDE DEF a, b, c
  <2> QED BY <2>4, SMT
<1> QED BY <1>3, <1>4, SMT

\* What the days of an era, counted as leap years and centuries, are.
LEMMA Centuries ==
  ASSUME NEW d \in Int, NEW q \in Int, NEW c \in Int, NEW e \in Int, NEW y \in Int,
         d >= 0, d <= 146096,
         1460 * q <= d, d < 1460 * q + 1460, 36524 * c <= d, d < 36524 * c + 36524,
         146096 * e <= d, d < 146096 * e + 146096,
         365 * y <= d - q + c - e, d - q + c - e < 365 * y + 365
  PROVE  /\ y >= 0 /\ y <= 399
         /\ 100 * (c - e) <= y /\ y < 100 * (c - e) + 100
         /\ c - e >= 0 /\ c - e <= 3
         /\ 36524 * (c - e) <= d /\ (c - e < 3 => d < 36524 * (c - e) + 36524)
<1>0. e >= 0 /\ e <= 1 /\ c >= 0 /\ c <= 4
  BY SMT
<1>1. /\ c = 0 \/ c = 1 \/ c = 2 \/ c = 3 \/ c = 4
      /\ c = 4 => d = 146096
      /\ d = 146096 => e = 1
      /\ c # 4 => e = 0
  BY <1>0, SMT
<1>2. CASE c = 0
  BY <1>1, <1>2, SMT
<1>3. CASE c = 1
  BY <1>1, <1>3, SMT
<1>4. CASE c = 2
  BY <1>1, <1>4, SMT
<1>5. CASE c = 3
  BY <1>1, <1>5, SMT
<1>6. CASE c = 4
  <2>1. d = 146096 /\ e = 1
    BY <1>1, <1>6, SMT
  <2>2. q = 100
    BY <2>1, SMT
  <2> QED BY <1>6, <2>1, <2>2, SMT
<1> QED BY <1>1, <1>2, <1>3, <1>4, <1>5, <1>6

\* The leap days counted by 1460 days are those counted by four years, or one more
\* on the last days of the year before a leap day.
LEMMA LeapYears ==
  ASSUME NEW d \in Int, NEW q \in Int, NEW h \in Int, NEW y \in Int, NEW f \in Int,
         d >= 0, d <= 146096, h >= 0, h <= 3,
         1460 * q <= d, d < 1460 * q + 1460, 36524 * h <= d,
         365 * y <= d - q + h, d - q + h < 365 * y + 365, 4 * f <= y, y < 4 * f + 4
  PROVE  q = f \/ (q = f + 1 /\ y + 1 = 4 * q)
<1>1. q >= h /\ q <= 100 /\ q >= 0
  BY SMT
<1>2. y >= 4 * q - 1 /\ y <= 4 * q + 3
  BY <1>1, SMT
<1> QED BY <1>1, <1>2, SMT

\* So a day of an era falls into the year computed for it.
LEMMA YearFalls ==
  ASSUME NEW d \in Int, NEW q \in Int, NEW h \in Int, NEW y \in Int, NEW f \in Int,
         d >= 0, d <= 146096, h >= 0, h <= 3, y >= 0, y <= 399,
         1460 * q <= d, d < 1460 * q + 1460, 36524 * h <= d, h < 3 => d < 36524 * h + 36524,
         365 * y <= d - q + h, d - q + h < 365 * y + 365, 4 * f <= y, y < 4 * f + 4,
         100 * h <= y, y < 100 * h + 100,
         NEW f1 \in Int, NEW h1 \in Int, NEW e1 \in Int,
         4 * f1 <= y + 1, y + 1 < 4 * f1 + 4, 100 * h1 <= y + 1, y + 1 < 100 * h1 + 100,
         400 * e1 <= y + 1, y + 1 < 400 * e1 + 400
  PROVE  /\ 365 * y + f - h <= d /\ d < 365 * (y + 1) + f1 - h1 + e1
         /\ d <= 365 * y + f - h + 365
<1>1. q = f \/ (q = f + 1 /\ y + 1 = 4 * q)
  BY LeapYears
<1>2. /\ e1 >= 0 /\ e1 <= 1 /\ (e1 = 1 => y = 399)
      /\ h1 = h \/ (h1 = h + 1 /\ y + 1 = 100 * h1)
      /\ f1 = f \/ f1 = f + 1
      /\ y + 1 = 4 * q => f1 = q
  BY SMT
<1>3. CASE q = f
  <2>1. CASE h1 = h
    BY <1>2, <1>3, <2>1, SMT
  <2>2. CASE h1 = h + 1 /\ y + 1 = 100 * h1
    <3>1. f1 = f + 1
      BY <1>2, <2>2, SMT
    <3> QED BY <1>2, <1>3, <2>2, <3>1, SMT
  <2> QED BY <1>2, <2>1, <2>2
<1>4. CASE q = f + 1 /\ y + 1 = 4 * q
  <2>1. f1 = q
    BY <1>2, <1>4
  <2>2. CASE h1 = h
    BY <1>2, <1>4, <2>1, <2>2, SMT
  <2>3. CASE h1 = h + 1 /\ y + 1 = 100 * h1
    <3>1. q = 25 * h1
      BY <1>4, <2>3, SMT
    <3>2. h < 3 => d - q + h - 365 * y <= 363
      BY <2>3, <3>1, SMT
    <3>3. h = 3 => e1 = 1
      BY <1>2, <2>3, SMT
    <3> QED BY <1>2, <1>4, <2>1, <2>3, <3>1, <3>2, <3>3, SMT
  <2> QED BY <1>2, <2>2, <2>3
<1> QED BY <1>1, <1>3, <1>4

\* Division, as the provers need it.
LEMMA Div ==
  ASSUME NEW x \in Int
  PROVE  /\ x \div 4 \in Int /\ 4 * (x \div 4) <= x /\ x < 4 * (x \div 4) + 4
         /\ x \div 100 \in Int /\ 100 * (x \div 100) <= x /\ x < 100 * (x \div 100) + 100
         /\ x \div 400 \in Int /\ 400 * (x \div 400) <= x /\ x < 400 * (x \div 400) + 400
         /\ x \div 153 \in Int /\ 153 * (x \div 153) <= x /\ x < 153 * (x \div 153) + 153
         /\ x \div 365 \in Int /\ 365 * (x \div 365) <= x /\ x < 365 * (x \div 365) + 365
         /\ x \div 1460 \in Int /\ 1460 * (x \div 1460) <= x /\ x < 1460 * (x \div 1460) + 1460
         /\ x \div 36524 \in Int /\ 36524 * (x \div 36524) <= x /\ x < 36524 * (x \div 36524) + 36524
         /\ x \div 146096 \in Int /\ 146096 * (x \div 146096) <= x /\ x < 146096 * (x \div 146096) + 146096
         /\ x \div 146097 \in Int /\ 146097 * (x \div 146097) <= x /\ x < 146097 * (x \div 146097) + 146097
BY SMT

\* The month computed from the day of the year is the one the day falls into.
LEMMA MonthFalls ==
  ASSUME NEW doy \in Int, doy >= 0, doy <= 365, NEW m \in Int, 153 * m <= 5 * doy + 2, 5 * doy + 2 < 153 * m + 153
  PROVE  m \in 0..11 /\ MonthBegins(m) <= doy /\ (m < 11 => doy < MonthBegins(m + 1))
<1>1. m >= 0 /\ m <= 11
  BY SMT
<1> QED BY <1>1, SMT DEF MonthBegins

\* The day since March 1 of year 0 on which a timestamp falls.
DayOf(t) == t \div TicksPerDay + 719468

\* Days are counted on as time goes by.
LEMMA DaysOrdered ==
  ASSUME NEW s \in Nat, NEW t \in Nat
  PROVE  /\ DayOf(s) \in Nat /\ s \div TicksPerDay \in Nat
         /\ s <= t => s \div TicksPerDay <= t \div TicksPerDay
<1>1. TicksPerDay \in Nat \ {0}
  BY RegistryAssumption
<1> QED BY <1>1, SMT DEF DayOf

\* The contract's arithmetic finds the month that a timestamp falls into.
LEMMA CivilFalls ==
  ASSUME NEW t \in Nat
  PROVE  \E y \in Int, m \in 0..11 :
           /\ InMonth(DayOf(t), y, m)
           /\ Civil(t) = [year |-> IF m < 10 THEN y ELSE y + 1, month |-> IF m < 10 THEN m + 3 ELSE m - 9]
<1> DEFINE z == DayOf(t)
           era == z \div 146097
           d == z - era * 146097
           q == d \div 1460
           c == d \div 36524
           e == d \div 146096
           yoe == (d - q + c - e) \div 365
           doy == d - (365 * yoe + yoe \div 4 - yoe \div 100)
           mp == (5 * doy + 2) \div 153
           y == yoe + era * 400
           m == IF mp < 10 THEN mp + 3 ELSE mp - 9
<1>1. Civil(t) = [year |-> IF m <= 2 THEN y + 1 ELSE y, month |-> m]
  BY DEF Civil, DayOf
<1>2. z \in Nat
  BY DaysOrdered
<1> HIDE DEF z
<1>3. era \in Int /\ d \in Int /\ d >= 0 /\ d <= 146096 /\ z = 146097 * era + d
  BY <1>2, Div, SMT
<1> HIDE DEF era, d
<1>4. /\ q \in Int /\ 1460 * q <= d /\ d < 1460 * q + 1460
      /\ c \in Int /\ 36524 * c <= d /\ d < 36524 * c + 36524
      /\ e \in Int /\ 146096 * e <= d /\ d < 146096 * e + 146096
  BY <1>3, Div
<1> HIDE DEF q, c, e
<1>5. yoe \in Int /\ 365 * yoe <= d - q + c - e /\ d - q + c - e < 365 * yoe + 365
  <2>1. d - q + c - e \in Int
    BY <1>3, <1>4
  <2> QED BY <2>1, Div
<1> HIDE DEF yoe
<1> DEFINE h == c - e
           f == yoe \div 4
           y1 == yoe + 1
           f1 == y1 \div 4
           h1 == y1 \div 100
           e1 == y1 \div 400
<1>6. /\ yoe >= 0 /\ yoe <= 399 /\ 100 * h <= yoe /\ yoe < 100 * h + 100 /\ h >= 0 /\ h <= 3
      /\ 36524 * h <= d /\ (h < 3 => d < 36524 * h + 36524)
  BY <1>3, <1>4, <1>5, Centuries
<1>7. h \in Int /\ d - q + h \in Int /\ d - q + h = d - q + c - e
  BY <1>3, <1>4, SMT
<1> HIDE DEF h
<1>8. yoe \div 100 = h
  BY <1>5, <1>6, <1>7, SMT
<1>9. f \in Int /\ 4 * f <= yoe /\ yoe < 4 * f + 4
  BY <1>5, Div
<1>10. y1 \in Int
  BY <1>5
<1>11. /\ f1 \in Int /\ 4 * f1 <= y1 /\ y1 < 4 * f1 + 4
       /\ h1 \in Int /\ 100 * h1 <= y1 /\ y1 < 100 * h1 + 100
       /\ e1 \in Int /\ 400 * e1 <= y1 /\ y1 < 400 * e1 + 400
  <2> HIDE DEF y1
  <2> QED BY <1>10, Div
<1> HIDE DEF f, f1, h1, e1
<1>12. /\ 365 * yoe + f - h <= d /\ d < 365 * (yoe + 1) + f1 - h1 + e1
       /\ d <= 365 * yoe + f - h + 365
  BY <1>3, <1>4, <1>5, <1>6, <1>7, <1>9, <1>11, YearFalls
<1>13. doy = d - (365 * yoe + f - h)
  BY <1>8 DEF f
<1> HIDE DEF doy
<1>14. doy \in Int /\ doy >= 0 /\ doy <= 365
  BY <1>3, <1>5, <1>7, <1>9, <1>12, <1>13, SMT
<1>15. mp \in Int /\ 153 * mp <= 5 * doy + 2 /\ 5 * doy + 2 < 153 * mp + 153
  <2>1. 5 * doy + 2 \in Int
    BY <1>14
  <2> QED BY <2>1, Div
<1> HIDE DEF mp
<1>16. mp \in 0..11 /\ MonthBegins(mp) <= doy /\ (mp < 11 => doy < MonthBegins(mp + 1))
  BY <1>14, <1>15, MonthFalls
<1>17. /\ y \in Int
       /\ YearBegins(y) = 146097 * era + 365 * yoe + f - h
       /\ YearBegins(y + 1) = 146097 * era + 365 * (yoe + 1) + f1 - h1 + e1
  <2>1. /\ y \div 4 = 100 * era + f /\ y \div 100 = 4 * era + h /\ y \div 400 = era
    BY <1>3, <1>5, <1>6, <1>7, <1>9, SMT
  <2>2. /\ (y + 1) \div 4 = 100 * era + f1 /\ (y + 1) \div 100 = 4 * era + h1
        /\ (y + 1) \div 400 = era + e1
    BY <1>3, <1>5, <1>11, SMT
  <2> QED BY <1>3, <1>5, <1>7, <1>9, <1>11, <2>1, <2>2, SMT DEF YearBegins
<1>18. InMonth(z, y, mp)
  <2> HIDE DEF y
  <2>1. z = YearBegins(y) + doy /\ z < YearBegins(y + 1)
    BY <1>3, <1>5, <1>7, <1>9, <1>11, <1>12, <1>13, <1>17, SMT
  <2>2. YearBegins(y) \in Int
    BY <1>17, YearsGrow
  <2>3. MonthBegins(mp) \in Int /\ (mp < 11 => MonthBegins(mp + 1) \in Int)
    <3>1. mp < 11 => mp + 1 \in 0..11
      BY <1>16
    <3> QED BY <1>16, <3>1, MonthsGrow
  <2> QED BY <1>14, <1>16, <2>1, <2>2, <2>3, SMT DEF InMonth
<1>19. Civil(t) = [year |-> IF mp < 10 THEN y ELSE y + 1, month |-> IF mp < 10 THEN mp + 3 ELSE mp - 9]
  <2>1. m = (IF mp < 10 THEN mp + 3 ELSE mp - 9) /\ (m <= 2 <=> ~(mp < 10))
    BY <1>16, SMT
  <2>2. (IF m <= 2 THEN y + 1 ELSE y) = (IF mp < 10 THEN y ELSE y + 1)
    BY <2>1
  <2> QED BY <1>1, <2>1, <2>2
<1>20. InMonth(DayOf(t), y, mp)
  BY <1>18 DEF z
<1> HIDE DEF y
<1>21. y \in Int /\ mp \in 0..11
  BY <1>16, <1>17
<1> QED BY ONLY <1>19, <1>20, <1>21, Zenon

\* The dates of the instants, read in the Gregorian calendar.
DatesInYear == Nat \X (1..12) \X (1..31)
MarchYear(date) == IF date[2] > 2 THEN date[1] ELSE date[1] - 1
MarchMonth(date) == IF date[2] > 2 THEN date[2] - 3 ELSE date[2] + 9

IsDate(date, z) ==
  /\ InMonth(z, MarchYear(date), MarchMonth(date))
  /\ z = YearBegins(MarchYear(date)) + MonthBegins(MarchMonth(date)) + date[3] - 1

\* Each instant is given twice, by its timestamp and by its date, and the two denote
\* the same day.
InstantsDated ==
  /\ Instants \in Seq([time : Nat, date : DatesInYear]) /\ Instants # <<>>
  /\ \A n \in DOMAIN Instants : IsDate(Instants[n].date, DayOf(Instants[n].time))

\* What the calendar says of a moment.
LEMMA PeriodValues ==
  ASSUME NEW t \in Moments
  PROVE  /\ PeriodOf("day", t) = t \div TicksPerDay
         /\ PeriodOf("month", t) = Civil(t).year * 12 + (Civil(t).month - 1)
         /\ PeriodOf("year", t) = Civil(t).year
BY DEF PeriodOf, Calendar, Moments, MonthIndex

\* The contract computes the year and the month of the date.
LEMMA CivilIsRight ==
  ASSUME NEW t \in Nat, NEW date \in DatesInYear, IsDate(date, DayOf(t))
  PROVE  Civil(t).year = date[1] /\ Civil(t).month = date[2]
<1>1. PICK y \in Int, m \in 0..11 :
        /\ InMonth(DayOf(t), y, m)
        /\ Civil(t) = [year |-> IF m < 10 THEN y ELSE y + 1, month |-> IF m < 10 THEN m + 3 ELSE m - 9]
  BY CivilFalls
<1>2. date[1] \in Nat /\ date[2] \in 1..12
  BY DEF DatesInYear
<1>3. /\ MarchYear(date) \in Int /\ MarchMonth(date) \in 0..11
      /\ InMonth(DayOf(t), MarchYear(date), MarchMonth(date))
  BY <1>2 DEF MarchYear, MarchMonth, IsDate
<1>4. DayOf(t) \in Int /\ DayOf(t) <= DayOf(t)
  BY DaysOrdered
<1>5. /\ y <= MarchYear(date) /\ (y = MarchYear(date) => m <= MarchMonth(date))
      /\ MarchYear(date) <= y /\ (MarchYear(date) = y => MarchMonth(date) <= m)
  BY <1>1, <1>3, <1>4, MonthsOrdered
<1>6. y = MarchYear(date) /\ m = MarchMonth(date)
  <2> DEFINE w == MarchYear(date)
             n == MarchMonth(date)
  <2>1. w \in Int /\ n \in 0..11 /\ y <= w /\ w <= y /\ (y = w => m <= n /\ n <= m)
    BY <1>3, <1>5
  <2> HIDE DEF w, n
  <2>2. y = w /\ m = n
    BY <2>1
  <2> QED BY <2>2 DEF w, n
<1>7. Civil(t).year = (IF m < 10 THEN y ELSE y + 1) /\ Civil(t).month = (IF m < 10 THEN m + 3 ELSE m - 9)
  BY <1>1
<1> QED BY <1>2, <1>6, <1>7, SMT DEF MarchYear, MarchMonth

\* Two moments fall into one period of the contract's calendar if and only if their
\* dates do.
LEMMA PeriodsAgree ==
  ASSUME NEW s \in Moments, NEW t \in Moments, s \in Nat, t \in Nat, NEW p \in Period,
         NEW d \in DatesInYear, NEW e \in DatesInYear, IsDate(d, DayOf(s)), IsDate(e, DayOf(t))
  PROVE  PeriodOf(p, s) = PeriodOf(p, t) <=> SamePeriod(p, d, e)
<1>1. IsDate(d, DayOf(s)) /\ IsDate(e, DayOf(t))
  OBVIOUS
<1>2. /\ Civil(s).year = d[1] /\ Civil(s).month = d[2] /\ Civil(t).year = e[1] /\ Civil(t).month = e[2]
  BY <1>1, CivilIsRight
<1>3. /\ d[1] \in Nat /\ d[2] \in 1..12 /\ d[3] \in 1..31 /\ e[1] \in Nat /\ e[2] \in 1..12 /\ e[3] \in 1..31
      /\ d = <<d[1], d[2], d[3]>> /\ e = <<e[1], e[2], e[3]>>
  BY <1>1 DEF DatesInYear
<1>4. CASE p = "day"
  <2>1. PeriodOf(p, s) = s \div TicksPerDay /\ PeriodOf(p, t) = t \div TicksPerDay
    BY <1>1, <1>4, PeriodValues
  <2>2. s \div TicksPerDay \in Nat /\ t \div TicksPerDay \in Nat
    BY <1>1, DaysOrdered
  <2>3. s \div TicksPerDay = t \div TicksPerDay <=> DayOf(s) = DayOf(t)
    BY <2>2, SMT DEF DayOf
  <2>4. DayOf(s) = DayOf(t) => d = e
    <3> SUFFICES ASSUME DayOf(s) = DayOf(t) PROVE d = e
      OBVIOUS
    <3>1. d[1] = e[1] /\ d[2] = e[2]
      BY <1>1, <1>2, CivilIsRight
    <3>2. MarchYear(d) = MarchYear(e) /\ MarchMonth(d) = MarchMonth(e)
      BY <3>1 DEF MarchYear, MarchMonth
    <3>3. YearBegins(MarchYear(d)) \in Int /\ MonthBegins(MarchMonth(d)) \in Int
      <4>1. MarchYear(d) \in Int /\ MarchMonth(d) \in 0..11
        BY <1>3 DEF MarchYear, MarchMonth
      <4> DEFINE w == MarchYear(d)
                 m == MarchMonth(d)
      <4>2. w \in Int /\ m \in 0..11
        BY <4>1
      <4> HIDE DEF w, m
      <4>3. YearBegins(w) \in Int /\ MonthBegins(m) \in 0..337
        BY <4>2, YearsGrow, MonthsGrow
      <4> QED BY <4>3 DEF w, m
    <3>4. d[3] = e[3]
      <4> DEFINE a == YearBegins(MarchYear(d))
                 b == MonthBegins(MarchMonth(d))
      <4>1. a + b + d[3] - 1 = a + b + e[3] - 1 /\ a \in Int /\ b \in Int
        BY <1>1, <3>2, <3>3 DEF IsDate
      <4> HIDE DEF a, b
      <4> QED BY <1>3, <4>1, SMT
    <3> QED BY <1>3, <3>1, <3>4
  <2>5. d = e => DayOf(s) = DayOf(t)
    BY <1>1 DEF IsDate
  <2>6. SamePeriod(p, d, e) <=> d = e
    BY <1>4 DEF SamePeriod
  <2> QED BY <2>1, <2>3, <2>4, <2>5, <2>6
<1>5. CASE p = "month"
  <2>1. PeriodOf(p, s) = d[1] * 12 + (d[2] - 1) /\ PeriodOf(p, t) = e[1] * 12 + (e[2] - 1)
    BY <1>1, <1>2, <1>5, PeriodValues
  <2>2. SubSeq(d, 1, 2) = SubSeq(e, 1, 2) <=> d[1] = e[1] /\ d[2] = e[2]
    <3> DEFINE u == SubSeq(d, 1, 2)
               v == SubSeq(e, 1, 2)
    <3>1. /\ \A i \in 1..2 : d[i] \in Nat
          /\ \A i \in 1..2 : e[i] \in Nat
      BY <1>3
    <3>2. /\ u \in Seq(Nat) /\ Len(u) = 2 /\ u[1] = d[1] /\ u[2] = d[2]
          /\ v \in Seq(Nat) /\ Len(v) = 2 /\ v[1] = e[1] /\ v[2] = e[2]
      BY <3>1, SubSeqProperties
    <3> HIDE DEF u, v
    <3>3. u = v <=> u[1] = v[1] /\ u[2] = v[2]
      BY <3>2
    <3> QED BY <3>2, <3>3 DEF u, v
  <2>3. SamePeriod(p, d, e) <=> SubSeq(d, 1, 2) = SubSeq(e, 1, 2)
    BY <1>5 DEF SamePeriod
  <2>4. PeriodOf(p, s) = PeriodOf(p, t) <=> d[1] = e[1] /\ d[2] = e[2]
    BY <1>3, <2>1, SMT
  <2> QED BY <2>2, <2>3, <2>4
<1>6. CASE p = "year"
  <2>1. PeriodOf(p, s) = d[1] /\ PeriodOf(p, t) = e[1]
    BY <1>1, <1>2, <1>6, PeriodValues
  <2>2. SamePeriod(p, d, e) <=> d[1] = e[1]
    BY <1>6 DEF SamePeriod
  <2> QED BY <2>1, <2>2
<1> QED BY <1>4, <1>5, <1>6 DEF Period
-----------------------------------------------------------------------------
(* The compliance registry's limits.                                       *)
(*                                                                         *)
(* In the period a row was last counted in, what is left and what was      *)
(* charged make up what the row granted, unless a charge fell into the     *)
(* week before the sender's record expires; what was charged since, and    *)
(* what is left, then make up half of the limit.  In any other period      *)
(* nothing has been charged yet, and the limit itself is granted.          *)

\* What is left and the account of a period make each other up.
Balanced(acc, left, half) ==
  /\ acc.charged # 0 => acc.base - acc.charged >= 0
  /\ ~acc.cut => left = acc.base - acc.charged /\ acc.since = 0
  /\ acc.cut => left >= 0 /\ left <= acc.base - acc.charged /\ acc.since + left <= half

\* A row and the account of one period agree at the time given.
Agrees(row, acc, p, now) ==
  IF PeriodOf(p, now) = PeriodOf(p, row.reset[p])
  THEN Balanced(acc, row.left[p], Halved(row.limit[p]))
  ELSE acc = Opened(row.limit[p])

Accounts == [base : Int, charged : Int, cut : BOOLEAN, since : Int]

RegistryInv ==
  /\ moment \in DOMAIN Instants
  /\ xfer_lim \in [User -> TransferLimits]
  /\ account \in [User -> [Period -> Accounts]]
  /\ \A u \in User, p \in Period : Agrees(xfer_lim[u], account[u][p], p, Now)

\* Timestamps are natural, and each instant has the date of its day.
LEMMA TimesDated ==
  ASSUME InstantsDated
  PROVE  /\ Len(Instants) \in Nat /\ DOMAIN Instants = 1..Len(Instants)
         /\ \A n \in DOMAIN Instants :
              /\ Instants[n].time \in Nat /\ Instants[n].time \in Moments /\ Instants[n].date \in DatesInYear
              /\ IsDate(Instants[n].date, DayOf(Instants[n].time))
         /\ Moments \subseteq Nat /\ 0 \in Moments
<1> DEFINE DatedEntry == [time : Nat, date : DatesInYear]
<1>1. Instants \in Seq(DatedEntry) /\ \A n \in DOMAIN Instants : IsDate(Instants[n].date, DayOf(Instants[n].time))
  BY DEF InstantsDated
<1> HIDE DEF DatedEntry
<1>2. \A n \in DOMAIN Instants : Instants[n] \in DatedEntry
  BY <1>1
<1>3. Len(Instants) \in Nat /\ DOMAIN Instants = 1..Len(Instants)
  BY <1>1
<1>4. \A n \in DOMAIN Instants : Instants[n].time \in Nat /\ Instants[n].date \in DatesInYear
  BY <1>2 DEF DatedEntry
<1> HIDE DEF InstantsDated
<1> QED BY <1>1, <1>3, <1>4 DEF Moments

\* The epoch began on January 1, 1970.
LEMMA Epoch == <<1970, 1, 1>> \in DatesInYear /\ IsDate(<<1970, 1, 1>>, DayOf(0))
<1>1. DayOf(0) = 719468
  <2>1. TicksPerDay \in Nat \ {0}
    BY RegistryAssumption
  <2> QED BY <2>1, SMT DEF DayOf
<1>2. MarchYear(<<1970, 1, 1>>) = 1969 /\ MarchMonth(<<1970, 1, 1>>) = 10
  BY DEF MarchYear, MarchMonth
<1>3. YearBegins(1969) = 719162 /\ YearBegins(1970) = 719527 /\ MonthBegins(10) = 306 /\ MonthBegins(11) = 337
  BY SMT DEF YearBegins, MonthBegins
<1> QED BY <1>1, <1>2, <1>3, SMT DEF IsDate, InMonth, DatesInYear

\* The date looked up for a moment is its own.
LEMMA DateLookedUp ==
  ASSUME InstantsDated, NEW t \in Moments
  PROVE  DateOf(t) \in DatesInYear /\ IsDate(DateOf(t), DayOf(t))
<1>1. CASE \E n \in DOMAIN Instants : Instants[n].time = t
  <2> DEFINE k == CHOOSE n \in DOMAIN Instants : Instants[n].time = t
  <2>1. k \in DOMAIN Instants /\ Instants[k].time = t /\ DateOf(t) = Instants[k].date
    BY <1>1 DEF DateOf
  <2> HIDE DEF k
  <2> QED BY <2>1, TimesDated
<1>2. CASE ~\E n \in DOMAIN Instants : Instants[n].time = t
  <2>1. t = 0 /\ DateOf(t) = <<1970, 1, 1>>
    BY <1>2 DEF DateOf, Moments
  <2> QED BY <2>1, Epoch
<1> QED BY <1>1, <1>2

\* What a row is after the periods that are over were counted anew.
LEMMA ResetRow ==
  ASSUME InstantsDated, NEW row \in TransferLimits, moment \in DOMAIN Instants
  PROVE  /\ AfterResets(row) \in TransferLimits /\ AfterResets(row).limit = row.limit
         /\ \A p \in Period :
              IF PeriodOf(p, Now) = PeriodOf(p, row.reset[p])
              THEN AfterResets(row).left[p] = row.left[p] /\ AfterResets(row).reset[p] = row.reset[p]
              ELSE AfterResets(row).left[p] = row.limit[p] /\ AfterResets(row).reset[p] = Now
<1> DEFINE over == {p \in Period : PeriodOf(p, Now) # PeriodOf(p, row.reset[p])}
           left == [p \in Period |-> IF p \in over THEN row.limit[p] ELSE row.left[p]]
           reset == [p \in Period |-> IF p \in over THEN Now ELSE row.reset[p]]
<1>1. AfterResets(row) = [row EXCEPT !.left = left, !.reset = reset]
  BY DEF AfterResets
<1>2. Now \in Moments
  BY TimesDated DEF Now
<1>3. left \in [Period -> Int] /\ reset \in [Period -> Moments]
  BY <1>2 DEF TransferLimits
<1>4. \A p \in Period :
        /\ left[p] = IF p \in over THEN row.limit[p] ELSE row.left[p]
        /\ reset[p] = IF p \in over THEN Now ELSE row.reset[p]
  OBVIOUS
<1> HIDE DEF left, reset
<1>5. /\ AfterResets(row) \in TransferLimits /\ AfterResets(row).limit = row.limit
      /\ AfterResets(row).left = left /\ AfterResets(row).reset = reset
  BY <1>1, <1>3 DEF TransferLimits
<1> QED BY <1>4, <1>5

\* Half of a limit is a number, whatever its sign.
LEMMA HalvedInt == ASSUME NEW n \in Int PROVE Halved(n) \in Int
BY SMT DEF Halved

\* What check_transfer_limits looks at: all of what is left, or half of the limit.
LEMMA EffectiveRow ==
  ASSUME InstantsDated, RegistryInv, NEW u \in User
  PROVE  /\ EffectiveLimits(u) \in TransferLimits
         /\ EffectiveLimits(u).limit = xfer_lim[u].limit
         /\ EffectiveLimits(u).reset = AfterResets(xfer_lim[u]).reset
         /\ \A p \in Period :
              /\ EffectiveLimits(u).left[p] <= AfterResets(xfer_lim[u]).left[p]
              /\ KycState(u) # "Warning" => EffectiveLimits(u).left[p] = AfterResets(xfer_lim[u]).left[p]
              /\ KycState(u) = "Warning" => EffectiveLimits(u).left[p] <= Halved(xfer_lim[u].limit[p])
<1> DEFINE row == AfterResets(xfer_lim[u])
           less == [p \in Period |-> Smaller(row.left[p], Halved(row.limit[p]))]
<1>1. row \in TransferLimits /\ row.limit = xfer_lim[u].limit
  BY ResetRow DEF RegistryInv
<1>2. EffectiveLimits(u) = IF KycState(u) # "Warning" THEN row ELSE [row EXCEPT !.left = less]
  BY DEF EffectiveLimits
<1> HIDE DEF row
<1>3. \A p \in Period : row.left[p] \in Int /\ row.limit[p] \in Int /\ Halved(row.limit[p]) \in Int
  BY <1>1, HalvedInt DEF TransferLimits
<1>4. /\ less \in [Period -> Int]
      /\ \A p \in Period : less[p] <= row.left[p] /\ less[p] <= Halved(row.limit[p])
  BY <1>3 DEF Smaller
<1> HIDE DEF less
<1>5. CASE KycState(u) # "Warning"
  BY <1>1, <1>2, <1>3, <1>5 DEF row
<1>6. CASE KycState(u) = "Warning"
  <2>1. EffectiveLimits(u) = [row EXCEPT !.left = less]
    BY <1>2, <1>6
  <2>2. /\ EffectiveLimits(u) \in TransferLimits /\ EffectiveLimits(u).limit = row.limit
        /\ EffectiveLimits(u).reset = row.reset /\ EffectiveLimits(u).left = less
    BY <1>1, <1>4, <2>1 DEF TransferLimits
  <2> QED BY <1>1, <1>4, <1>6, <2>2 DEF row
<1> QED BY <1>5, <1>6

\* What a row has before an amount is taken, in a period that is counted anew too.
LEMMA RowNow ==
  ASSUME InstantsDated, RegistryInv, NEW u \in User, NEW p \in Period
  PROVE  LET row == AfterResets(xfer_lim[u])
             acc == account[u][p]
         IN  /\ row.limit = xfer_lim[u].limit /\ row.limit[p] \in Int /\ row.left[p] \in Int
             /\ acc \in Accounts
             /\ Balanced(acc, row.left[p], Halved(row.limit[p]))
             /\ PeriodOf(p, Now) = PeriodOf(p, row.reset[p])
<1> DEFINE old == xfer_lim[u]
           row == AfterResets(old)
           acc == account[u][p]
<1>1. old \in TransferLimits /\ moment \in DOMAIN Instants
  BY DEF RegistryInv
<1>2. acc \in Accounts /\ Agrees(old, acc, p, Now)
  BY DEF RegistryInv
<1> HIDE DEF old, acc
<1>3. row \in TransferLimits /\ row.limit = old.limit
  BY <1>1, ResetRow
<1>4. IF PeriodOf(p, Now) = PeriodOf(p, old.reset[p])
      THEN row.left[p] = old.left[p] /\ row.reset[p] = old.reset[p]
      ELSE row.left[p] = old.limit[p] /\ row.reset[p] = Now
  BY <1>1, ResetRow
<1> HIDE DEF row
<1>5. old.limit[p] \in Int /\ row.left[p] \in Int
  BY <1>1, <1>3 DEF TransferLimits
<1>6. CASE PeriodOf(p, Now) = PeriodOf(p, old.reset[p])
  BY <1>2, <1>3, <1>4, <1>5, <1>6 DEF Agrees, old, row, acc
<1>7. CASE PeriodOf(p, Now) # PeriodOf(p, old.reset[p])
  <2>1. acc = Opened(old.limit[p]) /\ row.left[p] = old.limit[p] /\ row.reset[p] = Now
    BY <1>2, <1>4, <1>7 DEF Agrees
  <2>2. acc.base = old.limit[p] /\ acc.charged = 0 /\ acc.cut = FALSE /\ acc.since = 0
    BY <2>1 DEF Opened
  <2>3. row.left[p] = acc.base - acc.charged
    BY <1>5, <2>1, <2>2
  <2>4. Balanced(acc, row.left[p], Halved(row.limit[p]))
    BY <2>2, <2>3 DEF Balanced
  <2> QED BY <1>2, <1>3, <1>5, <2>1, <2>4 DEF old, row, acc
<1> QED BY <1>6, <1>7

\* The arithmetic of an amount that is taken: l is left, e of it may be charged now.
LEMMA AmountTaken ==
  ASSUME NEW acc \in Accounts, NEW l \in Int, NEW e \in Int, NEW a \in Int, NEW half \in Int, NEW state,
         a <= e, e <= l, state # "Warning" => e = l, state = "Warning" => e <= half,
         Balanced(acc, l, half)
  PROVE  /\ Charged(acc, a, state = "Warning") \in Accounts
         /\ Balanced(Charged(acc, a, state = "Warning"), e - a, half)
<1> DEFINE warn == state = "Warning"
           new == Charged(acc, a, warn)
<1>1. acc.base \in Int /\ acc.charged \in Int /\ acc.cut \in BOOLEAN /\ acc.since \in Int
  BY DEF Accounts
<1>2. /\ new \in Accounts /\ new.base = acc.base /\ new.charged = acc.charged + a
      /\ new.cut = (acc.cut \/ warn) /\ new.since = IF acc.cut \/ warn THEN acc.since + a ELSE acc.since
  <2> DEFINE cut == acc.cut \/ warn
             since == IF acc.cut \/ warn THEN acc.since + a ELSE acc.since
  <2>1. new = [acc EXCEPT !.charged = acc.charged + a, !.cut = cut, !.since = since]
    BY DEF Charged
  <2>2. cut \in BOOLEAN /\ since \in Int /\ acc.charged + a \in Int
    BY <1>1
  <2> HIDE DEF new, cut, since
  <2>3. /\ new \in Accounts /\ new.base = acc.base /\ new.charged = acc.charged + a
        /\ new.cut = cut /\ new.since = since
    BY <2>1, <2>2 DEF Accounts
  <2> QED BY <2>3 DEF cut, since
<1> HIDE DEF new
<1>3. /\ l <= acc.base - acc.charged
      /\ ~acc.cut => l = acc.base - acc.charged /\ acc.since = 0
      /\ acc.cut => acc.since + l <= half
  BY <1>1 DEF Balanced
<1>4. e - a >= 0 /\ e - a <= acc.base - (acc.charged + a)
  BY <1>1, <1>3
<1>5. CASE ~acc.cut /\ ~warn
  <2>1. e - a = acc.base - (acc.charged + a) /\ acc.since = 0
    <3>1. e = l /\ l = acc.base - acc.charged /\ acc.since = 0
      BY <1>3, <1>5
    <3> HIDE DEF warn
    <3> QED BY <1>1, <3>1
  <2>2. ~new.cut /\ new.since = acc.since
    BY <1>2, <1>5
  <2>3. new.base - new.charged >= 0 /\ e - a = new.base - new.charged
    BY <1>2, <1>4, <2>1
  <2>4. Balanced(new, e - a, half)
    BY <2>1, <2>2, <2>3 DEF Balanced
  <2> QED BY <1>2, <2>4 DEF new
<1>6. CASE acc.cut \/ warn
  <2>1. acc.since + e <= half
    <3>1. CASE acc.cut
      BY <1>1, <1>3, <3>1
    <3>2. CASE ~acc.cut
      BY <1>1, <1>3, <1>6, <3>2
    <3> QED BY <3>1, <3>2
  <2>2. (acc.since + a) + (e - a) <= half
    BY <1>1, <2>1
  <2>3. new.cut /\ new.since = acc.since + a
    BY <1>2, <1>6
  <2>4. new.base = acc.base /\ new.charged = acc.charged + a /\ new \in Accounts
    BY <1>2
  <2>5. new.base - new.charged >= 0 /\ e - a <= new.base - new.charged
    BY <1>1, <1>4, <2>4
  <2>6. e - a >= 0 /\ new.since + (e - a) <= half
    BY <1>4, <2>2, <2>3
  <2>7. Balanced(new, e - a, half)
    BY <2>3, <2>5, <2>6 DEF Balanced
  <2> QED BY <2>4, <2>7 DEF new
<1> QED BY <1>1, <1>5, <1>6

\* Taking an amount off the limits keeps rows and accounts together.
LEMMA TakeKeeps ==
  ASSUME InstantsDated, RegistryInv, NEW u \in User, NEW amount \in Int,
         TakeFromLimits(u, amount), moment' = moment
  PROVE  RegistryInv'
<1> DEFINE row == EffectiveLimits(u)
           left == [p \in Period |-> row.left[p] - amount]
           new == [row EXCEPT !.left = left]
           warn == KycState(u) = "Warning"
           more == [p \in Period |-> Charged(account[u][p], amount, warn)]
<1>1. CASE ~WithinLimits(u, amount)
  BY <1>1 DEF TakeFromLimits, spending, RegistryInv, Now
<1>2. CASE WithinLimits(u, amount)
  <2>1. xfer_lim' = [xfer_lim EXCEPT ![u] = new] /\ account' = [account EXCEPT ![u] = more]
    BY <1>2 DEF TakeFromLimits, Reduced
  <2>2. /\ row \in TransferLimits /\ row.limit = xfer_lim[u].limit
        /\ row.reset = AfterResets(xfer_lim[u]).reset
        /\ \A p \in Period : amount <= row.left[p]
    BY <1>2, EffectiveRow DEF WithinLimits, Fits
  <2> HIDE DEF row
  <2>3. left \in [Period -> Int] /\ \A p \in Period : left[p] = row.left[p] - amount
    BY <2>2 DEF TransferLimits
  <2> HIDE DEF left
  <2>4. new \in TransferLimits /\ new.limit = row.limit /\ new.reset = row.reset /\ new.left = left
    BY <2>2, <2>3 DEF TransferLimits
  <2> HIDE DEF new
  <2>5. ASSUME NEW p \in Period
        PROVE  /\ more[p] = Charged(account[u][p], amount, warn) /\ more[p] \in Accounts
               /\ Agrees(new, more[p], p, Now)
    <3> DEFINE acc == account[u][p]
               got == more[p]
               l == AfterResets(xfer_lim[u]).left[p]
               L == xfer_lim[u].limit[p]
               e == row.left[p]
               half == Halved(L)
    <3>1. /\ L \in Int /\ l \in Int /\ acc \in Accounts /\ Balanced(acc, l, half)
          /\ PeriodOf(p, Now) = PeriodOf(p, new.reset[p])
      BY <2>2, <2>4, RowNow
    <3>2. e <= l /\ (~warn => e = l) /\ (warn => e <= half)
      BY EffectiveRow DEF row
    <3>3. e \in Int /\ amount <= e /\ new.left[p] = e - amount /\ new.limit[p] = L
      BY <2>2, <2>3, <2>4 DEF TransferLimits
    <3>4. got = Charged(acc, amount, warn)
      OBVIOUS
    <3>5. half \in Int /\ warn \in BOOLEAN
      BY <3>1, HalvedInt
    <3> HIDE DEF l, e, half, warn, acc, got
    <3>6. got \in Accounts /\ Balanced(got, e - amount, half)
      <4> DEFINE state == KycState(u)
      <4>1. /\ state # "Warning" => e = l
            /\ state = "Warning" => e <= half
            /\ got = Charged(acc, amount, state = "Warning")
        BY <3>2, <3>4 DEF warn
      <4> HIDE DEF state
      <4> QED BY <3>1, <3>2, <3>3, <3>5, <4>1, AmountTaken
    <3>7. half = Halved(new.limit[p])
      BY <3>3 DEF half
    <3>8. Agrees(new, got, p, Now)
      BY <3>1, <3>3, <3>6, <3>7 DEF Agrees
    <3> QED BY <3>4, <3>6, <3>8 DEF got, acc
  <2>6. more \in [Period -> Accounts]
    BY <2>5
  <2> HIDE DEF more
  <2>7. /\ xfer_lim' \in [User -> TransferLimits] /\ account' \in [User -> [Period -> Accounts]]
        /\ xfer_lim'[u] = new /\ account'[u] = more
        /\ \A v \in User : v # u => xfer_lim'[v] = xfer_lim[v] /\ account'[v] = account[v]
    BY <2>1, <2>4, <2>6 DEF RegistryInv
  <2>8. moment \in DOMAIN Instants /\ Now' = Now
    BY DEF RegistryInv, Now
  <2>9. \A v \in User, p \in Period : Agrees(xfer_lim'[v], account'[v][p], p, Now)
    BY <2>5, <2>7 DEF RegistryInv
  <2> QED BY <2>7, <2>8, <2>9 DEF RegistryInv, Agrees
<1> QED BY <1>1, <1>2

\* What a row grants on a date, it grants by the contract's own calendar, and nothing
\* has been charged of it.
LEMMA OpensRight ==
  ASSUME InstantsDated, NEW n \in DOMAIN Instants, NEW row \in TransferLimits, NEW p \in Period
  PROVE  /\ Opening(row, Instants[n].date)[p] \in Accounts
         /\ Agrees(row, Opening(row, Instants[n].date)[p], p, Instants[n].time)
<1> DEFINE t == Instants[n].time
           date == Instants[n].date
           reset == row.reset[p]
           base == Grants(row, p, date)
           same == SamePeriod(p, date, DateOf(reset))
<1>1. row.limit[p] \in Int /\ row.left[p] \in Int /\ reset \in Moments
  BY DEF TransferLimits
<1>2. PeriodOf(p, t) = PeriodOf(p, reset) <=> same
  <2>1. /\ t \in Nat /\ t \in Moments /\ date \in DatesInYear /\ IsDate(date, DayOf(t))
        /\ reset \in Nat /\ DateOf(reset) \in DatesInYear /\ IsDate(DateOf(reset), DayOf(reset))
    BY <1>1, TimesDated, DateLookedUp
  <2> HIDE DEF t, date, reset
  <2>2. PeriodOf(p, t) = PeriodOf(p, reset) <=> SamePeriod(p, date, DateOf(reset))
    BY <1>1, <2>1, PeriodsAgree
  <2> QED BY <2>2 DEF t, date, reset
<1>3. base = IF same THEN row.left[p] ELSE row.limit[p]
  BY DEF Grants
<1>4. Opening(row, date)[p] = Opened(base)
  BY DEF Opening
<1> HIDE DEF t, date, reset, base, same
<1>5. base \in Int
  BY <1>1, <1>3
<1>6. /\ Opened(base) \in Accounts /\ Opened(base).base = base /\ Opened(base).charged = 0
      /\ Opened(base).cut = FALSE /\ Opened(base).since = 0
  BY <1>5 DEF Opened, Accounts
<1>7. Agrees(row, Opened(base), p, t)
  <2>1. CASE same
    <3>1. PeriodOf(p, t) = PeriodOf(p, row.reset[p]) /\ row.left[p] = base /\ base = base - 0
      BY <1>2, <1>3, <1>5, <2>1 DEF reset
    <3> QED BY <1>6, <3>1 DEF Agrees, Balanced
  <2>2. CASE ~same
    <3>1. PeriodOf(p, t) # PeriodOf(p, row.reset[p]) /\ row.limit[p] = base
      BY <1>2, <1>3, <2>2 DEF reset
    <3> QED BY <3>1 DEF Agrees
  <2> QED BY <2>1, <2>2
<1> QED BY <1>4, <1>6, <1>7 DEF t, date

\* A new row opens its user's account anew.
LEMMA SetKeeps ==
  ASSUME InstantsDated, RegistryInv, NEW u \in User, NEW row \in TransferLimits, SetTransferLimits(u, row)
  PROVE  RegistryInv'
<1> DEFINE fresh == Opening(row, Instants[moment].date)
<1>1. /\ xfer_lim' = [xfer_lim EXCEPT ![u] = row] /\ moment' = moment
      /\ account' = [account EXCEPT ![u] = fresh]
  BY DEF SetTransferLimits, Change
<1>2. \A p \in Period : fresh[p] \in Accounts /\ Agrees(row, fresh[p], p, Now)
  BY OpensRight DEF RegistryInv, Now
<1>3. fresh \in [Period -> Accounts]
  BY <1>2 DEF Opening
<1> HIDE DEF fresh
<1>4. /\ xfer_lim' \in [User -> TransferLimits] /\ account' \in [User -> [Period -> Accounts]]
      /\ xfer_lim'[u] = row /\ account'[u] = fresh
      /\ \A v \in User : v # u => xfer_lim'[v] = xfer_lim[v] /\ account'[v] = account[v]
  BY <1>1, <1>3 DEF RegistryInv
<1>5. Now' = Now
  BY <1>1 DEF Now
<1>6. \A v \in User, p \in Period : Agrees(xfer_lim'[v], account'[v][p], p, Now)
  BY <1>2, <1>4 DEF RegistryInv
<1> QED BY <1>1, <1>4, <1>5, <1>6 DEF RegistryInv, Agrees

\* As time passes an account is carried over within a period and opened anew with it.
LEMMA TickKeeps ==
  ASSUME InstantsDated, RegistryInv, RegistryTick
  PROVE  RegistryInv'
<1> DEFINE n == moment + 1
           next == Instants[n].date
           same(p) == SamePeriod(p, Instants[moment].date, next)
<1>1. /\ moment < Len(Instants) /\ moment' = n /\ xfer_lim' = xfer_lim
      /\ account' = [u \in User |-> [p \in Period |->
                       IF same(p) THEN account[u][p] ELSE Opening(xfer_lim[u], next)[p]]]
  BY DEF RegistryTick
<1>2. moment \in DOMAIN Instants /\ n \in DOMAIN Instants /\ moment \in Nat
  BY <1>1, TimesDated DEF RegistryInv
<1>3. ASSUME NEW u \in User, NEW p \in Period
      PROVE  account'[u][p] \in Accounts /\ Agrees(xfer_lim[u], account'[u][p], p, Instants[n].time)
  <2>1. same(p) <=> PeriodOf(p, Now) = PeriodOf(p, Instants[n].time)
    <3>1. /\ Instants[moment].time \in Nat /\ Instants[moment].time \in Moments
          /\ Instants[moment].date \in DatesInYear
          /\ IsDate(Instants[moment].date, DayOf(Instants[moment].time))
      BY <1>2, TimesDated
    <3>2. /\ Instants[n].time \in Nat /\ Instants[n].time \in Moments /\ next \in DatesInYear
          /\ IsDate(next, DayOf(Instants[n].time))
      BY <1>2, TimesDated
    <3> HIDE DEF n, next
    <3>3. PeriodOf(p, Instants[moment].time) = PeriodOf(p, Instants[n].time)
            <=> SamePeriod(p, Instants[moment].date, next)
      BY <3>1, <3>2, PeriodsAgree
    <3> QED BY <3>3 DEF Now
  <2>2. account[u][p] \in Accounts /\ xfer_lim[u] \in TransferLimits /\ Agrees(xfer_lim[u], account[u][p], p, Now)
    BY DEF RegistryInv
  <2>3. account'[u][p] = IF same(p) THEN account[u][p] ELSE Opening(xfer_lim[u], next)[p]
    BY <1>1
  <2>4. CASE same(p)
    BY <2>1, <2>2, <2>3, <2>4 DEF Agrees
  <2>5. CASE ~same(p)
    <3>1. account'[u][p] = Opening(xfer_lim[u], Instants[n].date)[p]
      BY <2>3, <2>5
    <3> QED BY <1>2, <2>2, <3>1, OpensRight
  <2> QED BY <2>4, <2>5
<1>4. account' \in [User -> [Period -> Accounts]]
  BY <1>1, <1>3
<1>5. Now' = Instants[n].time
  BY <1>1 DEF Now
<1>6. xfer_lim' \in [User -> TransferLimits] /\ moment' \in DOMAIN Instants
  BY <1>1, <1>2 DEF RegistryInv
<1>7. \A u \in User, p \in Period : Agrees(xfer_lim'[u], account'[u][p], p, Now')
  BY <1>1, <1>3, <1>5
<1> QED BY <1>4, <1>6, <1>7 DEF RegistryInv, Agrees

\* At first every user has the default row, last counted at the epoch.
LEMMA InitRegistry == InstantsDated /\ RegistryInit => RegistryInv
<1> SUFFICES ASSUME InstantsDated, RegistryInit PROVE RegistryInv
  OBVIOUS
<1> DEFINE fresh == Opening(DefaultRow, Instants[1].date)
<1>1. moment = 1 /\ xfer_lim = [u \in User |-> DefaultRow] /\ account = [u \in User |-> fresh]
  BY DEF RegistryInit
<1>2. moment \in DOMAIN Instants
  <2>1. Len(Instants) # 0
    BY DEF InstantsDated
  <2> QED BY <1>1, <2>1, TimesDated
<1>3. DefaultRow \in TransferLimits
  BY TimesDated, RegistryAssumption DEF DefaultRow, TransferLimits
<1>4. \A p \in Period : fresh[p] \in Accounts /\ Agrees(DefaultRow, fresh[p], p, Now)
  BY <1>1, <1>2, <1>3, OpensRight DEF Now
<1>5. fresh \in [Period -> Accounts]
  BY <1>4 DEF Opening
<1> HIDE DEF fresh
<1> QED BY <1>1, <1>2, <1>3, <1>4, <1>5 DEF RegistryInv

\* Every call of the registry keeps the invariant.
LEMMA NextRegistry == InstantsDated /\ RegistryInv /\ [RegistryNext]_registryVars => RegistryInv'
<1> SUFFICES ASSUME InstantsDated, RegistryInv, [RegistryNext]_registryVars PROVE RegistryInv'
  OBVIOUS
<1>1. ASSUME UNCHANGED spending, moment' = moment PROVE RegistryInv'
  BY <1>1 DEF spending, RegistryInv, Now, Agrees
<1>2. ASSUME NEW u \in Sender, NEW amount \in Amounts, TakeFromLimits(u, amount), moment' = moment
      PROVE  RegistryInv'
  <2>1. u \in User /\ amount \in Int
    BY RegistryAssumption
  <2> QED BY <1>2, <2>1, TakeKeeps
<1>3. ASSUME NEW from \in Sender, NEW to \in User, NEW amount \in Amounts, NEW threshold,
             CheckCompliance(from, to, amount, threshold)
      PROVE  RegistryInv'
  <2>1. moment' = moment /\ (UNCHANGED spending \/ TakeFromLimits(from, amount))
    BY <1>3 DEF CheckCompliance
  <2> QED BY <1>1, <1>2, <2>1
<1>4. ASSUME NEW u \in Sender, NEW amount \in Amounts,
             CheckOutboundParticipant(u, amount) \/ CheckTransferLimits(u, amount)
      PROVE  RegistryInv'
  <2>1. moment' = moment /\ (UNCHANGED spending \/ TakeFromLimits(u, amount))
    BY <1>4 DEF CheckOutboundParticipant, CheckTransferLimits
  <2> QED BY <1>1, <1>2, <2>1
<1>5. ASSUME NEW u \in User, NEW row \in GrantedLimits, SetTransferLimits(u, row)
      PROVE  RegistryInv'
  <2>1. row \in TransferLimits
    BY RegistryAssumption
  <2> QED BY <1>5, <2>1, SetKeeps
<1>6. ASSUME NEW u \in User,
             \/ \E record \in KycRecords : UpdateKycStatus(u, record)
             \/ SetBlacklist(blacklist \union {u}) \/ SetBlacklist(blacklist \ {u})
             \/ SetWhitelist(whitelist \union {u}) \/ SetWhitelist(whitelist \ {u})
      PROVE  RegistryInv'
  BY <1>1, <1>6 DEF UpdateKycStatus, SetBlacklist, SetWhitelist, Change
<1>7. CASE \/ \E rule \in RuleTerms : UpdateComplianceRule(rule)
           \/ \E score \in RiskScores : SetRiskThresholds(score)
  BY <1>1, <1>7 DEF UpdateComplianceRule, SetRiskThresholds, Change
<1>8. CASE RegistryTick
  BY <1>8, TickKeeps
<1>9. CASE UNCHANGED registryVars
  BY <1>1, <1>9 DEF registryVars
<1> QED BY <1>3, <1>4, <1>5, <1>6, <1>7, <1>8, <1>9 DEF RegistryNext

\* In every reachable state a user may still send what its row grants in the calendar
\* day, month and year of the ledger's time less what was charged in it, whatever rows
\* the admin stores, limits below zero and resets to come included, whatever amounts
\* are asked about, and for any dates whose timestamps are right, any leap years between
\* them included (check_transfer_limits, civil_from_days, effective_limits).
THEOREM CapacityAlwaysExact ==
  ASSUME InstantsDated PROVE RegistrySpec => []CapacityIsExact
<1>1. RegistryInit => RegistryInv
  BY InitRegistry
<1>2. RegistryInv /\ [RegistryNext]_registryVars => RegistryInv'
  BY NextRegistry
<1>3. RegistryInv => CapacityIsExact
  <2> SUFFICES ASSUME RegistryInv, NEW u \in User, NEW p \in Period
               PROVE  LET row == AfterResets(xfer_lim[u])
                          acc == account[u][p]
                          rest == acc.base - acc.charged
                      IN  /\ acc.charged # 0 => rest >= 0
                          /\ ~acc.cut => row.left[p] = rest
                          /\ acc.cut => /\ row.left[p] \in 0..rest
                                        /\ acc.since + row.left[p] <= Halved(row.limit[p])
    BY DEF CapacityIsExact
  <2> DEFINE row == AfterResets(xfer_lim[u])
             acc == account[u][p]
             left == row.left[p]
             half == Halved(row.limit[p])
  <2>1. /\ left \in Int /\ acc \in Accounts
        /\ Balanced(acc, left, half)
    BY RowNow
  <2>2. acc.base \in Int /\ acc.charged \in Int
    BY <2>1 DEF Accounts
  <2> HIDE DEF left, half, acc
  <2>3. acc.cut => left \in 0..(acc.base - acc.charged)
    BY <2>1, <2>2 DEF Balanced
  <2> QED BY <2>1, <2>3 DEF Balanced, left, half, acc
<1> QED BY <1>1, <1>2, <1>3, PTL DEF RegistrySpec

-----------------------------------------------------------------------------
(* ComplianceRegistry: which rule decides.                                  *)

\* One rule looked at.
Collected(found, rule, from, to) ==
  IF rule.is_active /\ Applies(rule, from, to) THEN Append(found, rule) ELSE found

\* W holds what the loops make of its members.
Exchanged(W, n) == \A v \in W, j \in 1..n : Exchange(v, j) \in W
Passed(W, n) == \A v \in W, j \in 1..n : Pass(v, j) \in W
UpdatedBy(W, R) == \A v \in W, rule \in R : Updated(v, rule) \in W
CollectedFrom(W, R, from, to) == \A v \in W, rule \in R : Collected(v, rule, from, to) \in W

\* What the loops make of s.
ExchangesOf(s, n) == FoldLeft(Exchange, s, Upto(n))
PassesOf(s, n) == FoldLeft(Pass, s, Upto(n))
UpdatesOf(s, list) == FoldLeft(Updated, s, list)
CollectionOf(list, from, to) ==
  FoldLeft(LAMBDA found, rule : IF rule.is_active /\ Applies(rule, from, to) THEN Append(found, rule) ELSE found,
           <<>>, list)

\* A pass, exchange by exchange.
LEMMA PassRuns ==
  ASSUME NEW n \in Nat, NEW W, NEW s \in W, Exchanged(W, n)
  PROVE  \E w \in [0..n -> W] :
            /\ w[0] = s /\ \A j \in 1..n : w[j] = Exchange(w[j - 1], j)
            /\ ExchangesOf(s, n) = w[n]
<1> DEFINE S == 1..n
           step == [v \in W \X S |-> Exchange(v[1], v[2])]
           index == Upto(n)
           IsIter(h) == h = [T \in SUBSET S |->
                              IF T = {} THEN s ELSE Exchange(h[T \ {Max(T)}], index[Max(T)])]
           iter == CHOOSE h : IsIter(h)
<1>1. Indices(S) /\ \A T \in SUBSET S : T # {} => Max(T) \in S
  BY FirstIndices
<1>2. step \in [W \X S -> W]
  BY DEF Exchanged
<1>3. \A T \in SUBSET S : T # {} => index[Max(T)] = Max(T)
  BY <1>1 DEF Upto
<1>4. PICK h \in [SUBSET S -> W] :
         \A T \in SUBSET S : h[T] = IF T = {} THEN s ELSE step[<<h[T \ {Max(T)}], Max(T)>>]
  <2>1. FoldsWithin(s, step, S, W)
    <3> HIDE DEF S, step
    <3> QED BY <1>1, <1>2, FoldWithin
  <2> HIDE DEF S, step
  <2> QED BY <2>1 DEF FoldsWithin
<1>5. ASSUME NEW T \in SUBSET S, T # {}, NEW g, g[T \ {Max(T)}] \in W
      PROVE  step[<<g[T \ {Max(T)}], Max(T)>>] = Exchange(g[T \ {Max(T)}], index[Max(T)])
  <2> HIDE DEF S
  <2> QED BY <1>1, <1>3, <1>5
<1>6. IsIter(h)
  <2>1. \A T \in SUBSET S : h[T] = IF T = {} THEN s ELSE Exchange(h[T \ {Max(T)}], index[Max(T)])
    <3> HIDE DEF S, step, index
    <3> QED BY <1>4, <1>5
  <2> HIDE DEF S, step, index
  <2> QED BY <1>4, <2>1
<1>7. IsIter(iter)
  <2> HIDE DEF IsIter
  <2> QED BY <1>6
<1>8. \A T \in SUBSET S : iter[T] = IF T = {} THEN s ELSE Exchange(iter[T \ {Max(T)}], index[Max(T)])
  <2> HIDE DEF S, index, iter
  <2> QED BY <1>7
<1>9. \A T \in SUBSET S : iter[T] \in W
  <2>1. iter[{}] \in W
    <3> HIDE DEF iter, S, index
    <3>1. {} \in SUBSET S
      OBVIOUS
    <3> QED BY <1>8, <3>1
  <2>2. \A T \in SUBSET S : T # {} /\ iter[T \ {Max(T)}] \in W => iter[T] \in W
    <3> HIDE DEF iter, S, index, step
    <3> QED BY <1>1, <1>2, <1>5, <1>8
  <2> HIDE DEF iter, S
  <2> QED BY <1>1, <2>1, <2>2, FoldStays
<1>10. \A T \in SUBSET S : iter[T] = IF T = {} THEN s ELSE step[<<iter[T \ {Max(T)}], Max(T)>>]
  <2> HIDE DEF iter, S, index, step
  <2> QED BY <1>5, <1>8, <1>9
<1>11. iter \in [SUBSET S -> W]
  <2>1. iter = [T \in SUBSET S |-> iter[T]]
    <3> HIDE DEF S, index, iter
    <3> QED BY <1>7
  <2> HIDE DEF iter, S
  <2> QED BY <1>9, <2>1
<1>12. PICK w : IsTrace(w, s, step, n, W) /\ w[n] = iter[1..n]
  <2>1. step \in [W \X (1..n) -> W] /\ iter \in [SUBSET (1..n) -> W]
    BY <1>2, <1>11
  <2>2. \A T \in SUBSET (1..n) : iter[T] = IF T = {} THEN s ELSE step[<<iter[T \ {Max(T)}], Max(T)>>]
    BY <1>10
  <2> HIDE DEF iter, step, S
  <2>3. IsLoop(iter, s, step, n, W)
    BY <2>1, <2>2 DEF IsLoop
  <2> QED BY <2>3, FoldTrace
<1>13. w \in [0..n -> W] /\ w[0] = s /\ \A j \in 1..n : w[j] = Exchange(w[j - 1], j)
  <2>1. /\ w \in [0..n -> W] /\ w[0] = s
        /\ \A j \in 1..n : w[j] = step[<<w[j - 1], j>>]
    BY <1>12 DEF IsTrace
  <2>2. ASSUME NEW j \in 1..n PROVE w[j] = Exchange(w[j - 1], j)
    <3>1. w[j - 1] \in W /\ w[j] = step[<<w[j - 1], j>>]
      <4>1. j - 1 \in 0..n
        OBVIOUS
      <4> HIDE DEF iter, step
      <4> QED BY <2>1, <4>1
    <3> HIDE DEF iter, index
    <3> QED BY <3>1
  <2> QED BY <2>1, <2>2
<1>14. ExchangesOf(s, n) = iter[S]
  <2>1. DOMAIN index = S /\ index = Upto(n)
    BY DEF Upto
  <2> HIDE DEF S, index
  <2> QED BY <2>1, Zenon DEF ExchangesOf, FoldLeft, MapThenFoldSet
<1> QED BY <1>12, <1>13, <1>14

\* The sort, pass by pass.
LEMMA SortRuns ==
  ASSUME NEW n \in Nat, NEW W, NEW s \in W, Passed(W, n)
  PROVE  \E w \in [0..n -> W] :
            /\ w[0] = s /\ \A j \in 1..n : w[j] = Pass(w[j - 1], j)
            /\ PassesOf(s, n) = w[n]
<1> DEFINE S == 1..n
           step == [v \in W \X S |-> Pass(v[1], v[2])]
           index == Upto(n)
           IsIter(h) == h = [T \in SUBSET S |->
                              IF T = {} THEN s ELSE Pass(h[T \ {Max(T)}], index[Max(T)])]
           iter == CHOOSE h : IsIter(h)
<1>1. Indices(S) /\ \A T \in SUBSET S : T # {} => Max(T) \in S
  BY FirstIndices
<1>2. step \in [W \X S -> W]
  BY DEF Passed
<1>3. \A T \in SUBSET S : T # {} => index[Max(T)] = Max(T)
  BY <1>1 DEF Upto
<1>4. PICK h \in [SUBSET S -> W] :
         \A T \in SUBSET S : h[T] = IF T = {} THEN s ELSE step[<<h[T \ {Max(T)}], Max(T)>>]
  <2>1. FoldsWithin(s, step, S, W)
    <3> HIDE DEF S, step
    <3> QED BY <1>1, <1>2, FoldWithin
  <2> HIDE DEF S, step
  <2> QED BY <2>1 DEF FoldsWithin
<1>5. ASSUME NEW T \in SUBSET S, T # {}, NEW g, g[T \ {Max(T)}] \in W
      PROVE  step[<<g[T \ {Max(T)}], Max(T)>>] = Pass(g[T \ {Max(T)}], index[Max(T)])
  <2> HIDE DEF S
  <2> QED BY <1>1, <1>3, <1>5
<1>6. IsIter(h)
  <2>1. \A T \in SUBSET S : h[T] = IF T = {} THEN s ELSE Pass(h[T \ {Max(T)}], index[Max(T)])
    <3> HIDE DEF S, step, index
    <3> QED BY <1>4, <1>5
  <2> HIDE DEF S, step, index
  <2> QED BY <1>4, <2>1
<1>7. IsIter(iter)
  <2> HIDE DEF IsIter
  <2> QED BY <1>6
<1>8. \A T \in SUBSET S : iter[T] = IF T = {} THEN s ELSE Pass(iter[T \ {Max(T)}], index[Max(T)])
  <2> HIDE DEF S, index, iter
  <2> QED BY <1>7
<1>9. \A T \in SUBSET S : iter[T] \in W
  <2>1. iter[{}] \in W
    <3> HIDE DEF iter, S, index
    <3>1. {} \in SUBSET S
      OBVIOUS
    <3> QED BY <1>8, <3>1
  <2>2. \A T \in SUBSET S : T # {} /\ iter[T \ {Max(T)}] \in W => iter[T] \in W
    <3> HIDE DEF iter, S, index, step
    <3> QED BY <1>1, <1>2, <1>5, <1>8
  <2> HIDE DEF iter, S
  <2> QED BY <1>1, <2>1, <2>2, FoldStays
<1>10. \A T \in SUBSET S : iter[T] = IF T = {} THEN s ELSE step[<<iter[T \ {Max(T)}], Max(T)>>]
  <2> HIDE DEF iter, S, index, step
  <2> QED BY <1>5, <1>8, <1>9
<1>11. iter \in [SUBSET S -> W]
  <2>1. iter = [T \in SUBSET S |-> iter[T]]
    <3> HIDE DEF S, index, iter
    <3> QED BY <1>7
  <2> HIDE DEF iter, S
  <2> QED BY <1>9, <2>1
<1>12. PICK w : IsTrace(w, s, step, n, W) /\ w[n] = iter[1..n]
  <2>1. step \in [W \X (1..n) -> W] /\ iter \in [SUBSET (1..n) -> W]
    BY <1>2, <1>11
  <2>2. \A T \in SUBSET (1..n) : iter[T] = IF T = {} THEN s ELSE step[<<iter[T \ {Max(T)}], Max(T)>>]
    BY <1>10
  <2> HIDE DEF iter, step, S
  <2>3. IsLoop(iter, s, step, n, W)
    BY <2>1, <2>2 DEF IsLoop
  <2> QED BY <2>3, FoldTrace
<1>13. w \in [0..n -> W] /\ w[0] = s /\ \A j \in 1..n : w[j] = Pass(w[j - 1], j)
  <2>1. /\ w \in [0..n -> W] /\ w[0] = s
        /\ \A j \in 1..n : w[j] = step[<<w[j - 1], j>>]
    BY <1>12 DEF IsTrace
  <2>2. ASSUME NEW j \in 1..n PROVE w[j] = Pass(w[j - 1], j)
    <3>1. w[j - 1] \in W /\ w[j] = step[<<w[j - 1], j>>]
      <4>1. j - 1 \in 0..n
        OBVIOUS
      <4> HIDE DEF iter, step
      <4> QED BY <2>1, <4>1
    <3> HIDE DEF iter, index
    <3> QED BY <3>1
  <2> QED BY <2>1, <2>2
<1>14. PassesOf(s, n) = iter[S]
  <2>1. DOMAIN index = S /\ index = Upto(n)
    BY DEF Upto
  <2> HIDE DEF S, index
  <2> QED BY <2>1, Zenon DEF PassesOf, FoldLeft, MapThenFoldSet
<1> QED BY <1>12, <1>13, <1>14

\* Updates of rules, one after the other.
LEMMA UpdatesRun ==
  ASSUME NEW n \in Nat, NEW R, NEW list \in Seq(R), Len(list) = n, NEW W, NEW s \in W, UpdatedBy(W, R)
  PROVE  \E w \in [0..n -> W] :
            /\ w[0] = s /\ \A j \in 1..n : w[j] = Updated(w[j - 1], list[j])
            /\ UpdatesOf(s, list) = w[n]
<1> DEFINE S == 1..n
           step == [v \in W \X S |-> Updated(v[1], list[v[2]])]
           index == list
           IsIter(h) == h = [T \in SUBSET S |->
                              IF T = {} THEN s ELSE Updated(h[T \ {Max(T)}], index[Max(T)])]
           iter == CHOOSE h : IsIter(h)
<1>1. Indices(S) /\ \A T \in SUBSET S : T # {} => Max(T) \in S
  BY FirstIndices
<1>2. step \in [W \X S -> W]
  BY DEF UpdatedBy
<1>3. \A T \in SUBSET S : T # {} => index[Max(T)] \in R
  BY <1>1
<1>4. PICK h \in [SUBSET S -> W] :
         \A T \in SUBSET S : h[T] = IF T = {} THEN s ELSE step[<<h[T \ {Max(T)}], Max(T)>>]
  <2>1. FoldsWithin(s, step, S, W)
    <3> HIDE DEF S, step
    <3> QED BY <1>1, <1>2, FoldWithin
  <2> HIDE DEF S, step
  <2> QED BY <2>1 DEF FoldsWithin
<1>5. ASSUME NEW T \in SUBSET S, T # {}, NEW g, g[T \ {Max(T)}] \in W
      PROVE  step[<<g[T \ {Max(T)}], Max(T)>>] = Updated(g[T \ {Max(T)}], index[Max(T)])
  <2> HIDE DEF S
  <2> QED BY <1>1, <1>3, <1>5
<1>6. IsIter(h)
  <2>1. \A T \in SUBSET S : h[T] = IF T = {} THEN s ELSE Updated(h[T \ {Max(T)}], index[Max(T)])
    <3> HIDE DEF S, step, index
    <3> QED BY <1>4, <1>5
  <2> HIDE DEF S, step, index
  <2> QED BY <1>4, <2>1
<1>7. IsIter(iter)
  <2> HIDE DEF IsIter
  <2> QED BY <1>6
<1>8. \A T \in SUBSET S : iter[T] = IF T = {} THEN s ELSE Updated(iter[T \ {Max(T)}], index[Max(T)])
  <2> HIDE DEF S, index, iter
  <2> QED BY <1>7
<1>9. \A T \in SUBSET S : iter[T] \in W
  <2>1. iter[{}] \in W
    <3> HIDE DEF iter, S, index
    <3>1. {} \in SUBSET S
      OBVIOUS
    <3> QED BY <1>8, <3>1
  <2>2. \A T \in SUBSET S : T # {} /\ iter[T \ {Max(T)}] \in W => iter[T] \in W
    <3> HIDE DEF iter, S, index, step
    <3> QED BY <1>1, <1>2, <1>5, <1>8
  <2> HIDE DEF iter, S
  <2> QED BY <1>1, <2>1, <2>2, FoldStays
<1>10. \A T \in SUBSET S : iter[T] = IF T = {} THEN s ELSE step[<<iter[T \ {Max(T)}], Max(T)>>]
  <2> HIDE DEF iter, S, index, step
  <2> QED BY <1>5, <1>8, <1>9
<1>11. iter \in [SUBSET S -> W]
  <2>1. iter = [T \in SUBSET S |-> iter[T]]
    <3> HIDE DEF S, index, iter
    <3> QED BY <1>7
  <2> HIDE DEF iter, S
  <2> QED BY <1>9, <2>1
<1>12. PICK w : IsTrace(w, s, step, n, W) /\ w[n] = iter[1..n]
  <2>1. step \in [W \X (1..n) -> W] /\ iter \in [SUBSET (1..n) -> W]
    BY <1>2, <1>11
  <2>2. \A T \in SUBSET (1..n) : iter[T] = IF T = {} THEN s ELSE step[<<iter[T \ {Max(T)}], Max(T)>>]
    BY <1>10
  <2> HIDE DEF iter, step, S
  <2>3. IsLoop(iter, s, step, n, W)
    BY <2>1, <2>2 DEF IsLoop
  <2> QED BY <2>3, FoldTrace
<1>13. w \in [0..n -> W] /\ w[0] = s /\ \A j \in 1..n : w[j] = Updated(w[j - 1], list[j])
  <2>1. /\ w \in [0..n -> W] /\ w[0] = s
        /\ \A j \in 1..n : w[j] = step[<<w[j - 1], j>>]
    BY <1>12 DEF IsTrace
  <2>2. ASSUME NEW j \in 1..n PROVE w[j] = Updated(w[j - 1], list[j])
    <3>1. w[j - 1] \in W /\ w[j] = step[<<w[j - 1], j>>]
      <4>1. j - 1 \in 0..n
        OBVIOUS
      <4> HIDE DEF iter, step
      <4> QED BY <2>1, <4>1
    <3> HIDE DEF iter, index
    <3> QED BY <3>1
  <2> QED BY <2>1, <2>2
<1>14. UpdatesOf(s, list) = iter[S]
  <2>1. DOMAIN index = S /\ index = list
    BY DEF Upto
  <2> HIDE DEF S, index
  <2> QED BY <2>1, Zenon DEF UpdatesOf, FoldLeft, MapThenFoldSet
<1> QED BY <1>12, <1>13, <1>14

\* The collecting of rules, one after the other.
LEMMA CollectingRuns ==
  ASSUME NEW n \in Nat, NEW R, NEW list \in Seq(R), Len(list) = n, NEW W, <<>> \in W, NEW from, NEW to,
         CollectedFrom(W, R, from, to)
  PROVE  \E w \in [0..n -> W] :
            /\ w[0] = <<>> /\ \A j \in 1..n : w[j] = Collected(w[j - 1], list[j], from, to)
            /\ CollectionOf(list, from, to) = w[n]
<1> DEFINE S == 1..n
           step == [v \in W \X S |-> Collected(v[1], list[v[2]], from, to)]
           index == list
           IsIter(h) == h = [T \in SUBSET S |->
                              IF T = {} THEN <<>> ELSE Collected(h[T \ {Max(T)}], index[Max(T)], from, to)]
           iter == CHOOSE h : IsIter(h)
<1>1. Indices(S) /\ \A T \in SUBSET S : T # {} => Max(T) \in S
  BY FirstIndices
<1>2. step \in [W \X S -> W]
  BY DEF CollectedFrom
<1>3. \A T \in SUBSET S : T # {} => index[Max(T)] \in R
  BY <1>1
<1>4. PICK h \in [SUBSET S -> W] :
         \A T \in SUBSET S : h[T] = IF T = {} THEN <<>> ELSE step[<<h[T \ {Max(T)}], Max(T)>>]
  <2>1. FoldsWithin(<<>>, step, S, W)
    <3> HIDE DEF S, step
    <3> QED BY <1>1, <1>2, FoldWithin
  <2> HIDE DEF S, step
  <2> QED BY <2>1 DEF FoldsWithin
<1>5. ASSUME NEW T \in SUBSET S, T # {}, NEW g, g[T \ {Max(T)}] \in W
      PROVE  step[<<g[T \ {Max(T)}], Max(T)>>] = Collected(g[T \ {Max(T)}], index[Max(T)], from, to)
  <2> HIDE DEF S
  <2> QED BY <1>1, <1>3, <1>5
<1>6. IsIter(h)
  <2>1. \A T \in SUBSET S : h[T] = IF T = {} THEN <<>> ELSE Collected(h[T \ {Max(T)}], index[Max(T)], from, to)
    <3> HIDE DEF S, step, index
    <3> QED BY <1>4, <1>5
  <2> HIDE DEF S, step, index
  <2> QED BY <1>4, <2>1
<1>7. IsIter(iter)
  <2> HIDE DEF IsIter
  <2> QED BY <1>6
<1>8. \A T \in SUBSET S : iter[T] = IF T = {} THEN <<>> ELSE Collected(iter[T \ {Max(T)}], index[Max(T)], from, to)
  <2> HIDE DEF S, index, iter
  <2> QED BY <1>7
<1>9. \A T \in SUBSET S : iter[T] \in W
  <2>1. iter[{}] \in W
    <3> HIDE DEF iter, S, index
    <3>1. {} \in SUBSET S
      OBVIOUS
    <3> QED BY <1>8, <3>1
  <2>2. \A T \in SUBSET S : T # {} /\ iter[T \ {Max(T)}] \in W => iter[T] \in W
    <3> HIDE DEF iter, S, index, step
    <3> QED BY <1>1, <1>2, <1>5, <1>8
  <2> HIDE DEF iter, S
  <2> QED BY <1>1, <2>1, <2>2, FoldStays
<1>10. \A T \in SUBSET S : iter[T] = IF T = {} THEN <<>> ELSE step[<<iter[T \ {Max(T)}], Max(T)>>]
  <2> HIDE DEF iter, S, index, step
  <2> QED BY <1>5, <1>8, <1>9
<1>11. iter \in [SUBSET S -> W]
  <2>1. iter = [T \in SUBSET S |-> iter[T]]
    <3> HIDE DEF S, index, iter
    <3> QED BY <1>7
  <2> HIDE DEF iter, S
  <2> QED BY <1>9, <2>1
<1>12. PICK w : IsTrace(w, <<>>, step, n, W) /\ w[n] = iter[1..n]
  <2>1. step \in [W \X (1..n) -> W] /\ iter \in [SUBSET (1..n) -> W]
    BY <1>2, <1>11
  <2>2. \A T \in SUBSET (1..n) : iter[T] = IF T = {} THEN <<>> ELSE step[<<iter[T \ {Max(T)}], Max(T)>>]
    BY <1>10
  <2> HIDE DEF iter, step, S
  <2>3. IsLoop(iter, <<>>, step, n, W)
    BY <2>1, <2>2 DEF IsLoop
  <2> QED BY <2>3, FoldTrace
<1>13. w \in [0..n -> W] /\ w[0] = <<>> /\ \A j \in 1..n : w[j] = Collected(w[j - 1], list[j], from, to)
  <2>1. /\ w \in [0..n -> W] /\ w[0] = <<>>
        /\ \A j \in 1..n : w[j] = step[<<w[j - 1], j>>]
    BY <1>12 DEF IsTrace
  <2>2. ASSUME NEW j \in 1..n PROVE w[j] = Collected(w[j - 1], list[j], from, to)
    <3>1. w[j - 1] \in W /\ w[j] = step[<<w[j - 1], j>>]
      <4>1. j - 1 \in 0..n
        OBVIOUS
      <4> HIDE DEF iter, step
      <4> QED BY <2>1, <4>1
    <3> HIDE DEF iter, index
    <3> QED BY <3>1
  <2> QED BY <2>1, <2>2
<1>14. CollectionOf(list, from, to) = iter[S]
  <2>1. DOMAIN index = S /\ index = list
    BY DEF Upto
  <2> HIDE DEF S, index
  <2> QED BY <2>1, Zenon DEF CollectionOf, Collected, FoldLeft, MapThenFoldSet
<1> QED BY <1>12, <1>13, <1>14

-----------------------------------------------------------------------------

\* The rules there can be: the admin's and the seeded ones.
Ruled == RuleTerms \union {SeededRules[1], SeededRules[2], SeededRules[3]}
RuleLists(n) == {s \in Seq(Ruled) : Len(s) = n}

\* The rule r, at m, precedes every other of s.
Leads(s, r, m) ==
  /\ m \in 1..Len(s) /\ s[m] = r
  /\ \A k \in 1..Len(s) : k < m => s[k].priority > r.priority
  /\ \A k \in 1..Len(s) : k > m => s[k].priority >= r.priority

\* The priority of a rule is a natural.
LEMMA Priorities == \A rule \in Ruled : rule.priority \in Nat
BY RegistryAssumption DEF Ruled, SeededRules, SeededRule

\* The rules that are seeded are rules.
LEMMA SeededRuled == SeededRules \in Seq(Ruled)
<1> DEFINE s == SeededRules
<1>1. s[1] \in Ruled /\ s[2] \in Ruled /\ s[3] \in Ruled
  BY DEF Ruled
<1>2. s = <<s[1], s[2], s[3]>>
  BY DEF SeededRules
<1> HIDE DEF s
<1>3. <<s[1], s[2], s[3]>> \in Seq(Ruled)
  BY <1>1
<1> QED BY <1>2, <1>3 DEF s

\* A sequence with two neighbours exchanged.
Swap(s, j) == [s EXCEPT ![j] = s[j + 1], ![j + 1] = s[j]]

\* An exchange moves two neighbours and no others.
LEMMA Swapped ==
  ASSUME NEW n \in Nat, NEW s \in RuleLists(n), NEW j \in 1..(n - 1)
  PROVE  /\ Swap(s, j) \in RuleLists(n) /\ Swap(s, j)[j] = s[j + 1] /\ Swap(s, j)[j + 1] = s[j]
         /\ \A k \in 1..n : k # j /\ k # j + 1 => Swap(s, j)[k] = s[k]
<1>1. s \in Seq(Ruled) /\ Len(s) = n /\ s \in [1..n -> Ruled] /\ j \in 1..n /\ j + 1 \in 1..n
  BY DEF RuleLists
<1> DEFINE a == [s EXCEPT ![j] = s[j + 1]]
           t == [a EXCEPT ![j + 1] = s[j]]
<1>2. a \in Seq(Ruled) /\ Len(a) = n /\ a \in [1..n -> Ruled] /\ a[j] = s[j + 1]
      /\ \A k \in 1..n : k # j => a[k] = s[k]
  BY <1>1
<1> HIDE DEF a
<1>3. t \in Seq(Ruled) /\ Len(t) = n /\ t[j + 1] = s[j] /\ \A k \in 1..n : k # j + 1 => t[k] = a[k]
  BY <1>1, <1>2
<1>4. t = Swap(s, j)
  BY DEF Swap, a
<1> HIDE DEF t
<1> QED BY <1>1, <1>2, <1>3, <1>4 DEF RuleLists

\* A comparison of neighbours takes the leading rule forward if it is the later
\* of the two, and leaves it alone otherwise.
LEMMA ExchangeMoves ==
  ASSUME NEW n \in Nat, NEW s \in RuleLists(n), NEW j \in 1..(n - 1)
  PROVE  /\ Exchange(s, j) \in RuleLists(n)
         /\ \A r, m : Leads(s, r, m) => Leads(Exchange(s, j), r, IF j + 1 = m THEN j ELSE m)
<1>1. s \in Seq(Ruled) /\ Len(s) = n /\ j \in 1..n /\ j + 1 \in 1..n /\ j \in Int
      /\ \A k \in 1..n : s[k].priority \in Int
  BY Priorities DEF RuleLists
<1>2. CASE s[j].priority > s[j + 1].priority
  <2> DEFINE t == Exchange(s, j)
  <2>1. /\ t \in RuleLists(n) /\ t[j] = s[j + 1] /\ t[j + 1] = s[j]
        /\ \A k \in 1..n : k # j /\ k # j + 1 => t[k] = s[k]
    <3>1. t = Swap(s, j)
      BY <1>2 DEF Exchange, Swap
    <3> HIDE DEF t
    <3> QED BY <3>1, Swapped
  <2>2. Len(t) = n
    BY <2>1 DEF RuleLists
  <2> HIDE DEF t
  <2>3. ASSUME NEW r, NEW m, Leads(s, r, m) PROVE Leads(t, r, IF j + 1 = m THEN j ELSE m)
    <3>1. /\ m \in 1..n /\ s[m] = r /\ r.priority \in Int
          /\ \A k \in 1..n : k < m => s[k].priority > r.priority
          /\ \A k \in 1..n : k > m => s[k].priority >= r.priority
      BY <1>1, <2>3 DEF Leads
    <3>2. m # j
      BY <1>1, <1>2, <3>1
    <3>3. CASE j + 1 = m
      BY <1>1, <1>2, <2>1, <2>2, <3>1, <3>3 DEF Leads
    <3>4. CASE j + 1 # m
      BY <1>1, <1>2, <2>1, <2>2, <3>1, <3>2, <3>4 DEF Leads
    <3> QED BY <3>3, <3>4
  <2> QED BY <2>1, <2>3 DEF t
<1>3. CASE ~(s[j].priority > s[j + 1].priority)
  <2>1. Exchange(s, j) = s
    BY <1>3 DEF Exchange
  <2>2. \A r, m : Leads(s, r, m) => j + 1 # m
    BY <1>1, <1>3 DEF Leads
  <2> QED BY <2>1, <2>2
<1> QED BY <1>2, <1>3

\* A pass takes the leading rule one place forward if it gets as far.
LEMMA PassMoves ==
  ASSUME NEW n \in Nat, NEW s \in RuleLists(n), NEW i \in 1..n
  PROVE  /\ Pass(s, i) \in RuleLists(n)
         /\ \A r, m : Leads(s, r, m) => Leads(Pass(s, i), r, IF m >= 2 /\ n - i >= m - 1 THEN m - 1 ELSE m)
<1> DEFINE l == n - i
<1>1. l \in Nat /\ 1..l \subseteq 1..(n - 1) /\ Len(s) = n
  BY DEF RuleLists
<1>2. Exchanged(RuleLists(n), l)
  BY <1>1, ExchangeMoves DEF Exchanged
<1>3. Pass(s, i) = ExchangesOf(s, l)
  BY <1>1, Zenon DEF Pass, ExchangesOf
<1>4. PICK w \in [0..l -> RuleLists(n)] :
         /\ w[0] = s /\ \A j \in 1..l : w[j] = Exchange(w[j - 1], j)
         /\ ExchangesOf(s, l) = w[l]
  <2> HIDE DEF l
  <2> QED BY <1>1, <1>2, PassRuns
<1> HIDE DEF l
<1>5. Pass(s, i) \in RuleLists(n)
  BY <1>1, <1>3, <1>4
<1>6. ASSUME NEW r, NEW m, Leads(s, r, m)
      PROVE  Leads(Pass(s, i), r, IF m >= 2 /\ l >= m - 1 THEN m - 1 ELSE m)
  <2> DEFINE placed(j) == IF m >= 2 /\ j >= m - 1 THEN m - 1 ELSE m
             G == {j \in 0..l : Leads(w[j], r, placed(j))}
  <2>1. m \in 1..n
    BY <1>1, <1>6 DEF Leads
  <2>2. 0 \in G
    BY <1>1, <1>4, <1>6, <2>1
  <2>3. ASSUME NEW j \in 1..l, j - 1 \in G PROVE j \in G
    <3>1. j - 1 \in 0..l /\ j \in 1..(n - 1) /\ w[j - 1] \in RuleLists(n) /\ w[j] = Exchange(w[j - 1], j)
      BY <1>1, <1>4
    <3>2. Leads(w[j - 1], r, placed(j - 1))
      BY <2>3
    <3>3. Leads(w[j], r, IF j + 1 = placed(j - 1) THEN j ELSE placed(j - 1))
      <4> HIDE DEF placed
      <4> QED BY <3>1, <3>2, ExchangeMoves
    <3>4. (IF j + 1 = placed(j - 1) THEN j ELSE placed(j - 1)) = placed(j)
      BY <2>1, <3>1
    <3> HIDE DEF placed
    <3> QED BY <3>3, <3>4
  <2>4. G = 0..l
    <3>1. G \in SUBSET (0..l)
      OBVIOUS
    <3> HIDE DEF G
    <3> QED BY <1>1, <2>2, <2>3, <3>1, UpTo
  <2>5. Leads(w[l], r, placed(l))
    BY <1>1, <2>4
  <2> QED BY <1>3, <1>4, <2>5
<1> QED BY <1>5, <1>6 DEF l

\* The sort puts the leading rule first.
LEMMA SortMoves ==
  ASSUME NEW n \in Nat, NEW s \in RuleLists(n)
  PROVE  /\ ByPriority(s) \in RuleLists(n)
         /\ \A r, m : Leads(s, r, m) => ByPriority(s)[1] = r
<1>1. Len(s) = n /\ ByPriority(s) = PassesOf(s, n)
  <2>1. Len(s) = n
    BY DEF RuleLists
  <2> QED BY <2>1, Zenon DEF ByPriority, PassesOf
<1>2. Passed(RuleLists(n), n)
  BY PassMoves DEF Passed
<1>3. PICK w \in [0..n -> RuleLists(n)] :
         /\ w[0] = s /\ \A i \in 1..n : w[i] = Pass(w[i - 1], i)
         /\ PassesOf(s, n) = w[n]
  BY <1>2, SortRuns
<1>4. ASSUME NEW r, NEW m, Leads(s, r, m)
      PROVE  ByPriority(s)[1] = r
  <2> DEFINE Ahead(i) == \E q \in 1..n : Leads(w[i], r, q) /\ (q = 1 \/ q <= n - i)
             G == {i \in 0..n : Ahead(i)}
  <2>1. 0 \in G
    <3>1. m \in 1..n
      BY <1>1, <1>4 DEF Leads
    <3> QED BY <1>3, <1>4, <3>1
  <2>2. ASSUME NEW i \in 1..n, i - 1 \in G PROVE i \in G
    <3>1. w[i - 1] \in RuleLists(n) /\ w[i] = Pass(w[i - 1], i)
      BY <1>3
    <3>2. PICK q \in 1..n : Leads(w[i - 1], r, q) /\ (q = 1 \/ q <= n - (i - 1))
      BY <2>2
    <3> DEFINE p == IF q >= 2 /\ n - i >= q - 1 THEN q - 1 ELSE q
    <3>3. Leads(w[i], r, p)
      BY <3>1, <3>2, PassMoves
    <3>4. p \in 1..n /\ (p = 1 \/ p <= n - i)
      BY <3>2
    <3> HIDE DEF p
    <3> QED BY <3>3, <3>4
  <2>3. G = 0..n
    <3>1. G \in SUBSET (0..n)
      OBVIOUS
    <3> HIDE DEF G
    <3> QED BY <2>1, <2>2, <3>1, UpTo
  <2>4. Leads(w[n], r, 1)
    BY <2>3
  <2> QED BY <1>1, <1>3, <2>4 DEF Leads
<1> QED BY <1>1, <1>3, <1>4

\* A non-empty sequence of rules has one that leads.
LEMMA SomeLeads ==
  ASSUME NEW n \in Nat \ {0}, NEW s \in RuleLists(n)
  PROVE  \E m \in 1..n : Leads(s, s[m], m)
<1>1. s \in [1..n -> Ruled] /\ Len(s) = n /\ \A k \in 1..n : s[k].priority \in Nat
  BY Priorities DEF RuleLists
<1> DEFINE P == {s[k].priority : k \in 1..n}
<1>2. P \in SUBSET Nat /\ P # {}
  BY <1>1
<1>3. PICK p \in P : \A x \in P : p <= x
  <2> HIDE DEF P
  <2> QED BY <1>2, LeastNatural
<1> DEFINE K == {k \in 1..n : s[k].priority = p}
<1>4. K \in SUBSET Nat /\ K # {}
  BY <1>3
<1>5. PICK m \in K : \A k \in K : m <= k
  <2> HIDE DEF K
  <2> QED BY <1>4, LeastNatural
<1>6. m \in 1..n /\ s[m].priority = p /\ \A k \in 1..n : s[k].priority >= p /\ (k < m => s[k].priority # p)
  <2>1. \A k \in 1..n : s[k].priority \in P
    OBVIOUS
  <2> QED BY <1>1, <1>2, <1>3, <1>5, <2>1
<1> QED BY <1>1, <1>2, <1>6 DEF Leads

\* The rules that apply are rules.
LEMMA ApplicableRuled ==
  ASSUME compliance_rules \in Seq(Ruled)
  PROVE  \A from, to : Applicable(from, to) \in Seq(Ruled)
<1> SUFFICES ASSUME NEW from, NEW to PROVE Applicable(from, to) \in Seq(Ruled)
  OBVIOUS
<1>1. \A v \in Seq(Ruled), rule \in Ruled : Collected(v, rule, from, to) \in Seq(Ruled)
  BY DEF Collected
<1>2. Len(compliance_rules) \in Nat /\ <<>> \in Seq(Ruled)
  OBVIOUS
<1> DEFINE n == Len(compliance_rules)
           W == Seq(Ruled)
<1>3. PICK w \in [0..n -> W] : Applicable(from, to) = w[n]
  <2>1. n \in Nat /\ <<>> \in W /\ CollectedFrom(W, Ruled, from, to)
    BY <1>1, <1>2 DEF CollectedFrom
  <2>2. n = Len(compliance_rules)
    OBVIOUS
  <2> HIDE DEF n, W
  <2>3. Applicable(from, to) = CollectionOf(compliance_rules, from, to)
    BY Zenon DEF Applicable, CollectionOf
  <2> QED BY <2>1, <2>2, <2>3, CollectingRuns
<1> QED BY <1>2, <1>3

\* Updated rules are rules.
LEMMA UpdatedRuled ==
  ASSUME NEW rules \in Seq(Ruled), NEW rule \in Ruled
  PROVE  Updated(rules, rule) \in Seq(Ruled)
BY DEF Updated

\* What the admin set up, and what he changes, are rules.
LEMMA RulesRuled == RegistrySpec => [](compliance_rules \in Seq(Ruled))
<1>1. RegistryInit => compliance_rules \in Seq(Ruled)
  <2> SUFFICES ASSUME RegistryInit PROVE compliance_rules \in Seq(Ruled)
    OBVIOUS
  <2>1. PICK updates \in SetUps : compliance_rules = UpdatesOf(SeededRules, updates)
    BY Zenon DEF RegistryInit, UpdatesOf
  <2>2. updates \in Seq(RuleTerms) /\ Len(updates) \in Nat
    BY RegistryAssumption
  <2> DEFINE n == Len(updates)
             W == Seq(Ruled)
  <2>3. n \in Nat /\ SeededRules \in W /\ UpdatedBy(W, RuleTerms)
    BY <2>2, SeededRuled, UpdatedRuled DEF Ruled, UpdatedBy
  <2>4. n = Len(updates)
    OBVIOUS
  <2>5. PICK w \in [0..n -> W] : UpdatesOf(SeededRules, updates) = w[n]
    <3> HIDE DEF n, W
    <3> QED BY <2>2, <2>3, <2>4, UpdatesRun
  <2> QED BY <2>1, <2>3, <2>5
<1>2. compliance_rules \in Seq(Ruled) /\ [RegistryNext]_registryVars => (compliance_rules \in Seq(Ruled))'
  <2> SUFFICES ASSUME compliance_rules \in Seq(Ruled), [RegistryNext]_registryVars
               PROVE  (compliance_rules \in Seq(Ruled))'
    OBVIOUS
  <2>1. ASSUME NEW rule \in RuleTerms, UpdateComplianceRule(rule) PROVE (compliance_rules \in Seq(Ruled))'
    BY <2>1, UpdatedRuled DEF UpdateComplianceRule, Ruled
  <2>2. CASE UNCHANGED compliance_rules
    BY <2>2
  <2> QED BY <2>1, <2>2 DEF RegistryNext, registryVars, records, CheckCompliance, CheckOutboundParticipant,
        CheckTransferLimits, UpdateKycStatus, SetBlacklist, SetWhitelist, SetTransferLimits,
        SetRiskThresholds, RegistryTick
<1> QED BY <1>1, <1>2, PTL DEF RegistrySpec

\* Of the rules that apply, the leading one decides.
LEMMA LeadingDecides == compliance_rules \in Seq(Ruled) => HighestPriorityDecides
<1> SUFFICES ASSUME compliance_rules \in Seq(Ruled), NEW from \in User, NEW to \in User, NEW amount \in Amounts
             PROVE  LET rules == Applicable(from, to)
                        Precedes(k, l) == \/ rules[k].priority < rules[l].priority
                                          \/ rules[k].priority = rules[l].priority /\ k <= l
                    IN  EvaluateRules(from, to, amount) =
                          \A k \in DOMAIN rules :
                            (\A l \in DOMAIN rules : Precedes(k, l)) => PassesRule(rules[k], from, to, amount)
  BY DEF HighestPriorityDecides
<1> DEFINE rules == Applicable(from, to)
           n == Len(rules)
           sorted == ByPriority(rules)
           Precedes(k, l) == \/ rules[k].priority < rules[l].priority
                             \/ rules[k].priority = rules[l].priority /\ k <= l
           Passes(rule) == PassesRule(rule, from, to, amount)
<1>1. rules \in Seq(Ruled) /\ n \in Nat /\ rules \in RuleLists(n) /\ DOMAIN rules = 1..n
      /\ \A k \in 1..n : rules[k].priority \in Nat
  BY ApplicableRuled, Priorities DEF RuleLists
<1> HIDE DEF rules, n, sorted, Passes
<1>3. /\ sorted \in RuleLists(n)
      /\ \A r, m : Leads(rules, r, m) => sorted[1] = r
  BY <1>1, SortMoves DEF sorted
<1>4. ASSUME n = 0
      PROVE  (sorted = <<>> \/ Passes(sorted[1])) <=>
               \A k \in DOMAIN rules : (\A l \in DOMAIN rules : Precedes(k, l)) => Passes(rules[k])
  <2>1. sorted = <<>>
    BY <1>3, <1>4 DEF RuleLists
  <2> QED BY <1>1, <1>4, <2>1
<1>5. ASSUME n # 0
      PROVE  (sorted = <<>> \/ Passes(sorted[1])) <=>
               \A k \in DOMAIN rules : (\A l \in DOMAIN rules : Precedes(k, l)) => Passes(rules[k])
  <2>1. PICK m \in 1..n : Leads(rules, rules[m], m)
    BY <1>1, <1>5, SomeLeads
  <2>2. sorted # <<>> /\ sorted[1] = rules[m]
    BY <1>3, <1>5, <2>1 DEF RuleLists
  <2>3. \A k \in 1..n : (\A l \in 1..n : Precedes(k, l)) <=> k = m
    BY <1>1, <2>1 DEF Leads, n
  <2>4. (\A k \in DOMAIN rules : (\A l \in DOMAIN rules : Precedes(k, l)) => Passes(rules[k])) <=> Passes(rules[m])
    <3> HIDE DEF Precedes
    <3> QED BY <1>1, <2>3
  <2> QED BY <2>2, <2>4
<1>6. (sorted = <<>> \/ Passes(sorted[1])) <=>
        \A k \in DOMAIN rules : (\A l \in DOMAIN rules : Precedes(k, l)) => Passes(rules[k])
  BY <1>4, <1>5
<1>7. (sorted = <<>> \/ Passes(sorted[1])) =
        \A k \in DOMAIN rules : (\A l \in DOMAIN rules : Precedes(k, l)) => Passes(rules[k])
  BY <1>6
<1> QED BY <1>7 DEF EvaluateRules, sorted, rules, Passes

\* Of the rules that apply, the one of the highest priority always decides, the
\* first listed of several such: evaluate_rules_internal's sort is stable and
\* takes the leading rule all the way to the front.
THEOREM HighestPriorityAlwaysDecides == RegistrySpec => []HighestPriorityDecides
<1>1. RegistrySpec => [](compliance_rules \in Seq(Ruled))
  BY RulesRuled
<1>2. compliance_rules \in Seq(Ruled) => HighestPriorityDecides
  BY LeadingDecides
<1> QED BY <1>1, <1>2, PTL

-----------------------------------------------------------------------------
(* The order book.                                                         *)

\* The search as a function of where it looks, right being the levels to the right of
\* which p belongs.
SearchIn(right, n, h, r) ==
  LET mid == r[1] + (r[2] - r[1]) \div 2
  IN  IF r[1] >= r[2] THEN r[1]
      ELSE IF mid + 1 \in right THEN h[<<mid + 1, r[2]>>] ELSE h[<<r[1], mid>>]

Ranges(n) == (0..n) \X (0..n)

\* The middle of a range is in it, and both halves are ranges.
LEMMA HalvesRange ==
  ASSUME NEW n \in Nat, NEW r \in Ranges(n), r[1] < r[2]
  PROVE  LET mid == r[1] + (r[2] - r[1]) \div 2
         IN  /\ mid \in Int /\ r[1] <= mid /\ mid < r[2]
             /\ <<mid + 1, r[2]>> \in Ranges(n) /\ <<r[1], mid>> \in Ranges(n)
<1> DEFINE mid == r[1] + (r[2] - r[1]) \div 2
<1>1. r[1] \in 0..n /\ r[2] \in 0..n
  BY DEF Ranges
<1>2. mid \in Int /\ r[1] <= mid /\ mid < r[2]
  BY <1>1
<1> HIDE DEF mid
<1>3. <<mid + 1, r[2]>> \in Ranges(n) /\ <<r[1], mid>> \in Ranges(n)
  BY <1>1, <1>2 DEF Ranges
<1> QED BY <1>2, <1>3 DEF mid

\* There is such a search: what it answers of a range, it answers from shorter ones.
LEMMA SearchExists ==
  ASSUME NEW n \in Nat, NEW right
  PROVE  \E h \in [Ranges(n) -> 0..n] : \A r \in Ranges(n) : h[r] = SearchIn(right, n, h, r)
<1> DEFINE Upto1(d) == \E h \in [Ranges(n) -> 0..n] :
                         \A r \in Ranges(n) : r[2] - r[1] <= d => h[r] = SearchIn(right, n, h, r)
           G == {d \in 0..n : Upto1(d)}
<1>1. 0 \in G
  <2> DEFINE h == [r \in Ranges(n) |-> r[1]]
  <2>1. h \in [Ranges(n) -> 0..n]
    BY DEF Ranges
  <2>2. ASSUME NEW r \in Ranges(n), r[2] - r[1] <= 0 PROVE h[r] = SearchIn(right, n, h, r)
    <3>1. r[1] >= r[2] /\ h[r] = r[1]
      BY <2>2 DEF Ranges
    <3> HIDE DEF h
    <3> QED BY <3>1 DEF SearchIn
  <2> HIDE DEF h
  <2> QED BY <2>1, <2>2
<1>2. ASSUME NEW d \in 1..n, d - 1 \in G PROVE d \in G
  <2>1. PICK h \in [Ranges(n) -> 0..n] :
           \A r \in Ranges(n) : r[2] - r[1] <= d - 1 => h[r] = SearchIn(right, n, h, r)
    BY <1>2
  <2> DEFINE g == [r \in Ranges(n) |-> IF r[2] - r[1] <= d - 1 THEN h[r] ELSE SearchIn(right, n, h, r)]
  <2>2. ASSUME NEW r \in Ranges(n) PROVE SearchIn(right, n, h, r) \in 0..n
    <3>1. CASE r[1] >= r[2]
      BY <3>1 DEF SearchIn, Ranges
    <3>2. CASE ~(r[1] >= r[2])
      <4>1. r[1] < r[2]
        BY <3>2 DEF Ranges
      <4> DEFINE mid == r[1] + (r[2] - r[1]) \div 2
      <4>2. <<mid + 1, r[2]>> \in Ranges(n) /\ <<r[1], mid>> \in Ranges(n)
        BY <4>1, HalvesRange
      <4>3. SearchIn(right, n, h, r) = IF mid + 1 \in right THEN h[<<mid + 1, r[2]>>] ELSE h[<<r[1], mid>>]
        BY <3>2 DEF SearchIn
      <4> HIDE DEF mid
      <4> QED BY <4>2, <4>3
    <3> QED BY <3>1, <3>2
  <2>3. g \in [Ranges(n) -> 0..n]
    BY <2>2
  <2>4. ASSUME NEW r \in Ranges(n), r[2] - r[1] <= d PROVE g[r] = SearchIn(right, n, g, r)
    <3>1. g[r] = SearchIn(right, n, h, r)
      <4>1. g[r] = IF r[2] - r[1] <= d - 1 THEN h[r] ELSE SearchIn(right, n, h, r)
        OBVIOUS
      <4> HIDE DEF g
      <4> QED BY <4>1, <2>1
    <3>2. SearchIn(right, n, g, r) = SearchIn(right, n, h, r)
      <4>1. CASE r[1] >= r[2]
        BY <4>1 DEF SearchIn
      <4>2. CASE ~(r[1] >= r[2])
        <5> DEFINE mid == r[1] + (r[2] - r[1]) \div 2
        <5>1. r[1] \in 0..n /\ r[2] \in 0..n /\ r[1] < r[2]
          BY <4>2 DEF Ranges
        <5>2. /\ <<mid + 1, r[2]>> \in Ranges(n) /\ <<r[1], mid>> \in Ranges(n)
              /\ mid \in Int /\ r[1] <= mid /\ mid < r[2]
          BY <5>1, HalvesRange
        <5>3. /\ SearchIn(right, n, h, r) = IF mid + 1 \in right THEN h[<<mid + 1, r[2]>>] ELSE h[<<r[1], mid>>]
              /\ SearchIn(right, n, g, r) = IF mid + 1 \in right THEN g[<<mid + 1, r[2]>>] ELSE g[<<r[1], mid>>]
          BY <4>2 DEF SearchIn
        <5> HIDE DEF mid
        <5>4. r[2] - (mid + 1) <= d - 1 /\ mid - r[1] <= d - 1
          BY <2>4, <5>1, <5>2
        <5>5. g[<<mid + 1, r[2]>>] = h[<<mid + 1, r[2]>>] /\ g[<<r[1], mid>>] = h[<<r[1], mid>>]
          BY <5>2, <5>4
        <5> QED BY <5>3, <5>5
      <4> QED BY <4>1, <4>2
    <3> QED BY <3>1, <3>2
  <2> HIDE DEF g
  <2> QED BY <2>3, <2>4
<1>3. G = 0..n
  <2>1. G \in SUBSET (0..n)
    OBVIOUS
  <2> HIDE DEF G
  <2> QED BY <1>1, <1>2, <2>1, UpTo
<1>4. PICK h \in [Ranges(n) -> 0..n] :
         \A r \in Ranges(n) : r[2] - r[1] <= n => h[r] = SearchIn(right, n, h, r)
  <2>1. n \in G
    <3> HIDE DEF G
    <3> QED BY <1>3
  <2> QED BY <2>1
<1>5. \A r \in Ranges(n) : r[2] - r[1] <= n
  BY DEF Ranges
<1> QED BY <1>4, <1>5

\* Where right ends, if it is the levels up to some level.
Splits(right, lo, hi, i) ==
  /\ i \in Int /\ lo <= i /\ i <= hi
  /\ \A k \in Int : lo < k /\ k <= i => k \in right
  /\ \A k \in Int : i < k /\ k <= hi => k \notin right

\* A binary search among places of which those to the right of a border go right finds
\* the border.
LEMMA SearchSplits ==
  ASSUME NEW n \in Nat, NEW right \in SUBSET (1..n), \A k \in right : \A l \in 1..k : l \in right,
         NEW h, \A r \in Ranges(n) : h[r] = SearchIn(right, n, h, r)
  PROVE  Splits(right, 0, n, h[<<0, n>>])
<1> DEFINE Right(d) == \A r \in Ranges(n) : r[1] <= r[2] /\ r[2] - r[1] <= d => Splits(right, r[1], r[2], h[r])
           G == {d \in 0..n : Right(d)}
<1>1. 0 \in G
  <2>1. ASSUME NEW r \in Ranges(n), r[1] <= r[2], r[2] - r[1] <= 0 PROVE Splits(right, r[1], r[2], h[r])
    <3>1. r[1] \in Int /\ r[2] = r[1] /\ r[1] >= r[2] /\ h[r] = SearchIn(right, n, h, r)
      BY <2>1 DEF Ranges
    <3>2. h[r] = r[1]
      BY <3>1 DEF SearchIn
    <3> QED BY <3>1, <3>2 DEF Splits
  <2> QED BY <2>1
<1>2. ASSUME NEW d \in 1..n, d - 1 \in G PROVE d \in G
  <2>1. ASSUME NEW r \in Ranges(n), r[1] <= r[2], r[2] - r[1] <= d PROVE Splits(right, r[1], r[2], h[r])
    <3>0. r[1] \in 0..n /\ r[2] \in 0..n
      BY DEF Ranges
    <3>1. CASE r[1] >= r[2]
      <4>1. h[r] = SearchIn(right, n, h, r) /\ r[2] = r[1]
        BY <2>1, <3>0, <3>1
      <4>2. h[r] = r[1]
        BY <3>1, <4>1 DEF SearchIn
      <4> QED BY <3>0, <4>1, <4>2 DEF Splits
    <3>2. CASE ~(r[1] >= r[2])
      <4> DEFINE mid == r[1] + (r[2] - r[1]) \div 2
                 right1 == <<mid + 1, r[2]>>
                 left == <<r[1], mid>>
      <4>1. r[1] < r[2]
        BY <3>0, <3>2
      <4>2. /\ right1 \in Ranges(n) /\ left \in Ranges(n)
            /\ mid \in Int /\ r[1] <= mid /\ mid < r[2]
        BY <4>1, HalvesRange
      <4>3. h[r] = IF mid + 1 \in right THEN h[right1] ELSE h[left]
        BY <3>2 DEF SearchIn
      <4>4. right1[1] = mid + 1 /\ right1[2] = r[2] /\ left[1] = r[1] /\ left[2] = mid
        OBVIOUS
      <4> HIDE DEF mid, right1, left
      <4>5. /\ r[2] - (mid + 1) <= d - 1 /\ mid - r[1] <= d - 1
            /\ mid + 1 <= r[2] /\ r[1] <= mid
        BY <2>1, <3>0, <4>2
      <4>6. Splits(right, mid + 1, r[2], h[right1]) /\ Splits(right, r[1], mid, h[left])
        BY <1>2, <4>2, <4>4, <4>5
      <4>7. CASE mid + 1 \in right
        <5>1. ASSUME NEW k \in Int, r[1] < k, k <= mid + 1 PROVE k \in right
          <6>1. k \in 1..(mid + 1)
            BY <3>0, <4>2, <5>1
          <6> QED BY <4>7, <6>1
        <5> QED BY <3>0, <4>2, <4>3, <4>6, <4>7, <5>1 DEF Splits
      <4>8. CASE mid + 1 \notin right
        <5>1. \A k \in Int : mid < k /\ k <= r[2] => k \notin right
          <6> SUFFICES ASSUME NEW k \in Int, mid < k, k \in right PROVE FALSE
            OBVIOUS
          <6>1. mid + 1 \in 1..k
            BY <3>0, <4>2
          <6> QED BY <4>8, <6>1
        <5> QED BY <3>0, <4>2, <4>3, <4>6, <4>8, <5>1 DEF Splits
      <4> QED BY <4>7, <4>8
    <3> QED BY <3>1, <3>2
  <2> QED BY <2>1
<1>3. G = 0..n
  <2>1. G \in SUBSET (0..n)
    OBVIOUS
  <2> HIDE DEF G
  <2> QED BY <1>1, <1>2, <2>1, UpTo
<1>4. Right(n)
  <2>1. n \in G
    <3> HIDE DEF G
    <3> QED BY <1>3
  <2> HIDE DEF Right
  <2> QED BY <2>1
<1> DEFINE r == <<0, n>>
<1>5. r \in Ranges(n) /\ r[1] = 0 /\ r[2] = n
  BY DEF Ranges
<1> HIDE DEF r, G
<1>6. Splits(right, r[1], r[2], h[r])
  BY <1>4, <1>5
<1> QED BY <1>5, <1>6 DEF r

\* Levels in order, the best price first.
InOrder(s) == \A k, l \in 1..Len(s) : k < l => MoveRight(s[l], s[k])

\* The search of book_insert finds where p belongs.
LEMMA PositionIs ==
  ASSUME prices \in Seq(Prices), InOrder(prices), is_bid \in BOOLEAN, NEW p \in Prices
  PROVE  /\ Position(p) \in 0..Len(prices)
         /\ \A k \in 1..Len(prices) : k <= Position(p) => MoveRight(p, prices[k])
         /\ \A k \in 1..Len(prices) : k > Position(p) => ~MoveRight(p, prices[k])
<1> DEFINE n == Len(prices)
           right == {k \in 1..n : MoveRight(p, prices[k])}
           IsSearch(h) == h = [r \in (0..n) \X (0..n) |->
              LET mid == r[1] + (r[2] - r[1]) \div 2
              IN  IF r[1] >= r[2] THEN r[1]
                  ELSE IF MoveRight(p, prices[mid + 1]) THEN h[<<mid + 1, r[2]>>]
                  ELSE h[<<r[1], mid>>]]
           found == CHOOSE h : IsSearch(h)
<1>1. n \in Nat /\ prices \in [1..n -> Prices]
  OBVIOUS
<1>2. \A h, r : r \in Ranges(n) =>
        SearchIn(right, n, h, r) = LET mid == r[1] + (r[2] - r[1]) \div 2
                                   IN  IF r[1] >= r[2] THEN r[1]
                                       ELSE IF MoveRight(p, prices[mid + 1]) THEN h[<<mid + 1, r[2]>>]
                                       ELSE h[<<r[1], mid>>]
  <2> SUFFICES ASSUME NEW h, NEW r \in Ranges(n), ~(r[1] >= r[2])
               PROVE  LET mid == r[1] + (r[2] - r[1]) \div 2
                      IN  mid + 1 \in right <=> MoveRight(p, prices[mid + 1])
    BY DEF SearchIn
  <2> DEFINE mid == r[1] + (r[2] - r[1]) \div 2
  <2>1. r[1] \in 0..n /\ r[2] \in 0..n /\ r[1] < r[2]
    BY DEF Ranges
  <2>2. mid \in Int /\ r[1] <= mid /\ mid < r[2]
    BY <2>1, HalvesRange
  <2> HIDE DEF mid
  <2>3. mid + 1 \in 1..n
    BY <2>1, <2>2
  <2>4. mid + 1 \in right <=> MoveRight(p, prices[mid + 1])
    BY <2>3
  <2> QED BY <2>4 DEF mid
<1>3. \A k \in right : \A l \in 1..k : l \in right
  <2> SUFFICES ASSUME NEW k \in right, NEW l \in 1..k, l # k PROVE MoveRight(p, prices[l])
    OBVIOUS
  <2>1. k \in 1..n /\ l \in 1..n /\ l < k /\ MoveRight(p, prices[k])
    BY <1>1
  <2>2. MoveRight(prices[k], prices[l])
    BY <1>1, <2>1 DEF InOrder
  <2>3. p \in Int /\ prices[k] \in Int /\ prices[l] \in Int
    BY <1>1, <2>1, BookAssumption
  <2> HIDE DEF n, right
  <2> QED BY <2>1, <2>2, <2>3 DEF MoveRight
<1>4. \E h : IsSearch(h)
  <2>1. PICK h \in [Ranges(n) -> 0..n] : \A r \in Ranges(n) : h[r] = SearchIn(right, n, h, r)
    <3> HIDE DEF n, right
    <3> QED BY <1>1, SearchExists
  <2>2. h = [r \in Ranges(n) |-> h[r]]
    BY <2>1
  <2>3. h = [r \in Ranges(n) |-> SearchIn(right, n, h, r)]
    <3> HIDE DEF n, right
    <3> QED BY <2>1, <2>2
  <2>4. IsSearch(h)
    <3> HIDE DEF n, right
    <3> QED BY <1>2, <2>3, Zenon DEF Ranges
  <2> HIDE DEF IsSearch
  <2> QED BY <2>4
<1>5. IsSearch(found)
  <2> HIDE DEF IsSearch
  <2> QED BY <1>4
<1>6. \A r \in Ranges(n) : found[r] = SearchIn(right, n, found, r)
  <2>1. \A r \in Ranges(n) : found[r] = LET mid == r[1] + (r[2] - r[1]) \div 2
                                   IN  IF r[1] >= r[2] THEN r[1]
                                       ELSE IF MoveRight(p, prices[mid + 1]) THEN found[<<mid + 1, r[2]>>]
                                       ELSE found[<<r[1], mid>>]
    <3> HIDE DEF n, found
    <3> QED BY <1>5 DEF Ranges
  <2> HIDE DEF n, found, right
  <2> QED BY <1>2, <2>1
<1>7. Splits(right, 0, n, found[<<0, n>>])
  <2>1. right \in SUBSET (1..n)
    OBVIOUS
  <2> HIDE DEF n, found, right
  <2> QED BY <1>1, <1>3, <1>6, <2>1, SearchSplits
<1>8. Position(p) = found[<<0, n>>]
  BY Zenon DEF Position, Search
<1> DEFINE place == found[<<0, n>>]
<1>9. place \in 0..n /\ \A k \in 1..n : (k <= place => k \in right) /\ (k > place => k \notin right)
  <2> HIDE DEF n, right, found
  <2>1. Splits(right, 0, n, place)
    BY <1>7
  <2> HIDE DEF place
  <2> QED BY <1>1, <2>1 DEF Splits
<1>10. Position(p) = place
  BY <1>8
<1> HIDE DEF found, place
<1> QED BY <1>9, <1>10

-----------------------------------------------------------------------------

\* What is left of s when x is taken out of what the loop has seen of it.
LeftWith(kept, x, y) == IF y = x THEN kept ELSE Append(kept, y)

\* t is s without x: its entries are others of s, in the same order, and none is missing.
IsWithout(t, s, n, x) ==
  \E e \in [1..Len(t) -> 1..n] :
     /\ \A k \in 1..Len(t) : t[k] = s[e[k]] /\ t[k] # x
     /\ \A k, l \in 1..Len(t) : k < l => e[k] < e[l]
     /\ \A i \in 1..n : s[i] # x => \E k \in 1..Len(t) : e[k] = i

\* The loop that takes x out, one entry after the other.
WithoutTrace(w, s, n, x, R) ==
  /\ w \in [0..n -> Seq(R)]
  /\ w[0] = <<>> /\ \A j \in 1..n : w[j] = LeftWith(w[j - 1], x, s[j])
  /\ Without(s, x) = w[n]

\* The removal loop has a trace.
LEMMA WithoutRuns ==
  ASSUME NEW R, NEW list \in Seq(R), NEW x, NEW n, n = Len(list)
  PROVE  \E w : WithoutTrace(w, list, n, x, R)
<1> DEFINE S == 1..n
           W == Seq(R)
           step == [v \in W \X S |-> LeftWith(v[1], x, list[v[2]])]
           index == list
           IsIter(h) == h = [T \in SUBSET S |->
                              IF T = {} THEN <<>> ELSE LeftWith(h[T \ {Max(T)}], x, index[Max(T)])]
           iter == CHOOSE h : IsIter(h)
<1>0. n \in Nat
  OBVIOUS
<1>1. Indices(S) /\ \A T \in SUBSET S : T # {} => Max(T) \in S
  BY <1>0, FirstIndices
<1>2. step \in [W \X S -> W] /\ <<>> \in W
  BY DEF LeftWith
<1>3. \A T \in SUBSET S : T # {} => index[Max(T)] \in R
  BY <1>1
<1>4. PICK h \in [SUBSET S -> W] :
         \A T \in SUBSET S : h[T] = IF T = {} THEN <<>> ELSE step[<<h[T \ {Max(T)}], Max(T)>>]
  <2>1. FoldsWithin(<<>>, step, S, W)
    <3> HIDE DEF S, step, W
    <3> QED BY <1>1, <1>2, FoldWithin
  <2> HIDE DEF S, step
  <2> QED BY <2>1 DEF FoldsWithin
<1>5. ASSUME NEW T \in SUBSET S, T # {}, NEW g, g[T \ {Max(T)}] \in W
      PROVE  step[<<g[T \ {Max(T)}], Max(T)>>] = LeftWith(g[T \ {Max(T)}], x, index[Max(T)])
  <2> HIDE DEF S
  <2> QED BY <1>1, <1>3, <1>5
<1>6. IsIter(h)
  <2>1. \A T \in SUBSET S : h[T] = IF T = {} THEN <<>> ELSE LeftWith(h[T \ {Max(T)}], x, index[Max(T)])
    <3> HIDE DEF S, step, index
    <3> QED BY <1>4, <1>5
  <2> HIDE DEF S, step, index
  <2> QED BY <1>4, <2>1
<1>7. IsIter(iter)
  <2> HIDE DEF IsIter
  <2> QED BY <1>6
<1>8. \A T \in SUBSET S : iter[T] = IF T = {} THEN <<>> ELSE LeftWith(iter[T \ {Max(T)}], x, index[Max(T)])
  <2> HIDE DEF S, index, iter
  <2> QED BY <1>7
<1>9. \A T \in SUBSET S : iter[T] \in W
  <2>1. iter[{}] \in W
    <3> HIDE DEF iter, S, index, W
    <3>1. {} \in SUBSET S
      OBVIOUS
    <3> QED BY <1>2, <1>8, <3>1
  <2>2. \A T \in SUBSET S : T # {} /\ iter[T \ {Max(T)}] \in W => iter[T] \in W
    <3> HIDE DEF iter, S, index, step
    <3> QED BY <1>1, <1>2, <1>5, <1>8
  <2> HIDE DEF iter, S
  <2> QED BY <1>1, <2>1, <2>2, FoldStays
<1>10. \A T \in SUBSET S : iter[T] = IF T = {} THEN <<>> ELSE step[<<iter[T \ {Max(T)}], Max(T)>>]
  <2> HIDE DEF iter, S, index, step
  <2> QED BY <1>5, <1>8, <1>9
<1>11. iter \in [SUBSET S -> W]
  <2>1. iter = [T \in SUBSET S |-> iter[T]]
    <3> HIDE DEF S, index, iter
    <3> QED BY <1>7
  <2> HIDE DEF iter, S
  <2> QED BY <1>9, <2>1
<1>12. PICK w : IsTrace(w, <<>>, step, n, W) /\ w[n] = iter[1..n]
  <2>1. step \in [W \X (1..n) -> W] /\ iter \in [SUBSET (1..n) -> W]
    BY <1>2, <1>11
  <2>2. \A T \in SUBSET (1..n) : iter[T] = IF T = {} THEN <<>> ELSE step[<<iter[T \ {Max(T)}], Max(T)>>]
    BY <1>10
  <2> HIDE DEF iter, step, S
  <2>3. IsLoop(iter, <<>>, step, n, W)
    BY <2>1, <2>2 DEF IsLoop
  <2> QED BY <1>0, <2>3, FoldTrace
<1>13. w \in [0..n -> W] /\ w[0] = <<>> /\ \A j \in 1..n : w[j] = LeftWith(w[j - 1], x, list[j])
  <2>1. /\ w \in [0..n -> W] /\ w[0] = <<>>
        /\ \A j \in 1..n : w[j] = step[<<w[j - 1], j>>]
    BY <1>12 DEF IsTrace
  <2>2. ASSUME NEW j \in 1..n PROVE w[j] = LeftWith(w[j - 1], x, list[j])
    <3>1. w[j - 1] \in W /\ w[j] = step[<<w[j - 1], j>>]
      <4>1. j - 1 \in 0..n
        OBVIOUS
      <4> HIDE DEF iter, step
      <4> QED BY <2>1, <4>1
    <3> HIDE DEF iter, index
    <3> QED BY <3>1
  <2> QED BY <2>1, <2>2
<1>14. Without(list, x) = iter[S]
  <2>1. DOMAIN index = S /\ index = list
    OBVIOUS
  <2> HIDE DEF S, index
  <2> QED BY <2>1, Zenon DEF LeftWith, Without, FoldLeft, MapThenFoldSet
<1>15. w[n] = iter[S]
  BY <1>12
<1> HIDE DEF iter
<1> QED BY <1>13, <1>14, <1>15 DEF WithoutTrace

\* Taking x out leaves the other entries in their order.
LEMMA WithoutIs ==
  ASSUME NEW R, NEW s \in Seq(R), NEW x
  PROVE  Without(s, x) \in Seq(R) /\ IsWithout(Without(s, x), s, Len(s), x)
<1> DEFINE n == Len(s)
<1>1. n \in Nat /\ s \in [1..n -> R]
  OBVIOUS
<1>a. PICK w : WithoutTrace(w, s, n, x, R)
  <2>1. n = Len(s) /\ s \in Seq(R)
    OBVIOUS
  <2> HIDE DEF n
  <2> QED BY <2>1, WithoutRuns
<1>2. /\ w \in [0..n -> Seq(R)]
      /\ w[0] = <<>> /\ \A j \in 1..n : w[j] = LeftWith(w[j - 1], x, s[j])
      /\ Without(s, x) = w[n]
  <2> HIDE DEF n
  <2> QED BY <1>a DEF WithoutTrace
<1> HIDE DEF n
<1> DEFINE G == {j \in 0..n : IsWithout(w[j], s, j, x)}
<1>3. 0 \in G
  <2>1. w[0] = <<>> /\ Len(w[0]) = 0 /\ 1..0 = {}
    BY <1>2
  <2> DEFINE e == [k \in 1..Len(w[0]) |-> k]
  <2>2. e \in [1..Len(w[0]) -> 1..0]
    BY <2>1
  <2>3. \A k \in 1..Len(w[0]) : FALSE
    BY <2>1
  <2>4. \A i \in 1..0 : FALSE
    BY <2>1
  <2> HIDE DEF e
  <2>5. IsWithout(w[0], s, 0, x)
    BY <2>2, <2>3, <2>4 DEF IsWithout
  <2> QED BY <1>1, <2>5
<1>4. ASSUME NEW j \in 1..n, j - 1 \in G PROVE j \in G
  <2> DEFINE v == w[j - 1]
             m == Len(v)
  <2>1. v \in Seq(R) /\ w[j] = LeftWith(v, x, s[j]) /\ s[j] \in R /\ m \in Nat
    BY <1>1, <1>2
  <2>2. PICK e \in [1..m -> 1..(j - 1)] :
           /\ \A k \in 1..m : v[k] = s[e[k]] /\ v[k] # x
           /\ \A k, l \in 1..m : k < l => e[k] < e[l]
           /\ \A i \in 1..(j - 1) : s[i] # x => \E k \in 1..m : e[k] = i
    BY <1>4 DEF IsWithout
  <2>3. CASE s[j] = x
    <3>1. w[j] = v
      BY <2>1, <2>3 DEF LeftWith
    <3>2. e \in [1..m -> 1..j]
      BY <2>1, <2>2
    <3>3. \A i \in 1..j : s[i] # x => \E k \in 1..m : e[k] = i
      <4> SUFFICES ASSUME NEW i \in 1..j, s[i] # x PROVE i \in 1..(j - 1)
        BY <2>2
      <4> QED BY <2>3
    <3>4. IsWithout(v, s, j, x)
      <4> HIDE DEF v
      <4> QED BY <2>2, <3>2, <3>3 DEF IsWithout
    <3> QED BY <3>1, <3>4
  <2>4. CASE s[j] # x
    <3> DEFINE t == Append(v, s[j])
               g == [k \in 1..(m + 1) |-> IF k = m + 1 THEN j ELSE e[k]]
    <3>1. w[j] = t
      BY <2>1, <2>4 DEF LeftWith
    <3>2. /\ Len(t) = m + 1 /\ t[m + 1] = s[j]
          /\ \A k \in 1..m : t[k] = v[k]
      BY <2>1
    <3>3. /\ g \in [1..(m + 1) -> 1..j] /\ g[m + 1] = j
          /\ \A k \in 1..m : g[k] = e[k] /\ k \in 1..(m + 1) /\ e[k] \in 1..(j - 1)
      <4>1. j \in 1..j /\ m + 1 \in 1..(m + 1) /\ ~(m + 1 \in 1..m)
        BY <2>1
      <4>2. \A k \in 1..m : k \in 1..(m + 1) /\ k # m + 1
        BY <2>1
      <4>3. \A k \in 1..m : e[k] \in 1..(j - 1)
        BY <2>2
      <4>4. \A k \in 1..(m + 1) : k # m + 1 => k \in 1..m
        BY <2>1
      <4>5. 1..(j - 1) \subseteq 1..j
        OBVIOUS
      <4> HIDE DEF m
      <4> QED BY <4>1, <4>2, <4>3, <4>4, <4>5
    <3> HIDE DEF v, m, t, g
    <3>4. ASSUME NEW k \in 1..(m + 1), NEW l \in 1..(m + 1), k < l PROVE g[k] < g[l]
      <4>1. k \in 1..m
        BY <2>1, <3>4
      <4>2. CASE l = m + 1
        BY <3>3, <4>1, <4>2
      <4>3. CASE l # m + 1
        <5>1. l \in 1..m
          BY <2>1, <4>3
        <5> QED BY <2>2, <3>3, <3>4, <4>1, <5>1
      <4> QED BY <4>2, <4>3
    <3>5. ASSUME NEW k \in 1..(m + 1) PROVE t[k] = s[g[k]] /\ t[k] # x
      <4>1. CASE k = m + 1
        BY <2>4, <3>2, <3>3, <4>1
      <4>2. CASE k # m + 1
        <5>1. k \in 1..m
          BY <2>1, <4>2
        <5> QED BY <2>2, <3>2, <3>3, <5>1
      <4> QED BY <4>1, <4>2
    <3>6. ASSUME NEW i \in 1..j, s[i] # x PROVE \E k \in 1..(m + 1) : g[k] = i
      <4>1. CASE i = j
        <5>1. m + 1 \in 1..(m + 1)
          BY <2>1
        <5> QED BY <3>3, <4>1, <5>1
      <4>2. CASE i # j
        <5>1. i \in 1..(j - 1)
          BY <4>2
        <5> QED BY <2>2, <3>3, <3>6, <5>1
      <4> QED BY <4>1, <4>2
    <3>7. IsWithout(t, s, j, x)
      BY <3>2, <3>3, <3>4, <3>5, <3>6 DEF IsWithout
    <3> QED BY <3>1, <3>7
  <2> QED BY <2>3, <2>4
<1>5. G = 0..n
  <2>1. G \in SUBSET (0..n)
    OBVIOUS
  <2> HIDE DEF G
  <2> QED BY <1>1, <1>3, <1>4, <2>1, UpTo
<1>6. IsWithout(w[n], s, n, x)
  <2>1. n \in G
    <3> HIDE DEF G
    <3> QED BY <1>1, <1>5
  <2> QED BY <2>1
<1> QED BY <1>1, <1>2, <1>6 DEF n

\* A level put in at its place.
LEMMA InsertedIs ==
  ASSUME NEW R, NEW s \in Seq(R), NEW i \in 1..(Len(s) + 1), NEW x \in R
  PROVE  /\ InsertAt(s, i, x) \in Seq(R) /\ Len(InsertAt(s, i, x)) = Len(s) + 1
         /\ InsertAt(s, i, x)[i] = x
         /\ \A k \in 1..(Len(s) + 1) : k < i => InsertAt(s, i, x)[k] = s[k]
         /\ \A k \in 1..(Len(s) + 1) : k > i => InsertAt(s, i, x)[k] = s[k - 1]
<1> DEFINE n == Len(s)
           a == SubSeq(s, 1, i - 1)
           b == SubSeq(s, i, Len(s))
           ax == a \o <<x>>
<1>1. n \in Nat /\ i \in Int /\ 1 <= i /\ i <= n + 1
  OBVIOUS
<1>2. a \in Seq(R) /\ Len(a) = i - 1 /\ \A k \in 1..(i - 1) : a[k] = s[k]
  BY <1>1
<1>3. b \in Seq(R) /\ Len(b) = n - i + 1 /\ \A k \in 1..(n - i + 1) : b[k] = s[k + i - 1]
  BY <1>1
<1>4. InsertAt(s, i, x) = ax \o b
  BY Zenon DEF InsertAt
<1> HIDE DEF n, a, b
<1>5. /\ ax \in Seq(R) /\ Len(ax) = i /\ ax[i] = x
      /\ \A k \in 1..(i - 1) : ax[k] = s[k]
  BY <1>1, <1>2
<1> HIDE DEF ax
<1> DEFINE t == ax \o b
<1>6. /\ t \in Seq(R) /\ Len(t) = n + 1
      /\ \A k \in 1..i : t[k] = ax[k]
      /\ \A k \in 1..(n - i + 1) : t[i + k] = b[k]
  BY <1>1, <1>3, <1>5
<1> HIDE DEF t
<1>7. ASSUME NEW k \in 1..(n + 1), k > i PROVE t[k] = s[k - 1]
  <2> DEFINE l == k - i
  <2>1. l \in 1..(n - i + 1) /\ i + l = k /\ l + i - 1 = k - 1
    BY <1>1, <1>7
  <2> HIDE DEF l
  <2>2. t[i + l] = b[l] /\ b[l] = s[l + i - 1]
    BY <1>3, <1>6, <2>1
  <2> QED BY <2>1, <2>2
<1>8. t[i] = x /\ \A k \in 1..(n + 1) : k < i => t[k] = s[k]
  <2>1. t[i] = x
    BY <1>1, <1>5, <1>6
  <2>2. ASSUME NEW k \in 1..(n + 1), k < i PROVE t[k] = s[k]
    <3>1. k \in 1..i /\ k \in 1..(i - 1)
      BY <1>1, <2>2
    <3> QED BY <1>5, <1>6, <3>1
  <2> QED BY <2>1, <2>2
<1>9. InsertAt(s, i, x) = t
  BY <1>4 DEF t
<1> QED BY <1>6, <1>7, <1>8, <1>9 DEF n

-----------------------------------------------------------------------------

Among(s, q) == \E k \in 1..Len(s) : s[k] = q

\* Besides the types: what is listed has arrived, and the levels are in order.
BookInv ==
  /\ BookTypeOK /\ LevelsMatchOrders
  /\ Len(price) <= MaxOrders
  /\ \A p \in Prices : \A k \in DOMAIN level[p] : level[p][k] \in DOMAIN price
  /\ InOrder(prices)

\* t is s with x put at i.
Inserted(R, s, i, x, t) ==
  /\ t \in Seq(R) /\ Len(t) = Len(s) + 1
  /\ t[i] = x
  /\ \A k \in 1..(Len(s) + 1) : k < i => t[k] = s[k]
  /\ \A k \in 1..(Len(s) + 1) : k > i => t[k] = s[k - 1]

\* InsertedIs, in one word.
LEMMA InsertedAs ==
  ASSUME NEW R, NEW s \in Seq(R), NEW i \in 1..(Len(s) + 1), NEW x \in R
  PROVE  Inserted(R, s, i, x, InsertAt(s, i, x))
BY InsertedIs DEF Inserted

\* The levels with one for p are in order, and only p is new.
LEMMA WithLevelIs ==
  ASSUME prices \in Seq(Prices), InOrder(prices), is_bid \in BOOLEAN, NEW p \in Prices
  PROVE  /\ WithLevel(p) \in Seq(Prices) /\ InOrder(WithLevel(p))
         /\ \A q : Among(WithLevel(p), q) <=> q = p \/ Among(prices, q)
<1> DEFINE n == Len(prices)
           lo == Position(p)
           t == InsertAt(prices, lo + 1, p)
<1>1. /\ n \in Nat /\ lo \in 0..n /\ p \in Int
      /\ \A k \in 1..n : prices[k] \in Int /\ prices[k] \in Prices
      /\ \A k \in 1..n : k <= lo => MoveRight(p, prices[k])
      /\ \A k \in 1..n : k > lo => ~MoveRight(p, prices[k])
  <2>1. n \in Nat /\ \A k \in 1..n : prices[k] \in Prices
    OBVIOUS
  <2>2. /\ lo \in 0..n
        /\ \A k \in 1..n : k <= lo => MoveRight(p, prices[k])
        /\ \A k \in 1..n : k > lo => ~MoveRight(p, prices[k])
    BY PositionIs
  <2> HIDE DEF n, lo
  <2> QED BY <2>1, <2>2, BookAssumption
<1>2. \A k, l \in 1..n : k < l => MoveRight(prices[l], prices[k])
  BY DEF InOrder
<1>3. CASE lo < n /\ prices[lo + 1] = p
  <2>1. WithLevel(p) = prices
    BY <1>3 DEF WithLevel
  <2>2. lo + 1 \in 1..n
    BY <1>1, <1>3
  <2> QED BY <1>3, <2>1, <2>2 DEF Among
<1>4. CASE ~(lo < n /\ prices[lo + 1] = p)
  <2>1. WithLevel(p) = t
    BY <1>4 DEF WithLevel
  <2>2. lo + 1 \in 1..(Len(prices) + 1)
    BY <1>1
  <2>3. /\ t \in Seq(Prices) /\ Len(t) = n + 1 /\ t[lo + 1] = p
        /\ \A k \in 1..(n + 1) : k < lo + 1 => t[k] = prices[k]
        /\ \A k \in 1..(n + 1) : k > lo + 1 => t[k] = prices[k - 1]
    <3>1. prices \in Seq(Prices) /\ p \in Prices
      OBVIOUS
    <3> DEFINE i == lo + 1
    <3>2. i \in 1..(Len(prices) + 1)
      BY <2>2
    <3>3. t = InsertAt(prices, i, p) /\ n = Len(prices)
      OBVIOUS
    <3>4. Inserted(Prices, prices, i, p, InsertAt(prices, i, p))
      <4> HIDE DEF lo, i, t, n
      <4> QED BY <3>1, <3>2, InsertedAs
    <3> HIDE DEF lo, i, t, n
    <3>5. /\ t \in Seq(Prices) /\ Len(t) = n + 1 /\ t[i] = p
          /\ \A k \in 1..(n + 1) : k < i => t[k] = prices[k]
          /\ \A k \in 1..(n + 1) : k > i => t[k] = prices[k - 1]
      BY <3>3, <3>4 DEF Inserted
    <3> QED BY <3>5 DEF i
  <2> HIDE DEF t, n, lo
  <2>4. ASSUME NEW k \in 1..n, k > lo PROVE MoveRight(prices[k], p)
    <3>1. lo + 1 \in 1..n /\ prices[lo + 1] # p /\ ~MoveRight(p, prices[lo + 1])
      BY <1>1, <1>4, <2>4
    <3>2. MoveRight(prices[lo + 1], p)
      BY <1>1, <3>1 DEF MoveRight
    <3>3. k = lo + 1 \/ MoveRight(prices[k], prices[lo + 1])
      BY <1>1, <1>2, <2>4, <3>1
    <3> QED BY <1>1, <3>1, <3>2, <3>3 DEF MoveRight
  <2>5. ASSUME NEW k \in 1..(n + 1), NEW l \in 1..(n + 1), k < l PROVE MoveRight(t[l], t[k])
    <3>1. CASE l < lo + 1
      <4>1. k \in 1..n /\ l \in 1..n /\ t[k] = prices[k] /\ t[l] = prices[l]
        BY <1>1, <2>3, <2>5, <3>1
      <4> QED BY <1>2, <2>5, <4>1
    <3>2. CASE l = lo + 1
      <4>1. k \in 1..n /\ k <= lo /\ t[k] = prices[k]
        BY <1>1, <2>3, <2>5, <3>2
      <4> QED BY <1>1, <2>3, <3>2, <4>1
    <3>3. CASE l > lo + 1 /\ k = lo + 1
      <4>1. l - 1 \in 1..n /\ l - 1 > lo /\ t[l] = prices[l - 1]
        BY <1>1, <2>3, <3>3
      <4> QED BY <2>3, <2>4, <3>3, <4>1
    <3>4. CASE l > lo + 1 /\ k > lo + 1
      <4>1. l - 1 \in 1..n /\ k - 1 \in 1..n /\ k - 1 < l - 1 /\ t[l] = prices[l - 1] /\ t[k] = prices[k - 1]
        BY <1>1, <2>3, <2>5, <3>4
      <4> QED BY <1>2, <4>1
    <3>5. CASE l > lo + 1 /\ k < lo + 1
      <4>1. l - 1 \in 1..n /\ k \in 1..n /\ k < l - 1 /\ t[l] = prices[l - 1] /\ t[k] = prices[k]
        BY <1>1, <2>3, <2>5, <3>5
      <4> QED BY <1>2, <4>1
    <3> QED BY <1>1, <3>1, <3>2, <3>3, <3>4, <3>5
  <2>6. ASSUME NEW q PROVE Among(t, q) <=> q = p \/ Among(prices, q)
    <3>1. ASSUME Among(t, q) PROVE q = p \/ Among(prices, q)
      <4>1. PICK k \in 1..(n + 1) : t[k] = q
        BY <2>3, <3>1 DEF Among
      <4>2. CASE k < lo + 1
        BY <1>1, <2>3, <4>1, <4>2 DEF Among, n
      <4>3. CASE k = lo + 1
        BY <2>3, <4>1, <4>3
      <4>4. CASE k > lo + 1
        <5>1. k - 1 \in 1..n /\ prices[k - 1] = q
          BY <1>1, <2>3, <4>1, <4>4
        <5> QED BY <5>1 DEF Among, n
      <4> QED BY <1>1, <4>2, <4>3, <4>4
    <3>2. Among(t, p)
      <4>1. lo + 1 \in 1..(n + 1)
        BY <1>1
      <4> QED BY <2>3, <4>1 DEF Among
    <3>3. ASSUME Among(prices, q) PROVE Among(t, q)
      <4>1. PICK k \in 1..n : prices[k] = q
        BY <3>3 DEF Among, n
      <4>2. CASE k < lo + 1
        <5>1. k \in 1..(n + 1) /\ t[k] = q
          BY <1>1, <2>3, <4>1, <4>2
        <5> QED BY <2>3, <5>1 DEF Among
      <4>3. CASE k >= lo + 1
        <5>1. k + 1 \in 1..(n + 1) /\ k + 1 > lo + 1 /\ (k + 1) - 1 = k
          BY <1>1, <4>3
        <5>2. t[k + 1] = q
          BY <2>3, <4>1, <5>1
        <5> QED BY <2>3, <5>1, <5>2 DEF Among
      <4> QED BY <1>1, <4>2, <4>3
    <3> QED BY <3>1, <3>2, <3>3
  <2>7. InOrder(t)
    BY <2>3, <2>5 DEF InOrder
  <2> QED BY <2>1, <2>3, <2>6, <2>7
<1> QED BY <1>3, <1>4

\* What is left without x is what else there was.
LEMMA WithoutAmong ==
  ASSUME NEW R, NEW s \in Seq(R), NEW x
  PROVE  /\ Without(s, x) \in Seq(R)
         /\ \A q : Among(Without(s, x), q) <=> q # x /\ Among(s, q)
<1> DEFINE t == Without(s, x)
           n == Len(s)
           m == Len(t)
<1>1. t \in Seq(R) /\ IsWithout(t, s, n, x)
  BY WithoutIs
<1> HIDE DEF t
<1>2. PICK e \in [1..m -> 1..n] :
         /\ \A k \in 1..m : t[k] = s[e[k]] /\ t[k] # x
         /\ \A k, l \in 1..m : k < l => e[k] < e[l]
         /\ \A i \in 1..n : s[i] # x => \E k \in 1..m : e[k] = i
  BY <1>1 DEF IsWithout
<1> HIDE DEF n, m
<1>3. ASSUME NEW q PROVE Among(t, q) <=> q # x /\ Among(s, q)
  <2>1. ASSUME NEW k \in 1..m, t[k] = q PROVE q # x /\ Among(s, q)
    <3>1. e[k] \in 1..n /\ s[e[k]] = q /\ q # x
      BY <1>2, <2>1
    <3> QED BY <3>1 DEF Among, n
  <2>2. ASSUME NEW i \in 1..n, s[i] = q, q # x PROVE Among(t, q)
    <3>1. PICK k \in 1..m : e[k] = i
      BY <1>2, <2>2
    <3>2. t[k] = q
      BY <1>2, <2>2, <3>1
    <3> QED BY <3>2 DEF Among, m
  <2> QED BY <2>1, <2>2 DEF Among, n, m
<1> QED BY <1>1, <1>3 DEF t

\* Taking a level out leaves the others in order.
LEMMA WithoutSorted ==
  ASSUME NEW s \in Seq(Prices), InOrder(s), NEW x
  PROVE  InOrder(Without(s, x))
<1> DEFINE t == Without(s, x)
           n == Len(s)
           m == Len(t)
<1>1. IsWithout(t, s, n, x)
  BY WithoutIs
<1> HIDE DEF t
<1>2. PICK e \in [1..m -> 1..n] :
         /\ \A k \in 1..m : t[k] = s[e[k]] /\ t[k] # x
         /\ \A k, l \in 1..m : k < l => e[k] < e[l]
  BY <1>1 DEF IsWithout
<1>3. \A k, l \in 1..n : k < l => MoveRight(s[l], s[k])
  BY DEF InOrder
<1> HIDE DEF n, m
<1>4. ASSUME NEW k \in 1..m, NEW l \in 1..m, k < l PROVE MoveRight(t[l], t[k])
  <2>1. e[k] \in 1..n /\ e[l] \in 1..n /\ e[k] < e[l] /\ t[k] = s[e[k]] /\ t[l] = s[e[l]]
    BY <1>2, <1>4
  <2> QED BY <1>3, <2>1
<1> QED BY <1>4 DEF InOrder, m, t

\* And taking an order out leaves the others in the order of their arrival.
LEMMA WithoutRises ==
  ASSUME NEW N, NEW s \in Seq(1..N), \A k, l \in 1..Len(s) : k < l => s[k] < s[l], NEW x
  PROVE  LET t == Without(s, x) IN \A k, l \in 1..Len(t) : k < l => t[k] < t[l]
<1> DEFINE t == Without(s, x)
           n == Len(s)
           m == Len(t)
<1>1. IsWithout(t, s, n, x)
  BY WithoutIs
<1> HIDE DEF t
<1>2. PICK e \in [1..m -> 1..n] :
         /\ \A k \in 1..m : t[k] = s[e[k]] /\ t[k] # x
         /\ \A k, l \in 1..m : k < l => e[k] < e[l]
  BY <1>1 DEF IsWithout
<1>3. \A k, l \in 1..n : k < l => s[k] < s[l]
  OBVIOUS
<1> HIDE DEF n, m
<1>4. ASSUME NEW k \in 1..m, NEW l \in 1..m, k < l PROVE t[k] < t[l]
  <2>1. e[k] \in 1..n /\ e[l] \in 1..n /\ e[k] < e[l] /\ t[k] = s[e[k]] /\ t[l] = s[e[l]]
    BY <1>2, <1>4
  <2> QED BY <1>3, <2>1
<1> QED BY <1>4 DEF m, t

-----------------------------------------------------------------------------

\* What the types and the levels say, one fact at a time.
LEMMA BookFacts ==
  ASSUME BookInv
  PROVE  /\ is_bid \in BOOLEAN /\ price \in Seq(Prices) /\ Len(price) \in Nat /\ Len(price) <= MaxOrders
         /\ status \in Seq({"resting", "expired", "closed", "archived"}) /\ Len(status) = Len(price)
         /\ prices \in Seq(Prices) /\ InOrder(prices)
         /\ level \in [Prices -> Seq(1..MaxOrders)]
         /\ \A p \in Prices : \A j \in 1..Len(level[p]) :
              level[p][j] \in 1..Len(price) /\ price[level[p][j]] = p
         /\ \A p \in Prices : \A j, k \in 1..Len(level[p]) : j < k => level[p][j] < level[p][k]
         /\ \A p \in Prices : (level[p] # <<>>) <=> Among(prices, p)
         /\ \A id \in Resting : Among(level[price[id]], id)
<1>1. /\ is_bid \in BOOLEAN /\ price \in Seq(Prices) /\ Len(price) \in Nat /\ Len(price) <= MaxOrders
      /\ status \in Seq({"resting", "expired", "closed", "archived"}) /\ Len(status) = Len(price)
      /\ prices \in Seq(Prices) /\ InOrder(prices)
      /\ level \in [Prices -> Seq(1..MaxOrders)]
  BY DEF BookInv, BookTypeOK
<1>2. \A p \in Prices : DOMAIN level[p] = 1..Len(level[p])
  BY <1>1
<1>3. DOMAIN price = 1..Len(price) /\ DOMAIN prices = 1..Len(prices)
  BY <1>1
<1>4. /\ \A p \in Prices : \A j \in 1..Len(level[p]) :
           level[p][j] \in 1..Len(price) /\ price[level[p][j]] = p
      /\ \A p \in Prices : \A j, k \in 1..Len(level[p]) : j < k => level[p][j] < level[p][k]
  BY <1>2, <1>3 DEF BookInv, BookTypeOK
<1>5. \A p \in Prices : (level[p] # <<>>) <=> Among(prices, p)
  BY <1>3 DEF BookInv, LevelsMatchOrders, Among
<1>6. ASSUME NEW id \in Resting PROVE Among(level[price[id]], id)
  <2>1. id \in 1..Len(price) /\ price[id] \in Prices
    BY <1>1, <1>3 DEF Resting
  <2>2. DOMAIN level[price[id]] = 1..Len(level[price[id]])
    BY <1>2, <2>1
  <2> QED BY <2>2 DEF BookInv, LevelsMatchOrders, Among
<1> QED BY <1>1, <1>4, <1>5, <1>6

\* And the other way.
LEMMA BookFactsNext ==
  ASSUME /\ is_bid' \in BOOLEAN /\ price' \in Seq(Prices) /\ Len(price') <= MaxOrders
         /\ status' \in Seq({"resting", "expired", "closed", "archived"}) /\ Len(status') = Len(price')
         /\ prices' \in Seq(Prices) /\ InOrder(prices)'
         /\ level' \in [Prices -> Seq(1..MaxOrders)],
         \A p \in Prices : \A j \in 1..Len(level'[p]) :
              level'[p][j] \in 1..Len(price') /\ price'[level'[p][j]] = p,
         \A p \in Prices : \A j, k \in 1..Len(level'[p]) : j < k => level'[p][j] < level'[p][k],
         \A p \in Prices : (level'[p] # <<>>) <=> Among(prices', p),
         \A id \in Resting' : Among(level'[price'[id]], id)
  PROVE  BookInv'
<1>1. \A p \in Prices : DOMAIN level'[p] = 1..Len(level'[p])
  OBVIOUS
<1>2. DOMAIN price' = 1..Len(price') /\ DOMAIN prices' = 1..Len(prices') /\ Len(price') \in Nat
  OBVIOUS
<1>3. BookTypeOK'
  BY <1>1 DEF BookTypeOK
<1>4. ASSUME NEW id \in Resting' PROVE \E k \in DOMAIN level'[price'[id]] : level'[price'[id]][k] = id
  <2>1. id \in 1..Len(price') /\ price'[id] \in Prices
    BY <1>2 DEF Resting
  <2>2. DOMAIN level'[price'[id]] = 1..Len(level'[price'[id]])
    BY <1>1, <2>1
  <2> QED BY <2>2 DEF Among
<1>5. LevelsMatchOrders'
  BY <1>2, <1>4 DEF LevelsMatchOrders, Among
<1>6. \A p \in Prices : \A k \in DOMAIN level'[p] : level'[p][k] \in DOMAIN price'
  BY <1>1, <1>2
<1> QED BY <1>2, <1>3, <1>5, <1>6 DEF BookInv

\* An order that arrives is listed last at its price.
LEMMA InsertKeeps ==
  ASSUME BookInv, NEW p \in Prices, BookInsert(p)
  PROVE  BookInv'
<1> DEFINE n == Len(price)
           id == n + 1
           q == level[p]
           m == Len(q)
<1>1. /\ n \in Nat /\ id <= MaxOrders /\ MaxOrders \in Nat /\ id \in 1..MaxOrders
      /\ q \in Seq(1..MaxOrders) /\ m \in Nat
  BY BookFacts, BookAssumption DEF BookInsert
<1>2. /\ price' = Append(price, p) /\ status' = Append(status, "resting")
      /\ prices' = WithLevel(p) /\ level' = [level EXCEPT ![p] = Append(level[p], id)]
      /\ is_bid' = is_bid
  BY DEF BookInsert, Queued
<1>3. /\ price' \in Seq(Prices) /\ Len(price') = n + 1 /\ price'[id] = p
      /\ \A i \in 1..n : price'[i] = price[i]
  BY <1>2, BookFacts
<1>4. /\ status' \in Seq({"resting", "expired", "closed", "archived"}) /\ Len(status') = n + 1
      /\ \A i \in 1..n : status'[i] = status[i]
  BY <1>2, BookFacts
<1>5. /\ prices' \in Seq(Prices) /\ InOrder(prices')
      /\ \A r : Among(prices', r) <=> r = p \/ Among(prices, r)
  BY <1>2, BookFacts, WithLevelIs
<1>6. InOrder(prices)'
  BY <1>2, <1>5 DEF InOrder, MoveRight
<1>7. level' \in [Prices -> Seq(1..MaxOrders)] /\ level'[p] = Append(q, id)
      /\ \A r \in Prices : r # p => level'[r] = level[r]
  <2>1. Append(q, id) \in Seq(1..MaxOrders)
    BY <1>1
  <2>2. level \in [Prices -> Seq(1..MaxOrders)]
    BY BookFacts
  <2> HIDE DEF q
  <2> QED BY <1>2, <2>1, <2>2 DEF q
<1>8. /\ Len(level'[p]) = m + 1 /\ level'[p][m + 1] = id
      /\ \A j \in 1..m : level'[p][j] = q[j]
  BY <1>1, <1>7
<1>9. /\ \A j \in 1..m : q[j] \in 1..n /\ price[q[j]] = p
      /\ \A j, k \in 1..m : j < k => q[j] < q[k]
  BY BookFacts
<1> HIDE DEF q, m
<1>10. ASSUME NEW r \in Prices, NEW j \in 1..Len(level'[r])
       PROVE  level'[r][j] \in 1..(n + 1) /\ price'[level'[r][j]] = r
  <2>1. CASE r # p
    <3>1. level'[r] = level[r] /\ level[r][j] \in 1..n /\ price[level[r][j]] = r
      BY <1>7, <2>1, BookFacts
    <3> QED BY <1>1, <1>3, <3>1
  <2>2. CASE r = p /\ j = m + 1
    BY <1>1, <1>3, <1>8, <2>2
  <2>3. CASE r = p /\ j # m + 1
    <3>1. j \in 1..m
      BY <1>1, <1>8, <2>3
    <3> QED BY <1>1, <1>3, <1>8, <1>9, <2>3, <3>1
  <2> QED BY <2>1, <2>2, <2>3
<1>11. ASSUME NEW r \in Prices, NEW j \in 1..Len(level'[r]), NEW k \in 1..Len(level'[r]), j < k
       PROVE  level'[r][j] < level'[r][k]
  <2>1. CASE r # p
    BY <1>7, <1>11, <2>1, BookFacts
  <2>2. CASE r = p /\ k = m + 1
    <3>1. j \in 1..m
      BY <1>1, <1>8, <1>11, <2>2
    <3>2. level'[r][j] \in 1..n /\ level'[r][k] = n + 1
      BY <1>8, <1>9, <2>2, <3>1
    <3> QED BY <1>1, <3>2
  <2>3. CASE r = p /\ k # m + 1
    <3>1. j \in 1..m /\ k \in 1..m
      BY <1>1, <1>8, <1>11, <2>3
    <3> QED BY <1>8, <1>9, <1>11, <2>3, <3>1
  <2> QED BY <2>1, <2>2, <2>3
<1>12. ASSUME NEW r \in Prices PROVE (level'[r] # <<>>) <=> Among(prices', r)
  <2>1. CASE r = p
    <3>1. level'[p] # <<>>
      BY <1>1, <1>8
    <3> QED BY <1>5, <2>1, <3>1
  <2>2. CASE r # p
    <3>1. level'[r] = level[r] /\ (level[r] # <<>> <=> Among(prices, r))
      BY <1>7, <2>2, BookFacts
    <3> QED BY <1>5, <2>2, <3>1
  <2> QED BY <2>1, <2>2
<1>13. ASSUME NEW i \in Resting' PROVE Among(level'[price'[i]], i)
  <2>0. i \in 1..(n + 1) /\ status'[i] = "resting"
    BY <1>3 DEF Resting
  <2>1. CASE i = id
    <3>1. m + 1 \in 1..Len(level'[p])
      BY <1>1, <1>8
    <3> QED BY <1>3, <1>8, <2>1, <3>1 DEF Among
  <2>2. CASE i # id
    <3>1. i \in 1..n
      BY <1>1, <2>0, <2>2
    <3>2. i \in Resting /\ price'[i] = price[i] /\ price[i] \in Prices
      BY <1>3, <1>4, <2>0, <3>1, BookFacts DEF Resting
    <3>3. Among(level[price[i]], i)
      BY <3>2, BookFacts
    <3>4. CASE price[i] # p
      BY <1>7, <3>2, <3>3, <3>4
    <3>5. CASE price[i] = p
      <4>1. PICK j \in 1..m : q[j] = i
        BY <3>3, <3>5 DEF Among, q, m
      <4>2. m \in Nat /\ Len(level'[p]) = m + 1
        BY <1>1, <1>8
      <4>3. level'[p][j] = i
        BY <1>8, <4>1, <4>2
      <4>4. j \in 1..Len(level'[p])
        BY <4>1, <4>2
      <4> QED BY <3>2, <3>5, <4>3, <4>4 DEF Among
    <3> QED BY <3>4, <3>5
  <2> QED BY <2>1, <2>2
<1>14. is_bid' \in BOOLEAN /\ Len(price') <= MaxOrders /\ Len(status') = Len(price')
  BY <1>1, <1>2, <1>3, <1>4, BookFacts
<1>15. \A r \in Prices : \A j \in 1..Len(level'[r]) :
          level'[r][j] \in 1..Len(price') /\ price'[level'[r][j]] = r
  BY <1>3, <1>10
<1> HIDE DEF n, id
<1> QED BY <1>3, <1>4, <1>5, <1>6, <1>7, <1>11, <1>12, <1>13, <1>14, <1>15, BookFactsNext

\* An order that leaves takes its level with it if it is the last there.
LEMMA RemoveKeeps ==
  ASSUME BookInv, NEW id \in DOMAIN price, BookRemove(id)
  PROVE  BookInv'
<1> DEFINE p == price[id]
           q == level[p]
           kept == Without(q, id)
<1>1. /\ status' = [status EXCEPT ![id] = "closed"]
      /\ level' = [level EXCEPT ![p] = kept]
      /\ prices' = WithoutLevel(p, kept)
      /\ is_bid' = is_bid /\ price' = price
  BY DEF BookRemove
<1>2. /\ p \in Prices /\ id \in 1..Len(price) /\ q \in Seq(1..MaxOrders)
      /\ \A j \in 1..Len(q) : q[j] \in 1..Len(price) /\ price[q[j]] = p
      /\ \A j, k \in 1..Len(q) : j < k => q[j] < q[k]
      /\ (q # <<>>) <=> Among(prices, p)
  <2>1. p \in Prices /\ id \in 1..Len(price)
    BY BookFacts
  <2> HIDE DEF p
  <2> QED BY <2>1, BookFacts
<1> HIDE DEF p, q
<1>3. /\ kept \in Seq(1..MaxOrders)
      /\ \A i : Among(kept, i) <=> i # id /\ Among(q, i)
      /\ \A j, k \in 1..Len(kept) : j < k => kept[j] < kept[k]
  <2>1. kept \in Seq(1..MaxOrders) /\ \A i : Among(kept, i) <=> i # id /\ Among(q, i)
    BY <1>2, WithoutAmong
  <2>2. \A j, k \in 1..Len(kept) : j < k => kept[j] < kept[k]
    BY <1>2, WithoutRises
  <2> QED BY <2>1, <2>2
<1> HIDE DEF kept
<1>4. /\ status' \in Seq({"resting", "expired", "closed", "archived"}) /\ Len(status') = Len(price)
      /\ status'[id] = "closed" /\ \A i \in 1..Len(price) : i # id => status'[i] = status[i]
  BY <1>1, <1>2, BookFacts
<1>5. /\ level' \in [Prices -> Seq(1..MaxOrders)] /\ level'[p] = kept
      /\ \A r \in Prices : r # p => level'[r] = level[r]
  BY <1>1, <1>2, <1>3, BookFacts
<1>6. /\ prices' \in Seq(Prices) /\ InOrder(prices')
      /\ \A r : Among(prices', r) <=> Among(prices, r) /\ (r = p => kept # <<>>)
  <2>1. CASE kept = <<>>
    <3>1. prices' = Without(prices, p)
      BY <1>1, <2>1 DEF WithoutLevel
    <3>2. prices \in Seq(Prices) /\ InOrder(prices)
      BY BookFacts
    <3>3. Without(prices, p) \in Seq(Prices) /\ \A r : Among(Without(prices, p), r) <=> r # p /\ Among(prices, r)
      BY <3>2, WithoutAmong
    <3>4. InOrder(Without(prices, p))
      BY <3>2, WithoutSorted
    <3> QED BY <2>1, <3>1, <3>3, <3>4
  <2>2. CASE kept # <<>>
    <3>1. prices' = prices
      BY <1>1, <2>2 DEF WithoutLevel
    <3>2. Among(prices, p)
      <4>1. PICK i : Among(kept, i)
        <5>1. Len(kept) \in Nat /\ Len(kept) # 0
          BY <1>3, <2>2
        <5>2. 1 \in 1..Len(kept)
          BY <5>1
        <5> QED BY <5>2 DEF Among
      <4>2. Among(q, i)
        BY <1>3, <4>1
      <4>3. q # <<>>
        BY <4>2 DEF Among
      <4> QED BY <1>2, <4>3
    <3> QED BY <2>2, <3>1, <3>2, BookFacts
  <2> QED BY <2>1, <2>2
<1>7. InOrder(prices)'
  BY <1>1, <1>6 DEF InOrder, MoveRight
<1>8. ASSUME NEW r \in Prices, NEW j \in 1..Len(level'[r])
      PROVE  level'[r][j] \in 1..Len(price) /\ price[level'[r][j]] = r
  <2>1. CASE r # p
    BY <1>5, <2>1, BookFacts
  <2>2. CASE r = p
    <3>1. Among(kept, kept[j])
      BY <1>5, <1>8, <2>2 DEF Among
    <3>2. PICK k \in 1..Len(q) : q[k] = kept[j]
      BY <1>3, <3>1 DEF Among
    <3> QED BY <1>2, <1>5, <2>2, <3>2
  <2> QED BY <2>1, <2>2
<1>9. ASSUME NEW r \in Prices, NEW j \in 1..Len(level'[r]), NEW k \in 1..Len(level'[r]), j < k
      PROVE  level'[r][j] < level'[r][k]
  <2>1. CASE r # p
    BY <1>5, <1>9, <2>1, BookFacts
  <2>2. CASE r = p
    BY <1>3, <1>5, <1>9, <2>2
  <2> QED BY <2>1, <2>2
<1>10. ASSUME NEW r \in Prices PROVE (level'[r] # <<>>) <=> Among(prices', r)
  <2>1. CASE r # p
    <3>1. level'[r] = level[r] /\ (level[r] # <<>> <=> Among(prices, r))
      BY <1>5, <2>1, BookFacts
    <3> QED BY <1>6, <2>1, <3>1
  <2>2. CASE r = p
    <3>1. kept # <<>> => Among(prices, p)
      <4> SUFFICES ASSUME kept # <<>> PROVE Among(prices, p)
        OBVIOUS
      <4>1. Len(kept) \in Nat /\ Len(kept) # 0
        BY <1>3
      <4>2. Among(kept, kept[1])
        BY <4>1 DEF Among
      <4>3. Among(q, kept[1])
        BY <1>3, <4>2
      <4>4. q # <<>>
        BY <4>3 DEF Among
      <4> QED BY <1>2, <4>4
    <3> QED BY <1>5, <1>6, <2>2, <3>1
  <2> QED BY <2>1, <2>2
<1>11. ASSUME NEW i \in Resting' PROVE Among(level'[price[i]], i)
  <2>1. i \in 1..Len(price) /\ i # id /\ i \in Resting /\ price[i] \in Prices
    <3>1. i \in 1..Len(price) /\ status'[i] = "resting"
      BY <1>1, BookFacts DEF Resting
    <3>2. i # id
      BY <1>4, <3>1
    <3> QED BY <1>4, <3>1, <3>2, BookFacts DEF Resting
  <2>2. Among(level[price[i]], i)
    BY <2>1, BookFacts
  <2>3. CASE price[i] = p
    BY <1>3, <1>5, <2>1, <2>2, <2>3 DEF q
  <2>4. CASE price[i] # p
    BY <1>5, <2>1, <2>2, <2>4
  <2> QED BY <2>3, <2>4
<1>12. is_bid' \in BOOLEAN /\ price' \in Seq(Prices) /\ Len(price') <= MaxOrders /\ Len(status') = Len(price')
  BY <1>1, <1>4, BookFacts
<1> QED BY <1>1, <1>4, <1>5, <1>6, <1>7, <1>8, <1>9, <1>10, <1>11, <1>12, BookFactsNext

\* Of an order that expires or is archived the book hears nothing.
LEMMA StatusKeeps ==
  ASSUME BookInv, NEW id \in DOMAIN price, NEW end \in {"expired", "archived"},
         status' = [status EXCEPT ![id] = end], UNCHANGED <<is_bid, price, prices, level>>
  PROVE  BookInv'
<1>1. id \in 1..Len(price)
  BY BookFacts
<1>2. /\ status' \in Seq({"resting", "expired", "closed", "archived"}) /\ Len(status') = Len(price)
      /\ status'[id] # "resting" /\ \A i \in 1..Len(price) : i # id => status'[i] = status[i]
  BY <1>1, BookFacts
<1>3. Resting' \subseteq Resting
  <2> SUFFICES ASSUME NEW i \in Resting' PROVE i \in Resting
    OBVIOUS
  <2>1. i \in 1..Len(price) /\ status'[i] = "resting"
    BY BookFacts DEF Resting
  <2> QED BY <1>2, <2>1, BookFacts DEF Resting
<1>4. InOrder(prices)' <=> InOrder(prices)
  BY DEF InOrder, MoveRight
<1> QED BY <1>2, <1>3, <1>4, BookFacts, BookFactsNext

\* The first order that rests at the first level where one does has priority.
LEMMA BestIs == BookInv => BestHasPriority
<1> SUFFICES ASSUME BookInv PROVE BestHasPriority
  OBVIOUS
<1> DEFINE found == {k \in DOMAIN prices : RestingAt(prices[k]) # {}}
           f == Min(found)
           p == prices[f]
           here == RestingAt(p)
           g == Min(here)
<1>1. DOMAIN prices = 1..Len(prices) /\ \A k \in 1..Len(prices) : prices[k] \in Prices
  BY BookFacts
<1>2. \A r \in Prices : DOMAIN level[r] = 1..Len(level[r]) /\ Len(level[r]) \in Nat
  BY BookFacts
<1>3. ASSUME NEW id \in Resting
      PROVE  /\ price[id] \in Prices
             /\ \E k \in found : prices[k] = price[id]
             /\ \E j \in RestingAt(price[id]) : level[price[id]][j] = id
  <2>1. id \in 1..Len(price) /\ price[id] \in Prices /\ status[id] = "resting"
    BY BookFacts DEF Resting
  <2>2. PICK j \in 1..Len(level[price[id]]) : level[price[id]][j] = id
    BY BookFacts DEF Among
  <2>3. j \in RestingAt(price[id])
    BY <1>2, <2>1, <2>2 DEF RestingAt
  <2>4. level[price[id]] # <<>>
    BY <2>2
  <2>5. PICK k \in 1..Len(prices) : prices[k] = price[id]
    BY <2>1, <2>4, BookFacts DEF Among
  <2>6. k \in found
    BY <1>1, <2>3, <2>5
  <2> QED BY <2>1, <2>2, <2>3, <2>5, <2>6
<1>4. CASE found = {}
  <2>1. BestOrderId = 0
    BY <1>4 DEF BestOrderId
  <2>2. Resting = {}
    <3> HIDE DEF found
    <3> QED BY <1>3, <1>4
  <2> QED BY <2>1, <2>2 DEF BestHasPriority
<1>5. CASE found # {}
  <2>1. f \in found /\ \A k \in found : f <= k
    <3>1. found \in SUBSET Nat
      BY <1>1
    <3> HIDE DEF found
    <3>2. \E k \in found : \A l \in found : k <= l
      BY <1>5, <3>1, LeastNatural
    <3> QED BY <3>2 DEF Min
  <2>2. f \in 1..Len(prices) /\ p \in Prices /\ here # {}
    BY <1>1, <2>1
  <2>3. BestOrderId = level[p][g]
    BY <1>5 DEF BestOrderId
  <2> HIDE DEF found, f, p
  <2>4. here \in SUBSET (1..Len(level[p])) /\ \A j \in here : status[level[p][j]] = "resting"
    BY <1>2, <2>2 DEF RestingAt
  <2> HIDE DEF here
  <2>5. g \in here /\ \A j \in here : g <= j
    <3>1. here \in SUBSET Nat
      BY <1>2, <2>2, <2>4
    <3>2. \E k \in here : \A l \in here : k <= l
      BY <2>2, <3>1, LeastNatural
    <3> QED BY <3>2 DEF Min
  <2> HIDE DEF g
  <2>6. /\ BestOrderId \in 1..Len(price) /\ price[BestOrderId] = p
        /\ BestOrderId \in Resting /\ BestOrderId # 0
    BY <1>1, <2>2, <2>3, <2>4, <2>5, BookFacts DEF Resting
  <2>7. ASSUME NEW id \in Resting \ {BestOrderId} PROVE Before(BestOrderId, id)
    <3>1. PICK k \in found : prices[k] = price[id]
      BY <1>3
    <3>2. PICK j \in RestingAt(price[id]) : level[price[id]][j] = id
      BY <1>3
    <3>3. f <= k /\ k \in 1..Len(prices)
      BY <1>1, <2>1, <3>1 DEF found
    <3>4. CASE f = k
      <4>1. price[id] = p /\ j \in here /\ level[p][j] = id
        BY <3>1, <3>2, <3>4 DEF p, here
      <4>2. g <= j /\ g # j /\ g \in 1..Len(level[p]) /\ j \in 1..Len(level[p])
        BY <2>3, <2>4, <2>5, <4>1
      <4>3. level[p][g] < level[p][j]
        BY <2>2, <4>2, BookFacts
      <4> QED BY <2>3, <2>6, <4>1, <4>3 DEF Before
    <3>5. CASE f # k
      <4>1. f < k
        BY <2>2, <3>3, <3>5
      <4>2. MoveRight(prices[k], prices[f])
        BY <2>2, <3>3, <4>1, BookFacts DEF InOrder
      <4> QED BY <2>6, <3>1, <4>2 DEF Before, p
    <3> QED BY <3>4, <3>5
  <2> QED BY <2>6, <2>7 DEF BestHasPriority
<1> QED BY <1>4, <1>5

\* Through any arrivals, cancellations, fills, expiries and archivals the levels and the
\* orders tell the same book, and the order that best_order_id finds has priority over
\* every other that could be matched.
THEOREM BookAlwaysSound == BookSpec => []BookIsSound
<1>1. BookInit => BookInv
  <2> SUFFICES ASSUME BookInit PROVE BookInv
    OBVIOUS
  <2>1. BookTypeOK /\ Len(price) <= MaxOrders /\ \A p \in Prices : level[p] = <<>>
    BY BookAssumption DEF BookInit, BookTypeOK
  <2>2. LevelsMatchOrders
    BY DEF BookInit, LevelsMatchOrders, Resting
  <2>3. InOrder(prices)
    BY DEF BookInit, InOrder
  <2> QED BY <2>1, <2>2, <2>3 DEF BookInv
<1>2. BookInv /\ [BookNext]_bookVars => BookInv'
  <2> SUFFICES ASSUME BookInv, [BookNext]_bookVars PROVE BookInv'
    OBVIOUS
  <2>1. ASSUME NEW id \in DOMAIN price, Expire(id) PROVE BookInv'
    BY <2>1, StatusKeeps DEF Expire
  <2>2. ASSUME NEW id \in DOMAIN price, Archive(id) PROVE BookInv'
    BY <2>2, StatusKeeps DEF Archive
  <2>3. CASE UNCHANGED bookVars
    BY <2>3 DEF bookVars, BookInv, BookTypeOK, LevelsMatchOrders, Resting, InOrder, MoveRight
  <2> QED BY <2>1, <2>2, <2>3, InsertKeeps, RemoveKeeps DEF BookNext
<1>3. BookInv => BookIsSound
  BY BestIs DEF BookInv, BookIsSound
<1> QED BY <1>1, <1>2, <1>3, PTL DEF BookSpec

-----------------------------------------------------------------------------
(* The command line.  Its arguments are written key by key, and parsed     *)
(* from the end: where the arguments of a key begin, the rest has been     *)
(* parsed to the options of the later keys.                                *)

\* The arguments for a key.
PartOf(o, k) ==
  IF k \notin DOMAIN o THEN <<>>
  ELSE IF o[k] = "true" THEN <<Dash(k)>> ELSE <<Dash(k), Token(o[k])>>

ArgumentsFor(o, order) == UNION {{PartOf(o, order[i])[j] : j \in DOMAIN PartOf(o, order[i])} : i \in DOMAIN order}

\* The vector as it grows.
FlattenTrace(w, o, order) ==
  /\ w[0] = <<>> /\ \A j \in 1..Len(order) : w[j] = w[j - 1] \o PartOf(o, order[j])
  /\ \A j \in 0..Len(order) : w[j] \in Seq(ArgumentsFor(o, order))
  /\ Flattened(o, order) = w[Len(order)]

\* The argument vector is written key by key.
LEMMA FlattenedRuns ==
  ASSUME NEW o, NEW K, NEW order \in Seq(K)
  PROVE  \E w : FlattenTrace(w, o, order)
<1> DEFINE n == Len(order)
           W == Seq(ArgumentsFor(o, order))
           step == [v \in W \X (1..n) |-> v[1] \o PartOf(o, order[v[2]])]
           IsUpTo(h) == h = [i \in 0..n |-> IF i = 0 THEN <<>> ELSE h[i - 1] \o PartOf(o, order[i])]
           upTo == CHOOSE h : IsUpTo(h)
<1>0. n \in Nat /\ DOMAIN order = 1..n
  OBVIOUS
<1>1. \A i \in 1..n : PartOf(o, order[i]) \in W
  <2> SUFFICES ASSUME NEW i \in 1..n PROVE PartOf(o, order[i]) \in W
    OBVIOUS
  <2> DEFINE p == PartOf(o, order[i])
  <2>1. \E m \in 0..2 : DOMAIN p = 1..m /\ p = [j \in 1..m |-> p[j]]
    BY DEF PartOf
  <2>2. \A j \in DOMAIN p : p[j] \in ArgumentsFor(o, order)
    BY <1>0 DEF ArgumentsFor
  <2> HIDE DEF p
  <2>3. p \in W
    BY <2>1, <2>2
  <2> QED BY <2>3 DEF p
<1>2. step \in [W \X (1..n) -> W] /\ <<>> \in W
  <2> HIDE DEF n
  <2>1. <<>> \in W
    OBVIOUS
  <2>2. \A a, b \in W : a \o b \in W
    OBVIOUS
  <2> HIDE DEF W
  <2> QED BY <1>1, <2>1, <2>2
<1>3. PICK h : IsTrace(h, <<>>, step, n, W)
  <2> HIDE DEF n, W, step
  <2> QED BY <1>0, <1>2, TraceExists
<1>4. IsUpTo(h)
  <2>1. /\ h \in [0..n -> W] /\ h[0] = <<>>
        /\ \A j \in 1..n : h[j] = step[<<h[j - 1], j>>]
    BY <1>3 DEF IsTrace
  <2> HIDE DEF W, n
  <2>2. \A j \in 1..n : h[j] = h[j - 1] \o PartOf(o, order[j])
    <3> SUFFICES ASSUME NEW j \in 1..n PROVE h[j] = h[j - 1] \o PartOf(o, order[j])
      OBVIOUS
    <3>1. j - 1 \in 0..n
      BY <1>0
    <3>2. h[j - 1] \in W /\ h[j] = step[<<h[j - 1], j>>]
      <4> HIDE DEF step
      <4> QED BY <2>1, <3>1
    <3> QED BY <3>2
  <2> HIDE DEF step
  <2>3. \A i \in 0..n : h[i] = IF i = 0 THEN <<>> ELSE h[i - 1] \o PartOf(o, order[i])
    <3> SUFFICES ASSUME NEW i \in 0..n
                 PROVE  h[i] = IF i = 0 THEN <<>> ELSE h[i - 1] \o PartOf(o, order[i])
      OBVIOUS
    <3>1. i = 0 \/ i \in 1..n
      BY <1>0
    <3> QED BY <2>1, <2>2, <3>1, Zenon
  <2> QED BY <2>1, <2>3
<1>5. IsUpTo(upTo)
  <2> HIDE DEF IsUpTo
  <2> QED BY <1>4
<1>6. upTo[0] = <<>> /\ \A j \in 1..n : upTo[j] = upTo[j - 1] \o PartOf(o, order[j])
  <2> HIDE DEF upTo, n
  <2> QED BY <1>0, <1>5
<1>7. Flattened(o, order) = upTo[n]
  BY Zenon DEF Flattened, PartOf
<1> HIDE DEF upTo
<1>8. \A j \in 0..n : upTo[j] \in W
  <2> DEFINE G == {j \in 0..n : upTo[j] \in W}
  <2>1. 0 \in G
    <3>1. 0 \in 0..n
      BY <1>0
    <3>2. upTo[0] \in W
      <4> HIDE DEF n, W
      <4> QED BY <1>2, <1>6
    <3> QED BY <3>1, <3>2
  <2>2. \A j \in 1..n : j - 1 \in G => j \in G
    <3> SUFFICES ASSUME NEW j \in 1..n, upTo[j - 1] \in W PROVE upTo[j] \in W
      BY <1>0
    <3>1. \A a, b \in W : a \o b \in W
      OBVIOUS
    <3> HIDE DEF W, n
    <3> QED BY <1>1, <1>6, <3>1
  <2>3. G \in SUBSET (0..n)
    OBVIOUS
  <2> HIDE DEF G, n, W
  <2>4. G = 0..n
    BY <1>0, <2>1, <2>2, <2>3, UpTo
  <2> QED BY <2>4 DEF G
<1> QED BY <1>6, <1>7, <1>8 DEF FlattenTrace

\* The arguments of each key stand where those of the key before it end.
Placed(w, o, order) ==
  /\ Flattened(o, order) \in Seq(ArgumentsFor(o, order))
  /\ \A j \in 0..Len(order) : Len(w[j]) \in 0..Len(Flattened(o, order))
  /\ \A j \in 1..Len(order) : Len(w[j]) = Len(w[j - 1]) + Len(PartOf(o, order[j]))
  /\ \A j \in 1..Len(order) : \A i \in 1..Len(PartOf(o, order[j])) :
       Flattened(o, order)[Len(w[j - 1]) + i] = PartOf(o, order[j])[i]

\* The arguments of a key stay where they were written.
LEMMA FlattenedAt ==
  ASSUME NEW o, NEW K, NEW order \in Seq(K), NEW w, FlattenTrace(w, o, order)
  PROVE  Placed(w, o, order)
<1> DEFINE m == Len(order)
           A == ArgumentsFor(o, order)
           Part(j) == PartOf(o, order[j])
<1>0. m \in Nat /\ \A j \in 1..m : j - 1 \in 0..m
  OBVIOUS
<1>1. /\ w[0] = <<>> /\ \A j \in 1..m : w[j] = w[j - 1] \o Part(j)
      /\ \A j \in 0..m : w[j] \in Seq(A)
      /\ Flattened(o, order) = w[m]
  BY DEF FlattenTrace
<1>2. \A j \in 1..m : \E n \in 0..2 : Part(j) = [i \in 1..n |-> Part(j)[i]] /\ Len(Part(j)) = n
  BY DEF PartOf
<1> HIDE DEF m, A, Part
<1>3. ASSUME NEW j \in 1..m
      PROVE  /\ Len(w[j]) = Len(w[j - 1]) + Len(Part(j)) /\ Len(Part(j)) \in Nat
             /\ \A i \in 1..Len(w[j - 1]) : w[j][i] = w[j - 1][i]
             /\ \A i \in 1..Len(Part(j)) : w[j][Len(w[j - 1]) + i] = Part(j)[i]
  <2>1. w[j - 1] \in Seq(A) /\ w[j] = w[j - 1] \o Part(j)
    BY <1>0, <1>1
  <2>2. PICK n \in 0..2 : Part(j) = [i \in 1..n |-> Part(j)[i]] /\ Len(Part(j)) = n
    BY <1>2
  <2> DEFINE a == w[j - 1]
             b == Part(j)
  <2>3. b \in Seq({b[i] : i \in 1..n}) /\ Len(b) = n
    BY <2>2
  <2>4. a \in Seq(A) /\ w[j] = a \o b
    BY <2>1
  <2> HIDE DEF a, b
  <2>5. /\ Len(a \o b) = Len(a) + Len(b) /\ Len(b) \in Nat
        /\ \A i \in 1..Len(a) : (a \o b)[i] = a[i]
        /\ \A i \in 1..Len(b) : (a \o b)[Len(a) + i] = b[i]
    BY <2>3, <2>4
  <2> QED BY <2>4, <2>5 DEF a, b
<1> DEFINE Starts(l) == \A j \in 0..l : Len(w[j]) <= Len(w[l]) /\ \A i \in 1..Len(w[j]) : w[l][i] = w[j][i]
           G == {l \in 0..m : Starts(l)}
<1>4. \A j \in 0..m : Len(w[j]) \in Nat
  BY <1>1
<1>5. G = 0..m
  <2>1. 0 \in G
    BY <1>0, <1>4
  <2>2. ASSUME NEW l \in 1..m, l - 1 \in G PROVE l \in G
    <3>1. ASSUME NEW j \in 0..l
          PROVE  Len(w[j]) <= Len(w[l]) /\ \A i \in 1..Len(w[j]) : w[l][i] = w[j][i]
      <4>1. CASE j = l
        BY <1>0, <1>4, <4>1
      <4>2. CASE j # l
        <5>1. j \in 0..(l - 1) /\ j \in 0..m /\ l - 1 \in 0..m
          BY <1>0, <4>2
        <5>2. Len(w[j]) <= Len(w[l - 1]) /\ \A i \in 1..Len(w[j]) : w[l - 1][i] = w[j][i]
          BY <2>2, <5>1
        <5>3. Len(w[j]) \in Nat /\ Len(w[l - 1]) \in Nat
          BY <1>4, <5>1
        <5> HIDE DEF G, Starts
        <5> QED BY <1>3, <5>2, <5>3
      <4> QED BY <4>1, <4>2
    <3> QED BY <1>0, <3>1
  <2> HIDE DEF Starts
  <2>3. G \in SUBSET (0..m)
    OBVIOUS
  <2> HIDE DEF G
  <2> QED BY <1>0, <2>1, <2>2, <2>3, UpTo
<1>6. Starts(m)
  <2>1. m \in G
    <3> HIDE DEF G
    <3> QED BY <1>0, <1>5
  <2> QED BY <2>1
<1>7. ASSUME NEW j \in 0..m PROVE Len(w[j]) \in 0..Len(w[m])
  BY <1>0, <1>4, <1>6
<1>8. ASSUME NEW j \in 1..m, NEW i \in 1..Len(Part(j))
      PROVE  w[m][Len(w[j - 1]) + i] = Part(j)[i]
  <2>1. Len(w[j - 1]) \in Nat /\ Len(w[j]) = Len(w[j - 1]) + Len(Part(j)) /\ Len(Part(j)) \in Nat
        /\ w[j][Len(w[j - 1]) + i] = Part(j)[i]
    BY <1>0, <1>3, <1>4
  <2>2. Len(w[j - 1]) + i \in 1..Len(w[j]) /\ j \in 0..m
    BY <1>0, <2>1
  <2> QED BY <1>6, <2>1, <2>2
<1>9. Flattened(o, order) \in Seq(A)
  BY <1>0, <1>1
<1> QED BY <1>1, <1>3, <1>7, <1>8, <1>9 DEF m, A, Part, Placed

\* What is parsed from the i-th argument on.
ParsedFrom(as, h, i) ==
  IF i > Len(as) THEN NoOptions
  ELSE IF ~as[i].dash THEN h[i + 1]
  ELSE IF i < Len(as) /\ ~as[i + 1].dash THEN With(h[i + 2], as[i].name, as[i + 1].name)
  ELSE With(h[i + 1], as[i].name, "true")

\* The argument vector is parsed from its end.
LEMMA ParsedRuns ==
  ASSUME NEW A, NEW as \in Seq(A)
  PROVE  \E h : /\ \A i \in 1..(Len(as) + 2) : h[i] = ParsedFrom(as, h, i)
                /\ Parsed(as) = h[1]
<1> DEFINE n == Len(as)
           S == 1..(n + 2)
           Upto1(d) == \E h : /\ h = [i \in S |-> h[i]]
                              /\ \A i \in S : i > n - d => h[i] = ParsedFrom(as, h, i)
           G == {d \in 0..n : Upto1(d)}
<1>a. n = Len(as)
  OBVIOUS
<1>0. n \in Nat
  BY LenProperties, <1>a
<1> HIDE DEF n
<1>1. 0 \in G
  <2> DEFINE h == [i \in S |-> NoOptions]
  <2>1. h = [i \in S |-> h[i]] /\ \A i \in S : i > n - 0 => h[i] = ParsedFrom(as, h, i)
    BY <1>0, <1>a DEF ParsedFrom
  <2> HIDE DEF h
  <2>2. Upto1(0)
    BY <2>1
  <2> HIDE DEF Upto1
  <2> QED BY <1>0, <2>2
<1>2. ASSUME NEW d \in 1..n, d - 1 \in G PROVE d \in G
  <2>1. PICK h : /\ h = [i \in S |-> h[i]]
                 /\ \A i \in S : i > n - (d - 1) => h[i] = ParsedFrom(as, h, i)
    BY <1>2
  <2> DEFINE k == n - d + 1
             g == [i \in S |-> IF i = k THEN ParsedFrom(as, h, k) ELSE h[i]]
  <2>2. k \in 1..n /\ k \in S /\ k \in Int /\ d \in Int /\ k = n - d + 1
    BY <1>0
  <2> HIDE DEF k
  <2>3. ASSUME NEW i \in S, i > n - d PROVE g[i] = ParsedFrom(as, g, i)
    <3>1. g[i] = ParsedFrom(as, h, i)
      <4>1. i = k \/ i > n - (d - 1)
        BY <1>0, <2>2, <2>3
      <4>2. g[i] = IF i = k THEN ParsedFrom(as, h, k) ELSE h[i]
        OBVIOUS
      <4> HIDE DEF g
      <4> QED BY <2>1, <4>1, <4>2
    <3>2. ParsedFrom(as, g, i) = ParsedFrom(as, h, i)
      <4>1. CASE i > n
        BY <1>a, <4>1 DEF ParsedFrom
      <4>2. CASE ~(i > n)
        <5>1. i + 1 \in S /\ i + 2 \in S /\ i + 1 # k /\ i + 2 # k
          BY <1>0, <2>2, <2>3, <4>2
        <5>2. g[i + 1] = h[i + 1] /\ g[i + 2] = h[i + 2]
          BY <5>1
        <5> HIDE DEF g
        <5> QED BY <1>a, <5>2 DEF ParsedFrom
      <4> QED BY <4>1, <4>2
    <3> QED BY <3>1, <3>2
  <2>4. g = [i \in S |-> g[i]]
    OBVIOUS
  <2> HIDE DEF g
  <2>5. Upto1(d)
    BY <2>3, <2>4
  <2> HIDE DEF Upto1
  <2> QED BY <2>5
<1>3. G = 0..n
  <2>1. G \in SUBSET (0..n)
    OBVIOUS
  <2> HIDE DEF G
  <2> QED BY <1>0, <1>1, <1>2, <2>1, UpTo
<1>4. PICK h : h = [i \in S |-> h[i]] /\ \A i \in S : i > n - n => h[i] = ParsedFrom(as, h, i)
  <2>1. n \in G
    <3> HIDE DEF G
    <3> QED BY <1>0, <1>3
  <2> QED BY <2>1
<1> DEFINE IsFrom(f) == f = [i \in 1..Len(as) + 2 |->
                               IF i > Len(as) THEN NoOptions
                               ELSE IF ~as[i].dash THEN f[i + 1]
                               ELSE IF i < Len(as) /\ ~as[i + 1].dash
                                    THEN With(f[i + 2], as[i].name, as[i + 1].name)
                               ELSE With(f[i + 1], as[i].name, "true")]
           from == CHOOSE f : IsFrom(f)
<1>5. IsFrom(h)
  <2>1. \A i \in S : h[i] = ParsedFrom(as, h, i)
    <3>1. \A i \in S : i > n - n
      BY <1>0
    <3> HIDE DEF S
    <3> QED BY <1>4, <3>1, Zenon
  <2>2. h = [i \in S |-> ParsedFrom(as, h, i)]
    <3> HIDE DEF S
    <3> QED BY <1>4, <2>1
  <2> QED BY <1>a, <2>2, Zenon DEF ParsedFrom
<1>6. IsFrom(from)
  <2> HIDE DEF IsFrom
  <2> QED BY <1>5
<1>7. Parsed(as) = from[1]
  BY Zenon DEF Parsed
<1>8. \A i \in S : from[i] = ParsedFrom(as, from, i)
  <2> HIDE DEF from
  <2> QED BY <1>a, <1>6 DEF ParsedFrom
<1> HIDE DEF from
<1> QED BY <1>a, <1>7, <1>8
-----------------------------------------------------------------------------
(* A reason that begins with dashes is read as a flag, and may take the      *)
(* place of the option it names; of all other options what was written is    *)
(* what is read.                                                             *)
IsDashed(v) == v \in DOMAIN Dashed
Odd(o) ==
  IF "reason" \in DOMAIN o /\ IsDashed(o["reason"]) THEN {"reason", Dashed[o["reason"]]} ELSE {}

\* p has the options of o among the keys in S, and no others but odd ones.
SameOptions(p, o, S) ==
  \A x : x \notin Odd(o) =>
    /\ x \in DOMAIN p <=> x \in DOMAIN o /\ x \in S
    /\ x \in DOMAIN p => p[x] = o[x]

KeysFrom(order, l) == {order[j] : j \in l..Len(order)}

\* One more option is read.
LEMMA AgreesWith ==
  ASSUME NEW p, NEW o, NEW S, SameOptions(p, o, S), NEW key, NEW v,
         key \in Odd(o) \/ (key \in DOMAIN o /\ v = o[key])
  PROVE  SameOptions(With(p, key, v), o, S \cup {key})
<1> SUFFICES ASSUME NEW x, x \notin Odd(o)
             PROVE  /\ x \in DOMAIN With(p, key, v) <=> x \in DOMAIN o /\ x \in S \cup {key}
                    /\ x \in DOMAIN With(p, key, v) => With(p, key, v)[x] = o[x]
  BY DEF SameOptions
<1>1. /\ x \in DOMAIN p <=> x \in DOMAIN o /\ x \in S
      /\ x \in DOMAIN p => p[x] = o[x]
  BY DEF SameOptions
<1>2. /\ DOMAIN With(p, key, v) = DOMAIN p \cup {key}
      /\ \A k \in DOMAIN p \cup {key} : With(p, key, v)[k] = IF k \in DOMAIN p THEN p[k] ELSE v
  BY DEF With
<1> QED BY <1>1, <1>2

\* Keys without an option, and odd keys, make no difference.
LEMMA AgreesBut ==
  ASSUME NEW p, NEW o, NEW S, NEW T, SameOptions(p, o, S),
         \A x : x \notin Odd(o) /\ x \in DOMAIN o => (x \in S <=> x \in T)
  PROVE  SameOptions(p, o, T)
BY DEF SameOptions

\* n is the length of s.
HasLength(s, n) == n = Len(s)

\* h is what is parsed of the N arguments, from each on.
ReadFrom(as, N, h) == HasLength(as, N) /\ \A i \in 1..(N + 2) : h[i] = ParsedFrom(as, h, i)

\* The arguments for a key are the `size` ones from the p-th on.
StandsAt(as, o, key, p, size) ==
  HasLength(PartOf(o, key), size) /\ \A i \in 1..size : as[p - 1 + i] = PartOf(o, key)[i]

\* What is written for one key is read as its option.
LEMMA PartIsRead ==
  ASSUME NEW as, NEW N \in Nat, NEW h, ReadFrom(as, N, h),
         NEW o, NEW key, NEW S, key \in DOMAIN o /\ IsDashed(o[key]) => key = "reason",
         NEW p \in Int, p >= 1, NEW size \in Int, p + size <= N + 1, StandsAt(as, o, key, p, size),
         p + size = N + 1 \/ as[p + size].dash, SameOptions(h[p + size], o, S)
  PROVE  (p = N + 1 \/ as[p].dash) /\ SameOptions(h[p], o, S \cup {key})
<1> DEFINE v == o[key]
<1>a. HasLength(PartOf(o, key), size) /\ \A i \in 1..size : as[p - 1 + i] = PartOf(o, key)[i]
  BY DEF StandsAt
<1>b. HasLength(as, N) /\ \A i \in 1..(N + 2) : h[i] = ParsedFrom(as, h, i)
  BY DEF ReadFrom
<1>1. CASE key \notin DOMAIN o
  <2>1. size = 0
    BY <1>1, <1>a, <1>b DEF PartOf, HasLength
  <2>2. p + size = p
    BY <2>1
  <2>3. SameOptions(h[p], o, S \cup {key})
    BY <1>1, <2>2, AgreesBut
  <2> QED BY <2>2, <2>3
<1>2. CASE key \in DOMAIN o /\ v = "true"
  <2>1. PartOf(o, key) = <<Dash(key)>>
    BY <1>2 DEF PartOf
  <2>2. size = 1 /\ PartOf(o, key)[1] = Dash(key)
    BY <2>1, <1>a DEF HasLength
  <2>3. p - 1 + 1 = p /\ p \in 1..N /\ p \in 1..(N + 2) /\ p + size = p + 1 /\ ~(p > N) /\ (p + 1 = N + 1 => ~(p < N))
    BY <2>2
  <2>4. as[p] = Dash(key)
    <3>1. 1 \in 1..size
      BY <2>2
    <3>2. as[p - 1 + 1] = Dash(key)
      BY <1>a, <2>2, <3>1, Zenon
    <3> QED BY <2>3, <3>2, Zenon
  <2>5. as[p].dash /\ as[p].name = key
    BY <2>4 DEF Dash
  <2>6. ~(p < N /\ ~as[p + 1].dash)
    BY <2>3
  <2>7. h[p] = ParsedFrom(as, h, p)
    BY <1>b, <2>3
  <2>8. h[p] = With(h[p + 1], key, "true")
    BY <2>3, <2>5, <2>6, <2>7, <1>a, <1>b DEF ParsedFrom, HasLength
  <2>9. SameOptions(h[p + 1], o, S)
    BY <2>3
  <2>10. SameOptions(h[p], o, S \cup {key})
    BY <1>2, <2>8, <2>9, AgreesWith
  <2> QED BY <2>5, <2>10
<1>3. CASE key \in DOMAIN o /\ v # "true" /\ ~IsDashed(v)
  <2>1. PartOf(o, key) = <<Dash(key), Word(v)>>
    BY <1>3 DEF PartOf, Token, IsDashed
  <2>2. size = 2 /\ PartOf(o, key)[1] = Dash(key) /\ PartOf(o, key)[2] = Word(v)
    BY <2>1, <1>a DEF HasLength
  <2>3. p - 1 + 1 = p /\ p - 1 + 2 = p + 1 /\ p < N /\ p \in 1..(N + 2) /\ p + size = p + 2 /\ ~(p > N)
    BY <2>2
  <2>4. as[p] = Dash(key) /\ as[p + 1] = Word(v)
    <3>1. 1 \in 1..size /\ 2 \in 1..size
      BY <2>2
    <3>2. as[p - 1 + 1] = Dash(key) /\ as[p - 1 + 2] = Word(v)
      BY <1>a, <2>2, <3>1, Zenon
    <3> QED BY <2>3, <3>2, Zenon
  <2>5. as[p].dash /\ as[p].name = key /\ ~as[p + 1].dash /\ as[p + 1].name = v
    BY <2>4 DEF Dash, Word
  <2>7. h[p] = ParsedFrom(as, h, p)
    BY <1>b, <2>3
  <2>8. h[p] = With(h[p + 2], key, v)
    BY <2>3, <2>5, <2>7, <1>a, <1>b DEF ParsedFrom, HasLength
  <2>9. SameOptions(h[p + 2], o, S)
    BY <2>3
  <2>10. SameOptions(h[p], o, S \cup {key})
    BY <1>3, <2>8, <2>9, AgreesWith
  <2> QED BY <2>5, <2>10
<1>4. CASE key \in DOMAIN o /\ v # "true" /\ IsDashed(v)
  <2> DEFINE named == Dashed[v]
  <2>0. key = "reason" /\ Odd(o) = {"reason", named}
    BY <1>4 DEF Odd
  <2>f. Token(v) = Dash(named)
    BY <1>4 DEF Token, IsDashed
  <2> HIDE DEF named
  <2>1. PartOf(o, key) = <<Dash(key), Dash(named)>>
    BY <1>4, <2>f DEF PartOf
  <2>2. size = 2 /\ PartOf(o, key)[1] = Dash(key) /\ PartOf(o, key)[2] = Dash(named)
    BY <2>1, <1>a DEF HasLength
  <2>3. /\ p - 1 + 1 = p /\ p - 1 + 2 = p + 1 /\ p \in 1..(N + 2) /\ p + 1 \in 1..(N + 2) /\ p + size = p + 2
        /\ ~(p > N) /\ ~(p + 1 > N) /\ p + 1 + 1 = p + 2 /\ (p + 2 = N + 1 => ~(p + 1 < N))
    BY <2>2
  <2>4. as[p] = Dash(key) /\ as[p + 1] = Dash(named)
    <3>1. 1 \in 1..size /\ 2 \in 1..size
      BY <2>2
    <3>2. as[p - 1 + 1] = Dash(key) /\ as[p - 1 + 2] = Dash(named)
      BY <1>a, <2>2, <3>1, Zenon
    <3> QED BY <2>3, <3>2, Zenon
  <2>5. as[p].dash /\ as[p].name = key /\ as[p + 1].dash /\ as[p + 1].name = named
    BY <2>4 DEF Dash
  <2>6. ~(p + 1 < N /\ ~as[p + 1 + 1].dash)
    BY <2>3
  <2>7. h[p] = ParsedFrom(as, h, p) /\ h[p + 1] = ParsedFrom(as, h, p + 1)
    BY <1>b, <2>3
  <2>8. h[p] = With(h[p + 1], key, "true")
    BY <2>3, <2>5, <2>7, <1>a, <1>b DEF ParsedFrom, HasLength
  <2>9. h[p + 1] = With(h[p + 2], named, "true")
    BY <2>3, <2>5, <2>6, <2>7, <1>a, <1>b DEF ParsedFrom, HasLength
  <2>10. SameOptions(h[p + 2], o, S)
    BY <2>3
  <2>11. SameOptions(h[p + 1], o, S \cup {named})
    BY <2>0, <2>9, <2>10, AgreesWith
  <2>12. SameOptions(h[p], o, (S \cup {named}) \cup {key})
    BY <1>4, <2>0, <2>8, <2>11, AgreesWith
  <2>13. SameOptions(h[p], o, S \cup {key})
    BY <2>0, <2>12, AgreesBut
  <2> QED BY <2>5, <2>13
<1> QED BY <1>1, <1>2, <1>3, <1>4

\* What was confirmed is what is read.
LEMMA RoundTrip ==
  ASSUME NEW o, NEW K, NEW order \in Seq(K),
         \A k \in DOMAIN o : IsDashed(o[k]) => k = "reason"
  PROVE  SameOptions(Parsed(Flattened(o, order)), o, KeysFrom(order, 1))
<1> DEFINE m == Len(order)
           as == Flattened(o, order)
           N == Len(as)
<1>1. PICK w : FlattenTrace(w, o, order)
  BY FlattenedRuns
<1>p. Placed(w, o, order)
  BY <1>1, FlattenedAt
<1>2. as \in Seq(ArgumentsFor(o, order)) /\ N \in Nat /\ m \in Nat
  BY <1>p, LenProperties DEF Placed
<1>3. PICK h : /\ \A i \in 1..(N + 2) : h[i] = ParsedFrom(as, h, i)
               /\ Parsed(as) = h[1]
  BY <1>2, ParsedRuns
<1> DEFINE end == [j \in 0..m |-> Len(w[j])]
           size == [j \in 1..m |-> Len(PartOf(o, order[j]))]
           Read(l) == /\ end[l] + 1 = N + 1 \/ as[end[l] + 1].dash
                      /\ SameOptions(h[end[l] + 1], o, KeysFrom(order, l + 1))
<1>4. \A j \in 0..m : Len(w[j]) \in 0..N
  BY <1>p DEF Placed
<1>5. \A j \in 1..m : Len(w[j]) = Len(w[j - 1]) + Len(PartOf(o, order[j]))
  BY <1>p DEF Placed
<1>6. \A j \in 1..m : \A i \in 1..Len(PartOf(o, order[j])) : as[Len(w[j - 1]) + i] = PartOf(o, order[j])[i]
  BY <1>p DEF Placed
<1>7. Len(w[0]) = 0 /\ Len(w[m]) = N
  BY <1>1 DEF FlattenTrace
<1>8. \A j \in 1..m : j - 1 \in 0..m
  BY <1>2
<1>9. end[0] = 0 /\ end[m] = N /\ \A j \in 0..m : end[j] \in 0..N
  BY <1>2, <1>4, <1>7
<1>10. \A j \in 1..m : size[j] \in Nat /\ size[j] = Len(PartOf(o, order[j]))
  <2>1. \A j \in 1..m : Len(PartOf(o, order[j])) \in Nat
    BY DEF PartOf
  <2> HIDE DEF m
  <2> QED BY <2>1
<1>11. \A j \in 1..m : end[j] = end[j - 1] + size[j]
  <2> SUFFICES ASSUME NEW j \in 1..m PROVE end[j] = end[j - 1] + size[j]
    OBVIOUS
  <2>1. Len(w[j]) = Len(w[j - 1]) + Len(PartOf(o, order[j]))
    BY <1>5
  <2>2. j \in 0..m /\ j - 1 \in 0..m
    BY <1>2, <1>8
  <2> HIDE DEF m
  <2>3. end[j] = Len(w[j]) /\ end[j - 1] = Len(w[j - 1]) /\ size[j] = Len(PartOf(o, order[j]))
    BY <2>2
  <2> HIDE DEF end, size
  <2> QED BY <2>1, <2>3, Zenon
<1>12. \A j \in 1..m : \A i \in 1..size[j] : as[end[j - 1] + i] = PartOf(o, order[j])[i]
  <2> HIDE DEF m, as
  <2> QED BY <1>6, <1>8, <1>10
<1>13. KeysFrom(order, m + 1) = {}
  BY <1>2 DEF KeysFrom
<1>14. \A j \in 1..m : KeysFrom(order, j) = KeysFrom(order, j + 1) \cup {order[j]}
  <2> SUFFICES ASSUME NEW j \in 1..m PROVE KeysFrom(order, j) = KeysFrom(order, j + 1) \cup {order[j]}
    OBVIOUS
  <2>1. j..m = {j} \cup ((j + 1)..m)
    BY <1>2
  <2> QED BY <2>1 DEF KeysFrom
<1>15. HasLength(as, N)
  BY DEF HasLength
<1> HIDE DEF m, as, N, end, size
<1>16. Read(m)
  <2>1. h[N + 1] = NoOptions
    <3>1. N + 1 \in 1..(N + 2) /\ N + 1 > N
      BY <1>2
    <3>2. h[N + 1] = ParsedFrom(as, h, N + 1)
      BY <1>3, <3>1
    <3> QED BY <1>15, <3>1, <3>2 DEF ParsedFrom, HasLength
  <2>2. SameOptions(NoOptions, o, {})
    BY DEF SameOptions, NoOptions
  <2> QED BY <1>9, <1>13, <2>1, <2>2
<1>17. ASSUME NEW l \in 1..m, Read(l) PROVE Read(l - 1)
  <2> DEFINE p == end[l - 1] + 1
             s == size[l]
  <2>1. l - 1 \in 0..m /\ l \in 0..m
    BY <1>2
  <2>2. p \in Int /\ p >= 1 /\ s \in Int /\ p + s = end[l] + 1 /\ p + s <= N + 1 /\ p - 1 = end[l - 1]
    <3>1. end[l - 1] \in 0..N /\ end[l] \in 0..N
      BY <1>9, <2>1
    <3>2. size[l] \in Nat /\ end[l] = end[l - 1] + size[l]
      BY <1>10, <1>11, Zenon
    <3> QED BY <1>2, <3>1, <3>2
  <2>3. HasLength(PartOf(o, order[l]), s) /\ \A i \in 1..s : as[p - 1 + i] = PartOf(o, order[l])[i]
    <3> HIDE DEF p
    <3> QED BY <1>10, <1>12, <2>2 DEF HasLength
  <2>4. (p + s = N + 1 \/ as[p + s].dash) /\ SameOptions(h[p + s], o, KeysFrom(order, l + 1))
    <3> HIDE DEF p, s
    <3> QED BY <1>17, <2>2
  <2>5. order[l] \in DOMAIN o /\ IsDashed(o[order[l]]) => order[l] = "reason"
    OBVIOUS
  <2> HIDE DEF p, s
  <2>6. (p = N + 1 \/ as[p].dash) /\ SameOptions(h[p], o, KeysFrom(order, l + 1) \cup {order[l]})
    <3> DEFINE key == order[l]
               S == KeysFrom(order, l + 1)
    <3>1. ReadFrom(as, N, h)
      BY <1>3, <1>15 DEF ReadFrom
    <3> HIDE DEF key, S
    <3>2. /\ key \in DOMAIN o /\ IsDashed(o[key]) => key = "reason"
          /\ StandsAt(as, o, key, p, s)
          /\ (p + s = N + 1 \/ as[p + s].dash) /\ SameOptions(h[p + s], o, S)
      BY <2>3, <2>4, <2>5 DEF key, S, StandsAt
    <3>3. (p = N + 1 \/ as[p].dash) /\ SameOptions(h[p], o, S \cup {key})
      BY <1>2, <2>2, <3>1, <3>2, PartIsRead
    <3> QED BY <3>3 DEF key, S
  <2>7. KeysFrom(order, (l - 1) + 1) = KeysFrom(order, l + 1) \cup {order[l]}
    <3>1. (l - 1) + 1 = l
      BY <1>2
    <3> QED BY <1>14, <3>1
  <2> QED BY <2>6, <2>7 DEF p
<1>18. Read(0)
  <2> DEFINE G == {d \in 0..m : Read(m - d)}
  <2>1. 0 \in G
    <3>1. m - 0 = m /\ 0 \in 0..m
      BY <1>2
    <3> HIDE DEF Read
    <3> QED BY <1>16, <3>1
  <2>2. ASSUME NEW d \in 1..m, d - 1 \in G PROVE d \in G
    <3>1. m - (d - 1) \in 1..m /\ m - (d - 1) - 1 = m - d /\ d \in 0..m
      BY <1>2
    <3> HIDE DEF Read
    <3>2. Read(m - (d - 1))
      BY <2>2
    <3>3. Read(m - d)
      BY <1>17, <3>1, <3>2
    <3> QED BY <3>1, <3>3
  <2>3. G \in SUBSET (0..m)
    OBVIOUS
  <2>4. G = 0..m
    <3> HIDE DEF G
    <3> QED BY <1>2, <2>1, <2>2, <2>3, UpTo
  <2>5. m \in G /\ m - m = 0
    <3> HIDE DEF G
    <3> QED BY <1>2, <2>4
  <2> HIDE DEF Read
  <2> QED BY <2>5
<1>19. SameOptions(h[1], o, KeysFrom(order, 1))
  <2>1. end[0] + 1 = 1 /\ 0 + 1 = 1
    BY <1>9
  <2> QED BY <1>18, <2>1
<1> QED BY <1>3, <1>19 DEF as
-----------------------------------------------------------------------------
(* The stages of the command line.                                         *)
Commands == {"create-pool", "liquidate"}
Questions(c) == IF c = "create-pool" THEN 8 ELSE 7
CliKeys(c) == {Prompts[c][i] : i \in 1..Questions(c)}

\* The questions and the options they fill have the same keys.
LEMMA SameKeys ==
  ASSUME NEW c \in Commands
  PROVE  /\ Len(Prompts[c]) = Questions(c) /\ Len(OptionOrder[c]) = Questions(c) /\ OptionOrder[c] \in Seq(CliKeys(c))
         /\ \A i, j \in 1..Questions(c) : Prompts[c][i] = Prompts[c][j] => i = j
         /\ KeysFrom(OptionOrder[c], 1) = CliKeys(c)
<1>1. CASE c = "create-pool"
  <2>1. /\ Prompts[c] = <<"network", "secret", "asset-a", "asset-b", "amount-a", "amount-b", "fee", "slippage">>
        /\ OptionOrder[c] = <<"asset-a", "asset-b", "amount-a", "amount-b", "fee", "secret", "network", "slippage">>
    BY <1>1, Zenon DEF Prompts, OptionOrder
  <2> DEFINE p == Prompts[c]
             q == OptionOrder[c]
  <2>2. Len(p) = 8 /\ Len(q) = 8
    <3>1. Len(p) = 8
      BY <2>1
    <3>2. Len(q) = 8
      BY <2>1
    <3> QED BY <3>1, <3>2
  <2>s. q \in Seq({"asset-a", "asset-b", "amount-a", "amount-b", "fee", "secret", "network", "slippage"})
    BY <2>1
  <2>3. p[1] = "network" /\ p[2] = "secret" /\ p[3] = "asset-a" /\ p[4] = "asset-b" /\ p[5] = "amount-a"
        /\ p[6] = "amount-b" /\ p[7] = "fee" /\ p[8] = "slippage"
    BY <2>1
  <2>4. q[1] = "asset-a" /\ q[2] = "asset-b" /\ q[3] = "amount-a" /\ q[4] = "amount-b" /\ q[5] = "fee"
        /\ q[6] = "secret" /\ q[7] = "network" /\ q[8] = "slippage"
    BY <2>1
  <2>6. KeysFrom(q, 1) = {q[i] : i \in 1..8}
    BY <2>2 DEF KeysFrom
  <2>5. \A i \in 1..8 : i \in {1, 2, 3, 4, 5, 6, 7, 8}
    OBVIOUS
  <2> HIDE DEF p, q
  <2>7. \A i, j \in 1..8 : p[i] = p[j] => i = j
    BY <2>3, <2>5
  <2>8. {q[i] : i \in 1..8} = {p[i] : i \in 1..8} /\ {q[i] : i \in 1..8} = {"asset-a", "asset-b", "amount-a", "amount-b", "fee", "secret", "network", "slippage"}
    <3>1. {q[i] : i \in 1..8} = {q[1], q[2], q[3], q[4], q[5], q[6], q[7], q[8]}
      OBVIOUS
    <3>2. {p[i] : i \in 1..8} = {p[1], p[2], p[3], p[4], p[5], p[6], p[7], p[8]}
      OBVIOUS
    <3> QED BY <2>3, <2>4, <3>1, <3>2
  <2>9. Questions(c) = 8
    BY <1>1 DEF Questions
  <2> QED BY <2>2, <2>s, <2>6, <2>7, <2>8, <2>9 DEF p, q, CliKeys
<1>2. CASE c = "liquidate"
  <2>1. /\ Prompts[c] = <<"network", "secret", "asset-id", "custody-validator", "evidence-hash", "reason", "force">>
        /\ OptionOrder[c] = <<"asset-id", "custody-validator", "secret", "reason", "evidence-hash", "network", "force">>
    BY <1>2, Zenon DEF Prompts, OptionOrder
  <2> DEFINE p == Prompts[c]
             q == OptionOrder[c]
  <2>2. Len(p) = 7 /\ Len(q) = 7
    <3>1. Len(p) = 7
      BY <2>1
    <3>2. Len(q) = 7
      BY <2>1
    <3> QED BY <3>1, <3>2
  <2>s. q \in Seq({"asset-id", "custody-validator", "secret", "reason", "evidence-hash", "network", "force"})
    BY <2>1
  <2>3. p[1] = "network" /\ p[2] = "secret" /\ p[3] = "asset-id" /\ p[4] = "custody-validator"
        /\ p[5] = "evidence-hash" /\ p[6] = "reason" /\ p[7] = "force"
    BY <2>1
  <2>4. q[1] = "asset-id" /\ q[2] = "custody-validator" /\ q[3] = "secret" /\ q[4] = "reason"
        /\ q[5] = "evidence-hash" /\ q[6] = "network" /\ q[7] = "force"
    BY <2>1
  <2>6. KeysFrom(q, 1) = {q[i] : i \in 1..7}
    BY <2>2 DEF KeysFrom
  <2>5. \A i \in 1..7 : i \in {1, 2, 3, 4, 5, 6, 7}
    OBVIOUS
  <2> HIDE DEF p, q
  <2>7. \A i, j \in 1..7 : p[i] = p[j] => i = j
    BY <2>3, <2>5
  <2>8. {q[i] : i \in 1..7} = {p[i] : i \in 1..7} /\ {q[i] : i \in 1..7} = {"asset-id", "custody-validator", "secret", "reason", "evidence-hash", "network", "force"}
    <3>1. {q[i] : i \in 1..7} = {q[1], q[2], q[3], q[4], q[5], q[6], q[7]}
      OBVIOUS
    <3>2. {p[i] : i \in 1..7} = {p[1], p[2], p[3], p[4], p[5], p[6], p[7]}
      OBVIOUS
    <3> QED BY <2>3, <2>4, <3>1, <3>2
  <2>9. Questions(c) = 7
    BY <1>2 DEF Questions
  <2> QED BY <2>2, <2>s, <2>6, <2>7, <2>8, <2>9 DEF p, q, CliKeys
<1> QED BY <1>1, <1>2 DEF Commands

\* Only the reason is free text.
LEMMA OnlyReasonIsFree ==
  ASSUME NEW c \in Commands, NEW k \in CliKeys(c), NEW v \in Validated(k), IsDashed(v)
  PROVE  k = "reason"
<1>1. CASE k \in {"asset-a", "asset-b"}
  BY <1>1, DashedAssumption DEF Validated, IsDashed
<1>2. CASE k \notin {"asset-a", "asset-b"}
  <2>1. v \in PlainTexts \/ k = "reason"
    BY <1>2 DEF Validated, PlainTexts
  <2> QED BY <2>1, DashedAssumption DEF IsDashed
<1> QED BY <1>1, <1>2
CliStages == {"start", "asking", "confirming", "running", "cancelled", "exited", "create-pool", "liquidate",
              "claiming", "submitting", "refused", "done"}
CliTyped ==
  cli \in [stage : CliStages, command : {"none"} \cup Commands, guided : BOOLEAN, backed : BOOLEAN]

\* Before the runner has read its arguments there are no options, and nothing is sent.
NothingYet ==
  cli.stage \in {"start", "asking", "confirming", "running", "cancelled"} => options = NoOptions /\ sent = <<>>

\* The questions are asked in order, and every answer has passed its validator.
AnswersValid ==
  cli.stage \in {"asking", "confirming"} =>
    /\ cli.command \in Commands
    /\ \A k \in DOMAIN typed : k \in CliKeys(cli.command) /\ typed[k] \in Validated(k)
AskedInOrder ==
  /\ cli.stage = "start" => typed = NoOptions
  /\ cli.stage = "asking" =>
       /\ IsFiniteSet(DOMAIN typed) /\ Cardinality(DOMAIN typed) \in 0..(Questions(cli.command) - 1)
       /\ DOMAIN typed = {Prompts[cli.command][i] : i \in 1..Cardinality(DOMAIN typed)}

\* The runner is given what was typed or confirmed, written as arguments.
RunnerHas(c, o, as) ==
  /\ c \in Commands /\ as = Flattened(o, OptionOrder[c]) /\ DOMAIN o \subseteq CliKeys(c)
  /\ \A k \in DOMAIN o : IsDashed(o[k]) => k = "reason"
ArgumentsAreTyped == cli.stage = "running" => RunnerHas(cli.command, typed, args)

\* What was read from them is what was typed, but for the odd keys.
OptionsAreTyped == options # NoOptions => SameOptions(options, typed, DOMAIN typed)

\* A runner works on its own command, and a pool's has all it requires.
OwnRunner ==
  /\ cli.stage = "create-pool" =>
       /\ cli.command = "create-pool" /\ Required["create-pool"] \subseteq DOMAIN options /\ sent = <<>>
       /\ "reason" \notin DOMAIN typed
  /\ cli.stage \in {"liquidate", "claiming"} => cli.command = "liquidate"

CliInv ==
  /\ CliTyped /\ NothingYet /\ AnswersValid /\ AskedInOrder
  /\ ArgumentsAreTyped /\ OptionsAreTyped /\ OwnRunner /\ PoolGetsWhatWasTyped

\* One stage is entered, and nothing else in cli changes.
LEMMA CliGoesTo ==
  ASSUME NEW next \in CliStages, CliTyped, CliGoes(next)
  PROVE  /\ CliTyped' /\ cli'.stage = next /\ cli'.command = cli.command
BY DEF CliTyped, CliGoes

\* The command line's invariant holds in the beginning.
LEMMA CliInitInv == CliInit => CliInv
<1> SUFFICES ASSUME CliInit PROVE CliInv
  OBVIOUS
<1>1. /\ cli \in [stage : {"start"}, command : {"none"}, guided : {FALSE}, backed : BOOLEAN]
      /\ typed = NoOptions /\ args = <<>> /\ options = NoOptions /\ sent = <<>>
  BY DEF CliInit
<1>2. CliTyped
  BY <1>1 DEF CliTyped, CliStages
<1>3. cli.stage = "start"
  BY <1>1
<1> QED BY <1>1, <1>2, <1>3 DEF CliInv, NothingYet, AnswersValid, AskedInOrder, ArgumentsAreTyped,
      OptionsAreTyped, OwnRunner, PoolGetsWhatWasTyped

\* With flags, no value begins with dashes.
LEMMA FlagsAreReady ==
  ASSUME NEW c \in Commands, NEW given \in Flags(c)
  PROVE  DOMAIN given \subseteq CliKeys(c) /\ \A k \in DOMAIN given : ~IsDashed(given[k])
<1> DEFINE full == Complete(c)
<1>1. DOMAIN full = CliKeys(c)
  <2>1. DOMAIN full = {OptionOrder[c][i] : i \in DOMAIN OptionOrder[c]}
    BY DEF Complete
  <2>2. DOMAIN OptionOrder[c] = 1..Len(OptionOrder[c])
    BY SameKeys
  <2> QED BY <2>1, <2>2, SameKeys DEF KeysFrom
<1>2. \A k \in CliKeys(c) : ~IsDashed(full[k])
  <2> SUFFICES ASSUME NEW k \in CliKeys(c), IsDashed(full[k]) PROVE FALSE
    OBVIOUS
  <2>1. full[k] = CASE k \in {"network", "secret", "evidence-hash"} -> "good"
                    [] k \in {"asset-id", "custody-validator"} -> "G..."
                    [] k = "slippage" -> "0"
                    [] k = "reason" -> "default"
                    [] k = "force" -> "true"
                    [] OTHER -> CHOOSE v \in Validated(k) : TRUE
    BY <1>1 DEF Complete
  <2>p. full[k] \notin PlainTexts
    BY DashedAssumption DEF IsDashed
  <2>2. Validated(k) # {} /\ k \in {"asset-a", "asset-b", "amount-a", "amount-b", "fee"}
    <3>1. k \in {"network", "secret", "evidence-hash", "asset-id", "custody-validator", "slippage", "reason", "force"}
            \/ k \in {"asset-a", "asset-b", "amount-a", "amount-b", "fee"}
      <4>2. CASE c = "create-pool"
        <5>1. Prompts[c] = <<"network", "secret", "asset-a", "asset-b", "amount-a", "amount-b", "fee", "slippage">>
          BY <4>2, Zenon DEF Prompts
        <5>2. \A i \in 1..8 : i \in {1, 2, 3, 4, 5, 6, 7, 8}
          OBVIOUS
        <5> QED BY <4>2, <5>1, <5>2 DEF CliKeys, Questions
      <4>3. CASE c = "liquidate"
        <5>1. Prompts[c] = <<"network", "secret", "asset-id", "custody-validator", "evidence-hash", "reason", "force">>
          BY <4>3, Zenon DEF Prompts
        <5>2. \A i \in 1..7 : i \in {1, 2, 3, 4, 5, 6, 7}
          OBVIOUS
        <5> QED BY <4>3, <5>1, <5>2 DEF CliKeys, Questions
      <4> QED BY <4>2, <4>3 DEF Commands
    <3>2. k \in {"asset-a", "asset-b", "amount-a", "amount-b", "fee"}
      BY <2>1, <2>p, <3>1 DEF PlainTexts
    <3>3. CASE k \in {"asset-a", "asset-b"}
      BY <3>2, <3>3, AssetAssumption DEF Validated
    <3>4. CASE k \in {"amount-a", "amount-b", "fee"}
      BY <3>4 DEF Validated
    <3> QED BY <3>2, <3>3, <3>4
  <2>3. full[k] = CHOOSE v \in Validated(k) : TRUE
    BY <2>1, <2>2
  <2>4. full[k] \in Validated(k)
    BY <2>2, <2>3
  <2>5. k = "reason"
    BY <2>4, OnlyReasonIsFree
  <2> QED BY <2>2, <2>5
<1>v. \A v \in {"true", "bad", "-h"} : ~IsDashed(v)
  BY DashedAssumption DEF IsDashed, PlainTexts
<1> HIDE DEF full
<1>3. CASE given = full
  BY <1>1, <1>2, <1>3
<1>4. CASE \E k \in DOMAIN full : given = [j \in DOMAIN full \ {k} |-> full[j]]
  BY <1>1, <1>2, <1>4
<1>5. CASE \E k \in DOMAIN full, v \in {"true", "bad", "-h"} : given = [full EXCEPT ![k] = v]
  BY <1>1, <1>2, <1>v, <1>5
<1>6. \/ given = full
      \/ \E k \in DOMAIN full : given = [j \in DOMAIN full \ {k} |-> full[j]]
      \/ \E k \in DOMAIN full, v \in {"true", "bad", "-h"} : given = [full EXCEPT ![k] = v]
  BY DEF Flags, full
<1> QED BY <1>3, <1>4, <1>5, <1>6
\* Later stages keep what was typed, the options and what was sent.
Later == CliStages \ {"start", "asking", "confirming", "running", "cancelled", "create-pool", "liquidate", "claiming"}

\* What only enters a later stage keeps the invariant.
LEMMA CliLater ==
  ASSUME CliInv, NEW next \in Later, CliGoes(next), UNCHANGED <<typed, args, options, sent>>
  PROVE  CliInv'
<1>1. CliTyped' /\ cli'.stage = next /\ cli'.command = cli.command
  BY CliGoesTo DEF CliInv, Later
<1>2. NothingYet' /\ AnswersValid' /\ AskedInOrder' /\ ArgumentsAreTyped' /\ OwnRunner'
  BY <1>1 DEF NothingYet, AnswersValid, AskedInOrder, ArgumentsAreTyped, OwnRunner, Later
<1>3. OptionsAreTyped'
  BY DEF CliInv, OptionsAreTyped
<1>4. PoolGetsWhatWasTyped'
  BY <1>1 DEF CliInv, PoolGetsWhatWasTyped
<1> QED BY <1>1, <1>2, <1>3, <1>4 DEF CliInv

\* Running a command with flags keeps the invariant.
LEMMA CliFlags ==
  ASSUME CliInv, NEW c \in Commands, NEW given \in Flags(c), RunWithFlags(c, given)
  PROVE  CliInv'
<1>1. /\ cli.stage = "start" /\ cli' = [cli EXCEPT !.stage = "running", !.command = c]
      /\ typed' = given /\ args' = Flattened(given, OptionOrder[c]) /\ UNCHANGED <<options, sent>>
  BY DEF RunWithFlags
<1>2. CliTyped' /\ cli'.stage = "running" /\ cli'.command = c
  BY <1>1 DEF CliInv, CliTyped, CliStages
<1>3. options' = NoOptions /\ sent' = <<>>
  BY <1>1 DEF CliInv, NothingYet
<1>4. RunnerHas(c, given, Flattened(given, OptionOrder[c]))
  BY FlagsAreReady DEF RunnerHas
<1>5. NothingYet' /\ OptionsAreTyped' /\ PoolGetsWhatWasTyped'
  BY <1>3 DEF NothingYet, OptionsAreTyped, PoolGetsWhatWasTyped
<1>6. AnswersValid' /\ AskedInOrder' /\ OwnRunner'
  BY <1>2 DEF AnswersValid, AskedInOrder, OwnRunner
<1>7. ArgumentsAreTyped'
  BY <1>1, <1>2, <1>4 DEF ArgumentsAreTyped
<1> QED BY <1>2, <1>5, <1>6, <1>7 DEF CliInv

\* Selecting a command keeps the invariant.
LEMMA CliSelect ==
  ASSUME CliInv, NEW c \in Commands, SelectCommand(c)
  PROVE  CliInv'
<1>1. /\ cli.stage = "start" /\ cli' = [cli EXCEPT !.stage = "asking", !.command = c, !.guided = TRUE]
      /\ UNCHANGED <<typed, args, options, sent>>
  BY DEF SelectCommand
<1>2. CliTyped' /\ cli'.stage = "asking" /\ cli'.command = c
  <2>1. cli \in [stage : CliStages, command : {"none"} \cup Commands, guided : BOOLEAN, backed : BOOLEAN]
    BY DEF CliInv, CliTyped
  <2>2. "asking" \in CliStages
    BY DEF CliStages
  <2> HIDE DEF CliStages, Commands
  <2> QED BY <1>1, <2>1, <2>2 DEF CliTyped
<1>3. options' = NoOptions /\ sent' = <<>> /\ typed' = NoOptions
  BY <1>1 DEF CliInv, NothingYet, AskedInOrder
<1>4. DOMAIN typed' = {}
  BY <1>3 DEF NoOptions
<1>5. NothingYet' /\ OptionsAreTyped' /\ PoolGetsWhatWasTyped'
  BY <1>3 DEF NothingYet, OptionsAreTyped, PoolGetsWhatWasTyped
<1>6. AnswersValid'
  BY <1>2, <1>4 DEF AnswersValid
<1>7. AskedInOrder'
  <2>1. IsFiniteSet({}) /\ Cardinality({}) = 0
    BY FS_EmptySet
  <2>2. {} = {Prompts[c][i] : i \in 1..0}
    OBVIOUS
  <2>3. 0 \in 0..(Questions(c) - 1)
    BY DEF Questions
  <2> QED BY <1>2, <1>4, <2>1, <2>2, <2>3 DEF AskedInOrder
<1>8. ArgumentsAreTyped' /\ OwnRunner'
  BY <1>2 DEF ArgumentsAreTyped, OwnRunner
<1> QED BY <1>2, <1>5, <1>6, <1>7, <1>8 DEF CliInv

\* An answer keeps the invariant.
LEMMA CliAnswers ==
  ASSUME CliInv, Answer
  PROVE  CliInv'
<1> DEFINE c == cli.command
           n == Cardinality(DOMAIN typed)
           key == Prompts[c][n + 1]
           next == IF n + 1 = Len(Prompts[c]) THEN "confirming" ELSE "asking"
           q == Questions(c)
<1>q. q \in {7, 8}
  BY DEF Questions
<1>1. cli.stage = "asking" /\ UNCHANGED <<args, options, sent>>
  BY DEF Answer
<1>2. PICK v \in Validated(key) : typed' = With(typed, key, v) /\ CliGoes(next)
  BY Zenon DEF Answer
<1>3. /\ c \in Commands /\ \A k \in DOMAIN typed : k \in CliKeys(c) /\ typed[k] \in Validated(k)
      /\ IsFiniteSet(DOMAIN typed) /\ n \in 0..(q - 1) /\ DOMAIN typed = {Prompts[c][i] : i \in 1..n}
  BY <1>1 DEF CliInv, AnswersValid, AskedInOrder
<1>4. CliTyped' /\ cli'.stage = next /\ cli'.command = c
  <2>1. next \in CliStages /\ CliTyped
    BY DEF CliInv, CliStages
  <2> HIDE DEF next
  <2> QED BY <1>2, <2>1, CliGoesTo
<1>5. options' = NoOptions /\ sent' = <<>>
  BY <1>1 DEF CliInv, NothingYet
<1>l. q = Questions(c)
  OBVIOUS
<1> HIDE DEF c, n, q
<1>6. n + 1 \in 1..q /\ n \in Nat /\ key \in CliKeys(c) /\ key \notin DOMAIN typed
  <2>1. n + 1 \in 1..q /\ \A i \in 1..n : i \in 1..q /\ i # n + 1
    BY <1>3, <1>q
  <2>2. \A i, j \in 1..q : Prompts[c][i] = Prompts[c][j] => i = j
    BY <1>3, <1>l, SameKeys
  <2>3. key \notin DOMAIN typed
    BY <1>3, <2>1, <2>2
  <2> QED BY <1>3, <1>l, <1>q, <2>1, <2>3 DEF CliKeys
<1>7. DOMAIN typed' = DOMAIN typed \cup {key} /\ \A k \in DOMAIN typed' : typed'[k] = IF k \in DOMAIN typed THEN typed[k] ELSE v
  BY <1>2 DEF With
<1>8. AnswersValid'
  <2>1. \A k \in DOMAIN typed' : k \in CliKeys(c) /\ typed'[k] \in Validated(k)
    <3> HIDE DEF key
    <3> QED BY <1>2, <1>3, <1>6, <1>7
  <2> QED BY <1>3, <1>4, <2>1 DEF AnswersValid
<1>9. AskedInOrder'
  <2>1. next = "asking" => n + 1 \in 0..(q - 1)
    <3>1. next = "asking" => n + 1 # Len(Prompts[c])
      OBVIOUS
    <3>2. Len(Prompts[c]) = q
      BY <1>3, <1>l, SameKeys
    <3> HIDE DEF next
    <3> QED BY <1>3, <1>q, <3>1, <3>2
  <2>2. next # "start"
    OBVIOUS
  <2>3. IsFiniteSet(DOMAIN typed') /\ Cardinality(DOMAIN typed') = n + 1
    <3> HIDE DEF key
    <3> QED BY <1>3, <1>6, <1>7, FS_AddElement DEF n
  <2>4. DOMAIN typed' = {Prompts[c][i] : i \in 1..(n + 1)}
    <3>1. 1..(n + 1) = (1..n) \cup {n + 1}
      BY <1>6
    <3> QED BY <1>3, <1>7, <3>1
  <2> HIDE DEF next
  <2> QED BY <1>4, <1>l, <2>1, <2>2, <2>3, <2>4 DEF AskedInOrder
<1>10. NothingYet' /\ OptionsAreTyped' /\ PoolGetsWhatWasTyped'
  BY <1>5 DEF NothingYet, OptionsAreTyped, PoolGetsWhatWasTyped
<1>11. ArgumentsAreTyped' /\ OwnRunner'
  BY <1>4 DEF ArgumentsAreTyped, OwnRunner
<1> QED BY <1>4, <1>8, <1>9, <1>10, <1>11 DEF CliInv

\* Confirming the answers, or not, keeps the invariant: what was answered is flattened.
LEMMA CliConfirms ==
  ASSUME CliInv, NEW yes \in BOOLEAN, Confirm(yes)
  PROVE  CliInv'
<1>1. cli.stage = "confirming" /\ UNCHANGED <<options, sent>>
  BY DEF Confirm
<1>2. options' = NoOptions /\ sent' = <<>>
  BY <1>1 DEF CliInv, NothingYet
<1>3. NothingYet' /\ OptionsAreTyped' /\ PoolGetsWhatWasTyped'
  BY <1>2 DEF NothingYet, OptionsAreTyped, PoolGetsWhatWasTyped
<1>4. /\ cli.command \in Commands
      /\ \A k \in DOMAIN typed : k \in CliKeys(cli.command) /\ typed[k] \in Validated(k)
  BY <1>1 DEF CliInv, AnswersValid
<1>5. CASE yes
  <2>1. CliGoes("running") /\ typed' = Reviewed /\ args' = Flattened(Reviewed, OptionOrder[cli.command])
    BY <1>5 DEF Confirm
  <2>2. CliTyped' /\ cli'.stage = "running" /\ cli'.command = cli.command
    BY <2>1, CliGoesTo DEF CliInv, CliStages
  <2>3. /\ DOMAIN Reviewed \subseteq DOMAIN typed
        /\ \A k \in DOMAIN Reviewed : Reviewed[k] = "true" \/ Reviewed[k] = typed[k]
    BY DEF Reviewed
  <2>4. RunnerHas(cli.command, Reviewed, Flattened(Reviewed, OptionOrder[cli.command]))
    <3>1. ASSUME NEW k \in DOMAIN Reviewed, IsDashed(Reviewed[k]) PROVE k = "reason"
      <4>1. ~IsDashed("true")
        BY DashedAssumption DEF IsDashed, PlainTexts
      <4>2. Reviewed[k] = typed[k] /\ k \in CliKeys(cli.command) /\ typed[k] \in Validated(k)
        BY <1>4, <2>3, <3>1, <4>1
      <4> QED BY <1>4, <3>1, <4>2, OnlyReasonIsFree
    <3> QED BY <1>4, <2>3, <3>1 DEF RunnerHas
  <2>5. ArgumentsAreTyped'
    BY <2>1, <2>2, <2>4 DEF ArgumentsAreTyped
  <2>6. AnswersValid' /\ AskedInOrder' /\ OwnRunner'
    BY <2>2 DEF AnswersValid, AskedInOrder, OwnRunner
  <2> QED BY <1>3, <2>2, <2>5, <2>6 DEF CliInv
<1>6. CASE ~yes
  <2>1. CliGoes("cancelled") /\ UNCHANGED <<typed, args>>
    BY <1>6 DEF Confirm
  <2>2. CliTyped' /\ cli'.stage = "cancelled" /\ cli'.command = cli.command
    BY <2>1, CliGoesTo DEF CliInv, CliStages
  <2>3. AnswersValid' /\ AskedInOrder' /\ OwnRunner' /\ ArgumentsAreTyped'
    BY <2>2 DEF AnswersValid, AskedInOrder, OwnRunner, ArgumentsAreTyped
  <2> QED BY <1>3, <2>2, <2>3 DEF CliInv
<1> QED BY <1>5, <1>6

\* The runner reads its arguments back.
LEMMA CliStarts ==
  ASSUME CliInv, RunnerStarts
  PROVE  CliInv'
<1> DEFINE c == cli.command
           o == Parsed(args)
<1>1. cli.stage = "running" /\ UNCHANGED <<typed, args, sent>>
  BY DEF RunnerStarts
<1>2. RunnerHas(c, typed, args) /\ options = NoOptions /\ sent = <<>>
  BY <1>1 DEF CliInv, ArgumentsAreTyped, NothingYet
<1>3. CliTyped /\ sent' = <<>>
  BY <1>1, <1>2 DEF CliInv
<1>4. PoolGetsWhatWasTyped'
  BY <1>3 DEF PoolGetsWhatWasTyped
<1> DEFINE helped == {Word("-h"), Dash("help")} \cap {args[i] : i \in DOMAIN args} # {}
<1>5. CASE helped
  <2>1. CliGoes("exited") /\ UNCHANGED <<typed, args, options, sent>>
    BY <1>1, <1>5 DEF RunnerStarts
  <2> QED BY <2>1, CliLater DEF Later, CliStages
<1>6. CASE ~helped
  <2>1. PICK ready \in BOOLEAN : /\ options' = o /\ CliGoes(IF ready THEN c ELSE "exited")
                                 /\ ready => Required[c] \subseteq DOMAIN o
    <3> DEFINE value == [k \in {"network", "evidence-hash"} |-> IF k \in DOMAIN o THEN o[k] ELSE "good"]
               fit == /\ Required[c] \subseteq DOMAIN o
                      /\ value["network"] = "good" /\ o["secret"] = "good"
                      /\ "horizon-url" \notin DOMAIN o
                      /\ c = "liquidate" => value["evidence-hash"] = "good"
    <3>1. options' = o /\ CliGoes(IF fit THEN c ELSE "exited")
      BY <1>6, Zenon DEF RunnerStarts
    <3>2. fit \in BOOLEAN /\ (fit => Required[c] \subseteq DOMAIN o)
      OBVIOUS
    <3> HIDE DEF fit, o
    <3> QED BY <3>1, <3>2
  <2>2. c \in Commands /\ c \in CliStages
    BY <1>2 DEF RunnerHas, Commands, CliStages
  <2> DEFINE next == IF ready THEN c ELSE "exited"
  <2>3. next \in {"create-pool", "liquidate", "exited"} /\ next \in CliStages
        /\ (next # "exited" => next = c /\ Required[c] \subseteq DOMAIN o)
    BY <2>1, <2>2 DEF Commands, CliStages
  <2> HIDE DEF next
  <2>4. CliTyped' /\ cli'.stage = next /\ cli'.command = c
    BY <1>3, <2>1, <2>3, CliGoesTo DEF next
  <2>5. NothingYet' /\ AnswersValid' /\ AskedInOrder' /\ ArgumentsAreTyped'
    BY <2>3, <2>4 DEF NothingYet, AnswersValid, AskedInOrder, ArgumentsAreTyped
  <2>6. OwnRunner'
    <3>1. c = "create-pool" => "reason" \notin DOMAIN typed
      <4>1. "reason" \notin CliKeys("create-pool")
        <5>1. Prompts["create-pool"] =
                <<"network", "secret", "asset-a", "asset-b", "amount-a", "amount-b", "fee", "slippage">>
          BY Zenon DEF Prompts
        <5>2. \A i \in 1..8 : i \in {1, 2, 3, 4, 5, 6, 7, 8}
          OBVIOUS
        <5> QED BY <5>1, <5>2 DEF CliKeys, Questions
      <4> QED BY <1>2, <4>1 DEF RunnerHas
    <3> QED BY <1>1, <1>3, <2>1, <2>3, <2>4, <3>1 DEF OwnRunner
  <2>7. SameOptions(o, typed, DOMAIN typed)
    <3>1. OptionOrder[c] \in Seq(CliKeys(c)) /\ KeysFrom(OptionOrder[c], 1) = CliKeys(c)
      BY <2>2, SameKeys
    <3>2. o = Parsed(Flattened(typed, OptionOrder[c])) /\ DOMAIN typed \subseteq CliKeys(c)
          /\ \A k \in DOMAIN typed : IsDashed(typed[k]) => k = "reason"
      BY <1>2 DEF RunnerHas
    <3> HIDE DEF o, c
    <3>3. SameOptions(o, typed, CliKeys(c))
      BY <3>1, <3>2, RoundTrip
    <3> QED BY <3>2, <3>3, AgreesBut
  <2>8. OptionsAreTyped'
    BY <1>1, <2>1, <2>7 DEF OptionsAreTyped
  <2> QED BY <1>4, <2>4, <2>5, <2>6, <2>8 DEF CliInv
<1> QED BY <1>5, <1>6
\* The operations that add a trustline, if it is missing.
MissingTrust(what, trusted) == IF what \in trusted THEN <<>> ELSE <<[trust |-> what]>>
MissingAssetTrust(s, trusted) == IF Asset[s].class = 0 THEN <<>> ELSE MissingTrust(s, trusted)
AddedTrusts(a, b, trusted) ==
  MissingAssetTrust(a, trusted) \o MissingAssetTrust(b, trusted) \o MissingTrust("pool", trusted)

TrustsAll(a, b, trusted, trusts) ==
  \A what \in {"pool", a, b} :
    \/ what # "pool" /\ Asset[what].class = 0
    \/ what \in trusted
    \/ [trust |-> what] \in {trusts[i] : i \in DOMAIN trusts}

\* Every trustline that is not there is added.
LEMMA PoolTrusts ==
  ASSUME NEW a, NEW b, NEW trusted
  PROVE  TrustsAll(a, b, trusted, AddedTrusts(a, b, trusted))
<1> DEFINE R == {[trust |-> "pool"], [trust |-> a], [trust |-> b]}
           In(s) == {s[i] : i \in DOMAIN s}
           trusts == AddedTrusts(a, b, trusted)
           Missing(x) == MissingTrust(x, trusted)
           MissingAsset(x) == MissingAssetTrust(x, trusted)
<1>a. \A x : Missing(x) = IF x \in trusted THEN <<>> ELSE <<[trust |-> x]>>
  BY DEF MissingTrust
<1>b. \A x : MissingAsset(x) = IF Asset[x].class = 0 THEN <<>> ELSE Missing(x)
  BY DEF MissingAssetTrust
<1>c. trusts = MissingAsset(a) \o MissingAsset(b) \o Missing("pool")
  BY DEF AddedTrusts
<1> HIDE DEF Missing, MissingAsset, trusts
<1>1. Missing("pool") \in Seq(R) /\ MissingAsset(a) \in Seq(R) /\ MissingAsset(b) \in Seq(R)
  <2>1. <<>> \in Seq(R) /\ <<[trust |-> "pool"]>> \in Seq(R) /\ <<[trust |-> a]>> \in Seq(R) /\ <<[trust |-> b]>> \in Seq(R)
    OBVIOUS
  <2> HIDE DEF R
  <2> QED BY <1>a, <1>b, <2>1, Zenon
<1>2. ASSUME NEW s \in Seq(R), NEW t \in Seq(R)
      PROVE  s \o t \in Seq(R) /\ In(s) \subseteq In(s \o t) /\ In(t) \subseteq In(s \o t)
  <2> HIDE DEF R
  <2>1. s \o t \in Seq(R) /\ Len(s \o t) = Len(s) + Len(t) /\ Len(s) \in Nat /\ Len(t) \in Nat
    OBVIOUS
  <2>2. DOMAIN s = 1..Len(s) /\ DOMAIN t = 1..Len(t) /\ DOMAIN (s \o t) = 1..Len(s \o t)
    BY <2>1
  <2>3. \A i \in 1..Len(s) : (s \o t)[i] = s[i]
    OBVIOUS
  <2>4. \A i \in 1..Len(t) : (s \o t)[Len(s) + i] = t[i]
    OBVIOUS
  <2>5. \A i \in 1..Len(s) : i \in 1..Len(s \o t)
    BY <2>1
  <2>6. \A i \in 1..Len(t) : Len(s) + i \in 1..Len(s \o t)
    BY <2>1
  <2>7. In(s) \subseteq In(s \o t)
    BY <2>2, <2>3, <2>5, Zenon
  <2>8. In(t) \subseteq In(s \o t)
    BY <2>2, <2>4, <2>6, Zenon
  <2> QED BY <2>1, <2>7, <2>8
<1>3. \A x : x \notin trusted => [trust |-> x] \in In(Missing(x))
  <2> SUFFICES ASSUME NEW x, x \notin trusted PROVE [trust |-> x] \in In(Missing(x))
    OBVIOUS
  <2>1. Missing(x) = <<[trust |-> x]>>
    BY <1>a
  <2> QED BY <2>1
<1> HIDE DEF R, In
<1>4. DEFINE ab == MissingAsset(a) \o MissingAsset(b)
<1>5. In(MissingAsset(a)) \subseteq In(ab) /\ In(MissingAsset(b)) \subseteq In(ab) /\ ab \in Seq(R)
  BY <1>1, <1>2
<1>6. In(ab) \subseteq In(trusts) /\ In(Missing("pool")) \subseteq In(trusts)
  <2> HIDE DEF ab
  <2>1. ab \in Seq(R)
    BY <1>5
  <2>2. trusts = ab \o Missing("pool")
    BY <1>c DEF ab
  <2> QED BY <1>1, <1>2, <2>1, <2>2
<1> HIDE DEF ab
<1>7. \A what \in {"pool", a, b} :
        (what # "pool" /\ Asset[what].class = 0) \/ what \in trusted \/ [trust |-> what] \in In(trusts)
  <2>1. "pool" \in trusted \/ [trust |-> "pool"] \in In(trusts)
    BY <1>3, <1>6
  <2>2. \A x \in {a, b} : Asset[x].class # 0 => MissingAsset(x) = Missing(x)
    BY <1>b
  <2>3. Asset[a].class = 0 \/ a \in trusted \/ [trust |-> a] \in In(trusts)
    BY <1>3, <1>5, <1>6, <2>2
  <2>4. Asset[b].class = 0 \/ b \in trusted \/ [trust |-> b] \in In(trusts)
    BY <1>3, <1>5, <1>6, <2>2
  <2> QED BY <2>1, <2>3, <2>4
<1> QED BY <1>7, Zenon DEF In, trusts, TrustsAll

\* The pool's two sides are what was typed, in one order or the other.
LEMMA CliPool ==
  ASSUME CliInv, NEW trusted, PoolSubmitted(trusted)
  PROVE  CliInv'
<1> DEFINE side == Sorted(options)
           Missing(what) == IF what \in trusted THEN <<>> ELSE <<[trust |-> what]>>
           MissingAsset(s) == IF Asset[s].class = 0 THEN <<>> ELSE Missing(s)
           trusts == MissingAsset(side[1].asset) \o MissingAsset(side[2].asset) \o Missing("pool")
<1>1. /\ cli.stage = "create-pool" /\ CliGoes("submitting") /\ UNCHANGED <<typed, args, options>>
      /\ sent' = [trusted |-> trusted, slippage |-> Given("slippage", "0.01"), trusts |-> trusts, deposit |-> side]
  BY Zenon DEF PoolSubmitted
<1>2. CliTyped' /\ cli'.stage = "submitting" /\ cli'.command = cli.command
  BY <1>1, CliGoesTo DEF CliInv, CliStages
<1>3. NothingYet' /\ AnswersValid' /\ AskedInOrder' /\ ArgumentsAreTyped' /\ OwnRunner'
  BY <1>2 DEF NothingYet, AnswersValid, AskedInOrder, ArgumentsAreTyped, OwnRunner
<1>4. OptionsAreTyped'
  BY <1>1 DEF CliInv, OptionsAreTyped
<1>5. /\ \A k \in {"asset-a", "asset-b", "amount-a", "amount-b"} : options[k] = typed[k]
      /\ Given("slippage", "0.01") = IF "slippage" \in DOMAIN typed THEN typed["slippage"] ELSE "0.01"
  <2>1. Required["create-pool"] \subseteq DOMAIN options
    BY <1>1 DEF CliInv, OwnRunner
  <2>2. {"asset-a", "asset-b", "amount-a", "amount-b"} \subseteq Required["create-pool"]
    BY DEF Required
  <2>3. options # NoOptions
    BY <2>1, <2>2 DEF NoOptions
  <2>4. SameOptions(options, typed, DOMAIN typed)
    BY <2>3 DEF CliInv, OptionsAreTyped
  <2>5. Odd(typed) = {}
    BY <1>1 DEF CliInv, OwnRunner, Odd
  <2>6. \A x : /\ x \in DOMAIN options <=> x \in DOMAIN typed
               /\ x \in DOMAIN options => options[x] = typed[x]
    BY <2>4, <2>5 DEF SameOptions
  <2> QED BY <2>1, <2>2, <2>6 DEF Given
<1> DEFINE a == [asset |-> typed["asset-a"], amount |-> typed["amount-a"]]
           b == [asset |-> typed["asset-b"], amount |-> typed["amount-b"]]
<1>6. side = <<a, b>> \/ side = <<b, a>>
  BY <1>5, Zenon DEF Sorted
<1>7. {side[1], side[2]} = {a, b}
  <2> HIDE DEF a, b, side
  <2> QED BY <1>6
<1>8. \A what \in {"pool", side[1].asset, side[2].asset} :
        \/ what # "pool" /\ Asset[what].class = 0
        \/ what \in trusted
        \/ [trust |-> what] \in {trusts[i] : i \in DOMAIN trusts}
  <2>1. trusts = AddedTrusts(side[1].asset, side[2].asset, trusted)
    BY Zenon DEF MissingTrust, MissingAssetTrust, AddedTrusts
  <2> HIDE DEF trusts, side
  <2>2. TrustsAll(side[1].asset, side[2].asset, trusted, trusts)
    BY <2>1, PoolTrusts, Zenon
  <2> QED BY <2>2 DEF TrustsAll
<1>9. PoolGetsWhatWasTyped'
  <2> HIDE DEF a, b, side, trusts
  <2>1. /\ sent'.trusted = trusted /\ sent'.trusts = trusts /\ sent'.deposit = side
        /\ sent'.slippage = Given("slippage", "0.01")
    BY <1>1
  <2>2. {"pool"} \cup {side[i].asset : i \in 1..2} = {"pool", side[1].asset, side[2].asset}
    OBVIOUS
  <2>3. {sent'.deposit[1], sent'.deposit[2]} =
          {[asset |-> typed'["asset-a"], amount |-> typed'["amount-a"]],
           [asset |-> typed'["asset-b"], amount |-> typed'["amount-b"]]}
    BY <1>1, <1>7, <2>1 DEF a, b
  <2>4. \A what \in {"pool"} \cup {sent'.deposit[i].asset : i \in 1..2} :
           \/ what # "pool" /\ Asset[what].class = 0
           \/ what \in sent'.trusted
           \/ [trust |-> what] \in {sent'.trusts[i] : i \in DOMAIN sent'.trusts}
    BY <1>8, <2>1, <2>2
  <2>5. sent'.slippage = IF "slippage" \in DOMAIN typed' THEN typed'["slippage"] ELSE "0.01"
    BY <1>1, <1>5, <2>1
  <2> QED BY <2>3, <2>4, <2>5 DEF PoolGetsWhatWasTyped
<1> QED BY <1>2, <1>3, <1>4, <1>9 DEF CliInv

\* A liquidation is checked, then claimed.
LEMMA CliLiquidates ==
  ASSUME CliInv, BackingVerified \/ ClaimSubmitted
  PROVE  CliInv'
<1>1. CASE BackingVerified
  <2> DEFINE next == IF options["asset-id"] = "G..." /\ AttestationFound THEN "exited" ELSE "claiming"
  <2>1. /\ cli.stage = "liquidate" /\ CliGoes(next) /\ UNCHANGED <<typed, args, options, sent>>
    BY <1>1, Zenon DEF BackingVerified
  <2>2. next \in {"exited", "claiming"} /\ next \in CliStages
    BY DEF CliStages
  <2> HIDE DEF next
  <2>3. CliTyped' /\ cli'.stage = next /\ cli'.command = cli.command /\ cli.command = "liquidate"
    BY <2>1, <2>2, CliGoesTo DEF CliInv, OwnRunner
  <2>4. NothingYet' /\ AnswersValid' /\ AskedInOrder' /\ ArgumentsAreTyped' /\ OwnRunner' /\ PoolGetsWhatWasTyped'
    BY <2>2, <2>3 DEF NothingYet, AnswersValid, AskedInOrder, ArgumentsAreTyped, OwnRunner, PoolGetsWhatWasTyped
  <2>5. OptionsAreTyped'
    BY <2>1 DEF CliInv, OptionsAreTyped
  <2> QED BY <2>3, <2>4, <2>5 DEF CliInv
<1>2. CASE ClaimSubmitted
  <2>1. cli.stage \in {"liquidate", "claiming"} /\ CliGoes("submitting") /\ UNCHANGED <<typed, args, options>>
    BY <1>2 DEF ClaimSubmitted
  <2>2. CliTyped' /\ cli'.stage = "submitting" /\ cli'.command = cli.command /\ cli.command = "liquidate"
    BY <2>1, CliGoesTo DEF CliInv, OwnRunner, CliStages
  <2>3. NothingYet' /\ AnswersValid' /\ AskedInOrder' /\ ArgumentsAreTyped' /\ OwnRunner' /\ PoolGetsWhatWasTyped'
    BY <2>2 DEF NothingYet, AnswersValid, AskedInOrder, ArgumentsAreTyped, OwnRunner, PoolGetsWhatWasTyped
  <2>4. OptionsAreTyped'
    BY <2>1 DEF CliInv, OptionsAreTyped
  <2> QED BY <2>2, <2>3, <2>4 DEF CliInv
<1> QED BY <1>1, <1>2

\* Every step of the command line keeps its invariant.
LEMMA CliStep == CliInv /\ [CliNext]_cliVars => CliInv'
<1> SUFFICES ASSUME CliInv, [CliNext]_cliVars PROVE CliInv'
  OBVIOUS
<1>0. DOMAIN Prompts = Commands
  BY DEF Prompts, Commands
<1>1. CASE \E c \in Commands : SelectCommand(c)
  BY <1>1, CliSelect
<1>2. CASE \E c \in Commands : \E given \in Flags(c) : RunWithFlags(c, given)
  BY <1>2, CliFlags
<1>3. CASE Answer
  BY <1>3, CliAnswers
<1>4. CASE \E yes \in BOOLEAN : Confirm(yes)
  BY <1>4, CliConfirms
<1>5. CASE RunnerStarts
  BY <1>5, CliStarts
<1>6. CASE BackingVerified \/ ClaimSubmitted
  BY <1>6, CliLiquidates
<1>7. CASE ClaimRefused
  BY <1>7, CliLater DEF ClaimRefused, Later, CliStages
<1>8. CASE Finished
  BY <1>8, CliLater DEF Finished, Later, CliStages
<1>9. CASE CliFails
  BY <1>9, CliLater DEF CliFails, Later, CliStages
<1>10. CASE \E trusted : PoolSubmitted(trusted)
  BY <1>10, CliPool
<1>11. CASE UNCHANGED cliVars
  BY <1>11 DEF cliVars, CliInv, CliTyped, NothingYet, AnswersValid, AskedInOrder, ArgumentsAreTyped,
               OptionsAreTyped, OwnRunner, PoolGetsWhatWasTyped
<1> QED BY <1>0, <1>1, <1>2, <1>3, <1>4, <1>5, <1>6, <1>7, <1>8, <1>9, <1>10, <1>11 DEF CliNext

\* What is known of the options says that the confirmed ones are run.
LEMMA CliInvImplies == CliInv => GuidedAnswersArrive
<1> SUFFICES ASSUME CliInv PROVE ConfirmedIsRun
  BY DEF CliInv, GuidedAnswersArrive
<1> SUFFICES ASSUME options # NoOptions
             PROVE  LET lost == IF "reason" \in DOMAIN typed /\ typed["reason"] \in DOMAIN Dashed
                                THEN {"reason", Dashed[typed["reason"]]} ELSE {}
                        KeptOf(o) == [k \in DOMAIN o \ lost |-> o[k]] IN
                    KeptOf(options) = KeptOf(typed)
  BY Zenon DEF ConfirmedIsRun
<1> DEFINE lost == IF "reason" \in DOMAIN typed /\ typed["reason"] \in DOMAIN Dashed
                   THEN {"reason", Dashed[typed["reason"]]} ELSE {}
           Keys(o) == DOMAIN o \ lost
<1>1. SameOptions(options, typed, DOMAIN typed)
  BY DEF CliInv, OptionsAreTyped
<1>2. \A o : Keys(o) = DOMAIN o \ Odd(typed)
  BY DEF Odd, IsDashed
<1>3. DOMAIN options \ Odd(typed) = DOMAIN typed \ Odd(typed)
  BY <1>1 DEF SameOptions
<1>4. \A k \in DOMAIN options \ Odd(typed) : options[k] = typed[k]
  BY <1>1 DEF SameOptions
<1>5. Keys(options) = Keys(typed) /\ \A k \in Keys(options) : options[k] = typed[k]
  <2> HIDE DEF Keys
  <2> QED BY <1>2, <1>3, <1>4
<1>6. [k \in Keys(options) |-> options[k]] = [k \in Keys(typed) |-> typed[k]]
  <2> DEFINE A == Keys(options)
             B == Keys(typed)
  <2>1. A = B /\ \A k \in A : options[k] = typed[k]
    BY <1>5
  <2> HIDE DEF A, B
  <2>2. [k \in A |-> options[k]] = [k \in B |-> typed[k]]
    BY <2>1
  <2> QED BY <2>2 DEF A, B
<1> QED BY <1>6, Zenon

(* What a guided user was asked, was shown and confirmed is what the runner  *)
(* works with after the round trip through the argument vector, and a pool's *)
(* deposit has each asset with its amount and every trustline it needs.      *)
THEOREM GuidedAnswersAlwaysArrive == CliSpec => []GuidedAnswersArrive
<1>1. CliInit => CliInv
  BY CliInitInv
<1>2. CliInv /\ [CliNext]_cliVars => CliInv'
  BY CliStep
<1>3. CliInv => GuidedAnswersArrive
  BY CliInvImplies
<1> QED BY <1>1, <1>2, <1>3, PTL DEF CliSpec

-----------------------------------------------------------------------------
(* The type generator.  What a type mentions and what is written for it are *)
(* recursive in the same way: a name of its own, and the names of the parts *)
(* that are looked into.                                                    *)

\* The parts of a type that are looked into.
LookedInto(t) ==
  IF t.kind = "udt" THEN {} ELSE IF t.kind = "result" THEN {t.parts[1]} ELSE ToSet(t.parts)

\* h gives every type its own names and those of the parts looked into.
IsNaming(h, own) == h = [t \in Type |-> own[t] \cup UNION {h[u] : u \in LookedInto(t)}]

\* What is looked into are parts of the type, and types.
LEMMA LookedIntoParts ==
  ASSUME NEW t \in Type
  PROVE  LookedInto(t) \subseteq ToSet(t.parts) /\ ToSet(t.parts) \subseteq Type
<1>1. t.parts \in Seq(Type) /\ (t.kind = "result" => t.parts # <<>>)
  BY TypeAssumption
<1>2. t.kind = "result" => 1 \in DOMAIN t.parts
  BY <1>1
<1> QED BY <1>1, <1>2 DEF LookedInto, ToSet

\* The least relation that such a naming needs is one.
LEMMA NamingExists ==
  ASSUME NEW V, NEW own \in [Type -> SUBSET V]
  PROVE  \E h : IsNaming(h, own)
<1> DEFINE Closed == {R \in SUBSET (Type \X V) :
                        \A t \in Type : /\ \A n \in own[t] : <<t, n>> \in R
                                        /\ \A u \in LookedInto(t) : \A n \in V : <<u, n>> \in R => <<t, n>> \in R}
           Least == {p \in Type \X V : \A R \in Closed : p \in R}
           h == [t \in Type |-> {n \in V : <<t, n>> \in Least}]
           Next1(t) == own[t] \cup UNION {h[u] : u \in LookedInto(t)}
<1>1. \A t \in Type : LookedInto(t) \subseteq Type
  BY LookedIntoParts
<1>2. Least \in SUBSET (Type \X V) /\ \A R \in Closed : Least \subseteq R
  OBVIOUS
<1>3. ASSUME NEW t \in Type
      PROVE  /\ \A n \in own[t] : <<t, n>> \in Least
             /\ \A u \in LookedInto(t) : \A n \in V : <<u, n>> \in Least => <<t, n>> \in Least
  <2>1. \A n \in own[t] : <<t, n>> \in Type \X V
    OBVIOUS
  <2>2. \A R \in Closed : \A n \in own[t] : <<t, n>> \in R
    OBVIOUS
  <2>3. \A R \in Closed : \A u \in LookedInto(t) : \A n \in V : <<u, n>> \in R => <<t, n>> \in R
    OBVIOUS
  <2>4. \A n \in V : <<t, n>> \in Type \X V
    OBVIOUS
  <2> HIDE DEF Closed
  <2>5. \A n \in own[t] : <<t, n>> \in Least
    BY <2>1, <2>2
  <2>6. \A u \in LookedInto(t) : \A n \in V : <<u, n>> \in Least => <<t, n>> \in Least
    BY <2>3, <2>4
  <2> QED BY <2>5, <2>6
<1> DEFINE Used == {p \in Least : p[2] \in Next1(p[1])}
<1>4. Used \in Closed
  <2>1. Used \in SUBSET (Type \X V)
    BY <1>2
  <2>2. ASSUME NEW t \in Type
        PROVE  /\ \A n \in own[t] : <<t, n>> \in Used
               /\ \A u \in LookedInto(t) : \A n \in V : <<u, n>> \in Used => <<t, n>> \in Used
    <3>1. \A n \in own[t] : <<t, n>> \in Used
      <4> HIDE DEF Least, h
      <4> QED BY <1>3
    <3>2. ASSUME NEW u \in LookedInto(t), NEW n \in V, <<u, n>> \in Used PROVE <<t, n>> \in Used
      <4>1. <<u, n>> \in Least
        BY <3>2
      <4> HIDE DEF Least
      <4>2. n \in h[u]
        BY <1>1, <4>1
      <4>3. n \in Next1(t)
        <5> HIDE DEF h
        <5> QED BY <4>2
      <4>4. <<t, n>> \in Least
        BY <1>3, <4>1
      <4> HIDE DEF Next1
      <4> QED BY <4>3, <4>4
    <3> QED BY <3>1, <3>2
  <2> HIDE DEF Used
  <2> QED BY <2>1, <2>2
<1>5. ASSUME NEW t \in Type PROVE h[t] = Next1(t)
  <2>1. h[t] \subseteq Next1(t)
    <3>1. ASSUME NEW n \in h[t] PROVE n \in Next1(t)
      <4>1. <<t, n>> \in Least
        <5> HIDE DEF Least
        <5> QED OBVIOUS
      <4>2. <<t, n>> \in Used
        <5> HIDE DEF Used, Closed
        <5> QED BY <1>4, <4>1
      <4> HIDE DEF Least, Next1
      <4> QED BY <4>2
    <3> QED BY <3>1
  <2>2. own[t] \subseteq h[t]
    <3>1. \A n \in own[t] : <<t, n>> \in Least /\ n \in V
      BY <1>3
    <3> HIDE DEF Least
    <3> QED BY <3>1
  <2>3. ASSUME NEW u \in LookedInto(t) PROVE h[u] \subseteq h[t]
    <3> HIDE DEF Least
    <3> QED BY <1>1, <1>3
  <2>4. Next1(t) \subseteq h[t]
    <3> HIDE DEF h
    <3> QED BY <2>2, <2>3
  <2> HIDE DEF Next1
  <2> QED BY <2>1, <2>4
<1>6. h = [t \in Type |-> Next1(t)]
  <2>1. \A t \in Type : h[t] = Next1(t)
    BY <1>5
  <2>2. h = [t \in Type |-> h[t]]
    BY Zenon
  <2> HIDE DEF h, Next1
  <2> QED BY <2>1, <2>2
<1> HIDE DEF h
<1> QED BY <1>6 DEF IsNaming

OwnNames == [t \in Type |-> IF t.kind = "udt" THEN {t.name} ELSE {}]
OwnIdentifiers == [t \in Type |-> IF t.kind = "udt" THEN {Sanitize[t.name]} ELSE {}]

\* What a type mentions are its names, and what is written are its identifiers.
LEMMA MentionedIs ==
  \E h : IsNaming(h, OwnNames) /\ \A t \in Type : Mentioned(t) = h[t]
<1> DEFINE Of(h, u) == CASE u.kind = "udt" -> {u.name}
                         [] u.kind = "result" -> h[u.parts[1]]
                         [] OTHER -> UNION {h[u.parts[i]] : i \in DOMAIN u.parts}
           IsNames(h) == h = [u \in Type |-> CASE u.kind = "udt" -> {u.name}
                                               [] u.kind = "result" -> h[u.parts[1]]
                                               [] OTHER -> UNION {h[u.parts[i]] : i \in DOMAIN u.parts}]
           names == CHOOSE h : IsNames(h)
<1>1. OwnNames \in [Type -> SUBSET {t.name : t \in Type}]
  BY DEF OwnNames
<1>2. PICK g : IsNaming(g, OwnNames)
  BY <1>1, NamingExists
<1>3. ASSUME NEW h, NEW t \in Type
      PROVE  Of(h, t) = OwnNames[t] \cup UNION {h[u] : u \in LookedInto(t)}
  <2>1. CASE t.kind = "udt"
    BY <2>1 DEF OwnNames, LookedInto
  <2>2. CASE t.kind = "result"
    BY <2>2 DEF OwnNames, LookedInto
  <2>3. CASE t.kind \notin {"udt", "result"}
    <3>1. Of(h, t) = UNION {h[t.parts[i]] : i \in DOMAIN t.parts}
      BY <2>3
    <3>2. OwnNames[t] = {} /\ LookedInto(t) = {t.parts[i] : i \in DOMAIN t.parts}
      BY <2>3 DEF OwnNames, LookedInto, ToSet
    <3>3. {h[t.parts[i]] : i \in DOMAIN t.parts} = {h[u] : u \in {t.parts[i] : i \in DOMAIN t.parts}}
      OBVIOUS
    <3> QED BY <3>1, <3>2, <3>3, Zenon
  <2> QED BY <2>1, <2>2, <2>3
<1>4. \A h : IsNames(h) <=> IsNaming(h, OwnNames)
  <2> SUFFICES ASSUME NEW h PROVE IsNames(h) <=> IsNaming(h, OwnNames)
    OBVIOUS
  <2> DEFINE F == [u \in Type |-> Of(h, u)]
             G == [u \in Type |-> OwnNames[u] \cup UNION {h[v] : v \in LookedInto(u)}]
  <2>1. F = G
    <3> HIDE DEF Of
    <3> QED BY <1>3
  <2>2. (IsNames(h) <=> h = F) /\ (IsNaming(h, OwnNames) <=> h = G)
    BY Zenon DEF IsNaming
  <2> HIDE DEF F, G, IsNames
  <2> QED BY <2>1, <2>2
<1>5. IsNames(names)
  <2> HIDE DEF IsNames
  <2> QED BY <1>2, <1>4
<1>6. \A t \in Type : Mentioned(t) = names[t]
  BY Zenon DEF Mentioned
<1> HIDE DEF names
<1>7. IsNaming(names, OwnNames)
  BY <1>4, <1>5
<1> QED BY <1>6, <1>7

\* Written is such a naming, of identifiers.
LEMMA WrittenIs ==
  \E h : IsNaming(h, OwnIdentifiers) /\ \A t \in Type : Written(t) = h[t]
<1> DEFINE Of(h, u) == CASE u.kind = "udt" -> {Sanitize[u.name]}
                         [] u.kind = "result" -> h[u.parts[1]]
                         [] OTHER -> UNION {h[u.parts[i]] : i \in DOMAIN u.parts}
           IsNames(h) == h = [u \in Type |-> CASE u.kind = "udt" -> {Sanitize[u.name]}
                                               [] u.kind = "result" -> h[u.parts[1]]
                                               [] OTHER -> UNION {h[u.parts[i]] : i \in DOMAIN u.parts}]
           names == CHOOSE h : IsNames(h)
<1>1. OwnIdentifiers \in [Type -> SUBSET {Sanitize[t.name] : t \in Type}]
  BY DEF OwnIdentifiers
<1>2. PICK g : IsNaming(g, OwnIdentifiers)
  BY <1>1, NamingExists
<1>3. ASSUME NEW h, NEW t \in Type
      PROVE  Of(h, t) = OwnIdentifiers[t] \cup UNION {h[u] : u \in LookedInto(t)}
  <2>1. CASE t.kind = "udt"
    BY <2>1 DEF OwnIdentifiers, LookedInto
  <2>2. CASE t.kind = "result"
    BY <2>2 DEF OwnIdentifiers, LookedInto
  <2>3. CASE t.kind \notin {"udt", "result"}
    <3>1. Of(h, t) = UNION {h[t.parts[i]] : i \in DOMAIN t.parts}
      BY <2>3
    <3>2. OwnIdentifiers[t] = {} /\ LookedInto(t) = {t.parts[i] : i \in DOMAIN t.parts}
      BY <2>3 DEF OwnIdentifiers, LookedInto, ToSet
    <3>3. {h[t.parts[i]] : i \in DOMAIN t.parts} = {h[u] : u \in {t.parts[i] : i \in DOMAIN t.parts}}
      OBVIOUS
    <3> QED BY <3>1, <3>2, <3>3, Zenon
  <2> QED BY <2>1, <2>2, <2>3
<1>4. \A h : IsNames(h) <=> IsNaming(h, OwnIdentifiers)
  <2> SUFFICES ASSUME NEW h PROVE IsNames(h) <=> IsNaming(h, OwnIdentifiers)
    OBVIOUS
  <2> DEFINE F == [u \in Type |-> Of(h, u)]
             G == [u \in Type |-> OwnIdentifiers[u] \cup UNION {h[v] : v \in LookedInto(u)}]
  <2>1. F = G
    <3> HIDE DEF Of
    <3> QED BY <1>3
  <2>2. (IsNames(h) <=> h = F) /\ (IsNaming(h, OwnIdentifiers) <=> h = G)
    BY Zenon DEF IsNaming
  <2> HIDE DEF F, G, IsNames
  <2> QED BY <2>1, <2>2
<1>5. IsNames(names)
  <2> HIDE DEF IsNames
  <2> QED BY <1>2, <1>4
<1>6. \A t \in Type : Written(t) = names[t]
  BY Zenon DEF Written
<1> HIDE DEF names
<1>7. IsNaming(names, OwnIdentifiers)
  BY <1>4, <1>5
<1> QED BY <1>6, <1>7

\* Every name that is written for a type has been mentioned.
LEMMA WrittenIsMentioned ==
  ASSUME NEW t \in Type, NEW x \in Written(t)
  PROVE  \E n \in Mentioned(t) : x = Sanitize[n]
<1> DEFINE Dangling == {u \in Type : \E y \in Written(u) : \A n \in Mentioned(u) : y # Sanitize[n]}
<1>1. PICK g : IsNaming(g, OwnNames) /\ \A u \in Type : Mentioned(u) = g[u]
  BY MentionedIs
<1>2. PICK h : IsNaming(h, OwnIdentifiers) /\ \A u \in Type : Written(u) = h[u]
  BY WrittenIs
<1>3. \A u \in Type : Mentioned(u) = OwnNames[u] \cup UNION {Mentioned(v) : v \in LookedInto(u)}
  <2> SUFFICES ASSUME NEW u \in Type PROVE Mentioned(u) = OwnNames[u] \cup UNION {Mentioned(v) : v \in LookedInto(u)}
    OBVIOUS
  <2>1. g[u] = OwnNames[u] \cup UNION {g[v] : v \in LookedInto(u)}
    BY <1>1 DEF IsNaming
  <2>2. \A v \in LookedInto(u) : Mentioned(v) = g[v]
    BY <1>1, LookedIntoParts
  <2>3. {Mentioned(v) : v \in LookedInto(u)} = {g[v] : v \in LookedInto(u)}
    BY <2>2
  <2> QED BY <1>1, <2>1, <2>3
<1>4. \A u \in Type : Written(u) = OwnIdentifiers[u] \cup UNION {Written(v) : v \in LookedInto(u)}
  <2> SUFFICES ASSUME NEW u \in Type PROVE Written(u) = OwnIdentifiers[u] \cup UNION {Written(v) : v \in LookedInto(u)}
    OBVIOUS
  <2>1. h[u] = OwnIdentifiers[u] \cup UNION {h[v] : v \in LookedInto(u)}
    BY <1>2 DEF IsNaming
  <2>2. \A v \in LookedInto(u) : Written(v) = h[v]
    BY <1>2, LookedIntoParts
  <2>3. {Written(v) : v \in LookedInto(u)} = {h[v] : v \in LookedInto(u)}
    BY <2>2
  <2> QED BY <1>2, <2>1, <2>3
<1>5. Dangling = {}
  <2> SUFFICES ASSUME Dangling # {} PROVE FALSE
    OBVIOUS
  <2>1. Dangling \in SUBSET Type
    OBVIOUS
  <2>2. PICK u \in Dangling : ToSet(u.parts) \cap Dangling = {}
    <3> HIDE DEF Dangling
    <3> QED BY <2>1, TypeAssumption
  <2>3. PICK y \in Written(u) : \A n \in Mentioned(u) : y # Sanitize[n]
    OBVIOUS
  <2>4. u \in Type
    OBVIOUS
  <2>5. CASE y \in OwnIdentifiers[u]
    <3>1. u.name \in OwnNames[u] /\ y = Sanitize[u.name]
      BY <2>4, <2>5 DEF OwnIdentifiers, OwnNames
    <3> QED BY <1>3, <2>3, <2>4, <3>1
  <2>6. CASE \E v \in LookedInto(u) : y \in Written(v)
    <3>1. PICK v \in LookedInto(u) : y \in Written(v)
      BY <2>6
    <3>2. v \in Type /\ v \notin Dangling
      BY <2>2, <2>4, LookedIntoParts
    <3>3. PICK n \in Mentioned(v) : y = Sanitize[n]
      BY <3>1, <3>2
    <3>4. n \in Mentioned(u)
      BY <1>3, <2>4
    <3> QED BY <2>3, <3>3, <3>4
  <2> QED BY <1>4, <2>4, <2>5, <2>6
<1> QED BY <1>5
-----------------------------------------------------------------------------
(* The module's declarations are those of its schemas, one after the other. *)

\* What is in two sequences is in the one they make.
LEMMA ConcatHas ==
  ASSUME NEW R, NEW s \in Seq(R), NEW t \in Seq(R)
  PROVE  s \o t \in Seq(R) /\ ToSet(s \o t) = ToSet(s) \cup ToSet(t)
<1>1. s \o t \in Seq(R) /\ Len(s \o t) = Len(s) + Len(t) /\ Len(s) \in Nat /\ Len(t) \in Nat
  OBVIOUS
<1>2. DOMAIN s = 1..Len(s) /\ DOMAIN t = 1..Len(t) /\ DOMAIN (s \o t) = 1..Len(s \o t)
  BY <1>1
<1>3. \A i \in 1..Len(s) : (s \o t)[i] = s[i]
  OBVIOUS
<1>4. \A i \in 1..Len(t) : (s \o t)[Len(s) + i] = t[i]
  OBVIOUS
<1>5. \A i \in 1..Len(s) : i \in 1..Len(s \o t)
  BY <1>1
<1>6. \A i \in 1..Len(t) : Len(s) + i \in 1..Len(s \o t)
  BY <1>1
<1>7. ToSet(s) \subseteq ToSet(s \o t)
  BY <1>2, <1>3, <1>5, Zenon DEF ToSet
<1>8. ToSet(t) \subseteq ToSet(s \o t)
  BY <1>2, <1>4, <1>6, Zenon DEF ToSet
<1>9. ASSUME NEW k \in 1..Len(s \o t) PROVE (s \o t)[k] \in ToSet(s) \cup ToSet(t)
  <2>1. CASE k \in 1..Len(s)
    <3>1. (s \o t)[k] = s[k] /\ k \in DOMAIN s
      BY <1>2, <1>3, <2>1
    <3> QED BY <3>1, Zenon DEF ToSet
  <2>2. CASE k \notin 1..Len(s)
    <3>1. k - Len(s) \in 1..Len(t) /\ Len(s) + (k - Len(s)) = k
      BY <1>1, <2>2
    <3>2. (s \o t)[Len(s) + (k - Len(s))] = t[k - Len(s)]
      BY <1>4, <3>1, Zenon
    <3>3. (s \o t)[k] = t[k - Len(s)] /\ k - Len(s) \in DOMAIN t
      BY <1>2, <3>1, <3>2, Zenon
    <3> QED BY <3>3, Zenon DEF ToSet
  <2> QED BY <2>1, <2>2
<1>10. ToSet(s \o t) \subseteq ToSet(s) \cup ToSet(t)
  BY <1>2, <1>9, Zenon DEF ToSet
<1> QED BY <1>1, <1>7, <1>8, <1>10

\* What is in one of several sequences is in the one they are flattened to.
HasAllOf(f, R, ss) == f \in Seq(R) /\ ToSet(f) = UNION {ToSet(ss[i]) : i \in DOMAIN ss}

\* Flattening a sequence of sequences loses and invents no element.
LEMMA FlattenHas ==
  ASSUME NEW R, NEW ss \in Seq(Seq(R))
  PROVE  HasAllOf(FlattenSeq(ss), R, ss)
<1> DEFINE n == Len(ss)
           W == Seq(R)
           step == [v \in W \X (1..n) |-> v[1] \o ss[v[2]]]
           IsFlat(h) == h = [i \in 1..n |-> IF i = 1 THEN ss[i] ELSE h[i - 1] \o ss[i]]
           flatten == CHOOSE h : IsFlat(h)
<1>0. n \in Nat /\ DOMAIN ss = 1..n /\ \A i \in 1..n : ss[i] \in W
  OBVIOUS
<1>1. CASE n = 0
  <2>1. FlattenSeq(ss) = ss /\ ss = <<>>
    BY <1>1 DEF FlattenSeq
  <2>2. <<>> \in Seq(R) /\ ToSet(<<>>) = {} /\ DOMAIN <<>> = {}
    BY DEF ToSet
  <2> QED BY <2>1, <2>2 DEF HasAllOf
<1>2. CASE n # 0
  <2>1. \A a, b \in W : a \o b \in W
    OBVIOUS
  <2>2. <<>> \in W /\ \A a \in W : <<>> \o a = a
    OBVIOUS
  <2> HIDE DEF n, W
  <2>3. step \in [W \X (1..n) -> W]
    BY <1>0, <2>1
  <2>4. PICK w : IsTrace(w, <<>>, step, n, W)
    <3> HIDE DEF step
    <3> QED BY <1>0, <2>2, <2>3, TraceExists
  <2>5. w \in [0..n -> W] /\ w[0] = <<>> /\ \A j \in 1..n : w[j] = step[<<w[j - 1], j>>]
    BY <2>4 DEF IsTrace
  <2>6. \A j \in 1..n : j - 1 \in 0..n
    BY <1>0
  <2>7. \A j \in 1..n : w[j] = w[j - 1] \o ss[j]
    <3> SUFFICES ASSUME NEW j \in 1..n PROVE w[j] = w[j - 1] \o ss[j]
      OBVIOUS
    <3>1. w[j - 1] \in W /\ w[j] = step[<<w[j - 1], j>>]
      <4> HIDE DEF step
      <4> QED BY <2>5, <2>6
    <3> QED BY <3>1
  <2> DEFINE h == [i \in 1..n |-> w[i]]
  <2>8. IsFlat(h)
    <3>1. ASSUME NEW i \in 1..n PROVE h[i] = IF i = 1 THEN ss[i] ELSE h[i - 1] \o ss[i]
      <4>1. CASE i = 1
        <5>1. w[1] = w[0] \o ss[1] /\ ss[1] \in W
          <6>1. 1 - 1 = 0
            OBVIOUS
          <6> QED BY <1>0, <2>7, <4>1, <6>1
        <5>2. w[1] = ss[1]
          BY <2>2, <2>5, <5>1
        <5> QED BY <4>1, <5>2
      <4>2. CASE i # 1
        <5>1. i - 1 \in 1..n
          BY <1>0, <4>2
        <5> QED BY <2>7, <4>2, <5>1
      <4> QED BY <4>1, <4>2
    <3>2. h = [i \in 1..n |-> h[i]]
      OBVIOUS
    <3> HIDE DEF h
    <3> QED BY <3>1, <3>2
  <2>9. IsFlat(flatten)
    <3> HIDE DEF IsFlat, h
    <3> QED BY <2>8
  <2>10. FlattenSeq(ss) = flatten[n]
    BY <1>2, Zenon DEF FlattenSeq, n
  <2> HIDE DEF flatten
  <2>11. \A i \in 1..n : flatten[i] = IF i = 1 THEN ss[i] ELSE flatten[i - 1] \o ss[i]
    BY <2>9
  <2> DEFINE Has(i) == flatten[i] \in W /\ ToSet(flatten[i]) = UNION {ToSet(ss[j]) : j \in 1..i}
             G == {i \in 0..n : i = 0 \/ Has(i)}
  <2>12. ASSUME NEW i \in 1..n, i - 1 \in G PROVE i \in G
    <3>1. CASE i = 1
      <4>1. flatten[1] = ss[1] /\ ss[1] \in W
        BY <1>0, <2>11, <3>1
      <4>2. 1..1 = {1}
        OBVIOUS
      <4>3. Has(1)
        BY <4>1, <4>2
      <4> HIDE DEF Has
      <4> QED BY <1>0, <3>1, <4>3
    <3>2. CASE i # 1
      <4>1. i - 1 # 0 /\ i \in 0..n
        BY <1>0, <3>2
      <4>2. Has(i - 1)
        <5> HIDE DEF Has
        <5> QED BY <2>12, <4>1
      <4>3. flatten[i] = flatten[i - 1] \o ss[i] /\ ss[i] \in W
        BY <1>0, <2>11, <3>2
      <4>4. flatten[i] \in W /\ ToSet(flatten[i]) = ToSet(flatten[i - 1]) \cup ToSet(ss[i])
        BY <4>2, <4>3, ConcatHas DEF W
      <4>5. 1..i = (1..(i - 1)) \cup {i}
        BY <1>0
      <4>6. Has(i)
        BY <4>2, <4>4, <4>5
      <4> HIDE DEF Has
      <4> QED BY <4>1, <4>6
    <3> QED BY <3>1, <3>2
  <2>13. G \in SUBSET (0..n) /\ 0 \in G
    BY <1>0
  <2>14. G = 0..n
    <3> HIDE DEF G
    <3> QED BY <1>0, <2>12, <2>13, UpTo
  <2>15. Has(n)
    <3>1. n \in G
      <4> HIDE DEF G
      <4> QED BY <1>0, <2>14
    <3> HIDE DEF Has
    <3> QED BY <1>2, <3>1
  <2> QED BY <1>0, <2>10, <2>15 DEF HasAllOf, W
<1> QED BY <1>1, <1>2

-----------------------------------------------------------------------------
(* Every mention is declared, or warned about.                             *)
LoadedSchema == [client : STRING, entries : Seq(Entry)]
AskedTyped == asked.schemas \in Seq([schema : Schema, fetched : BOOLEAN])
LoadedTyped == loaded \in Seq(LoadedSchema)
TypeGenInv == AskedTyped /\ LoadedTyped /\ ModuleIsClosed

\* A schema declares its types and, if asked for, a client.
DeclaresOwn(schema) ==
  \E R : /\ Declarations(schema) \in Seq(R)
         /\ \A d \in ToSet(Declarations(schema)) : \A x \in d.mentions :
              \E e \in ToSet(schema.entries) : (IsType(e) \/ asked.client) /\ x \in WrittenIn(e)
         /\ \A e \in ToSet(schema.entries) :
              IsType(e) => \E d \in ToSet(Declarations(schema)) : d.name = Sanitize[e.name]

\* Each type of a schema is declared, and what a declaration mentions is written in an
\* entry.
LEMMA SchemaDeclares ==
  ASSUME NEW schema \in LoadedSchema
  PROVE  DeclaresOwn(schema)
<1> DEFINE E == ToSet(schema.entries)
           ss == [i \in DOMAIN schema.entries |-> Emitted(schema.entries[i])]
           fns == {e \in E : IsFunction(e)}
           client == [name |-> schema.client, form |-> "client", mentions |-> UNION {WrittenIn(e) : e \in fns}]
           R == {Declaration(e) : e \in E} \cup {client}
           flat == FlattenSeq(ss)
           C == ClientOf(schema)
<1>1. schema.entries \in Seq(Entry)
  BY DEF LoadedSchema
<1>2. ss \in Seq(Seq(R)) /\ DOMAIN ss = DOMAIN schema.entries
  <2>1. \A e \in E : Emitted(e) \in Seq(R)
    <3> SUFFICES ASSUME NEW e \in E PROVE Emitted(e) \in Seq(R)
      OBVIOUS
    <3>1. <<>> \in Seq(R)
      OBVIOUS
    <3>2. Declaration(e) \in R
      OBVIOUS
    <3> HIDE DEF R, E
    <3>3. <<Declaration(e)>> \in Seq(R)
      BY <3>2
    <3> QED BY <3>1, <3>3 DEF Emitted
  <2>2. \A i \in DOMAIN schema.entries : schema.entries[i] \in E
    BY DEF ToSet
  <2> DEFINE n == Len(schema.entries)
  <2>3. DOMAIN schema.entries = 1..n /\ n \in Nat
    BY <1>1
  <2> HIDE DEF n, R, E
  <2>4. ss \in [1..n -> Seq(R)]
    BY <2>1, <2>2, <2>3
  <2> QED BY <2>3, <2>4
<1>3. flat \in Seq(R) /\ ToSet(flat) = UNION {ToSet(ss[i]) : i \in DOMAIN ss}
  <2> HIDE DEF ss, R
  <2> QED BY <1>2, FlattenHas DEF HasAllOf
<1>4. C \in Seq(R) /\ \A d \in ToSet(C) : d = client /\ asked.client
  <2>1. C = IF fns = {} \/ ~asked.client THEN <<>> ELSE <<client>>
    BY Zenon DEF ClientOf
  <2>2. <<>> \in Seq(R) /\ <<client>> \in Seq(R) /\ ToSet(<<>>) = {} /\ ToSet(<<client>>) = {client}
    <3>1. client \in R
      OBVIOUS
    <3> HIDE DEF client, R
    <3> QED BY <3>1 DEF ToSet
  <2> HIDE DEF C, client, R
  <2> QED BY <2>1, <2>2
<1>5. Declarations(schema) \in Seq(R) /\ ToSet(Declarations(schema)) = ToSet(flat) \cup ToSet(C)
  <2>1. Declarations(schema) = flat \o C
    BY Zenon DEF Declarations
  <2> HIDE DEF flat, C, R
  <2>2. flat \in Seq(R) /\ C \in Seq(R)
    BY <1>3, <1>4
  <2>3. flat \o C \in Seq(R) /\ ToSet(flat \o C) = ToSet(flat) \cup ToSet(C)
    BY <2>2, ConcatHas
  <2> QED BY <2>1, <2>3, Zenon
<1>6. ToSet(flat) = {Declaration(e) : e \in {e \in E : IsType(e)}}
  <2>1. \A e \in E : ToSet(Emitted(e)) = IF IsType(e) THEN {Declaration(e)} ELSE {}
    BY DEF Emitted, ToSet
  <2>2. \A i \in DOMAIN ss : ss[i] = Emitted(schema.entries[i])
    OBVIOUS
  <2>3. E = {schema.entries[i] : i \in DOMAIN ss}
    BY DEF ToSet
  <2> HIDE DEF flat, ss, E
  <2> QED BY <1>3, <2>1, <2>2, <2>3
<1>7. ASSUME NEW d \in ToSet(Declarations(schema)), NEW x \in d.mentions
      PROVE  \E e \in E : (IsType(e) \/ asked.client) /\ x \in WrittenIn(e)
  <2>1. CASE d \in ToSet(flat)
    <3>1. PICK e \in E : IsType(e) /\ d = Declaration(e)
      <4> HIDE DEF flat, E
      <4> QED BY <1>6, <2>1
    <3> QED BY <3>1 DEF Declaration
  <2>2. CASE d \in ToSet(C)
    <3>1. d = client /\ asked.client
      <4> HIDE DEF client, C
      <4> QED BY <1>4, <2>2
    <3>2. d.mentions = UNION {WrittenIn(e) : e \in fns}
      BY <3>1
    <3> QED BY <3>1, <3>2
  <2> HIDE DEF flat, C
  <2> QED BY <1>5, <2>1, <2>2
<1>8. ASSUME NEW e \in E, IsType(e)
      PROVE  \E d \in ToSet(Declarations(schema)) : d.name = Sanitize[e.name]
  <2>1. Declaration(e).name = Sanitize[e.name]
    BY DEF Declaration
  <2>2. Declaration(e) \in ToSet(Declarations(schema))
    <3> HIDE DEF flat, C, E
    <3> QED BY <1>5, <1>6, <1>8
  <2> QED BY <2>1, <2>2
<1> HIDE DEF R
<1> QED BY <1>5, <1>7, <1>8 DEF DeclaresOwn
\* What is generated is closed.
LEMMA GeneratedIsClosed ==
  ASSUME TypeGenInv, GenerateTypes
  PROVE  ModuleIsClosed'
<1> DEFINE ss == [k \in DOMAIN loaded |-> Declarations(loaded[k])]
           declared == FlattenSeq(ss)
           K == DOMAIN loaded
<1>1. /\ module' = declared
      /\ warnings' = (Referenced \ Defined) \cup ({declared[i].name : i \in DOMAIN declared} \cap Manual)
  BY Zenon DEF GenerateTypes
<1>2. \A k \in K : DeclaresOwn(loaded[k]) /\ loaded[k] \in LoadedSchema
  BY SchemaDeclares DEF TypeGenInv, LoadedTyped
<1>3. ToSet(declared) = UNION {ToSet(Declarations(loaded[k])) : k \in K}
  <2> DEFINE S == UNION {ToSet(Declarations(loaded[k])) : k \in K}
             n == Len(loaded)
  <2>1. K = 1..n /\ n \in Nat
    BY DEF TypeGenInv, LoadedTyped
  <2>2. \A k \in K : Declarations(loaded[k]) \in Seq(S)
    <3> SUFFICES ASSUME NEW k \in K PROVE Declarations(loaded[k]) \in Seq(S)
      OBVIOUS
    <3> DEFINE d == Declarations(loaded[k])
    <3>1. PICK R : d \in Seq(R)
      BY <1>2 DEF DeclaresOwn
    <3>2. \A i \in DOMAIN d : d[i] \in S
      BY DEF ToSet
    <3> HIDE DEF d, S
    <3>3. d \in Seq(S)
      BY <3>1, <3>2
    <3> QED BY <3>3 DEF d
  <2> HIDE DEF S, n
  <2>3. ss \in Seq(Seq(S)) /\ DOMAIN ss = K
    BY <2>1, <2>2
  <2>4. ToSet(declared) = UNION {ToSet(ss[k]) : k \in DOMAIN ss}
    <3> HIDE DEF ss
    <3> QED BY <2>3, FlattenHas DEF HasAllOf
  <2>5. \A k \in K : ss[k] = Declarations(loaded[k])
    OBVIOUS
  <2> HIDE DEF ss, K
  <2>6. {ToSet(ss[k]) : k \in DOMAIN ss} = {ToSet(Declarations(loaded[k])) : k \in K}
    BY <2>3, <2>5
  <2> QED BY <2>4, <2>6
<1> HIDE DEF declared
<1>4. Entries = UNION {ToSet(loaded[k].entries) : k \in K}
  BY DEF Entries
<1>5. ASSUME NEW e \in Entries PROVE e.parts \in Seq(Type)
  <2>1. PICK k \in K : e \in ToSet(loaded[k].entries)
    BY <1>4
  <2>2. loaded[k].entries \in Seq(Entry)
    BY <1>2 DEF LoadedSchema
  <2>3. e \in Entry
    BY <2>1, <2>2 DEF ToSet
  <2> QED BY <2>3 DEF Entry
<1>6. ASSUME NEW i \in DOMAIN declared, NEW x \in declared[i].mentions
      PROVE  \/ \E j \in DOMAIN declared : declared[j].name = x
             \/ \E w \in warnings' : Sanitize[w] = x
  <2>1. declared[i] \in ToSet(declared)
    BY DEF ToSet
  <2>2. PICK k \in K : declared[i] \in ToSet(Declarations(loaded[k]))
    BY <1>3, <2>1
  <2>3. PICK e \in ToSet(loaded[k].entries) : (IsType(e) \/ asked.client) /\ x \in WrittenIn(e)
    BY <1>2, <2>2 DEF DeclaresOwn
  <2>4. e \in Entries
    BY <1>4
  <2>5. e.parts \in Seq(Type)
    BY <1>5, <2>4
  <2>6. PICK p \in DOMAIN e.parts : x \in Written(e.parts[p])
    BY <2>3 DEF WrittenIn
  <2> DEFINE t == e.parts[p]
  <2>7. t \in Type /\ t \in ToSet(e.parts)
    BY <2>5 DEF ToSet
  <2>8. PICK w \in Mentioned(t) : x = Sanitize[w]
    BY <2>6, <2>7, WrittenIsMentioned
  <2>9. w \in Referenced
    <3> HIDE DEF t
    <3> QED BY <2>3, <2>4, <2>7, <2>8 DEF Referenced
  <2>10. CASE w \notin Defined
    BY <1>1, <2>8, <2>9, <2>10
  <2>11. CASE w \in Defined
    <3>1. PICK f \in Entries : IsType(f) /\ f.name = w
      BY <2>11 DEF Defined
    <3>2. PICK l \in K : f \in ToSet(loaded[l].entries)
      BY <1>4
    <3>3. PICK d \in ToSet(Declarations(loaded[l])) : d.name = Sanitize[w]
      BY <1>2, <3>1, <3>2 DEF DeclaresOwn
    <3>4. d \in ToSet(declared)
      BY <1>3
    <3>5. PICK j \in DOMAIN declared : declared[j] = d
      BY <3>4 DEF ToSet
    <3> QED BY <2>8, <3>3, <3>5
  <2> QED BY <2>10, <2>11
<1> QED BY <1>1, <1>6 DEF ModuleIsClosed

\* The generator's invariant holds in the beginning.
LEMMA TypeGenInitInv == TypeGenInit => TypeGenInv
<1> SUFFICES ASSUME TypeGenInit PROVE TypeGenInv
  OBVIOUS
<1>1. loaded = <<>> /\ module = <<>>
  BY DEF TypeGenInit
<1>2. asked.schemas \in UNION {[1..n -> [schema : Schema, fetched : BOOLEAN]] : n \in 0..MaxSchemas}
  BY DEF TypeGenInit
<1>3. AskedTyped
  <2> DEFINE A == [schema : Schema, fetched : BOOLEAN]
  <2>1. PICK n \in 0..MaxSchemas : asked.schemas \in [1..n -> A]
    BY <1>2
  <2>2. n \in Nat
    OBVIOUS
  <2> HIDE DEF A
  <2>3. asked.schemas \in Seq(A)
    BY <2>1, <2>2
  <2> QED BY <2>3 DEF AskedTyped, A
<1>4. LoadedTyped /\ ModuleIsClosed
  <2>1. \A i \in DOMAIN module : FALSE
    BY <1>1
  <2> QED BY <1>1, <2>1 DEF LoadedTyped, ModuleIsClosed
<1> QED BY <1>3, <1>4 DEF TypeGenInv

\* What is loaded, as it is or recognized, has entries.
LEMMA LoadedHasEntries ==
  ASSUME NEW s \in Schema, NEW shape \in Shapes
  PROVE  s \in LoadedSchema /\ Fetched(s, shape) \in LoadedSchema
<1>1. s \in LoadedSchema
  BY TypeAssumption DEF LoadedSchema
<1>2. ASSUME NEW e \in Entry PROVE Recognized(e, shape) \in Seq(Entry)
  <2> DEFINE kind == IF e.kind \in HasCases THEN "union" ELSE e.kind
             parts == [i \in DOMAIN e.parts |-> IF shape = "plain" THEN Outermost(e.parts[i]) ELSE e.parts[i]]
  <2>1. e.kind \in EntryKinds /\ e.parts \in Seq(Type) /\ \A t \in Type : Outermost(t) \in Type
    BY TypeAssumption DEF Entry
  <2>2. kind \in EntryKinds
    BY <2>1 DEF EntryKinds
  <2>3. parts \in Seq(Type)
    <3> DEFINE n == Len(e.parts)
    <3>1. n \in Nat /\ DOMAIN e.parts = 1..n /\ \A i \in 1..n : e.parts[i] \in Type
      BY <2>1
    <3> HIDE DEF n
    <3> QED BY <2>1, <3>1
  <2>4. Normalized(e, shape) = [e EXCEPT !.kind = kind, !.parts = parts]
    BY DEF Normalized
  <2> HIDE DEF kind, parts
  <2>5. Normalized(e, shape) \in Entry
    BY <2>2, <2>3, <2>4 DEF Entry
  <2>6. <<>> \in Seq(Entry) /\ <<Normalized(e, shape)>> \in Seq(Entry)
    BY <2>5
  <2> QED BY <2>6 DEF Recognized
<1> DEFINE ss == [i \in DOMAIN s.entries |-> Recognized(s.entries[i], shape)]
           es == FlattenSeq(ss)
<1>3. s.entries \in Seq(Entry)
  BY <1>1 DEF LoadedSchema
<1>4. ss \in Seq(Seq(Entry))
  <2> DEFINE n == Len(s.entries)
  <2>1. n \in Nat /\ DOMAIN s.entries = 1..n /\ \A i \in 1..n : s.entries[i] \in Entry
    BY <1>3
  <2> HIDE DEF n
  <2> QED BY <1>2, <2>1
<1>5. Fetched(s, shape) = [s EXCEPT !.entries = es]
  BY DEF Fetched
<1> HIDE DEF ss
<1>6. es \in Seq(Entry)
  BY <1>4, FlattenHas DEF HasAllOf
<1> HIDE DEF es
<1> QED BY <1>1, <1>5, <1>6 DEF LoadedSchema

\* Every step of the generator keeps its invariant.
LEMMA TypeGenStep == TypeGenInv /\ [TypeGenNext]_typeVars => TypeGenInv'
<1> SUFFICES ASSUME TypeGenInv, [TypeGenNext]_typeVars PROVE TypeGenInv'
  OBVIOUS
<1>1. CASE LoadSchema
  <2> DEFINE s == asked.schemas[Len(loaded) + 1]
  <2>1. PICK new : /\ Len(loaded) < Len(asked.schemas) /\ loaded' = Append(loaded, new)
                   /\ UNCHANGED <<asked, module, warnings>>
                   /\ new = s.schema \/ \E shape \in Shapes : new = Fetched(s.schema, shape)
    BY <1>1, Zenon DEF LoadSchema
  <2>2. AskedTyped' /\ ModuleIsClosed'
    BY <2>1 DEF TypeGenInv, AskedTyped, ModuleIsClosed
  <2>3. s \in [schema : Schema, fetched : BOOLEAN]
    <3> DEFINE A == [schema : Schema, fetched : BOOLEAN]
               n == Len(loaded)
               m == Len(asked.schemas)
    <3>1. asked.schemas \in Seq(A) /\ n \in Nat
      BY DEF TypeGenInv, AskedTyped, LoadedTyped
    <3>2. \A i \in 1..m : asked.schemas[i] \in A
      <4> HIDE DEF A
      <4> QED BY <3>1
    <3>3. m \in Nat /\ n < m
      <4> HIDE DEF A
      <4> QED BY <2>1, <3>1
    <3> HIDE DEF n, m, A
    <3>4. n + 1 \in 1..m
      BY <3>1, <3>3
    <3>5. asked.schemas[n + 1] \in A
      BY <3>2, <3>4
    <3> QED BY <3>5 DEF n, A
  <2>4. new \in LoadedSchema
    <3> HIDE DEF s
    <3>1. "unions" \in Shapes
      BY DEF Shapes
    <3> QED BY <2>1, <2>3, <3>1, LoadedHasEntries
  <2>5. LoadedTyped'
    <3> QED BY <2>1, <2>4 DEF TypeGenInv, LoadedTyped
  <2> QED BY <2>2, <2>5 DEF TypeGenInv
<1>2. CASE GenerateTypes
  <2>1. UNCHANGED <<asked, loaded>>
    BY <1>2, Zenon DEF GenerateTypes
  <2>2. AskedTyped' /\ LoadedTyped'
    BY <2>1 DEF TypeGenInv, AskedTyped, LoadedTyped
  <2> QED BY <1>2, <2>2, GeneratedIsClosed DEF TypeGenInv
<1>3. CASE LoadFails \/ UNCHANGED typeVars
  <2>1. UNCHANGED <<asked, loaded, module, warnings>>
    BY <1>3 DEF LoadFails, typeVars
  <2> QED BY <2>1 DEF TypeGenInv, AskedTyped, LoadedTyped, ModuleIsClosed
<1> QED BY <1>1, <1>2, <1>3 DEF TypeGenNext

(* Every name the generated module mentions, wherever a type may stand and   *)
(* however deep, is declared in it or warned about (specTypeToTs,            *)
(* generateTypes): for any schemas whose types are finite trees.             *)
THEOREM ModuleIsAlwaysClosed == TypeGenSpec => []ModuleIsClosed
<1>1. TypeGenInit => TypeGenInv
  BY TypeGenInitInv
<1>2. TypeGenInv /\ [TypeGenNext]_typeVars => TypeGenInv'
  BY TypeGenStep
<1>3. TypeGenInv => ModuleIsClosed
  BY DEF TypeGenInv
<1> QED BY <1>1, <1>2, <1>3, PTL DEF TypeGenSpec
=============================================================================
