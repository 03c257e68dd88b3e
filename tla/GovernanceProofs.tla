-------------------------- MODULE GovernanceProofs --------------------------
(***************************************************************************)
(* What can be said of every executed proposal, and what no call changes   *)
(* in a proposal, for any list of owners, councils, parameters and times;  *)
(* that Governance implements the life of a proposal in ProposalLifecycle; *)
(* and that a freeze of the distributor, which hosts it, outlasts any      *)
(* minority of its owners.                                                 *)
(*                                                                         *)
(* That an executed proposal was approved by enough owners is inductive    *)
(* once approvals are known to come from owners only: a share in basis     *)
(* points of a list that may name an owner twice is then a share of the    *)
(* owners.                                                                 *)
(***************************************************************************)
EXTENDS DistributionFreeze, FiniteSetTheorems, TLAPS

ApproversAreOwners == \A i \in DOMAIN proposals : proposals[i].approvals \subseteq Owners

IInv == TypeOK /\ ApproversAreOwners /\ ExecutedWasApproved

-----------------------------------------------------------------------------
(* Owners and quorums.                                                     *)

\* The list names every owner, so it is at least as long as they are many.
LEMMA OwnersCounted ==
  /\ Owners \subseteq Account /\ IsFiniteSet(Owners)
  /\ Len(OwnerList) \in Nat /\ Cardinality(Owners) \in Nat
  /\ Cardinality(Owners) <= Len(OwnerList)
<1>1. OwnerList \in Seq(Account) /\ Len(OwnerList) \in Nat
  BY GovernanceAssumption
<1>2. OwnerList \in [1..Len(OwnerList) -> Account]
  BY <1>1
<1>3. OwnerList \in Surjection(1..Len(OwnerList), Owners)
  BY <1>2 DEF Surjection, Owners
<1>4. IsFiniteSet(1..Len(OwnerList)) /\ Cardinality(1..Len(OwnerList)) = Len(OwnerList)
  BY <1>1, FS_Interval
<1>5. IsFiniteSet(Owners) /\ Cardinality(Owners) <= Cardinality(1..Len(OwnerList))
  BY <1>3, <1>4, FS_Surjection
<1> QED BY <1>1, <1>2, <1>4, <1>5, FS_CardinalityType DEF Owners

\* A quotient is no more than its dividend.
LEMMA QuotientBound ==
  ASSUME NEW v \in Nat, NEW n \in Nat, n > 0
  PROVE  (v \div n) * n <= v
OBVIOUS

\* 8000 basis points of the list are four in five of the owners.
LEMMA FourInFive ==
  ASSUME NEW votes \in Nat, QuorumBps(votes) >= 8000
  PROVE  5 * votes >= 4 * Cardinality(Owners)
<1> DEFINE n == Len(OwnerList)
           v == votes * 10000
<1>1. n \in Nat /\ Cardinality(Owners) \in Nat /\ Cardinality(Owners) <= n
  BY OwnersCounted
<1>2. n > 0 /\ v \div n >= 8000
  BY <1>1 DEF QuorumBps
<1>3. v \in Nat /\ v \div n \in Nat
  BY <1>1, <1>2
<1>4. (v \div n) * n <= v
  BY <1>1, <1>2, <1>3, QuotientBound
<1>5. 8000 * n <= v
  <2> DEFINE q == v \div n
  <2>1. q \in Nat /\ q >= 8000 /\ q * n <= v
    BY <1>2, <1>3, <1>4
  <2>2. 8000 * n <= q * n
    <3> HIDE DEF q, v, n
    <3> QED BY <1>1, <2>1
  <2> HIDE DEF q, v, n
  <2> QED BY <1>1, <1>3, <2>1, <2>2
<1>6. 8000 * n <= votes * 10000
  BY <1>5
<1> HIDE DEF n, v
<1> QED BY <1>1, <1>6

\* What can_execute lets through is approved as ExecutedWasApproved asks.
LEMMA ApprovedEnough ==
  ASSUME TypeOK, ApproversAreOwners, NEW i \in DOMAIN proposals, EnoughApprovals(proposals[i])
  PROVE  /\ proposals[i].type = "Normal" => Cardinality(proposals[i].approvals) >= Threshold
         /\ proposals[i].type = "Emergency" =>
               5 * Cardinality(proposals[i].approvals) >= 4 * Cardinality(Owners)
<1>1. proposals[i].approvals \in SUBSET Owners
  BY DEF ApproversAreOwners
<1>2. Cardinality(proposals[i].approvals) \in Nat
  BY <1>1, OwnersCounted, FS_Subset, FS_CardinalityType
<1> QED BY <1>2, FourInFive DEF EnoughApprovals

-----------------------------------------------------------------------------
(* The changes of a proposal.                                              *)

\* An approval is added and nothing else changes.
LEMMA ApprovedFacts ==
  ASSUME NEW p \in Proposal, NEW a \in Account
  PROVE  /\ Approved(p, a) \in Proposal
         /\ Approved(p, a).approvals = p.approvals \union {a}
         /\ Approved(p, a).veto_votes = p.veto_votes
         /\ Approved(p, a).call = p.call /\ Approved(p, a).type = p.type
         /\ Approved(p, a).created_at = p.created_at
         /\ Approved(p, a).executable_after = p.executable_after
         /\ Approved(p, a).executed = p.executed /\ Approved(p, a).vetoed = p.vetoed
BY DEF Approved, Proposal

\* A veto vote is added, and may be the one that vetoes.
LEMMA OpposedFacts ==
  ASSUME NEW p \in Proposal, NEW m \in Account
  PROVE  /\ Opposed(p, m) \in Proposal
         /\ Opposed(p, m).approvals = p.approvals
         /\ Opposed(p, m).veto_votes = p.veto_votes \union {m}
         /\ Opposed(p, m).call = p.call /\ Opposed(p, m).type = p.type
         /\ Opposed(p, m).created_at = p.created_at
         /\ Opposed(p, m).executable_after = p.executable_after
         /\ Opposed(p, m).executed = p.executed
<1> DEFINE votes == p.veto_votes \union {m}
           lost == Cardinality(votes) >= council_threshold
<1>1. Opposed(p, m) = [p EXCEPT !.veto_votes = votes, !.vetoed = lost]
  BY DEF Opposed
<1>2. votes \in SUBSET Account /\ lost \in BOOLEAN
  BY DEF Proposal
<1> HIDE DEF votes, lost
<1>3. Opposed(p, m) \in Proposal
  BY <1>1, <1>2 DEF Proposal
<1>4. Opposed(p, m).veto_votes = votes
  BY <1>1 DEF Proposal
<1> QED BY <1>1, <1>3, <1>4 DEF Proposal, votes

\* Execution marks the proposal and nothing else.
LEMMA MarkedFacts ==
  ASSUME NEW p \in Proposal
  PROVE  /\ Marked(p) \in Proposal
         /\ Marked(p).approvals = p.approvals /\ Marked(p).veto_votes = p.veto_votes
         /\ Marked(p).call = p.call /\ Marked(p).type = p.type
         /\ Marked(p).created_at = p.created_at
         /\ Marked(p).executable_after = p.executable_after
         /\ Marked(p).executed = TRUE /\ Marked(p).vetoed = p.vetoed
BY DEF Marked, Proposal

-----------------------------------------------------------------------------
(* One proposal at a time.                                                 *)

\* What the invariants say of one proposal at time t.
Sound(p, t) ==
  /\ p.approvals \subseteq Owners
  /\ p.executed =>
        /\ ~p.vetoed
        /\ t >= p.executable_after
        /\ p.type = "Normal" => Cardinality(p.approvals) >= Threshold
        /\ p.type = "Emergency" => 5 * Cardinality(p.approvals) >= 4 * Cardinality(Owners)

\* The invariants are that every proposal is sound.
LEMMA SoundMeans ==
  ApproversAreOwners /\ ExecutedWasApproved <=> \A i \in DOMAIN proposals : Sound(proposals[i], now)
BY DEF ApproversAreOwners, ExecutedWasApproved, Sound

\* A new proposal is well formed and sound.
LEMMA CreatedFacts ==
  ASSUME TypeOK, NEW c \in Calls, NEW k \in {"Normal", "Emergency"}, NEW t \in Nat
  PROVE  Created(c, k, t) \in Proposal /\ Sound(Created(c, k, t), now)
<1>1. now \in Nat
  BY GovernanceAssumption DEF TypeOK
<1> QED BY <1>1 DEF Created, Proposal, Sound

\* A vote, for or against, leaves an open proposal sound.
LEMMA VotesKeepSound ==
  ASSUME NEW p \in Proposal, NEW t, Sound(p, t), ~p.executed
  PROVE  /\ \A a \in Owners : Sound(Approved(p, a), t)
         /\ \A m \in Account : Sound(Opposed(p, m), t)
<1>1. \A a \in Owners : Sound(Approved(p, a), t)
  BY ApprovedFacts, OwnersCounted DEF Sound
<1>2. \A m \in Account : Sound(Opposed(p, m), t)
  BY OpposedFacts DEF Sound
<1> QED BY <1>1, <1>2

\* Votes and execution keep the terms of an open proposal.
LEMMA ChangesKeepTerms ==
  ASSUME NEW p \in Proposal, ~p.executed
  PROVE  /\ \A a \in Account : SameTerms(p, Approved(p, a))
         /\ ~p.vetoed => \A m \in Account : SameTerms(p, Opposed(p, m))
         /\ SameTerms(p, Marked(p))
<1>1. \A a \in Account : SameTerms(p, Approved(p, a))
  BY ApprovedFacts DEF SameTerms
<1>2. ~p.vetoed => \A m \in Account : SameTerms(p, Opposed(p, m))
  BY OpposedFacts DEF SameTerms
<1>3. SameTerms(p, Marked(p))
  BY MarkedFacts DEF SameTerms
<1> QED BY <1>1, <1>2, <1>3

-----------------------------------------------------------------------------
(* All proposals: each kind of step.                                       *)

\* What a step that stores a new proposal, or rewrites one, leaves behind.
StepsWell ==
  /\ proposal_count' \in Nat
  /\ DOMAIN proposals' = 1..proposal_count' /\ proposals' \in [1..proposal_count' -> Proposal]
  /\ \A i \in DOMAIN proposals' : Sound(proposals'[i], now)
  /\ \A i \in DOMAIN proposals :
        i \in DOMAIN proposals' /\ SameTerms(proposals[i], proposals'[i])

\* Storing a new proposal leaves the others alone.
LEMMA StoredWell ==
  ASSUME IInv, NEW p \in Proposal, Sound(p, now), Stored(p)
  PROVE  StepsWell
<1>1. /\ proposal_count \in Nat
      /\ DOMAIN proposals = 1..proposal_count /\ proposals \in [1..proposal_count -> Proposal]
      /\ proposal_count' = proposal_count + 1
      /\ proposals' = With(proposals, proposal_count + 1, p)
      /\ \A i \in DOMAIN proposals : Sound(proposals[i], now)
  BY SoundMeans DEF IInv, TypeOK, Stored, NextId
<1>2. DOMAIN proposals' = 1..proposal_count'
  BY <1>1 DEF With
<1>3. \A i \in DOMAIN proposals' : proposals'[i] = p \/ (i \in DOMAIN proposals /\ proposals'[i] = proposals[i])
  BY <1>1, <1>2 DEF With
<1>4. proposals' \in [1..proposal_count' -> Proposal]
  <2>1. proposals' = [i \in DOMAIN proposals' |-> proposals'[i]]
    BY <1>1 DEF With
  <2> QED BY <1>1, <1>2, <1>3, <2>1
<1>5. \A i \in DOMAIN proposals : i \in DOMAIN proposals' /\ proposals'[i] = proposals[i]
  BY <1>1 DEF With
<1> QED BY <1>1, <1>2, <1>3, <1>4, <1>5 DEF StepsWell, SameTerms

\* Rewriting one proposal, as a vote or an execution does, leaves the others alone.
LEMMA RewrittenWell ==
  ASSUME IInv, NEW i \in DOMAIN proposals, NEW q \in Proposal,
         Sound(q, now), SameTerms(proposals[i], q),
         proposals' = [proposals EXCEPT ![i] = q], proposal_count' = proposal_count
  PROVE  StepsWell
<1>1. /\ proposal_count \in Nat
      /\ DOMAIN proposals = 1..proposal_count /\ proposals \in [1..proposal_count -> Proposal]
      /\ \A j \in DOMAIN proposals : Sound(proposals[j], now)
  BY SoundMeans DEF IInv, TypeOK
<1>2. DOMAIN proposals' = 1..proposal_count' /\ proposals' \in [1..proposal_count' -> Proposal]
  BY <1>1
<1>3. \A j \in DOMAIN proposals : proposals'[j] = IF j = i THEN q ELSE proposals[j]
  BY <1>1
<1>4. \A j \in DOMAIN proposals : SameTerms(proposals[j], proposals[j])
  BY DEF SameTerms
<1> QED BY <1>1, <1>2, <1>3, <1>4 DEF StepsWell

\* What the calls that change proposals leave behind.
LEMMA CallsStepWell ==
  ASSUME IInv
  PROVE  /\ \A o \in Owners, c \in Calls :
               /\ \A category \in DOMAIN Review : CreateProposal(o, c, category) => StepsWell
               /\ CreateEmergencyProposal(o, c) => StepsWell
         /\ \A a \in Account, i \in DOMAIN proposals :
               (Approve(a, i) => StepsWell) /\ (Veto(a, i) => StepsWell)
         /\ \A o \in Owners, i \in DOMAIN proposals, c \in Calls : Execute(o, i, c) => StepsWell
<1>1. /\ TypeOK /\ ApproversAreOwners
      /\ \A i \in DOMAIN proposals : proposals[i] \in Proposal /\ Sound(proposals[i], now)
      /\ now \in Nat
  BY SoundMeans, GovernanceAssumption DEF IInv, TypeOK
<1>2. ASSUME NEW o \in Owners, NEW c \in Calls, NEW category \in DOMAIN Review,
             CreateProposal(o, c, category)
      PROVE  StepsWell
  <2>1. now + Review[category] + Timelock \in Nat
    BY <1>1, GovernanceAssumption
  <2> DEFINE p == Created(c, "Normal", now + Review[category] + Timelock)
  <2>2. p \in Proposal /\ Sound(p, now)
    BY <1>1, <2>1, CreatedFacts
  <2> QED BY <1>2, <2>2, StoredWell DEF CreateProposal
<1>3. ASSUME NEW o \in Owners, NEW c \in Calls, CreateEmergencyProposal(o, c)
      PROVE  StepsWell
  <2>1. now + emergency_review \in Nat
    BY <1>1 DEF TypeOK
  <2> DEFINE p == Created(c, "Emergency", now + emergency_review)
  <2>2. p \in Proposal /\ Sound(p, now)
    BY <1>1, <2>1, CreatedFacts
  <2> QED BY <1>3, <2>2, StoredWell DEF CreateEmergencyProposal
<1>4. ASSUME NEW a \in Account, NEW i \in DOMAIN proposals, Approve(a, i)
      PROVE  StepsWell
  <2> DEFINE q == Approved(proposals[i], a)
  <2>1. a \in Owners /\ ~proposals[i].executed
    BY <1>4 DEF Approve, Approvable
  <2>2. q \in Proposal /\ Sound(q, now) /\ SameTerms(proposals[i], q)
    BY <1>1, <2>1, ApprovedFacts, VotesKeepSound, ChangesKeepTerms
  <2>3. proposals' = [proposals EXCEPT ![i] = q] /\ proposal_count' = proposal_count
    BY <1>4 DEF Approve
  <2> HIDE DEF q
  <2> QED BY <2>2, <2>3, RewrittenWell
<1>5. ASSUME NEW a \in Account, NEW i \in DOMAIN proposals, Veto(a, i)
      PROVE  StepsWell
  <2> DEFINE q == Opposed(proposals[i], a)
  <2>1. ~proposals[i].executed /\ ~proposals[i].vetoed
    BY <1>5 DEF Veto, Vetoable
  <2>2. q \in Proposal /\ Sound(q, now) /\ SameTerms(proposals[i], q)
    BY <1>1, <2>1, OpposedFacts, VotesKeepSound, ChangesKeepTerms
  <2>3. proposals' = [proposals EXCEPT ![i] = q] /\ proposal_count' = proposal_count
    BY <1>5 DEF Veto
  <2> HIDE DEF q
  <2> QED BY <2>2, <2>3, RewrittenWell
<1>6. ASSUME NEW o \in Owners, NEW i \in DOMAIN proposals, NEW c \in Calls, Execute(o, i, c)
      PROVE  StepsWell
  <2> DEFINE q == Marked(proposals[i])
  <2>1. /\ ~proposals[i].executed /\ ~proposals[i].vetoed
        /\ now >= proposals[i].executable_after
        /\ EnoughApprovals(proposals[i])
    BY <1>6 DEF Execute, CanExecute, Timely
  <2>2. q \in Proposal /\ SameTerms(proposals[i], q)
    BY <1>1, <2>1, MarkedFacts, ChangesKeepTerms
  <2>3. Sound(q, now)
    BY <1>1, <2>1, MarkedFacts, ApprovedEnough DEF Sound
  <2>4. proposals' = [proposals EXCEPT ![i] = q] /\ proposal_count' = proposal_count
    BY <1>6 DEF Execute
  <2> HIDE DEF q
  <2> QED BY <2>2, <2>3, <2>4, RewrittenWell
<1> QED BY <1>2, <1>3, <1>4, <1>5, <1>6

\* What a call that changes proposals leaves behind, with everything else as it
\* was, keeps the invariant.
LEMMA WellKeepsIInv ==
  ASSUME IInv, StepsWell, UNCHANGED <<params, stake, now>>
  PROVE  IInv'
<1>1. TypeOK'
  BY DEF IInv, TypeOK, StepsWell, params
<1>2. \A i \in DOMAIN proposals' : Sound(proposals'[i], now')
  BY DEF StepsWell
<1>3. ApproversAreOwners' /\ ExecutedWasApproved'
  BY <1>2 DEF ApproversAreOwners, ExecutedWasApproved, Sound
<1> QED BY <1>1, <1>3 DEF IInv

\* A step that leaves proposals alone keeps their terms, and keeps them sound as
\* time goes on.
LEMMA OthersKeepSound ==
  ASSUME IInv, UNCHANGED <<proposals, proposal_count>>, now' \in Nat, now' >= now
  PROVE  /\ ApproversAreOwners' /\ ExecutedWasApproved'
         /\ \A i \in DOMAIN proposals :
               i \in DOMAIN proposals' /\ SameTerms(proposals[i], proposals'[i])
<1>1. /\ \A i \in DOMAIN proposals : Sound(proposals[i], now)
      /\ \A i \in DOMAIN proposals : proposals[i].executable_after \in Nat
      /\ now \in Nat
  BY SoundMeans, GovernanceAssumption DEF IInv, TypeOK, Proposal
<1>2. \A i \in DOMAIN proposals : Sound(proposals[i], now')
  BY <1>1 DEF Sound
<1>3. ApproversAreOwners' /\ ExecutedWasApproved'
  BY <1>2 DEF ApproversAreOwners, ExecutedWasApproved, Sound
<1> QED BY <1>3 DEF SameTerms

\* Every step keeps the invariant, and the terms of every proposal.
LEMMA NextWell ==
  ASSUME IInv, [Next]_govVars
  PROVE  /\ IInv'
         /\ \A i \in DOMAIN proposals :
               i \in DOMAIN proposals' /\ SameTerms(proposals[i], proposals'[i])
<1>1. TypeOK
  BY DEF IInv
<1>2. CASE StepsWell /\ UNCHANGED <<params, stake, now>>
  BY <1>2, WellKeepsIInv DEF StepsWell
<1>3. CASE UNCHANGED <<proposals, proposal_count>> /\ TypeOK' /\ now' >= now
  <2>1. now' \in Nat
    BY <1>3, GovernanceAssumption DEF TypeOK
  <2> QED BY <1>3, <2>1, OthersKeepSound DEF IInv
<1>4. now \in Nat /\ now >= now
  BY <1>1, GovernanceAssumption DEF TypeOK
<1>5. ASSUME NEW o \in Owners, NEW cl \in Councils, UpdateCouncil(o, cl[1], cl[2])
      PROVE  UNCHANGED <<proposals, proposal_count>> /\ TypeOK' /\ now' >= now
  <2>1. cl[1] \in Seq(Account) /\ cl[2] \in Nat
    BY GovernanceAssumption
  <2> QED BY <1>1, <1>4, <1>5, <2>1 DEF UpdateCouncil, TypeOK
<1>6. ASSUME NEW o \in Owners, NEW n \in EmergencyReviews, SetEmergencyReview(o, n)
      PROVE  UNCHANGED <<proposals, proposal_count>> /\ TypeOK' /\ now' >= now
  BY <1>1, <1>4, <1>6, GovernanceAssumption DEF SetEmergencyReview, TypeOK
<1>7. ASSUME NEW o \in Owners, NEW n \in MinBalances,
             SetMinProposalBalance(o, n) \/ SetStakeToken(o)
      PROVE  UNCHANGED <<proposals, proposal_count>> /\ TypeOK' /\ now' >= now
  BY <1>1, <1>4, <1>7, GovernanceAssumption DEF SetMinProposalBalance, SetStakeToken, TypeOK
<1>8. ASSUME NEW a \in Account, NEW n \in Stakes, StakeChange(a, n)
      PROVE  UNCHANGED <<proposals, proposal_count>> /\ TypeOK' /\ now' >= now
  BY <1>1, <1>4, <1>8, GovernanceAssumption DEF StakeChange, TypeOK, params
<1>9. ASSUME Tick
      PROVE  UNCHANGED <<proposals, proposal_count>> /\ TypeOK' /\ now' >= now
  BY <1>1, <1>4, <1>9, GovernanceAssumption DEF Tick, TypeOK, params
<1>10. ASSUME UNCHANGED govVars
       PROVE  UNCHANGED <<proposals, proposal_count>> /\ TypeOK' /\ now' >= now
  BY <1>1, <1>4, <1>10 DEF govVars, TypeOK
<1>11. ASSUME NEW o \in Owners, NEW c \in Calls, NEW category \in DOMAIN Review,
              CreateProposal(o, c, category) \/ CreateEmergencyProposal(o, c)
       PROVE  StepsWell /\ UNCHANGED <<params, stake, now>>
  <2>1. UNCHANGED <<params, stake, now>>
    BY <1>11 DEF CreateProposal, CreateEmergencyProposal
  <2> QED BY <1>11, <2>1, CallsStepWell
<1>12. ASSUME NEW o \in Owners, NEW c \in Calls, CreateEmergencyProposal(o, c)
       PROVE  StepsWell /\ UNCHANGED <<params, stake, now>>
  <2>1. UNCHANGED <<params, stake, now>>
    BY <1>12 DEF CreateEmergencyProposal
  <2> QED BY <1>12, <2>1, CallsStepWell
<1>13. ASSUME NEW a \in Account, NEW i \in DOMAIN proposals, Approve(a, i) \/ Veto(a, i)
       PROVE  StepsWell /\ UNCHANGED <<params, stake, now>>
  <2>1. UNCHANGED <<params, stake, now>>
    BY <1>13 DEF Approve, Veto
  <2> QED BY <1>13, <2>1, CallsStepWell
<1>14. ASSUME NEW o \in Owners, NEW i \in DOMAIN proposals, NEW c \in Calls, Execute(o, i, c)
       PROVE  StepsWell /\ UNCHANGED <<params, stake, now>>
  <2>1. UNCHANGED <<params, stake, now>>
    BY <1>14 DEF Execute
  <2> QED BY <1>14, <2>1, CallsStepWell
<1>15. \/ StepsWell /\ UNCHANGED <<params, stake, now>>
       \/ UNCHANGED <<proposals, proposal_count>> /\ TypeOK' /\ now' >= now
  BY <1>5, <1>6, <1>7, <1>8, <1>9, <1>10, <1>11, <1>12, <1>13, <1>14 DEF Next
<1> QED BY <1>2, <1>3, <1>15

-----------------------------------------------------------------------------
(* The theorems.                                                           *)

\* At first there is no proposal.
LEMMA InitIInv == Init => IInv
<1> SUFFICES ASSUME Init PROVE IInv
  OBVIOUS
<1>1. proposal_count = 0 /\ 1..0 = {} /\ 0 \in Nat
  BY DEF Init
<1>2. DOMAIN proposals = {} /\ proposals \in [1..0 -> Proposal]
  BY <1>1 DEF Init
<1>3. proposal_count \in Nat /\ DOMAIN proposals = 1..proposal_count
        /\ proposals \in [1..proposal_count -> Proposal]
  BY <1>1, <1>2
<1>4. council \in Seq(Account) /\ council_threshold \in Nat
  BY DEF Init
<1>5. emergency_review \in Nat
  BY GovernanceAssumption DEF Init
<1>6. min_balance \in Nat /\ stake_token_set \in BOOLEAN /\ stake \in [Account -> Nat]
  BY DEF Init
<1>7. now \in 0..MaxTime
  BY GovernanceAssumption DEF Init
<1>8. TypeOK
  BY <1>3, <1>4, <1>5, <1>6, <1>7 DEF TypeOK
<1>9. ApproversAreOwners /\ ExecutedWasApproved
  BY <1>2 DEF ApproversAreOwners, ExecutedWasApproved
<1> QED BY <1>8, <1>9 DEF IInv

\* The inductive invariant.
LEMMA Inductive == Spec => []IInv
<1>1. IInv /\ [Next]_govVars => IInv'
  BY NextWell
<1> QED BY InitIInv, <1>1, PTL DEF Spec

\* In every reachable state proposals are numbered without gaps and are well formed.
THEOREM GovernanceTypeCorrect == Spec => []TypeOK
<1>1. IInv => TypeOK
  BY DEF IInv
<1> QED BY Inductive, <1>1, PTL

\* In every reachable state every executed proposal was approved by distinct owners,
\* as many as its kind asks for, was executed after its delay, and was never vetoed,
\* whatever became of the council, its threshold, the review window and the stakes,
\* and however the owner list is written (execute_mark behind can_execute).
THEOREM ExecutedWasAlwaysApproved == Spec => []ExecutedWasApproved
<1>1. IInv => ExecutedWasApproved
  BY DEF IInv
<1> QED BY Inductive, <1>1, PTL

\* No step of any account changes what a proposal is about or when it may be
\* executed, drops a vote, or reopens it.
THEOREM TermsStayFixed == Spec => TermsAreFixed
<1>1. IInv /\ [Next]_govVars =>
        [\A i \in DOMAIN proposals :
            i \in DOMAIN proposals' /\ SameTerms(proposals[i], proposals'[i])]_govVars
  BY NextWell
<1> QED BY Inductive, <1>1, PTL DEF Spec, TermsAreFixed

-----------------------------------------------------------------------------
(* Governance implements ProposalLifecycle: a stored proposal opens one, an *)
(* approval supports it, an execution or the last veto vote ends it, and    *)
(* every other step stutters.                                               *)

\* The refinement mapping, as Governance substitutes it.
Subjects == [i \in DOMAIN proposals |-> <<proposals[i].call, proposals[i].type>>]
Supports == [i \in DOMAIN proposals |-> proposals[i].approvals]
Fates == [i \in DOMAIN proposals |-> Fate(proposals[i])]

Kinds == {"Normal", "Emergency"}

NeededFor == [s \in Calls \X Kinds |->
                 IF s[2] = "Normal" THEN Threshold ELSE (4 * Cardinality(Owners) + 4) \div 5]

-----------------------------------------------------------------------------
(* The steps of the life of a proposal.                                    *)

\* Storing a new proposal opens it.
LEMMA StoredOpens ==
  ASSUME IInv, NEW c \in Calls, NEW k \in Kinds, NEW t \in Nat, Stored(Created(c, k, t))
  PROVE  Lifecycle!Open
<1> DEFINE p == Created(c, k, t)
           n == proposal_count + 1
<1>1. /\ DOMAIN proposals = 1..proposal_count /\ proposal_count \in Nat
      /\ n \in 1..MaxProposals /\ n \notin DOMAIN proposals
      /\ proposals' = With(proposals, n, p)
  BY GovernanceAssumption DEF IInv, TypeOK, Stored, NextId
<1>2. p.call = c /\ p.type = k /\ p.approvals = {} /\ Fate(p) = "open"
  BY DEF Created, Fate
<1> HIDE DEF p, n
<1>3. /\ DOMAIN proposals' = DOMAIN proposals \union {n}
      /\ proposals'[n] = p
      /\ \A i \in DOMAIN proposals : proposals'[i] = proposals[i]
  BY <1>1 DEF With
<1>4. Subjects' = [i \in DOMAIN Subjects \union {n} |-> IF i = n THEN <<c, k>> ELSE Subjects[i]]
  BY <1>1, <1>2, <1>3 DEF Subjects
<1>5. Supports' = [i \in DOMAIN Supports \union {n} |-> IF i = n THEN {} ELSE Supports[i]]
  BY <1>1, <1>2, <1>3 DEF Supports
<1>6. Fates' = [i \in DOMAIN Fates \union {n} |-> IF i = n THEN "open" ELSE Fates[i]]
  <2>1. Fate(proposals'[n]) = "open" /\ \A i \in DOMAIN proposals : Fate(proposals'[i]) = Fate(proposals[i])
    BY <1>2, <1>3
  <2> QED BY <1>1, <1>3, <2>1 DEF Fates
<1>7. n \in 1..MaxProposals \ DOMAIN Fates /\ <<c, k>> \in Calls \X Kinds
  BY <1>1 DEF Fates
<1> QED BY <1>4, <1>5, <1>6, <1>7
        DEF Lifecycle!Open, Lifecycle!With, Subjects, Supports, Fates, Kinds

\* Rewriting one proposal changes the mapped state at that proposal only.
LEMMA RewrittenMaps ==
  ASSUME NEW i \in DOMAIN proposals, NEW q, q.call = proposals[i].call, q.type = proposals[i].type,
         proposals' = [proposals EXCEPT ![i] = q]
  PROVE  /\ UNCHANGED Subjects
         /\ Supports' = [Supports EXCEPT ![i] = q.approvals]
         /\ Fates' = [Fates EXCEPT ![i] = Fate(q)]
<1>1. /\ DOMAIN proposals' = DOMAIN proposals
      /\ \A j \in DOMAIN proposals : proposals'[j] = IF j = i THEN q ELSE proposals[j]
  OBVIOUS
<1>2. \A j \in DOMAIN proposals : <<proposals'[j].call, proposals'[j].type>>
                                     = <<proposals[j].call, proposals[j].type>>
  BY <1>1
<1>3. \A j \in DOMAIN proposals :
          Fate(proposals'[j]) = IF j = i THEN Fate(q) ELSE Fate(proposals[j])
  BY <1>1
<1> QED BY <1>1, <1>2, <1>3 DEF Subjects, Supports, Fates

\* An approval supports a proposal that is not executed.
LEMMA ApproveSupports ==
  ASSUME IInv, NEW a \in Account, NEW i \in DOMAIN proposals, Approve(a, i)
  PROVE  Lifecycle!Support
<1> DEFINE p == proposals[i]
           q == Approved(p, a)
<1>1. p \in Proposal
  BY DEF IInv, TypeOK
<1>2. /\ a \in Owners /\ ~p.executed /\ a \notin p.approvals
      /\ proposals' = [proposals EXCEPT ![i] = q]
  BY DEF Approve, Approvable
<1>3. q.call = p.call /\ q.type = p.type /\ q.approvals = p.approvals \union {a}
        /\ q.executed = p.executed /\ q.vetoed = p.vetoed
  BY <1>1, <1>2, OwnersCounted, ApprovedFacts
<1>4. Fate(q) = Fate(p) /\ Fate(p) # "executed"
  BY <1>2, <1>3 DEF Fate
<1> HIDE DEF q
<1>5. /\ UNCHANGED Subjects /\ Supports' = [Supports EXCEPT ![i] = q.approvals]
      /\ Fates' = [Fates EXCEPT ![i] = Fate(q)]
  BY <1>2, <1>3, RewrittenMaps
<1>6. Supports' = [Supports EXCEPT ![i] = @ \union {a}] /\ a \notin Supports[i]
  BY <1>2, <1>3, <1>5 DEF Supports
<1>7. UNCHANGED Fates /\ Fates[i] # "executed" /\ i \in DOMAIN Fates
  BY <1>4, <1>5 DEF Fates
<1> QED BY <1>2, <1>5, <1>6, <1>7 DEF Lifecycle!Support, Subjects, Supports, Fates

\* A veto vote ends an open proposal, or changes nothing of its life.
LEMMA VetoEnds ==
  ASSUME IInv, NEW a \in Account, NEW i \in DOMAIN proposals, Veto(a, i)
  PROVE  Lifecycle!Veto \/ UNCHANGED <<Subjects, Supports, Fates>>
<1> DEFINE p == proposals[i]
           q == Opposed(p, a)
<1>1. p \in Proposal
  BY DEF IInv, TypeOK
<1>2. /\ ~p.executed /\ ~p.vetoed
      /\ proposals' = [proposals EXCEPT ![i] = q]
  BY DEF Veto, Vetoable
<1>3. q.call = p.call /\ q.type = p.type /\ q.approvals = p.approvals
        /\ q.executed = p.executed
  BY <1>1, OpposedFacts
<1>4. Fate(p) = "open" /\ Fate(q) \in {"open", "vetoed"}
  BY <1>2, <1>3 DEF Fate
<1> HIDE DEF q
<1>5. /\ UNCHANGED Subjects /\ Supports' = [Supports EXCEPT ![i] = q.approvals]
      /\ Fates' = [Fates EXCEPT ![i] = Fate(q)]
  BY <1>2, <1>3, RewrittenMaps
<1>6. UNCHANGED Supports
  BY <1>3, <1>5 DEF Supports
<1>7. i \in DOMAIN Fates /\ Fates[i] = "open"
  BY <1>4 DEF Fates
<1>8. CASE Fate(q) = "open"
  BY <1>5, <1>6, <1>7, <1>8 DEF Fates
<1>9. CASE Fate(q) = "vetoed"
  <2>1. Fates' = [Fates EXCEPT ![i] = "vetoed"]
    BY <1>5, <1>9
  <2> QED BY <1>5, <1>6, <1>7, <2>1 DEF Lifecycle!Veto, Subjects, Supports, Fates
<1> QED BY <1>4, <1>8, <1>9

\* The fewest owners that are four in five, rounded up.
LEMMA RoundedUp ==
  ASSUME NEW v \in Nat, NEW n \in Nat, 5 * v >= 4 * n
  PROVE  v >= (4 * n + 4) \div 5
OBVIOUS

\* The instance counts as Governance does.
LEMMA SameCount == ASSUME NEW S PROVE Lifecycle!Cardinality(S) = Cardinality(S)
BY Zenon DEF Cardinality, Lifecycle!Cardinality

\* Execution ends an open proposal with enough support.
LEMMA ExecuteEnds ==
  ASSUME IInv, NEW o \in Owners, NEW i \in DOMAIN proposals, NEW c \in Calls, Execute(o, i, c)
  PROVE  Lifecycle!Execute
<1> DEFINE p == proposals[i]
           q == Marked(p)
           votes == Cardinality(p.approvals)
<1>1. p \in Proposal /\ TypeOK /\ ApproversAreOwners
  BY DEF IInv, TypeOK
<1>2. /\ ~p.executed /\ ~p.vetoed /\ EnoughApprovals(p)
      /\ proposals' = [proposals EXCEPT ![i] = q]
  BY DEF Execute, CanExecute
<1>3. q.call = p.call /\ q.type = p.type /\ q.approvals = p.approvals /\ q.executed = TRUE
  BY <1>1, MarkedFacts
<1>4. Fate(p) = "open" /\ Fate(q) = "executed"
  BY <1>2, <1>3 DEF Fate
<1>5. /\ p.type = "Normal" => votes >= Threshold
      /\ p.type = "Emergency" => 5 * votes >= 4 * Cardinality(Owners)
  BY <1>1, <1>2, ApprovedEnough
<1>6. votes \in Nat /\ Cardinality(Owners) \in Nat
  <2>1. p.approvals \in SUBSET Owners
    BY <1>1 DEF ApproversAreOwners
  <2> QED BY <2>1, OwnersCounted, FS_Subset, FS_CardinalityType
<1>7. <<p.call, p.type>> \in Calls \X Kinds /\ p.type \in Kinds
  BY <1>1 DEF Proposal, Kinds
<1>8. NeededFor[<<p.call, p.type>>]
        = IF p.type = "Normal" THEN Threshold ELSE (4 * Cardinality(Owners) + 4) \div 5
  BY <1>7 DEF NeededFor
<1> HIDE DEF votes
<1>9. votes >= NeededFor[<<p.call, p.type>>]
  BY <1>5, <1>6, <1>7, <1>8, RoundedUp DEF Kinds
<1> HIDE DEF q
<1>10. /\ UNCHANGED Subjects /\ Supports' = [Supports EXCEPT ![i] = q.approvals]
       /\ Fates' = [Fates EXCEPT ![i] = Fate(q)]
  BY <1>2, <1>3, RewrittenMaps
<1>11. UNCHANGED Supports /\ Fates' = [Fates EXCEPT ![i] = "executed"]
  BY <1>3, <1>4, <1>10 DEF Supports
<1>12. i \in DOMAIN Fates /\ Fates[i] = "open"
  BY <1>4 DEF Fates
<1>13. Cardinality(Supports[i]) >= NeededFor[Subjects[i]]
  BY <1>9 DEF votes, Supports, Subjects
<1> QED BY <1>10, <1>11, <1>12, <1>13, SameCount
        DEF Lifecycle!Execute, Subjects, Supports, Fates, NeededFor, Kinds

-----------------------------------------------------------------------------
(* The theorem.                                                            *)

\* Every step of Governance is a step in the life of a proposal, or a stutter.
LEMMA NextLives ==
  ASSUME IInv, [Next]_govVars
  PROVE  Lifecycle!Next \/ UNCHANGED <<Subjects, Supports, Fates>>
<1>1. TypeOK /\ now \in Nat
  BY GovernanceAssumption DEF IInv, TypeOK
<1>2. ASSUME NEW o \in Owners, NEW c \in Calls, NEW category \in DOMAIN Review,
             CreateProposal(o, c, category)
      PROVE  Lifecycle!Next
  <2>1. now + Review[category] + Timelock \in Nat
    BY <1>1, GovernanceAssumption
  <2> QED BY <1>2, <2>1, StoredOpens DEF CreateProposal, Kinds, Lifecycle!Next
<1>3. ASSUME NEW o \in Owners, NEW c \in Calls, CreateEmergencyProposal(o, c)
      PROVE  Lifecycle!Next
  <2>1. now + emergency_review \in Nat
    BY <1>1 DEF TypeOK
  <2> QED BY <1>3, <2>1, StoredOpens DEF CreateEmergencyProposal, Kinds, Lifecycle!Next
<1>4. ASSUME NEW a \in Account, NEW i \in DOMAIN proposals, Approve(a, i)
      PROVE  Lifecycle!Next
  BY <1>4, ApproveSupports DEF Lifecycle!Next
<1>5. ASSUME NEW a \in Account, NEW i \in DOMAIN proposals, Veto(a, i)
      PROVE  Lifecycle!Next \/ UNCHANGED <<Subjects, Supports, Fates>>
  BY <1>5, VetoEnds DEF Lifecycle!Next
<1>6. ASSUME NEW o \in Owners, NEW i \in DOMAIN proposals, NEW c \in Calls, Execute(o, i, c)
      PROVE  Lifecycle!Next
  BY <1>6, ExecuteEnds DEF Lifecycle!Next
<1>7. ASSUME UNCHANGED proposals
      PROVE  UNCHANGED <<Subjects, Supports, Fates>>
  BY <1>7 DEF Subjects, Supports, Fates
<1>8. /\ \A o \in Owners, cl \in Councils : UpdateCouncil(o, cl[1], cl[2]) => UNCHANGED proposals
      /\ \A o \in Owners, n \in EmergencyReviews : SetEmergencyReview(o, n) => UNCHANGED proposals
      /\ \A o \in Owners, n \in MinBalances :
            SetMinProposalBalance(o, n) \/ SetStakeToken(o) => UNCHANGED proposals
      /\ \A a \in Account, n \in Stakes : StakeChange(a, n) => UNCHANGED proposals
      /\ Tick \/ UNCHANGED govVars => UNCHANGED proposals
  BY DEF UpdateCouncil, SetEmergencyReview, SetMinProposalBalance, SetStakeToken,
         StakeChange, Tick, govVars
<1> QED BY <1>2, <1>3, <1>4, <1>5, <1>6, <1>7, <1>8 DEF Next

\* Governance implements the life of a proposal: whatever the order of votes, vetoes,
\* executions and parameter changes, a proposal keeps its subject, is executed at most
\* once, and only with as many supporters, gathered on that proposal, as its kind needs.
THEOREM GovernanceRefines == Spec => RefinesLifecycle
<1>1. Init => Lifecycle!Init
  <2>1. Init => DOMAIN proposals = {}
    BY DEF Init
  <2> QED BY <2>1 DEF Lifecycle!Init
<1>2. IInv /\ [Next]_govVars => [Lifecycle!Next]_(Lifecycle!vars)
  BY NextLives DEF Lifecycle!vars, Subjects, Supports, Fates
<1> QED BY Inductive, <1>1, <1>2, PTL DEF Spec, RefinesLifecycle, Lifecycle!Spec

-----------------------------------------------------------------------------
(* The distributor: every step of it is a step of its governance or leaves  *)
(* it alone, so the invariant carries over.                                 *)

\* What an emergency proposal needs to be marked executed.
LEMMA LiftNeedsMajority ==
  ASSUME IInv, NEW executor \in Account, NEW i \in DOMAIN proposals,
         Execute(executor, i, Unfreeze), proposals[i].type = "Emergency"
  PROVE  /\ ~proposals[i].executed /\ proposals'[i].executed
         /\ 5 * Cardinality(proposals[i].approvals) >= 4 * Cardinality(Owners)
         /\ now - proposals[i].created_at <= EmergencyLife
<1>1. TypeOK /\ ApproversAreOwners /\ proposals[i] \in Proposal /\ now \in Nat
  BY GovernanceAssumption DEF IInv, TypeOK
<1>2. CanExecute(i, Unfreeze) /\ proposals' = [proposals EXCEPT ![i] = Marked(@)]
  BY DEF Execute
<1>3. ~proposals[i].executed /\ EnoughApprovals(proposals[i]) /\ Timely(proposals[i])
  BY <1>2 DEF CanExecute
<1>4. proposals'[i] = Marked(proposals[i])
  BY <1>2
<1>5. proposals'[i].executed
  BY <1>1, <1>4 DEF Marked, Proposal
<1>6. 5 * Cardinality(proposals[i].approvals) >= 4 * Cardinality(Owners)
  BY <1>1, <1>3, ApprovedEnough
<1>7. now <= proposals[i].created_at + EmergencyLife
  BY <1>3 DEF Timely
<1>8. proposals[i].created_at \in Nat /\ EmergencyLife \in Nat
  BY <1>1, GovernanceAssumption DEF Proposal
<1> QED BY <1>1, <1>3, <1>5, <1>6, <1>7, <1>8

\* The distributor creates emergency proposals only.
AllEmergency == \A i \in DOMAIN proposals : proposals[i].type = "Emergency"

FreezeIInv == IInv /\ AllEmergency

\* Every step of the distributor is one of its governance, or leaves it alone.
LEMMA FreezeStepsGovern == FreezeNext => [Next]_govVars
<1>1. ASSUME NEW o \in Owners, CreateUnfreezeProposal(o) PROVE Next
  BY <1>1, FreezeAssumption DEF CreateUnfreezeProposal, Next
<1>2. ASSUME NEW a \in Account, NEW i \in DOMAIN proposals, ApproveDistributionProposal(a, i)
      PROVE  Next
  BY <1>2 DEF ApproveDistributionProposal, Next
<1>3. ASSUME NEW o \in Owners, NEW i \in DOMAIN proposals, UnfreezeAll(o, i) PROVE Next
  BY <1>3, FreezeAssumption DEF UnfreezeAll, Next
<1>4. Tick => Next
  BY DEF Next
<1>5. FreezeAll => UNCHANGED govVars
  BY DEF FreezeAll
<1> QED BY <1>1, <1>2, <1>3, <1>4, <1>5 DEF FreezeNext

\* A proposal that is new after a step of the distributor is an emergency one, and
\* the old ones keep their type.
LEMMA FreezeStepsWell ==
  ASSUME FreezeIInv, [FreezeNext]_freezeVars
  PROVE  FreezeIInv'
<1>1. [Next]_govVars
  BY FreezeStepsGovern DEF freezeVars
<1>2. IInv /\ TypeOK /\ AllEmergency
  BY DEF FreezeIInv, IInv
<1>3. IInv' /\ \A i \in DOMAIN proposals : SameTerms(proposals[i], proposals'[i])
  BY <1>1, <1>2, NextWell
<1>4. CASE DOMAIN proposals' = DOMAIN proposals
  BY <1>2, <1>3, <1>4 DEF FreezeIInv, AllEmergency, SameTerms
<1>5. CASE \E o \in Owners : CreateUnfreezeProposal(o)
  <2>1. proposals' = With(proposals, NextId, Created(Unfreeze, "Emergency", now + emergency_review))
    BY <1>5 DEF CreateUnfreezeProposal, CreateEmergencyProposal, Stored
  <2>2. Created(Unfreeze, "Emergency", now + emergency_review).type = "Emergency"
    BY DEF Created
  <2>3. \A i \in DOMAIN proposals' : \/ i \in DOMAIN proposals
                                     \/ proposals'[i].type = "Emergency"
    BY <2>1, <2>2 DEF With
  <2> QED BY <1>2, <1>3, <2>3 DEF FreezeIInv, AllEmergency, SameTerms
<1>6. \/ DOMAIN proposals' = DOMAIN proposals
      \/ \E o \in Owners : CreateUnfreezeProposal(o)
  <2>1. proposals' = proposals => DOMAIN proposals' = DOMAIN proposals
    OBVIOUS
  <2>2. \A a \in Account, i \in DOMAIN proposals : ApproveDistributionProposal(a, i) =>
            DOMAIN proposals' = DOMAIN proposals
    BY DEF ApproveDistributionProposal, Approve
  <2>3. \A o \in Owners, i \in DOMAIN proposals : UnfreezeAll(o, i) =>
            DOMAIN proposals' = DOMAIN proposals
    BY DEF UnfreezeAll, Execute
  <2>4. FreezeAll \/ Tick \/ UNCHANGED freezeVars => proposals' = proposals
    BY DEF FreezeAll, Tick, freezeVars, govVars
  <2> QED BY <2>1, <2>2, <2>3, <2>4 DEF FreezeNext
<1> QED BY <1>4, <1>5, <1>6

\* The invariant of the governance, and of the kind of its proposals.
LEMMA FreezeInductive == FreezeSpec => []FreezeIInv
<1>1. FreezeInit => FreezeIInv
  <2>1. Init => DOMAIN proposals = {}
    BY DEF Init
  <2> QED BY <2>1, InitIInv DEF FreezeInit, FreezeIInv, AllEmergency
<1>2. FreezeIInv /\ [FreezeNext]_freezeVars => FreezeIInv'
  BY FreezeStepsWell
<1> QED BY <1>1, <1>2, PTL DEF FreezeSpec

\* Only a live emergency proposal that four in five of the owners approved lifts a
\* freeze, and it is used up by that (unfreeze_all behind can_execute).
THEOREM FreezeAlwaysOutlastsMinority == FreezeSpec => FreezeOutlastsMinority
<1>1. ASSUME FreezeIInv, FreezeNext, frozen, ~frozen'
      PROVE  \E i \in DOMAIN proposals :
                /\ ~proposals[i].executed /\ proposals'[i].executed
                /\ 5 * Cardinality(proposals[i].approvals) >= 4 * Cardinality(Owners)
                /\ now - proposals[i].created_at <= EmergencyLife
  <2>1. PICK o \in Owners, i \in DOMAIN proposals : UnfreezeAll(o, i)
    BY <1>1 DEF FreezeNext, FreezeAll, CreateUnfreezeProposal, ApproveDistributionProposal
  <2>2. IInv /\ proposals[i].type = "Emergency" /\ o \in Account
    BY <1>1, OwnersCounted DEF FreezeIInv, AllEmergency
  <2>3. Execute(o, i, Unfreeze)
    BY <2>1 DEF UnfreezeAll
  <2> QED BY <2>2, <2>3, LiftNeedsMajority
<1>2. FreezeIInv /\ [FreezeNext]_freezeVars =>
        [frozen /\ ~frozen' =>
          \E i \in DOMAIN proposals :
              /\ ~proposals[i].executed /\ proposals'[i].executed
              /\ 5 * Cardinality(proposals[i].approvals) >= 4 * Cardinality(Owners)
              /\ now - proposals[i].created_at <= EmergencyLife]_freezeVars
  BY <1>1
<1> QED BY FreezeInductive, <1>2, PTL DEF FreezeSpec, FreezeOutlastsMinority
=============================================================================
