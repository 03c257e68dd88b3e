----------------------------- MODULE Governance -----------------------------
(***************************************************************************)
(* Threshold governance with a vetoing security council                    *)
(* (src/src/shared_governance.rs), as embedded in a host contract: the     *)
(* proposals, approvals, vetoes and parameters live in the host's storage, *)
(* and the host executes a proposal by asking can_execute and then calling *)
(* execute_mark within one call.                                           *)
(*                                                                         *)
(* Owners, threshold and timelock are written once, by write_governance,   *)
(* before anything else can succeed, so they are constants and Init is the *)
(* state it leaves.  A vote list is the set of its members: a member is    *)
(* never pushed twice.  Times are in a unit of the instance's choice.      *)
(***************************************************************************)
EXTENDS Integers, Sequences, FiniteSets

CONSTANTS
    Account,            \* accounts that call
    OwnerList,          \* gov_owners, a vector (it may name an owner twice)
    Threshold,          \* gov_threshold (not validated)
    Timelock,           \* gov_timelock_seconds
    Review,             \* review period of a proposal category
    EmergencyLife,      \* life of an emergency proposal (172800 in the code)
    MinQuorumBps,       \* min_participation_bps (2000 in the code)
    Calls,              \* <<proposal_key, payload_hash>> pairs, as values
    EmergencyReviews,   \* review windows set for emergency proposals
    Councils,           \* <<members, veto threshold>> set by update_council
    MinBalances,        \* minimum proposer balances set
    Stakes,             \* unlocked stakes the token may report
    MaxProposals,       \* bound: proposals created
    MaxTime             \* bound: ledger time

Owners == {OwnerList[i] : i \in 1..Len(OwnerList)}

ASSUME GovernanceAssumption ==
    /\ OwnerList \in Seq(Account)
    /\ Threshold \in Nat
    /\ Timelock \in Nat
    /\ Review \in [{"General", "ParameterChange", "Emergency"} -> Nat]
    /\ EmergencyLife \in Nat
    /\ MinQuorumBps \in Nat
    /\ EmergencyReviews \subseteq Nat
    /\ Councils \subseteq Seq(Account) \X Nat
    /\ MinBalances \subseteq Nat
    /\ Stakes \subseteq Nat
    /\ MaxProposals \in Nat
    /\ MaxTime \in Nat

VARIABLES
    proposals,          \* gov_proposals: id -> proposal
    proposal_count,     \* gov_proposal_count
    council,            \* gov_council
    council_threshold,  \* gov_council_threshold
    emergency_review,   \* gov_emergency_review_seconds
    min_balance,        \* gov_min_proposal_balance
    stake_token_set,    \* gov_stake_token is configured
    stake,              \* what the stake token reports, per account
    now                 \* ledger timestamp

params == <<council, council_threshold, emergency_review, min_balance, stake_token_set>>
govVars == <<proposals, proposal_count, council, council_threshold, emergency_review,
             min_balance, stake_token_set, stake, now>>

Proposal ==
    [call : Calls, type : {"Normal", "Emergency"}, created_at : Nat,
     executable_after : Nat, approvals : SUBSET Account, veto_votes : SUBSET Account,
     executed : BOOLEAN, vetoed : BOOLEAN]

\* Proposals are numbered without gaps and every record keeps its shape.
TypeOK ==
    /\ proposal_count \in Nat
    /\ DOMAIN proposals = 1..proposal_count
    /\ proposals \in [1..proposal_count -> Proposal]
    /\ council \in Seq(Account)
    /\ council_threshold \in Nat
    /\ emergency_review \in Nat
    /\ min_balance \in Nat
    /\ stake_token_set \in BOOLEAN
    /\ stake \in [Account -> Nat]
    /\ now \in 0..MaxTime

-----------------------------------------------------------------------------
NextId == proposal_count + 1

\* Map::set.
With(f, i, v) == [j \in DOMAIN f \union {i} |-> IF j = i THEN v ELSE f[j]]

QuorumBps(votes) == IF Len(OwnerList) = 0 THEN 0 ELSE (votes * 10000) \div Len(OwnerList)

Members(list) == {list[i] : i \in 1..Len(list)}

\* A new proposal has no votes.
Created(call, type, executable_after) ==
    [call |-> call, type |-> type, created_at |-> now, executable_after |-> executable_after,
     approvals |-> {}, veto_votes |-> {}, executed |-> FALSE, vetoed |-> FALSE]

Stored(p) ==
    /\ NextId <= MaxProposals
    /\ proposals' = With(proposals, NextId, p)
    /\ proposal_count' = NextId

\* create_proposal_with_model: the proposer's unlocked stake is asked of the
\* token only when a minimum is set.
CreateProposal(proposer, call, category) ==
    /\ proposer \in Owners
    /\ min_balance > 0 => stake_token_set /\ stake[proposer] >= min_balance
    /\ Stored(Created(call, "Normal", now + Review[category] + Timelock))
    /\ UNCHANGED <<params, stake, now>>

\* create_emergency_proposal asks for no stake and waits for no timelock.
CreateEmergencyProposal(proposer, call) ==
    /\ proposer \in Owners
    /\ Stored(Created(call, "Emergency", now + emergency_review))
    /\ UNCHANGED <<params, stake, now>>

\* A vetoed proposal still takes approvals.
Approvable(p, approver) ==
    /\ approver \in Owners
    /\ ~p.executed
    /\ approver \notin p.approvals

Approved(p, approver) == [p EXCEPT !.approvals = @ \union {approver}]

Approve(approver, i) ==
    /\ i \in DOMAIN proposals
    /\ Approvable(proposals[i], approver)
    /\ proposals' = [proposals EXCEPT ![i] = Approved(@, approver)]
    /\ UNCHANGED <<proposal_count, params, stake, now>>

\* Mutant: an executed proposal can still be vetoed.
VetoableOnceExecuted(p, member) ==
    /\ member \in Members(council)
    /\ ~p.vetoed
    /\ member \notin p.veto_votes

Vetoable(p, member) ==
    /\ member \in Members(council)
    /\ ~p.executed
    /\ ~p.vetoed
    /\ member \notin p.veto_votes

\* veto_proposal counts every vote on the proposal, of whichever council, against
\* the threshold of the current one.
Opposed(p, member) ==
    LET votes == p.veto_votes \union {member}
    IN  [p EXCEPT !.veto_votes = votes, !.vetoed = Cardinality(votes) >= council_threshold]

Veto(member, i) ==
    /\ i \in DOMAIN proposals
    /\ Vetoable(proposals[i], member)
    /\ proposals' = [proposals EXCEPT ![i] = Opposed(@, member)]
    /\ UNCHANGED <<proposal_count, params, stake, now>>

\* Mutant: one approval is enough for a normal proposal.
EnoughApprovalsOfAny(p) == p.approvals # {}

\* What can_execute asks of the approvals: threshold and quorum, or 80% of the
\* owners, whatever the threshold, for an emergency.
EnoughApprovals(p) ==
    LET votes == Cardinality(p.approvals)
    IN  \/ p.type = "Normal" /\ votes >= Threshold /\ QuorumBps(votes) >= MinQuorumBps
        \/ p.type = "Emergency" /\ QuorumBps(votes) >= 8000

Timely(p) ==
    /\ now >= p.executable_after
    /\ p.type = "Emergency" => now <= p.created_at + EmergencyLife

CanExecute(i, call) ==
    /\ i \in DOMAIN proposals
    /\ ~proposals[i].executed
    /\ ~proposals[i].vetoed
    /\ proposals[i].call = call
    /\ Timely(proposals[i])
    /\ EnoughApprovals(proposals[i])

\* A host asks can_execute and then calls execute_mark, which checks executed
\* and vetoed once more.
Marked(p) == [p EXCEPT !.executed = TRUE]

Execute(executor, i, call) ==
    /\ CanExecute(i, call)
    /\ executor \in Owners
    /\ proposals' = [proposals EXCEPT ![i] = Marked(@)]
    /\ UNCHANGED <<proposal_count, params, stake, now>>

UpdateCouncil(admin, members, veto_threshold) ==
    /\ admin \in Owners
    /\ veto_threshold \in 1..Len(members)
    /\ council' = members
    /\ council_threshold' = veto_threshold
    /\ UNCHANGED <<proposals, proposal_count, emergency_review, min_balance,
                   stake_token_set, stake, now>>

SetEmergencyReview(caller, seconds) ==
    /\ caller \in Owners
    /\ emergency_review' = seconds
    /\ UNCHANGED <<proposals, proposal_count, council, council_threshold, min_balance,
                   stake_token_set, stake, now>>

SetMinProposalBalance(admin, min) ==
    /\ admin \in Owners
    /\ min_balance' = min
    /\ UNCHANGED <<proposals, proposal_count, council, council_threshold, emergency_review,
                   stake_token_set, stake, now>>

SetStakeToken(admin) ==
    /\ admin \in Owners
    /\ stake_token_set' = TRUE
    /\ UNCHANGED <<proposals, proposal_count, council, council_threshold, emergency_review,
                   min_balance, stake, now>>

\* The token moves: an account's balance or locks change.
StakeChange(a, s) ==
    /\ stake' = [stake EXCEPT ![a] = s]
    /\ UNCHANGED <<proposals, proposal_count, params, now>>

Tick ==
    /\ now < MaxTime
    /\ now' = now + 1
    /\ UNCHANGED <<proposals, proposal_count, params, stake>>

-----------------------------------------------------------------------------
Init ==
    /\ proposals = <<>>
    /\ proposal_count = 0
    /\ council = <<>>
    /\ council_threshold = 1
    /\ emergency_review = Review["Emergency"]
    /\ min_balance = 0
    /\ stake_token_set = FALSE
    /\ stake = [a \in Account |-> 0]
    /\ now = 0
Next ==
    \/ \E o \in Owners, c \in Calls :
          \/ \E category \in DOMAIN Review : CreateProposal(o, c, category)
          \/ CreateEmergencyProposal(o, c)
    \/ \E a \in Account, i \in DOMAIN proposals : Approve(a, i) \/ Veto(a, i)
    \/ \E o \in Owners, i \in DOMAIN proposals, c \in Calls : Execute(o, i, c)
    \/ \E o \in Owners, cl \in Councils : UpdateCouncil(o, cl[1], cl[2])
    \/ \E o \in Owners, s \in EmergencyReviews : SetEmergencyReview(o, s)
    \/ \E o \in Owners, m \in MinBalances : SetMinProposalBalance(o, m) \/ SetStakeToken(o)
    \/ \E a \in Account, s \in Stakes : StakeChange(a, s)
    \/ Tick

Spec == Init /\ [][Next]_govVars

-----------------------------------------------------------------------------
(* Properties.                                                             *)

\* Whatever happened to the council, the review window and the stake since it
\* was created, an executed proposal was approved by distinct owners, enough of
\* them for its type, its delay is over, and no council ever vetoed it, before or
\* after.
ExecutedWasApproved ==
    \A i \in DOMAIN proposals :
        LET p == proposals[i]
        IN  p.executed =>
                /\ ~p.vetoed
                /\ now >= p.executable_after
                /\ p.approvals \subseteq Owners
                /\ p.type = "Normal" => Cardinality(p.approvals) >= Threshold
                /\ p.type = "Emergency" =>
                        5 * Cardinality(p.approvals) >= 4 * Cardinality(Owners)

\* A proposal p that has become q is still about the same, has lost no vote, and is
\* not reopened.
SameTerms(p, q) ==
    /\ q.call = p.call /\ q.type = p.type
    /\ q.created_at = p.created_at
    /\ q.executable_after = p.executable_after
    /\ p.approvals \subseteq q.approvals
    /\ p.veto_votes \subseteq q.veto_votes
    /\ p.executed => q = p
    /\ p.vetoed => q.vetoed

\* What the owners approve is what was proposed: no later proposal, vote or
\* parameter change touches a proposal's call, type or times, takes a vote away,
\* or reopens it.
TermsAreFixed ==
    [][\A i \in DOMAIN proposals :
          i \in DOMAIN proposals' /\ SameTerms(proposals[i], proposals'[i])]_govVars

Fate(p) == IF p.executed THEN "executed" ELSE IF p.vetoed THEN "vetoed" ELSE "open"

\* The abstract life of a proposal, of either kind.
Lifecycle ==
    INSTANCE ProposalLifecycle
        WITH Id <- 1..MaxProposals,
             Subject <- Calls \X {"Normal", "Emergency"},
             Member <- Owners,
             Needed <- [s \in Calls \X {"Normal", "Emergency"} |->
                          IF s[2] = "Normal" THEN Threshold
                          ELSE (4 * Cardinality(Owners) + 4) \div 5],
             subject <- [i \in DOMAIN proposals |-> <<proposals[i].call, proposals[i].type>>],
             support <- [i \in DOMAIN proposals |-> proposals[i].approvals],
             fate <- [i \in DOMAIN proposals |-> Fate(proposals[i])]

\* Governance implements the life of a proposal in ProposalLifecycle: whatever the
\* votes and their order, one is executed at most once, with the support its kind
\* needs, and stays as it ended.
RefinesLifecycle == Lifecycle!Spec

-----------------------------------------------------------------------------
(* What the repository's words say and the code does not do.  Each was      *)
(* refuted by TLC; the README tells the shortest behaviour that does it.    *)

\* A proposal is vetoed once as many members of the council as its threshold
\* asks have voted against it.
CouncilDecides ==
    \A i \in DOMAIN proposals :
        LET against == proposals[i].veto_votes \intersect Members(council)
        IN  ~proposals[i].executed /\ council # <<>>
              /\ Cardinality(against) >= council_threshold => proposals[i].vetoed

\* Only owners who hold the minimum balance create proposals.
ProposersAreStaked ==
    [][proposal_count' > proposal_count =>
          \E o \in Owners : stake[o] >= min_balance]_govVars
=============================================================================
