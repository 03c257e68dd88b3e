-------------------------- MODULE ComplianceRegistry --------------------------
(***************************************************************************)
(* The compliance registry (src/src/compliance_registry.rs): who may send  *)
(* what to whom.  A check reads the KYC records, the two lists and the     *)
(* rules, and counts the amount against limits per UTC day, month and      *)
(* year, which are halved while the sender's record is about to expire.    *)
(*                                                                         *)
(* A timestamp counts ticks since the epoch, TicksPerDay to a day.  The    *)
(* dates the ledger passes through are given twice, as timestamps, which   *)
(* the contract reads, and as the dates themselves, which it computes.     *)
(***************************************************************************)
EXTENDS Integers, Sequences, SequencesExt

CONSTANTS
    User,
    Policies,       \* the flags initialize() may be given
    Sender,         \* bound: the users whose transfers are looked at
    TicksPerDay,    \* ticks of the ledger's clock in SECONDS_PER_DAY
    Instants,       \* the moments looked at: [time, date], date = <<y, m, d>>
    KycRecords,     \* records update_kyc_status() may write
    RuleTerms,      \* rules update_compliance_rule() may write
    SetUps,         \* bound: updates of rules that were made before
    DefaultLimits,  \* limits of a user that has none, per period
    GrantedLimits,  \* TransferLimits set_transfer_limits() may write
    RiskScores,     \* thresholds set_risk_thresholds() may write
    Amounts,        \* amounts asked about, of either sign
    MaxChanges,     \* bound: changes made by the admin
    MaxReturned     \* bound: what negative amounts may add to a limit

Period == {"day", "month", "year"}
Moments == {0} \union {Instants[n].time : n \in DOMAIN Instants}

(* A row of the table: what may still be sent in each period, and since when *)
(* the period is counted.  Nothing relates the three.                        *)
TransferLimits == [limit : [Period -> Int], left : [Period -> Int], reset : [Period -> Moments]]

ASSUME RegistryAssumption ==
    /\ TicksPerDay \in Nat \ {0} /\ MaxChanges \in Nat /\ MaxReturned \in Nat
    /\ Sender \subseteq User /\ Amounts \subseteq Int
    /\ DefaultLimits \in [Period -> Int] /\ GrantedLimits \subseteq TransferLimits
    /\ \A n \in 1..Len(Instants) - 1 : Instants[n].time < Instants[n + 1].time
    /\ \A rule \in RuleTerms : rule.priority \in Nat
    /\ SetUps \subseteq Seq(RuleTerms)

VARIABLES
    kyc,                    \* KYCStatus by user
    blacklist, whitelist,   \* the members of the two lists
    xfer_lim,               \* TransferLimits by user
    compliance_rules,
    risk_threshold,         \* max_risk_score of the asset class asked about
    policy,                 \* kyc_required and transfer_restrictions
    moment,                 \* the ledger's timestamp, as an index of Instants
    verdict,                \* what the last call answered, "none" if nothing
    changes,
    account                 \* what each running period has seen, by user and period

records == <<kyc, blacklist, whitelist, compliance_rules, risk_threshold, policy>>
spending == <<xfer_lim, account>>
registryVars == <<records, spending, moment, verdict, changes>>

Now == Instants[moment].time

-----------------------------------------------------------------------------
(* The calendar: Hinnant's civil_from_days, from March 1 of year 0.          *)

\* Mutant: the month without its year.
MonthOfYear(y, m) == m - 1
MonthIndex(y, m) == y * 12 + (m - 1)

Civil(t) ==
    LET z == t \div TicksPerDay + 719468
        era == z \div 146097
        doe == z - era * 146097
        yoe == (doe - doe \div 1460 + doe \div 36524 - doe \div 146096) \div 365
        doy == doe - (365 * yoe + yoe \div 4 - yoe \div 100)
        mp == (5 * doy + 2) \div 153
        m == IF mp < 10 THEN mp + 3 ELSE mp - 9
        y == yoe + era * 400
    IN  [year |-> IF m <= 2 THEN y + 1 ELSE y, month |-> m]

Calendar ==
    [t \in Moments |->
       LET date == Civil(t)
       IN  [day |-> t \div TicksPerDay, month |-> MonthIndex(date.year, date.month), year |-> date.year]]

PeriodOf(p, t) == Calendar[t][p]

-----------------------------------------------------------------------------
(* KYC. *)

NoRecord == [is_verified |-> FALSE, level |-> 0, expiry |-> 0, jurisdiction |-> "UNKNOWN",
             is_accredited |-> FALSE, risk |-> 5, flagged |-> FALSE]

KycState(u) ==
    IF u \in blacklist THEN "Revoked"
    ELSE IF ~kyc[u].is_verified \/ kyc[u].expiry = 0 \/ kyc[u].expiry < Now THEN "Expired"
    ELSE IF kyc[u].expiry - Now <= 7 * TicksPerDay THEN "Warning"
    ELSE "Active"

(* get_kyc_status() as its callers use it; the stored record is as good for  *)
(* every field but is_verified.                                              *)
Verified(u) == KycState(u) \in {"Active", "Warning"}

Clean(u, threshold) == ~kyc[u].flagged /\ kyc[u].risk < threshold

(* Being on the whitelist spares a pair its verification if both are on it.  *)
KycPasses(from, to, threshold) ==
    policy.kyc_required =>
        /\ {from, to} \subseteq whitelist \/ (Verified(from) /\ Verified(to))
        /\ Clean(from, threshold) /\ Clean(to, threshold)

-----------------------------------------------------------------------------
(* Limits. *)

Smaller(a, b) == IF a < b THEN a ELSE b

\* Rounded towards zero.
Halved(n) == IF n < 0 THEN -(-n \div 2) ELSE n \div 2

AfterResets(row) ==
    LET over == {p \in Period : PeriodOf(p, Now) # PeriodOf(p, row.reset[p])}
    IN  [row EXCEPT !.left = [p \in Period |-> IF p \in over THEN row.limit[p] ELSE @[p]],
                    !.reset = [p \in Period |-> IF p \in over THEN Now ELSE @[p]]]

EffectiveLimits(u) ==
    LET row == AfterResets(xfer_lim[u])
    IN  IF KycState(u) # "Warning" THEN row
        ELSE [row EXCEPT !.left = [p \in Period |-> Smaller(@[p], Halved(row.limit[p]))]]

Fits(row, amount) == \A p \in Period : amount <= row.left[p]

Reduced(row, amount) == [row EXCEPT !.left = [p \in Period |-> @[p] - amount]]

WithinLimits(u, amount) == Fits(EffectiveLimits(u), amount)

(* The account of a period, kept from the dates alone: what the user's row   *)
(* grants in it, what has been charged, and what of that since the first     *)
(* charge that fell into Warning.                                            *)
Opened(base) == [base |-> base, charged |-> 0, cut |-> FALSE, since |-> 0]

Charged(acc, amount, warned) ==
    [acc EXCEPT !.charged = @ + amount, !.cut = @ \/ warned,
                !.since = IF acc.cut \/ warned THEN @ + amount ELSE @]

SamePeriod(p, d, e) ==
    CASE p = "day" -> d = e
      [] p = "month" -> SubSeq(d, 1, 2) = SubSeq(e, 1, 2)
      [] p = "year" -> d[1] = e[1]

DateOf(t) ==
    IF \E n \in DOMAIN Instants : Instants[n].time = t
    THEN Instants[CHOOSE n \in DOMAIN Instants : Instants[n].time = t].date ELSE <<1970, 1, 1>>

Grants(row, p, date) == IF SamePeriod(p, date, DateOf(row.reset[p])) THEN row.left[p] ELSE row.limit[p]

Opening(row, date) == [p \in Period |-> Opened(Grants(row, p, date))]

(* check_transfer_limits(): what fits is used up. *)
TakeFromLimits(u, amount) ==
    IF WithinLimits(u, amount)
    THEN /\ xfer_lim' = [xfer_lim EXCEPT ![u] = Reduced(EffectiveLimits(u), amount)]
         /\ account' = [account EXCEPT ![u] =
                         [p \in Period |-> Charged(@[p], amount, KycState(u) = "Warning")]]
    ELSE UNCHANGED spending

(* The receiver's own capacity, without using it up. A holder that sends to  *)
(* itself, as a burn is checked, has already been charged.                   *)
ReceiverFits(from, to, amount) ==
    IF to = from THEN Fits(Reduced(EffectiveLimits(to), amount), amount) ELSE WithinLimits(to, amount)

-----------------------------------------------------------------------------
(* Rules. *)

Applies(rule, from, to) ==
    LET places == {kyc[from].jurisdiction, kyc[to].jurisdiction}
    IN  \/ rule.jurisdictions \cap places # {}
        \/ "UNKNOWN" \in places /\ rule.jurisdictions # {}

(* The active rules that apply, collected in the order they are listed.      *)
Applicable(from, to) ==
    FoldLeft(LAMBDA found, rule :
               IF rule.is_active /\ Applies(rule, from, to) THEN Append(found, rule) ELSE found,
             <<>>, compliance_rules)

\* Mutant: equals are exchanged.
ExchangeEquals(s, j) ==
    IF s[j].priority >= s[j + 1].priority THEN [s EXCEPT ![j] = s[j + 1], ![j + 1] = s[j]] ELSE s
Exchange(s, j) ==
    IF s[j].priority > s[j + 1].priority THEN [s EXCEPT ![j] = s[j + 1], ![j + 1] = s[j]] ELSE s

(* The bubble sort: pass i compares the neighbours up to the i last.         *)
Upto(n) == [j \in 1..n |-> j]
Pass(s, i) == FoldLeft(Exchange, s, Upto(Len(s) - i))
ByPriority(s) == FoldLeft(Pass, s, Upto(Len(s)))

PassesRule(rule, from, to, amount) ==
    /\ \A u \in {from, to} : kyc[u].level >= rule.min_level /\ (rule.accredited => kyc[u].is_accredited)
    /\ amount <= rule.max_amount

EvaluateRules(from, to, amount) ==
    LET sorted == ByPriority(Applicable(from, to))
    IN  sorted = <<>> \/ PassesRule(sorted[1], from, to, amount)

-----------------------------------------------------------------------------
(* Checks. *)

Conclude(passed) == verdict' = IF passed THEN "passed" ELSE "refused"

(* check_compliance() and check_compliance_with_asset(): the sender's limit  *)
(* is used up before the receiver's capacity and the rules are looked at.    *)
CheckCompliance(from, to, amount, threshold) ==
    LET admitted == blacklist \cap {from, to} = {} /\ KycPasses(from, to, threshold)
        limited == policy.transfer_restrictions
    IN  /\ Conclude(/\ admitted
                  /\ limited => WithinLimits(from, amount) /\ ReceiverFits(from, to, amount)
                  /\ EvaluateRules(from, to, amount))
        /\ IF admitted /\ limited THEN TakeFromLimits(from, amount) ELSE UNCHANGED spending
        /\ UNCHANGED <<records, moment, changes>>

CheckOutboundParticipant(u, amount) ==
    LET admitted == u \notin blacklist /\ (policy.kyc_required => Verified(u) /\ Clean(u, 8))
        limited == policy.transfer_restrictions
    IN  /\ Conclude(admitted /\ (limited => WithinLimits(u, amount)))
        /\ IF admitted /\ limited THEN TakeFromLimits(u, amount) ELSE UNCHANGED spending
        /\ UNCHANGED <<records, moment, changes>>

CheckTransferLimits(u, amount) ==
    /\ Conclude(WithinLimits(u, amount))
    /\ TakeFromLimits(u, amount)
    /\ UNCHANGED <<records, moment, changes>>

-----------------------------------------------------------------------------
(* The admin's changes. *)

Change == changes < MaxChanges /\ changes' = changes + 1 /\ verdict' = "none" /\ UNCHANGED moment

UpdateKycStatus(u, record) ==
    /\ Change /\ kyc' = [kyc EXCEPT ![u] = record]
    /\ UNCHANGED <<blacklist, whitelist, compliance_rules, risk_threshold, policy, spending>>

(* An address may be listed twice; it is removed as often. *)
SetBlacklist(members) ==
    /\ Change /\ blacklist' = members
    /\ UNCHANGED <<kyc, whitelist, compliance_rules, risk_threshold, policy, spending>>

SetWhitelist(members) ==
    /\ Change /\ whitelist' = members
    /\ UNCHANGED <<kyc, blacklist, compliance_rules, risk_threshold, policy, spending>>

(* Any row is stored as it is given. *)
SetTransferLimits(u, row) ==
    /\ Change /\ xfer_lim' = [xfer_lim EXCEPT ![u] = row]
    /\ account' = [account EXCEPT ![u] = Opening(row, Instants[moment].date)]
    /\ UNCHANGED records

(* A rule of another id is not inserted. *)
Updated(rules, rule) ==
    [k \in DOMAIN rules |-> IF rules[k].id = rule.id THEN rule ELSE rules[k]]

UpdateComplianceRule(rule) ==
    /\ Change /\ compliance_rules' = Updated(compliance_rules, rule)
    /\ UNCHANGED <<kyc, blacklist, whitelist, risk_threshold, policy, spending>>

SetRiskThresholds(score) ==
    /\ Change /\ risk_threshold' = score
    /\ UNCHANGED <<kyc, blacklist, whitelist, compliance_rules, policy, spending>>

(* Time passes, by as much as the next moment looked at is away.             *)
RegistryTick ==
    /\ moment < Len(Instants) /\ moment' = moment + 1 /\ verdict' = "none"
    /\ LET next == Instants[moment + 1].date
       IN  account' = [u \in User |-> [p \in Period |->
                         IF SamePeriod(p, Instants[moment].date, next) THEN account[u][p]
                         ELSE Opening(xfer_lim[u], next)[p]]]
    /\ UNCHANGED <<records, xfer_lim, changes>>

-----------------------------------------------------------------------------
(* The seeded rules name no jurisdiction, so that none applies; they give no *)
(* priority either.                                                          *)
SeededRule(id, level, accredited, max) ==
    [id |-> id, is_active |-> TRUE, jurisdictions |-> {}, min_level |-> level,
     accredited |-> accredited, max_amount |-> max, priority |-> 0]

SeededRules ==
    <<SeededRule("rule_144", 1, FALSE, 1000000), SeededRule("reg_d", 2, TRUE, 5000000),
      SeededRule("reg_s", 1, FALSE, 10000000)>>

DefaultRow == [limit |-> DefaultLimits, left |-> DefaultLimits, reset |-> [p \in Period |-> 0]]

RegistryInit ==
    /\ kyc = [u \in User |-> NoRecord]
    /\ blacklist = {} /\ whitelist = {}
    /\ xfer_lim = [u \in User |-> DefaultRow]
    /\ \E updates \in SetUps : compliance_rules = FoldLeft(Updated, SeededRules, updates)
    /\ risk_threshold = 8
    /\ policy \in Policies
    /\ moment = 1 /\ verdict = "none" /\ changes = 0
    /\ account = [u \in User |-> Opening(DefaultRow, Instants[1].date)]

Bounded(u, amount) == amount < 0 => \A p \in Period : account[u][p].charged + amount >= -MaxReturned

RegistryNext ==
    \/ \E from \in Sender, to \in User, amount \in Amounts, threshold \in {8, risk_threshold} :
         Bounded(from, amount) /\ CheckCompliance(from, to, amount, threshold)
    \/ \E u \in Sender, amount \in Amounts :
         Bounded(u, amount) /\ (CheckOutboundParticipant(u, amount) \/ CheckTransferLimits(u, amount))
    \/ \E u \in User :
         \/ \E record \in KycRecords : UpdateKycStatus(u, record)
         \/ SetBlacklist(blacklist \union {u}) \/ SetBlacklist(blacklist \ {u})
         \/ SetWhitelist(whitelist \union {u}) \/ SetWhitelist(whitelist \ {u})
         \/ \E row \in GrantedLimits : SetTransferLimits(u, row)
    \/ \E rule \in RuleTerms : UpdateComplianceRule(rule)
    \/ \E score \in RiskScores : SetRiskThresholds(score)
    \/ RegistryTick

RegistrySpec == RegistryInit /\ [][RegistryNext]_registryVars

-----------------------------------------------------------------------------
(* Properties. *)

\* However the checks fall before, on and after the boundaries of the calendar's
\* days, months and years, what a user may still send is what its row grants in the
\* period less all that was charged in it: no boundary is missed, none is seen
\* twice, and no more is charged than is granted. Charged is what
\* check_transfer_limits() took off, for a transfer that was refused afterwards too.
\* From the first charge in the week before a record expires, at most half of the
\* limit is charged, which may cost the user some of the rest of the period.
CapacityIsExact ==
    \A u \in User : \A row \in {AfterResets(xfer_lim[u])}, p \in Period :
        LET acc == account[u][p]
            rest == acc.base - acc.charged
        IN  /\ acc.charged # 0 => rest >= 0
            /\ ~acc.cut => row.left[p] = rest
            /\ acc.cut => /\ row.left[p] \in 0..rest
                          /\ acc.since + row.left[p] <= Halved(row.limit[p])

\* Of the rules that apply to a pair, the one of the highest priority decides, and
\* of several such the one listed first, whatever rules the admin has put where.
HighestPriorityDecides ==
    \A from, to \in User, amount \in Amounts :
        LET rules == Applicable(from, to)
            Precedes(k, l) == \/ rules[k].priority < rules[l].priority
                              \/ rules[k].priority = rules[l].priority /\ k <= l
        IN  EvaluateRules(from, to, amount) =
              \A k \in DOMAIN rules :
                (\A l \in DOMAIN rules : Precedes(k, l)) => PassesRule(rules[k], from, to, amount)

\* docs/api/soroban-compliance-registry.md:218 calls check_compliance read-only:
\* at the least, a check that says no should leave the limits alone. The code takes
\* the amount off the sender's limits before it asks whether the receiver has the
\* capacity and what the rules say; asked about a holder and itself, as a burn is,
\* it asks the same limits for the amount twice.
RefusalIsFree == [][verdict' = "refused" => UNCHANGED xfer_lim]_registryVars
=============================================================================
