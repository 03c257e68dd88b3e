------------------------- MODULE MCComplianceRegistry -------------------------
(* Instances of ComplianceRegistry for TLC.  Moments of half a day, about    *)
(* the leap day of 2096, the end of February 2100, which has none, and a     *)
(* new year; a record that expires early in March 2100.                      *)
EXTENDS ComplianceRegistry

Moment(time, y, m, d) == [time |-> time, date |-> <<y, m, d>>]

CenturyEnd ==
    <<Moment(2 * 46080, 2096, 2, 29), Moment(2 * 46081, 2096, 3, 1), Moment(2 * 47540 + 1, 2100, 2, 28),
      Moment(2 * 47541, 2100, 3, 1), Moment(2 * 47846, 2100, 12, 31), Moment(2 * 47847 + 1, 2101, 1, 1)>>

Kyc(level, expiry, place, accredited, risk) ==
    [is_verified |-> TRUE, level |-> level, expiry |-> expiry, jurisdiction |-> place,
     is_accredited |-> accredited, risk |-> risk, flagged |-> FALSE]

SomeRecords == {Kyc(2, 2 * 51134, "US", TRUE, 1), Kyc(1, 2 * 47544, "EU", FALSE, 6)}

RuleOf(id, places, level, accredited, max, priority) ==
    [id |-> id, is_active |-> TRUE, jurisdictions |-> places, min_level |-> level,
     accredited |-> accredited, max_amount |-> max, priority |-> priority]

RegD == RuleOf("reg_d", {"US", "EU"}, 2, TRUE, 3, 1)
RegS == RuleOf("reg_s", {"US"}, 0, FALSE, 3, 1)
SomeRules ==
    {RuleOf("rule_144", {"US"}, 0, FALSE, 1, 2), RuleOf("rule_144", {"EU"}, 1, FALSE, 3, 0), RegD, RegS}
AsSeededOrTwoUpdated == {<<>>, <<RegD, RegS>>}

EverythingOrRules ==
    {[kyc_required |-> b, transfer_restrictions |-> b] : b \in BOOLEAN}

Limits(day, month, year) ==
    [p \in Period |-> IF p = "day" THEN day ELSE IF p = "month" THEN month ELSE year]
SomeDefaults == Limits(3, 4, 5)
EitherSign == {-1, 2}
At(day, month, year) ==
    [p \in Period |-> IF p = "day" THEN 2 * day ELSE IF p = "month" THEN 2 * month ELSE 2 * year]
SomeGrants ==
    {[limit |-> Limits(3, -3, 4), left |-> Limits(2, 3, 4), reset |-> At(46080, 46081, 47541)]}
=============================================================================
