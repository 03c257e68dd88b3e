---------------------------- MODULE DividendPool ----------------------------
(***************************************************************************)
(* The dividend distributor (src/src/dividend_distributor.rs) for one      *)
(* asset token and one payout currency: distributions paid out by claims,  *)
(* time weights, boosts, reinvestment and the yield that accrues by the    *)
(* second.  Everything is paid from one pool, the contract's balance of    *)
(* the currency, which distributions fill and accrued yield does not.      *)
(*                                                                         *)
(* A claim pays by what the claimer holds at that moment, and the token    *)
(* moves between claims.  A call is a sequence of functions on the state   *)
(* it may change (Contract); one that panics commits nothing.              *)
(*                                                                         *)
(* Lifting a freeze is DistributionFreeze's: here it may happen any time.  *)
(***************************************************************************)
EXTENDS Integers, Sequences, FiniteSets, Functions, SequencesExt

CONSTANTS
    Holder,             \* token holders, who claim
    Holdings,           \* what each holds at first
    Supply,             \* total_supply the token reports at first
    Batches,            \* sequences of amounts, one distribution each
    Windows,            \* claim windows: claim_deadline less the time of the call
    Configs,            \* configs the admin sets
    MaxFeeRate,         \* MAX_FEE_RATE (1000 in the code)
    Scale,              \* fixed point of per_token_amount (10^18 in the code)
    One,                \* fixed point of weights and multipliers (10^6 in the code)
    Tiers,              \* multipliers of the lock durations holders register
    MaxBoosts,          \* max_boost values set by set_boost_config
    Lockers,            \* holders who register a lock duration
    Snapshots,          \* holders who record a holding snapshot
    Reinvestors,        \* holders who opt in and out of reinvestment
    Vwaps,              \* prices the market may report, 0 for none
    Rates,              \* amounts per second set by update_accrual
    Flags,              \* values freezing and governance set
    Moves,              \* <<from, to, x>>: transfers of the token
    MaxDistributions,   \* bound: distributions ever created
    MaxTime             \* bound: ledger time

ConfigRecord ==
    [fee_rate : Int, min_distribution_amount : Int, min_claim_window : Nat,
     auto_distribute : BOOLEAN, max_distribution_frequency : Nat]

ASSUME PoolAssumption ==
    /\ IsFiniteSet(Holder)
    /\ Holdings \in [Holder -> Nat]
    /\ Supply \in Nat /\ Supply >= SumFunctionOnSet(Holdings, Holder)
    /\ Batches \subseteq Seq(Int)
    /\ Windows \subseteq Nat
    /\ Configs \subseteq ConfigRecord
    /\ MaxFeeRate \in 0..10000
    /\ Scale \in Nat \ {0} /\ One \in Nat \ {0}
    /\ (\A t \in Tiers : t \in Nat /\ t >= One) /\ MaxBoosts \subseteq Nat
    /\ Lockers \subseteq Holder /\ Snapshots \subseteq Holder /\ Reinvestors \subseteq Holder
    /\ Vwaps \subseteq Nat /\ Rates \subseteq Int
    /\ Flags \subseteq BOOLEAN
    /\ Moves \subseteq Holder \X Holder \X Nat
    /\ MaxDistributions \in Nat /\ MaxTime \in Nat

VARIABLES
    distributions,      \* distributions, by id
    claimed,            \* claimed[d]: the holders with a record under (d, holder)
    clm_tot,            \* clm_tot[d]: net amount claimed from d
    pool,               \* the contract's balance of the currency
    holding,            \* the token: balances
    total_supply,       \* the token: supply
    frozen,             \* distributions_frozen
    config,
    last_auto,          \* last_auto_distribution_at
    snapshot,           \* holder_snap: <<time>>, or <<>> for none
    raw_multiplier,     \* the tier of the registered lock duration
    max_boost,          \* max_boost of the boost config; One stands for no config
    reinvesting,        \* holders who opted in
    vwap,               \* the market's price, 0 without market or liquidity
    accrual,            \* <<rate record>> of the token, or <<>> for none
    accrual_claimed,    \* the accrued total at each holder's last claim of yield
    now                 \* ledger timestamp

contractVars == <<distributions, claimed, clm_tot, pool, holding, total_supply>>
holderVars == <<snapshot, raw_multiplier, reinvesting>>
adminVars == <<frozen, config, max_boost>>
accrualVars == <<accrual, accrual_claimed>>
vars == <<contractVars, holderVars, adminVars, accrualVars, last_auto, vwap, now>>

Contract == [distributions |-> distributions, claimed |-> claimed, clm_tot |-> clm_tot,
             pool |-> pool, holding |-> holding, total_supply |-> total_supply, ok |-> TRUE]

Commit(s) ==
    /\ s.ok
    /\ distributions' = s.distributions /\ claimed' = s.claimed /\ clm_tot' = s.clm_tot
    /\ pool' = s.pool /\ holding' = s.holding /\ total_supply' = s.total_supply

Panic(s) == [s EXCEPT !.ok = FALSE]

-----------------------------------------------------------------------------
(* Distributions.                                                          *)

\* Mutant: the share of a token is rounded up.
PerTokenRoundedUp(amount, supply) == (amount * Scale + supply - 1) \div supply

PerToken(amount, supply) == (amount * Scale) \div supply

\* create_distribution: the admin pays the amount into the pool.
Created(s, amount, window) ==
    LET d == [total_amount |-> amount, per_token_amount |-> PerToken(amount, s.total_supply),
              start_time |-> now, claim_deadline |-> now + window, is_active |-> TRUE]
    IN  IF \/ amount <= 0 \/ window <= 0 \/ frozen
           \/ window < config.min_claim_window
           \/ amount < config.min_distribution_amount
           \/ s.total_supply = 0
           \/ Len(s.distributions) >= MaxDistributions
        THEN Panic(s)
        ELSE [s EXCEPT !.distributions = Append(@, d), !.claimed = Append(@, {}),
                       !.clm_tot = Append(@, 0), !.pool = @ + amount]

CreatedNext(s, amount, window) == IF s.ok THEN Created(s, amount, window) ELSE s

\* multi_ccy_distributions, with one of several ending the call if it fails;
\* create_distribution and create_recurring_distribution are the batches of one.
CreatedAll(s, amounts, window) ==
    FoldLeft(LAMBDA t, x : CreatedNext(t, x, window), s, amounts)

Open(d) == distributions[d].is_active /\ now <= distributions[d].claim_deadline

-----------------------------------------------------------------------------
(* Claims.                                                                 *)

\* compute_time_weight: the part of the period that has passed since the holder's
\* snapshot, or since the start for holders without one.
TimeWeight(a, d) ==
    LET period == d.claim_deadline - d.start_time
        since  == IF snapshot[a] = <<>> \/ snapshot[a][1] <= d.start_time
                  THEN d.start_time ELSE snapshot[a][1]
        until  == IF now < d.claim_deadline THEN now ELSE d.claim_deadline
        weight == ((until - since) * One) \div period
    IN  IF until <= since THEN 0 ELSE IF weight > One THEN One ELSE weight

\* The share of a distribution that comes with x tokens.
ShareOf(x, d) == (x * distributions[d].per_token_amount) \div Scale

Share(s, a, d) == ShareOf(s.holding[a], d)

Weighted(s, a, d) == (Share(s, a, d) * TimeWeight(a, distributions[d])) \div One

Fee(gross) == (gross * config.fee_rate) \div 10000

\* compute_boost_multiplier; no tier is below One.
Multiplier(a) ==
    IF raw_multiplier[a] > max_boost THEN max_boost ELSE raw_multiplier[a]

\* The currency's transfer refuses a negative amount and more than the pool has.
PaidOut(s, x) == IF x < 0 \/ x > s.pool THEN Panic(s) ELSE [s EXCEPT !.pool = @ - x]

\* Mutant: the claim is not recorded.
RecordedNowhere(s, a, d, net) == [s EXCEPT !.clm_tot[d] = @ + net]

\* Both kinds of claim record themselves under one key, which both find.
Recorded(s, a, d, net) ==
    [s EXCEPT !.claimed[d] = @ \union {a}, !.clm_tot[d] = @ + net]

\* Reinvested: the currency stays in the pool and tokens are minted to the claimer.
Bought(a, net) == IF a \in reinvesting /\ vwap > 0 THEN net \div vwap ELSE 0

\* claim_dividend
Claimed(s, a, d) ==
    LET gross  == Weighted(s, a, d)
        net    == gross - Fee(gross)
        bought == Bought(a, net)
        paid   == IF bought > 0
                  THEN [PaidOut(s, Fee(gross)) EXCEPT !.holding[a] = @ + bought,
                                                      !.total_supply = @ + bought]
                  ELSE PaidOut(s, gross)
    IN  IF frozen \/ ~Open(d) \/ a \in s.claimed[d] \/ gross <= 0 THEN Panic(s)
        ELSE Recorded(paid, a, d, net)

\* claim_boosted_dividend: no time weight and no reinvestment.
ClaimedBoosted(s, a, d) ==
    LET gross == (Share(s, a, d) * Multiplier(a)) \div One
    IN  IF frozen \/ ~Open(d) \/ a \in s.claimed[d] \/ Share(s, a, d) <= 0 THEN Panic(s)
        ELSE Recorded(PaidOut(s, gross), a, d, gross - Fee(gross))

\* calculate_available_dividend
Available(s, a, d) ==
    IF frozen \/ ~Open(d) \/ a \in s.claimed[d] \/ Weighted(s, a, d) <= 0 THEN 0
    ELSE Weighted(s, a, d) - Fee(Weighted(s, a, d))

ClaimedNext(s, a, d) == IF s.ok /\ Available(s, a, d) > 0 THEN Claimed(s, a, d) ELSE s

\* claim_all_dividends and claim_all_portfolio_dividends: one claim after the
\* other, each by what the claimer holds by then; one that panics undoes all.
ClaimedAll(s, a) ==
    FoldLeft(LAMBDA t, d : ClaimedNext(t, a, d), s, [d \in DOMAIN distributions |-> d])

-----------------------------------------------------------------------------
(* Accrued yield.                                                          *)

\* settle_accrual
Settled(r) == r.total_accrued + r.amount_per_second * (now - r.last_accrual_update)

Accrued == IF accrual = <<>> THEN 0 ELSE Settled(accrual[1])

\* What has accrued at the old rate is settled before the rate changes.
Rate(x) == [amount_per_second |-> x, last_accrual_update |-> now, total_accrued |-> Accrued]

-----------------------------------------------------------------------------
(* Entry points.                                                           *)

Distribute(amounts, window) ==
    /\ Commit(CreatedAll(Contract, amounts, window))
    /\ UNCHANGED <<holderVars, adminVars, accrualVars, last_auto, vwap, now>>

\* The time of the last call is 0 before the first.
AutoYieldDistribute(amounts, window) ==
    /\ config.auto_distribute
    /\ last_auto > 0 => now - last_auto >= config.max_distribution_frequency
    /\ Commit(CreatedAll(Contract, amounts, window))
    /\ last_auto' = now
    /\ UNCHANGED <<holderVars, adminVars, accrualVars, vwap, now>>

Claim(s) ==
    /\ Commit(s)
    /\ UNCHANGED <<holderVars, adminVars, accrualVars, last_auto, vwap, now>>

\* Anyone may make a claim, for whoever holds the tokens.
ClaimDividend(a, d) == Claim(Claimed(Contract, a, d))
ClaimBoostedDividend(a, d) == Claim(ClaimedBoosted(Contract, a, d))

\* While frozen, or with nothing to claim, an empty list.
ClaimAllDividends(a) == Claim(ClaimedAll(Contract, a))

DeactivateDistribution(d) ==
    /\ distributions' = [distributions EXCEPT ![d].is_active = FALSE]
    /\ UNCHANGED <<claimed, clm_tot, pool, holding, total_supply, holderVars, adminVars,
                   accrualVars, last_auto, vwap, now>>

UpdateAccrual(x) ==
    /\ accrual' = <<Rate(x)>>
    /\ UNCHANGED <<contractVars, holderVars, adminVars, accrual_claimed, last_auto, vwap, now>>

\* claim_accrued_yield asks neither the freeze nor a distribution: it pays for
\* what has accrued since the holder's last claim, out of the same pool.
ClaimAccruedYield(a) ==
    /\ accrual # <<>>
    /\ LET gross == (holding[a] * (Accrued - accrual_claimed[a])) \div Scale
       IN  /\ gross > 0
           /\ Commit(PaidOut(Contract, gross))
    /\ accrual' = <<[accrual[1] EXCEPT !.total_accrued = Accrued, !.last_accrual_update = now]>>
    /\ accrual_claimed' = [accrual_claimed EXCEPT ![a] = Accrued]
    /\ UNCHANGED <<holderVars, adminVars, last_auto, vwap, now>>

\* record_holding_snapshot: only the first one counts, for every token.
RecordHoldingSnapshot(a) ==
    /\ snapshot[a] = <<>>
    /\ snapshot' = [snapshot EXCEPT ![a] = <<now>>]
    /\ UNCHANGED <<contractVars, raw_multiplier, reinvesting, adminVars, accrualVars,
                   last_auto, vwap, now>>

\* register_lock_duration takes the holder's word for it.
RegisterLockDuration(a, tier) ==
    /\ raw_multiplier' = [raw_multiplier EXCEPT ![a] = tier]
    /\ UNCHANGED <<contractVars, snapshot, reinvesting, adminVars, accrualVars,
                   last_auto, vwap, now>>

\* opt_in_reinvestment and opt_out_reinvestment
SetReinvestment(a, b) ==
    /\ reinvesting' = IF b THEN reinvesting \union {a} ELSE reinvesting \ {a}
    /\ UNCHANGED <<contractVars, snapshot, raw_multiplier, adminVars, accrualVars,
                   last_auto, vwap, now>>

SetBoostConfig(max) ==
    /\ max_boost' = max
    /\ UNCHANGED <<contractVars, holderVars, frozen, config, accrualVars, last_auto, vwap, now>>

UpdateConfig(c) ==
    /\ c.fee_rate \in 0..MaxFeeRate
    /\ config' = c
    /\ UNCHANGED <<contractVars, holderVars, frozen, max_boost, accrualVars, last_auto, vwap, now>>

\* freeze_all_distributions, and unfreeze_all_distributions once governance agrees.
SetFrozen(b) ==
    /\ frozen' = b
    /\ UNCHANGED <<contractVars, holderVars, config, max_boost, accrualVars, last_auto, vwap, now>>

\* The token moves from one holder to another.
TokenMove(from, to, x) ==
    /\ from # to /\ x > 0 /\ holding[from] >= x
    /\ holding' = [holding EXCEPT ![from] = @ - x, ![to] = @ + x]
    /\ UNCHANGED <<distributions, claimed, clm_tot, pool, total_supply, holderVars, adminVars,
                   accrualVars, last_auto, vwap, now>>

\* The market trades, or is configured.
MarketMove(p) ==
    /\ vwap' = p
    /\ UNCHANGED <<contractVars, holderVars, adminVars, accrualVars, last_auto, now>>

Tick ==
    /\ now < MaxTime
    /\ now' = now + 1
    /\ UNCHANGED <<contractVars, holderVars, adminVars, accrualVars, last_auto, vwap>>

-----------------------------------------------------------------------------
\* The contract once the admin has configured it and named the market.
Init ==
    /\ distributions = <<>> /\ claimed = <<>> /\ clm_tot = <<>>
    /\ pool = 0
    /\ holding = Holdings /\ total_supply = Supply
    /\ frozen = FALSE /\ config \in {c \in Configs : c.fee_rate \in 0..MaxFeeRate} /\ last_auto = 0
    /\ snapshot = [a \in Holder |-> <<>>]
    /\ raw_multiplier = [a \in Holder |-> One]
    /\ max_boost \in MaxBoosts
    /\ reinvesting = {}
    /\ vwap \in Vwaps
    /\ accrual = <<>> /\ accrual_claimed = [a \in Holder |-> 0]
    /\ now = 0

Holds ==
    \/ \E a \in Holder, d \in DOMAIN distributions :
          ClaimDividend(a, d) \/ ClaimBoostedDividend(a, d)
    \/ \E a \in Holder : ClaimAllDividends(a) \/ ClaimAccruedYield(a)
    \/ \E a \in Snapshots : RecordHoldingSnapshot(a)
    \/ \E a \in Lockers, t \in Tiers : RegisterLockDuration(a, t)
    \/ \E a \in Reinvestors, b \in BOOLEAN : SetReinvestment(a, b)

Administers ==
    \/ \E b \in Batches, w \in Windows : Distribute(b, w) \/ AutoYieldDistribute(b, w)
    \/ \E d \in DOMAIN distributions : DeactivateDistribution(d)
    \/ \E x \in Rates : UpdateAccrual(x)
    \/ \E m \in MaxBoosts : SetBoostConfig(m)
    \/ \E c \in Configs : UpdateConfig(c)
    \/ \E b \in Flags : SetFrozen(b)

Environment ==
    \/ \E m \in Moves : TokenMove(m[1], m[2], m[3])
    \/ \E p \in Vwaps : MarketMove(p)
    \/ Tick

Next == Holds \/ Administers \/ Environment

Spec == Init /\ [][Next]_vars

-----------------------------------------------------------------------------
(* Properties.                                                             *)

\* The amounts; accrued totals may be negative, balances and totals may not.
TypeOK ==
    /\ Len(claimed) = Len(distributions) /\ Len(clm_tot) = Len(distributions)
    /\ \A d \in DOMAIN distributions :
          /\ distributions[d].total_amount > 0 /\ distributions[d].per_token_amount >= 0
          /\ distributions[d].start_time < distributions[d].claim_deadline
          /\ claimed[d] \subseteq Holder /\ clm_tot[d] \in Nat
    /\ pool \in Nat
    /\ holding \in [Holder -> Nat] /\ total_supply >= SumFunctionOnSet(holding, Holder)
    /\ frozen \in BOOLEAN /\ config.fee_rate \in 0..MaxFeeRate
    /\ snapshot \in [Holder -> {<<>>} \union {<<t>> : t \in 0..now}]
    /\ reinvesting \subseteq Holder
    /\ accrual_claimed \in [Holder -> Int]
    /\ last_auto \in 0..now /\ now \in 0..MaxTime

\* What the holders who have not claimed from d may claim with what they hold.
Outstanding(d) ==
    SumFunctionOnSet([a \in Holder |-> ShareOf(holding[a], d)], Holder \ claimed[d])

Covered(d) == clm_tot[d] + Outstanding(d) <= distributions[d].total_amount

Claimable == {d \in DOMAIN distributions : Open(d)}

\* The steps that pay, or come to owe, more than the shares as they are: tokens
\* that move to a holder who has not claimed, a boost, and a reinvestment, which
\* mints tokens that later distributions pay for.
PayeeGains ==
    \/ \E m \in Moves : TokenMove(m[1], m[2], m[3])
    \/ \E a \in Holder, d \in DOMAIN distributions :
          Multiplier(a) > One /\ ClaimBoostedDividend(a, d)
    \/ total_supply' > total_supply

\* A distribution is never paid out by more than its amount, whoever claims, in
\* which order, singly or together, with whatever weights and fees, unless tokens
\* change hands, a claim is boosted or reinvested: every other step keeps what
\* was claimed and what may still be claimed within the amount, and a new
\* distribution starts within it, however its per-token share was rounded.
DistributionsStayCovered ==
    [][\A d \in DOMAIN distributions' :
          (d \in DOMAIN distributions => Covered(d)) => Covered(d)' \/ PayeeGains]_vars

PoolCovers ==
    pool >= SumFunctionOnSet([d \in Claimable |-> Outstanding(d)], Claimable)

\* The one pool covers every open distribution at once: unless the shares
\* themselves grow, only accrued yield, for which nothing was paid in, can leave it
\* short of what the holders may claim.
OnlyYieldDrainsPool ==
    [][PoolCovers => PoolCovers' \/ PayeeGains
                        \/ \E a \in Holder : ClaimAccruedYield(a)]_vars

\* What is paid from a distribution is paid to a holder who claims from it for the
\* first time, through whichever of the claims, and the record of a claim stays.
PaidOnce ==
    [][\A d \in DOMAIN distributions :
          /\ claimed[d] \subseteq claimed'[d]
          /\ clm_tot'[d] > clm_tot[d] => claimed'[d] # claimed[d]]_vars

\* A freeze stops all claims: nothing leaves the pool until it is lifted.
FrozenPoolPaysNothing ==
    [][frozen => pool' >= pool]_vars
=============================================================================
