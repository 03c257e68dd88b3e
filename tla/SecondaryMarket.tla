--------------------------- MODULE SecondaryMarket --------------------------
(***************************************************************************)
(* The order market of one asset token (src/src/secondary_market.rs):      *)
(* limit orders and conditional orders with escrow, fills, market and TWAP *)
(* orders that sweep the book, expiry, the circuit breaker and the oracle  *)
(* check.                                                                  *)
(*                                                                         *)
(* A call is atomic: it commits or it panics and nothing happened.  Its    *)
(* body is a sequence of steps over the working copy s of the state        *)
(* (records like State), a step that panics clears s.ok, and an action     *)
(* commits the copy its call ends with when that is still ok.              *)
(*                                                                         *)
(* The book of price levels holds exactly the active orders; its structure *)
(* is the subject of module OrderBook, and here the best order is picked   *)
(* from the orders.  Fee ladders have one tier.                            *)
(***************************************************************************)
EXTENDS Integers, Sequences, FiniteSets, SequencesExt

CONSTANTS
    Trader,             \* accounts that trade
    Market,             \* the contract's own account, which holds the escrow
    FeeRecipient,       \* config.fee_recipient
    Deposit,            \* Deposit[t]: base currency and tokens t starts with
    Sides,              \* sides of orders in use
    Prices, Amounts,    \* limit prices and amounts named in calls
    MinFills,           \* min_fill of placed orders
    Lifetimes,          \* expiry of an order, from the time it is placed
    Conditions,         \* <<"StopLoss" or "TakeProfit", trigger>>
    Slices,             \* num_slices of TWAP orders
    Configs,            \* market configurations: is_paused, fee_rate_bps
    Tiers,              \* fee ladders: maker_fee_bps, taker_fee_bps
    Breakers,           \* circuit breaker configurations
    OraclePrices,       \* prices the oracle publishes
    Standings,          \* standings the compliance registry gives
    Reviewed,           \* accounts whose standing changes
    Evictable,          \* orders whose temporary entry may be archived
    MinOrderSize,       \* config.min_order_size
    MaxDeviationBps,    \* config.max_price_deviation_bps
    OracleStale,        \* ORACLE_STALE_SECONDS
    MaxConditional,     \* MAX_CONDITIONAL_ORDERS_PER_USER
    MaxOrders,          \* bound: orders and conditional orders placed
    MaxTime             \* bound: ledger time

Account == Trader \union {Market, FeeRecipient}

ASSUME MarketAssumption ==
    /\ Market \notin Trader /\ FeeRecipient \notin Trader \union {Market}
    /\ Deposit \in [Trader -> [base : Nat, rwa : Nat]]
    /\ Sides \subseteq {"buy", "sell"}
    /\ Prices \subseteq Int /\ Amounts \subseteq Int /\ MinFills \subseteq Int
    /\ Lifetimes \subseteq Nat
    /\ Conditions \subseteq {"StopLoss", "TakeProfit"} \X Int
    /\ Slices \subseteq Nat
    /\ Configs \subseteq [is_paused : BOOLEAN, fee_rate_bps : Int]
    /\ Tiers \subseteq [maker_fee_bps : 0..10000, taker_fee_bps : 0..10000]
    /\ Breakers \subseteq [threshold_bps : 0..10000, cooldown_seconds : Nat, auto_reset : BOOLEAN]
    /\ OraclePrices \subseteq Nat \ {0}
    /\ Standings \subseteq {"unverified", "verified", "cleared"}
    /\ Reviewed \subseteq Account
    /\ MinOrderSize \in Nat \ {0}
    /\ MaxDeviationBps \in 0..10000
    /\ {OracleStale, MaxConditional, MaxOrders, MaxTime} \subseteq Nat

VARIABLES
    orders,             \* orders[i]: the i-th order, or Archived
    conditionals,       \* conditionals[i]: the i-th conditional order
    live,               \* UserConditionalCount
    base, rwa,          \* balances in the base currency and in the asset token
    last_price,         \* LastPrice, 0 before the first trade
    vwap,               \* <<total volume, total value>>
    breaker,            \* CircuitBreakerState
    config,             \* MarketConfig: is_paused, fee_rate_bps
    fee_tiers,          \* FeeTiers: a sequence of at most one tier
    breaker_config,     \* CircuitBreakerConfig: a sequence of at most one
    oracle,             \* OraclePrice: a sequence of at most one
    standing,           \* what the compliance registry says of an account
    now                 \* ledger timestamp

bookVars == <<orders, conditionals, live, base, rwa, last_price, vwap, breaker>>
envVars == <<config, fee_tiers, breaker_config, oracle, standing, now>>
vars == <<bookVars, envVars>>

\* The entry of an order in temporary storage is gone.
Archived == [maker |-> Market, side |-> "none", price |-> 0, amount |-> 0, filled |-> 0,
             min_fill |-> 0, expires_at |-> 0, is_active |-> FALSE]

\* The working copy a call starts from.
State == [orders |-> orders, conditionals |-> conditionals, live |-> live, base |-> base,
          rwa |-> rwa, last_price |-> last_price, vwap |-> vwap, breaker |-> breaker, ok |-> TRUE]

Commit(s) ==
    /\ s.ok
    /\ orders' = s.orders /\ conditionals' = s.conditionals /\ live' = s.live
    /\ base' = s.base /\ rwa' = s.rwa
    /\ last_price' = s.last_price /\ vwap' = s.vwap /\ breaker' = s.breaker
    /\ UNCHANGED envVars

Panic(s) == [s EXCEPT !.ok = FALSE]

Require(s, condition) == IF condition THEN s ELSE Panic(s)

-----------------------------------------------------------------------------
(* Token transfers and escrow.                                             *)

\* The base currency is a standard token.
PayBase(s, from, to, x) ==
    IF x < 0 \/ s.base[from] < x THEN Panic(s)
    ELSE LET debited == [s.base EXCEPT ![from] = @ - x]
         IN  [s EXCEPT !.base = [debited EXCEPT ![to] = @ + x]]

\* RWAToken::transfer: a positive amount, between accounts the registry passes.
\* The market's own standing stands for a paused or frozen token.
PayRwa(s, from, to, x) ==
    IF x <= 0 \/ standing[from] # "cleared" \/ standing[to] # "cleared" \/ s.rwa[from] < x
    THEN Panic(s)
    ELSE LET debited == [s.rwa EXCEPT ![from] = @ - x]
         IN  [s EXCEPT !.rwa = [debited EXCEPT ![to] = @ + x]]

Unfilled(o) == o.amount - o.filled

Escrow(s, o) ==
    IF o.side = "buy" THEN PayBase(s, o.maker, Market, o.amount * o.price)
    ELSE PayRwa(s, o.maker, Market, o.amount)

Refund(s, o) ==
    IF o.side = "buy" THEN PayBase(s, Market, o.maker, Unfilled(o) * o.price)
    ELSE PayRwa(s, Market, o.maker, Unfilled(o))

\* Mutant: expiry closes an order without a refund.
PruneKeepsEscrow(s) ==
    [s EXCEPT !.orders = [i \in DOMAIN s.orders |->
        [s.orders[i] EXCEPT !.is_active = @ /\ s.orders[i].expires_at > now]]]

\* The i-th order, once expired, is refunded and closed.
Expired(s, i) ==
    LET o == s.orders[i]
    IN  IF o.is_active /\ o.expires_at <= now
        THEN [(IF Unfilled(o) > 0 THEN Refund(s, o) ELSE s) EXCEPT !.orders[i].is_active = FALSE]
        ELSE s

\* auto_prune_expired_orders: one refund that cannot be paid panics the call.
Prune(s) == FoldLeftDomain(Expired, s, s.orders)

-----------------------------------------------------------------------------
(* Circuit breaker and oracle.                                             *)

Untripped == [is_tripped |-> FALSE, tripped_at |-> 0, reference_price |-> 0, trip_price |-> 0]

Vwap(s) == IF s.vwap[1] = 0 THEN 0 ELSE s.vwap[2] \div s.vwap[1]

\* price_deviation_bps of the custody validator.
DeviationBps(price, reference) ==
    IF reference <= 0 THEN 0
    ELSE ((IF price >= reference THEN price - reference ELSE reference - price) * 10000)
            \div reference

BreakerConfig ==
    IF breaker_config = <<>>
    THEN [threshold_bps |-> MaxDeviationBps, cooldown_seconds |-> 0, auto_reset |-> TRUE]
    ELSE breaker_config[1]

\* Mutant: a tripped breaker stops nobody once the price is back.
EnforceBreakerEarly(s, price) == [s EXCEPT !.breaker = Untripped]

\* enforce_circuit_breaker; price 0 is an order without a price, judged by the
\* last traded one.
EnforceBreaker(s, price) ==
    LET reference == IF Vwap(s) > 0 THEN Vwap(s) ELSE s.breaker.reference_price
        current   == IF price > 0 THEN price
                     ELSE IF s.last_price > 0 THEN s.last_price
                     ELSE s.breaker.trip_price
        settled   == /\ BreakerConfig.auto_reset
                     /\ now >= s.breaker.tripped_at + BreakerConfig.cooldown_seconds
                     /\ DeviationBps(current, reference) <= BreakerConfig.threshold_bps
    IN  IF ~s.breaker.is_tripped THEN s
        ELSE IF settled
             THEN [s EXCEPT !.breaker = [Untripped EXCEPT !.reference_price = reference]]
             ELSE Panic(s)

\* trip_circuit_breaker_if_deviating: only a configured breaker trips.
TripBreaker(s, price) ==
    IF /\ breaker_config # <<>> /\ ~s.breaker.is_tripped /\ Vwap(s) > 0
       /\ DeviationBps(price, Vwap(s)) > BreakerConfig.threshold_bps
    THEN [s EXCEPT !.breaker = [is_tripped |-> TRUE, tripped_at |-> now,
                                reference_price |-> Vwap(s), trip_price |-> price]]
    ELSE s

\* validate_order_price: a fresh oracle price, or the VWAP when it is stale.
PriceIsSane(s, price) ==
    oracle # <<>> =>
        LET fresh == now - oracle[1].timestamp <= OracleStale
        IN  /\ fresh => DeviationBps(price, oracle[1].price) <= MaxDeviationBps
            /\ ~fresh => DeviationBps(price, Vwap(s)) <= MaxDeviationBps

-----------------------------------------------------------------------------
(* Conditional orders.                                                     *)

Triggered(c, price) ==
    \/ c.condition[1] = "StopLoss" /\ price <= c.condition[2]
    \/ c.condition[1] = "TakeProfit" /\ price >= c.condition[2]

RestingOrder(c) ==
    [maker |-> c.maker, side |-> c.side, price |-> c.price, amount |-> c.amount,
     filled |-> 0, min_fill |-> 0, expires_at |-> c.expires_at, is_active |-> TRUE]

\* A conditional order ends: it is inactive and its owner has one fewer.
Retired(s, i) ==
    [s EXCEPT !.conditionals[i].is_active = FALSE,
              !.live[s.conditionals[i].maker] = IF @ > 0 THEN @ - 1 ELSE 0]

\* An expired one is refunded, a triggered one rests on the book with the escrow
\* it already has.
Evaluated(s, i) ==
    LET c == s.conditionals[i]
    IN  IF ~c.is_active THEN s
        ELSE IF c.expires_at <= now THEN Retired(Refund(s, c), i)
        ELSE IF s.last_price # 0 /\ Triggered(c, s.last_price)
             THEN Retired([s EXCEPT !.orders = Append(@, RestingOrder(c))], i)
             ELSE s

\* evaluate_conditional_orders
EvaluateConditionals(s) == FoldLeftDomain(Evaluated, s, s.conditionals)

-----------------------------------------------------------------------------
(* Settlement.                                                             *)

\* n / 10000, which rounds towards zero.
Bps(n) == IF n >= 0 THEN n \div 10000 ELSE 0 - ((0 - n) \div 10000)

\* <<maker fee, taker fee>> of a settlement; without a ladder the flat fee is the
\* maker's, and below zero it is a rebate.
Fees(value) ==
    IF fee_tiers = <<>> THEN <<Bps(value * config.fee_rate_bps), 0>>
    ELSE <<Bps(value * fee_tiers[1].maker_fee_bps), Bps(value * fee_tiers[1].taker_fee_bps)>>

\* The transfers of a fill.  A buyer's escrow pays the seller and both fees; a
\* seller is paid by the buyer, less the maker's fee.
SettlePayments(s, taker, o, x) ==
    LET value == x * o.price
        maker_fee == Fees(value)[1]
        fee == Fees(value)[1] + Fees(value)[2]
        payer == IF o.side = "buy" THEN Market ELSE taker
        paid == IF o.side = "buy"
                THEN PayBase(PayRwa(s, taker, o.maker, x), Market, taker, value - fee)
                ELSE PayBase(PayRwa(s, Market, taker, x), taker, o.maker, value - maker_fee)
    IN  IF fee > 0 THEN PayBase(paid, payer, FeeRecipient, fee) ELSE paid

\* Order o after a fill of x.
FilledBy(o, x) == [o EXCEPT !.filled = @ + x, !.is_active = o.filled + x # o.amount]

\* settle_fill: the breaker looks at the price, the transfers are made, the order
\* and the trade statistics are updated and the conditional orders evaluated.
SettleFill(s, taker, i, x) ==
    LET o == s.orders[i]
        paid == SettlePayments(TripBreaker(s, o.price), taker, o, x)
        traded == [paid EXCEPT !.orders[i] = FilledBy(o, x),
                               !.last_price = o.price,
                               !.vwap = <<@[1] + x, @[2] + x * o.price>>]
    IN  EvaluateConditionals(traded)

Opposite(side) == IF side = "buy" THEN "sell" ELSE "buy"

BetterPrice(side, p, q) == IF side = "buy" THEN p > q ELSE p < q

\* The resting orders of a side that may be matched, and the best of them by
\* price, then by arrival.
Matchable(s, side, taker) ==
    {i \in DOMAIN s.orders :
        /\ s.orders[i].is_active /\ s.orders[i].expires_at > now
        /\ s.orders[i].side = side /\ s.orders[i].maker # taker}

IsBest(s, side, taker, i) ==
    /\ i \in Matchable(s, side, taker)
    /\ \A j \in Matchable(s, side, taker) \ {i} :
          \/ BetterPrice(side, s.orders[i].price, s.orders[j].price)
          \/ s.orders[i].price = s.orders[j].price /\ i < j

\* A sweep under way is [s, left, filled]; one more fill, of at most a slice, is from
\* the best order of the other side within the limit, or ends it.
Swept(w, taker, side, limit, slice) ==
    LET within == {i \in DOMAIN w.s.orders :
                      /\ IsBest(w.s, Opposite(side), taker, i)
                      /\ ~BetterPrice(side, w.s.orders[i].price, limit)}
        i == CHOOSE j \in within : TRUE
        x == Min({Unfilled(w.s.orders[i]), slice, w.left})
    IN  IF ~w.s.ok \/ w.left = 0 \/ within = {} THEN [w EXCEPT !.left = 0]
        ELSE [s |-> SettleFill(w.s, taker, i, x), left |-> w.left - x, filled |-> w.filled + x]

\* The loop of place_market_order and place_twap_order: at most `slices` fills until
\* `amount` is filled.  A fill completes an order or a slice.
Sweep(s, taker, side, amount, limit, slice, slices) ==
    LET swept == FoldLeft(LAMBDA w, k : Swept(w, taker, side, limit, slice),
                          [s |-> s, left |-> amount, filled |-> 0], [k \in 1..slices |-> k])
    IN  Require(swept.s, swept.filled > 0)

-----------------------------------------------------------------------------
(* Entry points.                                                           *)

\* The market's own check: KYC, which the registry may have required.
Verified(a) == standing[a] # "unverified"

Room == Len(orders) + Len(conditionals) < MaxOrders

PlaceOrder(maker, side, price, amount, lifetime, min_fill) ==
    LET o == [maker |-> maker, side |-> side, price |-> price, amount |-> amount, filled |-> 0,
              min_fill |-> min_fill, expires_at |-> now + lifetime, is_active |-> TRUE]
        escrowed == Escrow(EnforceBreaker(State, price), o)
    IN  /\ ~config.is_paused
        /\ Verified(maker)
        /\ amount >= MinOrderSize
        /\ price > 0
        /\ lifetime > 0
        /\ min_fill \in 0..amount
        /\ PriceIsSane(State, price)
        /\ Room
        /\ Commit(Prune([escrowed EXCEPT !.orders = Append(@, o)]))

\* Mutant: a closed order can be filled.
FillableOnceClosed(s, taker, i, x) ==
    LET o == s.orders[i]
    IN  o.expires_at > now /\ taker # o.maker /\ x <= Unfilled(o)

\* What fill_order asks of an order, once expired ones are closed.
Fillable(s, taker, i, x) ==
    LET o == s.orders[i]
    IN  /\ o.is_active /\ o.expires_at > now
        /\ taker # o.maker
        /\ x <= Unfilled(o)
        /\ x >= o.min_fill \/ x >= Unfilled(o)

\* fill_order prunes first.
Filled(taker, i, x) ==
    LET pruned == Prune(State)
    IN  IF ~Fillable(pruned, taker, i, x) THEN Panic(pruned)
        ELSE SettleFill(EnforceBreaker(pruned, 0), taker, i, x)

FillOrder(taker, i, x) ==
    /\ ~config.is_paused
    /\ Verified(taker)
    /\ i \in DOMAIN orders
    /\ Commit(Filled(taker, i, x))

\* match_best_order: the best of the book, the taker's own orders included.
MatchBestOrder(taker, side) ==
    /\ ~config.is_paused
    /\ Verified(taker)
    /\ \E i \in DOMAIN orders :
          /\ IsBest(State, Opposite(side), Market, i)
          /\ Commit(Filled(taker, i, Unfilled(orders[i])))

\* place_market_order and place_twap_order: nothing is pruned, escrowed or left
\* resting.
SweepBook(taker, side, amount, limit, slice, slices) ==
    /\ ~config.is_paused
    /\ Verified(taker)
    /\ amount >= MinOrderSize
    /\ limit > 0
    /\ slice > 0
    /\ PriceIsSane(State, limit)
    /\ Commit(EvaluateConditionals(
                Sweep(EnforceBreaker(State, 0), taker, side, amount, limit, slice, slices)))

PlaceMarketOrder(taker, side, amount, limit) ==
    SweepBook(taker, side, amount, limit, amount, MaxOrders)

PlaceTwapOrder(taker, side, amount, slices, limit) ==
    /\ slices > 0
    /\ SweepBook(taker, side, amount, limit, amount \div slices, slices)

\* cancel_order works while the market is paused.
CancelOrder(maker, i) ==
    /\ i \in DOMAIN orders
    /\ orders[i].maker = maker
    /\ orders[i].is_active
    /\ Commit([Refund(State, orders[i]) EXCEPT !.orders[i].is_active = FALSE])

PruneExpiredOrders == Commit(Prune(State))

\* place_conditional_order asks neither the oracle nor the breaker.
PlaceConditionalOrder(owner, side, price, amount, condition, lifetime) ==
    LET c == [maker |-> owner, side |-> side, price |-> price, amount |-> amount, filled |-> 0,
              condition |-> condition, expires_at |-> now + lifetime, is_active |-> TRUE]
    IN  /\ ~config.is_paused
        /\ Verified(owner)
        /\ amount >= MinOrderSize
        /\ price > 0
        /\ lifetime > 0
        /\ live[owner] < MaxConditional
        /\ Room
        /\ Commit([Escrow(State, c) EXCEPT !.conditionals = Append(@, c), !.live[owner] = @ + 1])

CancelConditionalOrder(owner, i) ==
    /\ i \in DOMAIN conditionals
    /\ conditionals[i].maker = owner
    /\ conditionals[i].is_active
    /\ Commit(Retired(Refund(State, conditionals[i]), i))

EvaluateConditionalOrders == Commit(EvaluateConditionals(State))

ForceResetBreaker ==
    /\ breaker' = Untripped
    /\ UNCHANGED <<orders, conditionals, live, base, rwa, last_price, vwap, envVars>>

\* update_config stores any configuration.
UpdateConfig(c) ==
    /\ config' = c
    /\ UNCHANGED <<bookVars, fee_tiers, breaker_config, oracle, standing, now>>

SetFeeTiers(tier) ==
    /\ fee_tiers' = <<tier>>
    /\ UNCHANGED <<bookVars, config, breaker_config, oracle, standing, now>>

SetBreakerConfig(c) ==
    /\ breaker_config' = <<c>>
    /\ UNCHANGED <<bookVars, config, fee_tiers, oracle, standing, now>>

SetOraclePrice(price) ==
    /\ oracle' = <<[price |-> price, timestamp |-> now]>>
    /\ UNCHANGED <<bookVars, config, fee_tiers, breaker_config, standing, now>>

RemoveOracle ==
    /\ oracle' = <<>>
    /\ UNCHANGED <<bookVars, config, fee_tiers, breaker_config, standing, now>>

\* The registry changes its mind about an account.
StandingChange(a, s) ==
    /\ standing' = [standing EXCEPT ![a] = s]
    /\ UNCHANGED <<bookVars, config, fee_tiers, breaker_config, oracle, now>>

\* The ledger archives the temporary entry of an order: nothing extends its life.
Evict(i) ==
    /\ orders[i] # Archived
    /\ orders' = [orders EXCEPT ![i] = Archived]
    /\ UNCHANGED <<conditionals, live, base, rwa, last_price, vwap, breaker, envVars>>

Tick ==
    /\ now < MaxTime
    /\ now' = now + 1
    /\ UNCHANGED <<bookVars, config, fee_tiers, breaker_config, oracle, standing>>

-----------------------------------------------------------------------------
Init ==
    /\ orders = <<>>
    /\ conditionals = <<>>
    /\ live = [t \in Trader |-> 0]
    /\ base = [a \in Account |-> IF a \in Trader THEN Deposit[a].base ELSE 0]
    /\ rwa = [a \in Account |-> IF a \in Trader THEN Deposit[a].rwa ELSE 0]
    /\ last_price = 0
    /\ vwap = <<0, 0>>
    /\ breaker = Untripped
    /\ config \in {c \in Configs : ~c.is_paused /\ c.fee_rate_bps \in 0..10000}
    /\ fee_tiers = <<>>
    /\ breaker_config = <<>>
    /\ oracle = <<>>
    /\ standing = [a \in Account |-> "cleared"]
    /\ now = 0

Take(t) ==
    \/ \E i \in DOMAIN orders, x \in Amounts : FillOrder(t, i, x)
    \/ \E side \in Sides : MatchBestOrder(t, side)
    \/ \E side \in Sides, x \in Amounts, p \in Prices : PlaceMarketOrder(t, side, x, p)
    \/ \E side \in Sides, x \in Amounts, n \in Slices, p \in Prices :
          PlaceTwapOrder(t, side, x, n, p)

Place(t) ==
    \/ \E side \in Sides, p \in Prices, x \in Amounts, d \in Lifetimes, m \in MinFills :
          PlaceOrder(t, side, p, x, d, m)
    \/ \E side \in Sides, p \in Prices, x \in Amounts, c \in Conditions, d \in Lifetimes :
          PlaceConditionalOrder(t, side, p, x, c, d)

Cancel(t) ==
    \/ \E i \in DOMAIN orders : CancelOrder(t, i)
    \/ \E i \in DOMAIN conditionals : CancelConditionalOrder(t, i)

Administer ==
    \/ ForceResetBreaker
    \/ \E c \in Configs : UpdateConfig(c)
    \/ \E tier \in Tiers : SetFeeTiers(tier)
    \/ \E c \in Breakers : SetBreakerConfig(c)

Environment ==
    \/ \E p \in OraclePrices : SetOraclePrice(p)
    \/ OraclePrices # {} /\ RemoveOracle
    \/ \E a \in Reviewed, s \in Standings : StandingChange(a, s)
    \/ \E i \in Evictable \intersect DOMAIN orders : Evict(i)
    \/ Tick

Next ==
    \/ \E t \in Trader : Take(t) \/ Place(t) \/ Cancel(t)
    \/ PruneExpiredOrders
    \/ EvaluateConditionalOrders
    \/ Administer
    \/ Environment

Spec == Init /\ [][Next]_vars

\* Someone keeps calling the public prune_expired_orders, and time passes.
FairSpec == Spec /\ WF_vars(PruneExpiredOrders) /\ WF_vars(Tick)

-----------------------------------------------------------------------------
(* Properties.                                                             *)

SumOver(f(_), S) == SumFunctionOnSet([i \in S |-> f(i)], S)

Active(list) == {i \in DOMAIN list : list[i].is_active}

\* What the market owes for an order of one of these makers: the unfilled part of an
\* active one, in the currency that its maker paid in.
Due(o, currency, makers) ==
    IF ~o.is_active \/ o.maker \notin makers THEN 0
    ELSE IF currency = "base" /\ o.side = "buy" THEN Unfilled(o) * o.price
    ELSE IF currency = "rwa" /\ o.side = "sell" THEN Unfilled(o)
    ELSE 0

DueOn(list, currency, makers) ==
    SumFunctionOnSet([i \in DOMAIN list |-> Due(list[i], currency, makers)], DOMAIN list)

Owed(currency, makers) ==
    DueOn(orders, currency, makers) + DueOn(conditionals, currency, makers)

\* No order is filled beyond its amount, an active one has something left, no account
\* is overdrawn, and no trader has more live conditional orders than allowed.
TypeOK ==
    /\ \A i \in DOMAIN orders :
          /\ orders[i].filled \in 0..orders[i].amount
          /\ orders[i].is_active => orders[i].filled < orders[i].amount
    /\ live \in [Trader -> 0..MaxConditional]
    /\ base \in [Account -> Nat] /\ rwa \in [Account -> Nat]
    /\ last_price \in Nat /\ vwap \in Nat \X Nat
    /\ breaker.is_tripped \in BOOLEAN
    /\ config \in Configs /\ fee_tiers \in Seq(Tiers) /\ breaker_config \in Seq(Breakers)
    /\ standing \in [Account -> {"unverified", "verified", "cleared"}]
    /\ now \in 0..MaxTime

\* The market can always refund every open order, even when some orders have
\* been archived.
EscrowCoversOrders ==
    /\ base[Market] >= Owed("base", Trader)
    /\ rwa[Market] >= Owed("rwa", Trader)

\* What the market holds beyond what it owes.
Spare(currency) ==
    (IF currency = "base" THEN base[Market] ELSE rwa[Market]) - Owed(currency, Trader)

\* The flat fee in force is below zero.
Rebate == fee_tiers = <<>> /\ config.fee_rate_bps < 0

\* What the market holds beyond what it owes on open orders moves in two ways only,
\* whichever way orders are opened, filled in parts, triggered, cancelled or expire and
\* under any fees: the archiving of an order leaves it, to the unit, what was due on
\* that order, and a taker is paid a rebate in base currency.
EscrowAccountedFor ==
    [][\/ /\ Spare("rwa")' = Spare("rwa")
          /\ \/ Spare("base")' = Spare("base")
             \/ /\ Spare("base")' < Spare("base")
                /\ Rebate
                /\ \E t \in Trader : Take(t)
       \/ \E i \in DOMAIN orders :
             /\ Evict(i)
             /\ \A currency \in {"base", "rwa"} :
                   Spare(currency)' = Spare(currency) + Due(orders[i], currency, Trader)]_vars

\* How much of order i this step fills.
FilledNow(i) ==
    orders'[i].filled - (IF i \in DOMAIN orders THEN orders[i].filled ELSE 0)

\* The most a maker pays in fees on fills of that value; a rebate may be rounded away.
MakerFee(value) == IF Fees(value)[1] > 0 THEN Fees(value)[1] ELSE 0

\* A trader who does not take an order in a step, maker or bystander, trades in it
\* only at its own prices: counting what the market holds for it, it pays for
\* every token its buy orders get exactly their price and gets for every token
\* its sell orders give at least their price less the maker fee.  When an order is
\* archived its maker loses what was due on it, and nobody else anything.
MakersTradeAtTheirPrice ==
    [][\A t \in Trader :
          LET Mine(side) == {i \in DOMAIN orders' : orders'[i].maker = t /\ orders'[i].side = side}
              Paid(i) == FilledNow(i) * orders'[i].price
              Proceeds(i) == Paid(i) - MakerFee(Paid(i))
              MoneyGained == (base[t] + Owed("base", {t}))' - (base[t] + Owed("base", {t}))
              TokensGained == (rwa[t] + Owed("rwa", {t}))' - (rwa[t] + Owed("rwa", {t}))
          IN  \/ /\ MoneyGained >= SumOver(Proceeds, Mine("sell")) - SumOver(Paid, Mine("buy"))
                 /\ TokensGained
                       = SumOver(FilledNow, Mine("buy")) - SumOver(FilledNow, Mine("sell"))
              \/ \E i \in DOMAIN orders :
                    /\ Evict(i)
                    /\ MoneyGained = 0 - Due(orders[i], "base", {t})
                    /\ TokensGained = 0 - Due(orders[i], "rwa", {t})
              \/ Take(t)]_vars

CoolingDown ==
    /\ breaker.is_tripped
    /\ breaker_config # <<>>
    /\ now < breaker.tripped_at + breaker_config[1].cooldown_seconds

\* While the breaker cools down nothing is traded, and the only orders that come
\* to rest are conditional ones that were already waiting.
CooldownStopsTrading ==
    [][CoolingDown =>
          /\ \A i \in DOMAIN orders : orders'[i].filled <= orders[i].filled
          /\ Len(orders') - Len(orders)
                <= Cardinality(Active(conditionals) \ Active(conditionals'))]_vars

-----------------------------------------------------------------------------
(* What the repository's words say and the code does not do.  Each was      *)
(* refuted by TLC; the README tells the shortest behaviour that does it.    *)

\* While the breaker is tripped every new order is rejected.
TrippedRejectsOrders ==
    [][CoolingDown => Len(conditionals') = Len(conditionals)]_vars

\* Every fill of an order is at least its min_fill, or fills all that is left.
MinFillRespected ==
    [][\A i \in DOMAIN orders :
          orders'[i].filled > orders[i].filled =>
              \/ FilledNow(i) >= orders[i].min_fill
              \/ orders'[i].filled = orders[i].amount]_vars

\* The deviation from a fresh oracle price is checked when a trade settles.
TradesAtSanePrice ==
    [][\A i \in DOMAIN orders :
          orders'[i].filled > orders[i].filled => PriceIsSane(State, orders[i].price)]_vars

\* The expired order of a maker in good standing is cleaned up.
ExpiredIsRefunded ==
    \A i \in 1..MaxOrders :
        (i \in Active(orders) /\ orders[i].maker \notin Reviewed /\ orders[i].expires_at <= now)
            ~> (i \in DOMAIN orders /\ ~orders[i].is_active)
=============================================================================
