------------------------ MODULE SecondaryMarketProofs -----------------------
(***************************************************************************)
(* Proofs about the order market.                                          *)
(***************************************************************************)
EXTENDS SecondaryMarket, SumLemmas, SequenceTheorems

-----------------------------------------------------------------------------
(* The three loops: what every round keeps, the loop keeps.                *)

\* The loop of auto_prune_expired_orders.
LEMMA PruneWithin ==
  ASSUME NEW W, NEW s \in W, NEW n \in Nat, DOMAIN s.orders = 1..n,
         \A t \in W, i \in 1..n : Expired(t, i) \in W
  PROVE  Prune(s) \in W
<1> DEFINE S == 1..n
           step == [v \in W \X S |-> Expired(v[1], v[2])]
           index == [i \in S |-> i]
           IsIter(h) == h = [T \in SUBSET S |->
                              IF T = {} THEN s ELSE Expired(h[T \ {Max(T)}], index[Max(T)])]
           iter == CHOOSE h : IsIter(h)
<1>1. Indices(S) /\ \A T \in SUBSET S : T # {} => Max(T) \in S
  <2>1. Indices(S)
    BY IntervalIndices
  <2> HIDE DEF S
  <2> QED BY <2>1, MaxIn, FS_Subset DEF Indices
<1>2. step \in [W \X S -> W]
  OBVIOUS
<1>3. PICK h \in [SUBSET S -> W] :
         \A T \in SUBSET S : h[T] = IF T = {} THEN s ELSE step[<<h[T \ {Max(T)}], Max(T)>>]
  <2>1. s \in W /\ Indices(S)
    BY <1>1
  <2>2. FoldsWithin(s, step, S, W)
    <3> HIDE DEF S, step
    <3> QED BY <2>1, <1>2, FoldWithin
  <2> HIDE DEF S, step
  <2> QED BY <2>2 DEF FoldsWithin
<1>4. \A T \in SUBSET S : h[T] = IF T = {} THEN s ELSE Expired(h[T \ {Max(T)}], index[Max(T)])
  <2> SUFFICES ASSUME NEW T \in SUBSET S, T # {}
               PROVE  step[<<h[T \ {Max(T)}], Max(T)>>] = Expired(h[T \ {Max(T)}], index[Max(T)])
    BY <1>3
  <2>1. Max(T) \in S /\ h[T \ {Max(T)}] \in W
    BY <1>1
  <2> HIDE DEF S
  <2> QED BY <2>1
<1>5. IsIter(h)
  <2> HIDE DEF S, step, index
  <2> QED BY <1>3, <1>4
<1>6. IsIter(iter)
  <2> HIDE DEF IsIter
  <2> QED BY <1>5
<1>7. /\ iter[{}] \in W
      /\ \A T \in SUBSET S : T # {} /\ iter[T \ {Max(T)}] \in W => iter[T] \in W
  <2>1. \A T \in SUBSET S : iter[T] = IF T = {} THEN s ELSE Expired(iter[T \ {Max(T)}], index[Max(T)])
    <3> HIDE DEF S, index, iter
    <3> QED BY <1>6
  <2>2. \A T \in SUBSET S : T # {} => Max(T) \in S /\ index[Max(T)] = Max(T)
    BY <1>1
  <2>3. iter[{}] \in W
    <3> HIDE DEF S, iter, index, step
    <3> QED BY <2>1
  <2>4. ASSUME NEW T \in SUBSET S, T # {}, iter[T \ {Max(T)}] \in W
        PROVE  iter[T] \in W
    <3>1. iter[T] = Expired(iter[T \ {Max(T)}], Max(T)) /\ Max(T) \in 1..n
      <4> HIDE DEF iter, index, step
      <4> QED BY <2>1, <2>2, <2>4
    <3> HIDE DEF S, iter, index, step
    <3> QED BY <2>4, <3>1
  <2> HIDE DEF S, iter, index, step
  <2> QED BY <2>3, <2>4
<1>8. iter[S] \in W
  <2> HIDE DEF iter, S
  <2> QED BY <1>1, <1>7, FoldStays
<1>9. Prune(s) = iter[S]
  <2>1. DOMAIN index = S /\ index = [i \in DOMAIN s.orders |-> i]
    OBVIOUS
  <2> HIDE DEF S, index
  <2> QED BY <2>1, Zenon DEF Prune, FoldLeftDomain, FoldLeft, MapThenFoldSet
<1> QED BY <1>8, <1>9

\* The loop of evaluate_conditional_orders.
LEMMA EvaluateWithin ==
  ASSUME NEW W, NEW s \in W, NEW n \in Nat, DOMAIN s.conditionals = 1..n,
         \A t \in W, i \in 1..n : Evaluated(t, i) \in W
  PROVE  EvaluateConditionals(s) \in W
<1> DEFINE S == 1..n
           step == [v \in W \X S |-> Evaluated(v[1], v[2])]
           index == [i \in S |-> i]
           IsIter(h) == h = [T \in SUBSET S |->
                              IF T = {} THEN s ELSE Evaluated(h[T \ {Max(T)}], index[Max(T)])]
           iter == CHOOSE h : IsIter(h)
<1>1. Indices(S) /\ \A T \in SUBSET S : T # {} => Max(T) \in S
  <2>1. Indices(S)
    BY IntervalIndices
  <2> HIDE DEF S
  <2> QED BY <2>1, MaxIn, FS_Subset DEF Indices
<1>2. step \in [W \X S -> W]
  OBVIOUS
<1>3. PICK h \in [SUBSET S -> W] :
         \A T \in SUBSET S : h[T] = IF T = {} THEN s ELSE step[<<h[T \ {Max(T)}], Max(T)>>]
  <2>1. s \in W /\ Indices(S)
    BY <1>1
  <2>2. FoldsWithin(s, step, S, W)
    <3> HIDE DEF S, step
    <3> QED BY <2>1, <1>2, FoldWithin
  <2> HIDE DEF S, step
  <2> QED BY <2>2 DEF FoldsWithin
<1>4. \A T \in SUBSET S : h[T] = IF T = {} THEN s ELSE Evaluated(h[T \ {Max(T)}], index[Max(T)])
  <2> SUFFICES ASSUME NEW T \in SUBSET S, T # {}
               PROVE  step[<<h[T \ {Max(T)}], Max(T)>>] = Evaluated(h[T \ {Max(T)}], index[Max(T)])
    BY <1>3
  <2>1. Max(T) \in S /\ h[T \ {Max(T)}] \in W
    BY <1>1
  <2> HIDE DEF S
  <2> QED BY <2>1
<1>5. IsIter(h)
  <2> HIDE DEF S, step, index
  <2> QED BY <1>3, <1>4
<1>6. IsIter(iter)
  <2> HIDE DEF IsIter
  <2> QED BY <1>5
<1>7. /\ iter[{}] \in W
      /\ \A T \in SUBSET S : T # {} /\ iter[T \ {Max(T)}] \in W => iter[T] \in W
  <2>1. \A T \in SUBSET S : iter[T] = IF T = {} THEN s ELSE Evaluated(iter[T \ {Max(T)}], index[Max(T)])
    <3> HIDE DEF S, index, iter
    <3> QED BY <1>6
  <2>2. \A T \in SUBSET S : T # {} => Max(T) \in S /\ index[Max(T)] = Max(T)
    BY <1>1
  <2>3. iter[{}] \in W
    <3> HIDE DEF S, iter, index, step
    <3> QED BY <2>1
  <2>4. ASSUME NEW T \in SUBSET S, T # {}, iter[T \ {Max(T)}] \in W
        PROVE  iter[T] \in W
    <3>1. iter[T] = Evaluated(iter[T \ {Max(T)}], Max(T)) /\ Max(T) \in 1..n
      <4> HIDE DEF iter, index, step
      <4> QED BY <2>1, <2>2, <2>4
    <3> HIDE DEF S, iter, index, step
    <3> QED BY <2>4, <3>1
  <2> HIDE DEF S, iter, index, step
  <2> QED BY <2>3, <2>4
<1>8. iter[S] \in W
  <2> HIDE DEF iter, S
  <2> QED BY <1>1, <1>7, FoldStays
<1>9. EvaluateConditionals(s) = iter[S]
  <2>1. DOMAIN index = S /\ index = [i \in DOMAIN s.conditionals |-> i]
    OBVIOUS
  <2> HIDE DEF S, index
  <2> QED BY <2>1, Zenon DEF EvaluateConditionals, FoldLeftDomain, FoldLeft, MapThenFoldSet
<1> QED BY <1>8, <1>9

\* The loop of place_market_order and place_twap_order.
LEMMA SweepWithin ==
  ASSUME NEW W, NEW s, NEW taker, NEW side, NEW amount, NEW limit, NEW slice, NEW n \in Nat,
         [s |-> s, left |-> amount, filled |-> 0] \in W,
         \A w \in W : Swept(w, taker, side, limit, slice) \in W
  PROVE  \E w \in W : Sweep(s, taker, side, amount, limit, slice, n) = Require(w.s, w.filled > 0)
<1> DEFINE first == [s |-> s, left |-> amount, filled |-> 0]
           S == 1..n
           step == [v \in W \X S |-> Swept(v[1], taker, side, limit, slice)]
           index == [i \in S |-> i]
           IsIter(h) == h = [T \in SUBSET S |->
                              IF T = {} THEN first ELSE Swept(h[T \ {Max(T)}], taker, side, limit, slice)]
           iter == CHOOSE h : IsIter(h)
<1>1. Indices(S) /\ \A T \in SUBSET S : T # {} => Max(T) \in S
  <2>1. Indices(S)
    BY IntervalIndices
  <2> HIDE DEF S
  <2> QED BY <2>1, MaxIn, FS_Subset DEF Indices
<1>2. step \in [W \X S -> W]
  OBVIOUS
<1>3. PICK h \in [SUBSET S -> W] :
         \A T \in SUBSET S : h[T] = IF T = {} THEN first ELSE step[<<h[T \ {Max(T)}], Max(T)>>]
  <2>1. first \in W /\ Indices(S)
    BY <1>1
  <2>2. FoldsWithin(first, step, S, W)
    <3> HIDE DEF S, step, first
    <3> QED BY <2>1, <1>2, FoldWithin
  <2> HIDE DEF S, step, first
  <2> QED BY <2>2 DEF FoldsWithin
<1>4. \A T \in SUBSET S : h[T] = IF T = {} THEN first ELSE Swept(h[T \ {Max(T)}], taker, side, limit, slice)
  <2> SUFFICES ASSUME NEW T \in SUBSET S, T # {}
               PROVE  step[<<h[T \ {Max(T)}], Max(T)>>] = Swept(h[T \ {Max(T)}], taker, side, limit, slice)
    BY <1>3
  <2>1. Max(T) \in S /\ h[T \ {Max(T)}] \in W
    BY <1>1
  <2> HIDE DEF S
  <2> QED BY <2>1
<1>5. IsIter(h)
  <2> HIDE DEF S, step, index
  <2> QED BY <1>3, <1>4
<1>6. IsIter(iter)
  <2> HIDE DEF IsIter
  <2> QED BY <1>5
<1>7. /\ iter[{}] \in W
      /\ \A T \in SUBSET S : T # {} /\ iter[T \ {Max(T)}] \in W => iter[T] \in W
  <2>1. \A T \in SUBSET S : iter[T] = IF T = {} THEN first ELSE Swept(iter[T \ {Max(T)}], taker, side, limit, slice)
    <3> HIDE DEF S, index, iter
    <3> QED BY <1>6
  <2>2. \A T \in SUBSET S : T # {} => Max(T) \in S /\ index[Max(T)] = Max(T)
    BY <1>1
  <2> HIDE DEF iter, index
  <2> QED BY <2>1, <2>2
<1>8. iter[S] \in W
  <2> HIDE DEF iter, S
  <2> QED BY <1>1, <1>7, FoldStays
<1>9. Sweep(s, taker, side, amount, limit, slice, n) = Require(iter[S].s, iter[S].filled > 0)
  <2>1. DOMAIN index = S /\ index = [k \in 1..n |-> k] /\ S = 1..n
    OBVIOUS
  <2> HIDE DEF S, index
  <2> QED BY <2>1, Zenon DEF Sweep, FoldLeft, MapThenFoldSet
<1> QED BY <1>8, <1>9

-----------------------------------------------------------------------------
(* What the market owes on a list of orders, as the list changes.          *)

\* What a list owes is an integer.
LEMMA DueOnType ==
  ASSUME NEW V, NEW list \in Seq(V), NEW currency, NEW makers,
         \A v \in V : Due(v, currency, makers) \in Int
  PROVE  DueOn(list, currency, makers) \in Int
<1> DEFINE S == 1..Len(list)
           f == [i \in S |-> Due(list[i], currency, makers)]
<1>1. IsFiniteSet(S) /\ DOMAIN list = S
  BY FS_Interval, LenProperties
<1>2. \A i \in S : f[i] \in Int
  BY ElementOfSeq
<1>3. SumFunctionOnSet(f, S) \in Int
  <2> HIDE DEF f, S
  <2> QED BY <1>1, <1>2, SumType
<1> QED BY <1>1, <1>3 DEF DueOn

\* Changing one order of a list changes what the list owes by that order.
LEMMA DueOnChange ==
  ASSUME NEW V, NEW list \in Seq(V), NEW i \in DOMAIN list, NEW o \in V,
         NEW currency, NEW makers, \A v \in V : Due(v, currency, makers) \in Int
  PROVE  DueOn([list EXCEPT ![i] = o], currency, makers)
           = DueOn(list, currency, makers) - Due(list[i], currency, makers)
               + Due(o, currency, makers)
<1> DEFINE S == 1..Len(list)
           changed == [list EXCEPT ![i] = o]
           f == [j \in S |-> Due(list[j], currency, makers)]
           g == [j \in S |-> Due(changed[j], currency, makers)]
<1>0. Len(list) \in Nat /\ DOMAIN list = S
  BY LenProperties
<1>1. IsFiniteSet(S) /\ DOMAIN list = S /\ DOMAIN changed = S
  <2>1. IsFiniteSet(S)
    BY <1>0, FS_Interval
  <2>2. DOMAIN changed = DOMAIN list
    <3> HIDE DEF S
    <3> QED OBVIOUS
  <2> QED BY <1>0, <2>1, <2>2
<1>2. \A j \in S : list[j] \in V /\ changed[j] = IF j = i THEN o ELSE list[j]
  BY <1>1, ElementOfSeq
<1>3. /\ \A j \in S : f[j] \in Int /\ g[j] \in Int
      /\ \A j \in S \ {i} : g[j] = f[j]
      /\ f[i] = Due(list[i], currency, makers) /\ g[i] = Due(o, currency, makers)
  BY <1>1, <1>2
<1>4. SumFunctionOnSet(g, S) = SumFunctionOnSet(f, S) - f[i] + g[i]
  <2> HIDE DEF f, g, S
  <2> QED BY <1>1, <1>3, SumUpdate
<1>5. DueOn(list, currency, makers) = SumFunctionOnSet(f, S)
  BY <1>1 DEF DueOn
<1>6. DueOn(changed, currency, makers) = SumFunctionOnSet(g, S)
  BY <1>1 DEF DueOn
<1> HIDE DEF f, g, changed
<1> QED BY <1>3, <1>4, <1>5, <1>6 DEF changed

\* An order that is added to a list adds what is due on it.
LEMMA DueOnAppend ==
  ASSUME NEW V, NEW list \in Seq(V), NEW o \in V,
         NEW currency, NEW makers, \A v \in V : Due(v, currency, makers) \in Int
  PROVE  DueOn(Append(list, o), currency, makers)
           = DueOn(list, currency, makers) + Due(o, currency, makers)
<1> DEFINE n == Len(list)
           S == 1..n
           longer == Append(list, o)
           f == [j \in S |-> Due(list[j], currency, makers)]
           g == [j \in 1..(n + 1) |-> Due(longer[j], currency, makers)]
<1>1. n \in Nat /\ DOMAIN list = S /\ DOMAIN longer = 1..(n + 1)
        /\ longer[n + 1] = o /\ \A j \in S : longer[j] = list[j] /\ list[j] \in V
  BY LenProperties, AppendProperties, ElementOfSeq
<1>2. IsFiniteSet(S) /\ IsFiniteSet(1..(n + 1)) /\ (1..(n + 1)) \ {n + 1} = S /\ n + 1 \in 1..(n + 1)
  <2>1. IsFiniteSet(1..n) /\ IsFiniteSet(1..(n + 1))
    BY <1>1, FS_Interval
  <2>2. (1..(n + 1)) \ {n + 1} = 1..n /\ n + 1 \in 1..(n + 1)
    BY <1>1
  <2> QED BY <2>1, <2>2
<1>3. /\ \A j \in 1..(n + 1) : g[j] \in Int
      /\ \A j \in S : f[j] \in Int /\ g[j] = f[j]
      /\ g[n + 1] = Due(o, currency, makers)
  BY <1>1
<1>4. SumFunctionOnSet(g, 1..(n + 1)) = g[n + 1] + SumFunctionOnSet(g, S)
  <2> HIDE DEF f, g, S, n
  <2> QED BY <1>2, <1>3, SumRemove
<1>5. SumFunctionOnSet(g, S) = SumFunctionOnSet(f, S) /\ SumFunctionOnSet(f, S) \in Int
  <2> HIDE DEF f, g, S, n
  <2> QED BY <1>2, <1>3, SumSame, SumType
<1>6. DueOn(list, currency, makers) = SumFunctionOnSet(f, S)
  BY <1>1 DEF DueOn
<1>7. DueOn(longer, currency, makers) = SumFunctionOnSet(g, 1..(n + 1))
  BY <1>1 DEF DueOn
<1>8. Due(o, currency, makers) \in Int
  OBVIOUS
<1> HIDE DEF f, g, longer, S, n
<1> QED BY <1>3, <1>4, <1>5, <1>6, <1>7, <1>8 DEF longer

-----------------------------------------------------------------------------
(* What the working copies of the calls are made of.                       *)

\* An order is never filled beyond its amount, and one that is active has a trader,
\* a side and something left.
Order ==
  {o \in [maker : Account, side : {"buy", "sell", "none"}, price : Nat, amount : Nat,
          filled : Nat, min_fill : Nat, expires_at : Nat, is_active : BOOLEAN] :
     /\ o.filled <= o.amount
     /\ o.is_active => o.maker \in Trader /\ o.side # "none" /\ o.filled < o.amount}

\* A conditional order is never filled: it rests as an order of the book first.
Conditional ==
  [maker : Trader, side : {"buy", "sell"}, price : Nat, amount : Nat \ {0}, filled : {0},
   condition : {"StopLoss", "TakeProfit"} \X Int, expires_at : Nat, is_active : BOOLEAN]

BreakerState ==
  [is_tripped : BOOLEAN, tripped_at : Nat, reference_price : Nat, trip_price : Nat]

Copy ==
  [orders : Seq(Order), conditionals : Seq(Conditional), live : [Trader -> 0..MaxConditional],
   base : [Account -> Nat], rwa : [Account -> Nat], last_price : Nat, vwap : Nat \X Nat,
   breaker : BreakerState, ok : BOOLEAN]

\* What surrounds the book.
EnvTypes ==
  /\ config \in Configs /\ fee_tiers \in Seq(Tiers) /\ breaker_config \in Seq(Breakers)
  /\ oracle \in Seq([price : OraclePrices, timestamp : Nat])
  /\ standing \in [Account -> {"unverified", "verified", "cleared"}]
  /\ now \in 0..MaxTime

\* The bounds of the market are naturals.
LEMMA Numbers ==
  /\ now \in 0..MaxTime => now \in Nat
  /\ MaxConditional \in Nat /\ MaxTime \in Nat /\ MinOrderSize \in Nat \ {0}
BY MarketAssumption

\* Traders, the market and the collector of fees are different accounts.
LEMMA Accounts ==
  /\ Trader \subseteq Account /\ Market \in Account /\ FeeRecipient \in Account
  /\ Market # FeeRecipient /\ Market \notin Trader /\ FeeRecipient \notin Trader
BY MarketAssumption DEF Account

\* What is due on an order is a whole amount, and depends on nothing else than whose
\* it is, its side, its price and what is left.
LEMMA DueType ==
  ASSUME NEW o \in Order \union Conditional, NEW currency, NEW makers
  PROVE  Due(o, currency, makers) \in Nat
<1>1. o.price \in Nat /\ o.amount \in Nat /\ o.filled \in Nat /\ o.filled <= o.amount
  BY DEF Order, Conditional
<1>2. Unfilled(o) \in Nat /\ Unfilled(o) * o.price \in Nat
  BY <1>1 DEF Unfilled
<1> QED BY <1>2 DEF Due

\* A transfer between two accounts moves their balances and nothing else.
BalancesApart(s, r) ==
  /\ r.orders = s.orders /\ r.conditionals = s.conditionals /\ r.live = s.live
  /\ r.last_price = s.last_price /\ r.vwap = s.vwap /\ r.breaker = s.breaker

Moved(before, after, from, to, x) ==
  /\ after[from] = before[from] - x /\ after[to] = before[to] + x
  /\ \A a \in Account \ {from, to} : after[a] = before[a]

\* A call that panics keeps the balances and has failed.
LEMMA CopyOk ==
  ASSUME NEW s \in Copy
  PROVE  Panic(s) \in Copy /\ BalancesApart(s, Panic(s)) /\ ~Panic(s).ok
           /\ Panic(s).base = s.base /\ Panic(s).rwa = s.rwa
BY DEF Panic, Copy, BalancesApart

\* A change of the base balances changes nothing else of the copy.
LEMMA CopyBase ==
  ASSUME NEW s \in Copy, NEW b \in [Account -> Nat]
  PROVE  LET r == [s EXCEPT !.base = b]
         IN  r \in Copy /\ BalancesApart(s, r) /\ r.ok = s.ok /\ r.base = b /\ r.rwa = s.rwa
BY DEF Copy, BalancesApart

\* A change of the token balances changes nothing else of the copy.
LEMMA CopyRwa ==
  ASSUME NEW s \in Copy, NEW b \in [Account -> Nat]
  PROVE  LET r == [s EXCEPT !.rwa = b]
         IN  r \in Copy /\ BalancesApart(s, r) /\ r.ok = s.ok /\ r.base = s.base /\ r.rwa = b
BY DEF Copy, BalancesApart

\* A payment in the base currency that succeeds moves its amount, and nothing else.
LEMMA PayBaseFacts ==
  ASSUME NEW s \in Copy, NEW from \in Account, NEW to \in Account, from # to, NEW x \in Int
  PROVE  /\ PayBase(s, from, to, x) \in Copy
         /\ BalancesApart(s, PayBase(s, from, to, x))
         /\ PayBase(s, from, to, x).rwa = s.rwa
         /\ PayBase(s, from, to, x).ok =>
               s.ok /\ x >= 0 /\ Moved(s.base, PayBase(s, from, to, x).base, from, to, x)
<1>1. CASE x < 0 \/ s.base[from] < x
  BY <1>1, CopyOk DEF PayBase
<1>2. CASE ~(x < 0 \/ s.base[from] < x)
  <2> DEFINE debited == [s.base EXCEPT ![from] = @ - x]
             credited == [debited EXCEPT ![to] = @ + x]
  <2>1. s.base \in [Account -> Nat]
    BY DEF Copy
  <2>2. credited \in [Account -> Nat] /\ Moved(s.base, credited, from, to, x)
    BY <1>2, <2>1 DEF Moved
  <2>3. PayBase(s, from, to, x) = [s EXCEPT !.base = credited]
    BY <1>2 DEF PayBase
  <2> HIDE DEF debited, credited
  <2> QED BY <1>2, <2>2, <2>3, CopyBase
<1> QED BY <1>1, <1>2

\* A payment in tokens that succeeds moves its amount, which is positive, and nothing
\* else.
LEMMA PayRwaFacts ==
  ASSUME NEW s \in Copy, NEW from \in Account, NEW to \in Account, from # to, NEW x \in Int
  PROVE  /\ PayRwa(s, from, to, x) \in Copy
         /\ BalancesApart(s, PayRwa(s, from, to, x))
         /\ PayRwa(s, from, to, x).base = s.base
         /\ PayRwa(s, from, to, x).ok =>
               s.ok /\ x > 0 /\ Moved(s.rwa, PayRwa(s, from, to, x).rwa, from, to, x)
<1> DEFINE refused == x <= 0 \/ standing[from] # "cleared" \/ standing[to] # "cleared"
                        \/ s.rwa[from] < x
<1>1. CASE refused
  BY <1>1, CopyOk DEF PayRwa
<1>2. CASE ~refused
  <2> DEFINE debited == [s.rwa EXCEPT ![from] = @ - x]
             credited == [debited EXCEPT ![to] = @ + x]
  <2>1. s.rwa \in [Account -> Nat]
    BY DEF Copy
  <2>2. credited \in [Account -> Nat] /\ Moved(s.rwa, credited, from, to, x)
    BY <1>2, <2>1 DEF Moved
  <2>3. PayRwa(s, from, to, x) = [s EXCEPT !.rwa = credited]
    BY <1>2 DEF PayRwa
  <2> HIDE DEF debited, credited
  <2> QED BY <1>2, <2>2, <2>3, CopyRwa
<1> QED BY <1>1, <1>2

\* A change of the orders changes nothing else of the copy.
LEMMA CopyOrders ==
  ASSUME NEW s \in Copy, NEW q \in Seq(Order)
  PROVE  LET r == [s EXCEPT !.orders = q]
         IN  /\ r \in Copy /\ r.orders = q /\ r.conditionals = s.conditionals /\ r.live = s.live
             /\ r.base = s.base /\ r.rwa = s.rwa /\ r.ok = s.ok
             /\ r.last_price = s.last_price /\ r.vwap = s.vwap /\ r.breaker = s.breaker
BY DEF Copy

\* An order, or a conditional order, that is no longer active.
Closed(o) == [o EXCEPT !.is_active = FALSE]

\* An order that is closed is still an order, and a conditional one a conditional one.
LEMMA ClosedType ==
  /\ \A o \in Order : Closed(o) \in Order
  /\ \A c \in Conditional : Closed(c) \in Conditional
BY DEF Closed, Order, Conditional

\* Nothing is due on what is closed.
LEMMA ClosedOwesNothing ==
  ASSUME NEW o \in Order \union Conditional, NEW currency, NEW makers
  PROVE  Due(Closed(o), currency, makers) = 0
BY DEF Closed, Due, Order, Conditional

\* What a refund moves, and what an escrow moves.
Refunded(s, r, o) ==
  IF o.side = "buy"
  THEN r.rwa = s.rwa /\ Moved(s.base, r.base, Market, o.maker, Unfilled(o) * o.price)
  ELSE r.base = s.base /\ Moved(s.rwa, r.rwa, Market, o.maker, Unfilled(o))

Escrowed(s, r, o) ==
  IF o.side = "buy"
  THEN r.rwa = s.rwa /\ Moved(s.base, r.base, o.maker, Market, o.amount * o.price)
  ELSE r.base = s.base /\ Moved(s.rwa, r.rwa, o.maker, Market, o.amount)

\* A refund that succeeds gives the maker what is due on the order, and changes only
\* balances.
LEMMA RefundFacts ==
  ASSUME NEW s \in Copy, NEW o \in Order \union Conditional, o.maker \in Trader
  PROVE  /\ Refund(s, o) \in Copy /\ BalancesApart(s, Refund(s, o))
         /\ Refund(s, o).ok => s.ok /\ Refunded(s, Refund(s, o), o)
<1>1. o.price \in Nat /\ o.amount \in Nat /\ o.filled \in Nat
  BY DEF Order, Conditional
<1>2. Unfilled(o) \in Int /\ Unfilled(o) * o.price \in Int
  BY <1>1 DEF Unfilled
<1>3. o.maker \in Account /\ Market \in Account /\ Market # o.maker
  BY Accounts
<1>4. CASE o.side = "buy"
  BY <1>2, <1>3, <1>4, PayBaseFacts DEF Refund, Refunded
<1>5. CASE o.side # "buy"
  BY <1>2, <1>3, <1>5, PayRwaFacts DEF Refund, Refunded
<1> QED BY <1>4, <1>5

\* An escrow that succeeds takes from the maker what is due on the order, and changes
\* only balances.
LEMMA EscrowFacts ==
  ASSUME NEW s \in Copy, NEW o \in Order \union Conditional, o.maker \in Trader
  PROVE  /\ Escrow(s, o) \in Copy /\ BalancesApart(s, Escrow(s, o))
         /\ Escrow(s, o).ok => s.ok /\ Escrowed(s, Escrow(s, o), o)
<1>1. o.price \in Nat /\ o.amount \in Nat
  BY DEF Order, Conditional
<1>2. o.amount \in Int /\ o.amount * o.price \in Int
  BY <1>1
<1>3. o.maker \in Account /\ Market \in Account /\ Market # o.maker
  BY Accounts
<1>4. CASE o.side = "buy"
  BY <1>2, <1>3, <1>4, PayBaseFacts DEF Escrow, Escrowed
<1>5. CASE o.side # "buy"
  BY <1>2, <1>3, <1>5, PayRwaFacts DEF Escrow, Escrowed
<1> QED BY <1>4, <1>5

-----------------------------------------------------------------------------
(* What one round of the two housekeeping loops does.                      *)

\* r is s with order i refunded and closed.
OrderEnded(s, r, i) ==
  /\ r.orders = [s.orders EXCEPT ![i] = Closed(s.orders[i])]
  /\ r.conditionals = s.conditionals /\ r.live = s.live
  /\ r.last_price = s.last_price /\ r.vwap = s.vwap /\ r.breaker = s.breaker
  /\ r.ok => s.ok /\ Refunded(s, r, s.orders[i])

\* A refund and the closing of an order together end it.
LEMMA EndOrder ==
  ASSUME NEW s \in Copy, NEW i \in DOMAIN s.orders, s.orders[i].is_active
  PROVE  LET r == [Refund(s, s.orders[i]) EXCEPT !.orders[i].is_active = FALSE]
         IN  r \in Copy /\ OrderEnded(s, r, i)
<1> DEFINE o == s.orders[i]
           paid == Refund(s, o)
           q == [s.orders EXCEPT ![i] = Closed(o)]
<1>1. s.orders \in Seq(Order) /\ i \in 1..Len(s.orders)
  <2>1. s.orders \in Seq(Order)
    BY DEF Copy
  <2> QED BY <2>1, LenProperties
<1>2. o \in Order /\ o.maker \in Trader
  <2>1. o \in Order
    BY <1>1, ElementOfSeq
  <2> QED BY <2>1 DEF Order
<1>3. /\ paid \in Copy /\ BalancesApart(s, paid)
      /\ paid.ok => s.ok /\ Refunded(s, paid, o)
  BY <1>2, RefundFacts
<1>4. q \in Seq(Order)
  BY <1>1, <1>2, ClosedType, ExceptSeq
<1>5. [paid EXCEPT !.orders[i].is_active = FALSE] = [paid EXCEPT !.orders = q]
  <2>1. paid.orders = s.orders
    BY <1>3 DEF BalancesApart
  <2> HIDE DEF paid
  <2> QED BY <2>1 DEF Closed
<1> DEFINE r == [paid EXCEPT !.orders = q]
<1>6. /\ r \in Copy /\ r.orders = q /\ r.conditionals = paid.conditionals /\ r.live = paid.live
      /\ r.base = paid.base /\ r.rwa = paid.rwa /\ r.ok = paid.ok
      /\ r.last_price = paid.last_price /\ r.vwap = paid.vwap /\ r.breaker = paid.breaker
  <2> HIDE DEF paid, q
  <2> QED BY <1>3, <1>4, CopyOrders
<1>7. OrderEnded(s, r, i)
  <2> HIDE DEF paid, r
  <2> QED BY <1>3, <1>6 DEF OrderEnded, BalancesApart, Refunded
<1> QED BY <1>5, <1>6, <1>7

\* Looking at an order for expiry leaves all as it is, or ends the order.
LEMMA ExpiredFacts ==
  ASSUME NEW s \in Copy, NEW i \in DOMAIN s.orders
  PROVE  \/ Expired(s, i) = s
         \/ s.orders[i].is_active /\ Expired(s, i) \in Copy /\ OrderEnded(s, Expired(s, i), i)
<1>1. s.orders[i] \in Order
  <2>1. s.orders \in Seq(Order)
    BY DEF Copy
  <2> QED BY <2>1, LenProperties, ElementOfSeq
<1>2. s.orders[i].is_active => Unfilled(s.orders[i]) > 0
  BY <1>1 DEF Order, Unfilled
<1>3. CASE s.orders[i].is_active /\ s.orders[i].expires_at <= now
  <2>1. Expired(s, i) = [Refund(s, s.orders[i]) EXCEPT !.orders[i].is_active = FALSE]
    BY <1>2, <1>3 DEF Expired
  <2> QED BY <2>1, <1>3, EndOrder
<1>4. CASE ~(s.orders[i].is_active /\ s.orders[i].expires_at <= now)
  BY <1>4 DEF Expired
<1> QED BY <1>3, <1>4

\* r has conditional order i closed, and the trade statistics of s.
ConditionalEnded(s, r, i) ==
  /\ r.conditionals = [s.conditionals EXCEPT ![i] = Closed(s.conditionals[i])]
  /\ r.last_price = s.last_price /\ r.vwap = s.vwap /\ r.breaker = s.breaker
  /\ r.ok => s.ok

\* A conditional order of a copy is one.
LEMMA ConditionalType ==
  ASSUME NEW s \in Copy, NEW i \in DOMAIN s.conditionals
  PROVE  s.conditionals \in Seq(Conditional) /\ i \in 1..Len(s.conditionals)
           /\ s.conditionals[i] \in Conditional
<1>1. s.conditionals \in Seq(Conditional)
  BY DEF Copy
<1>2. i \in 1..Len(s.conditionals)
  BY <1>1, LenProperties
<1> QED BY <1>1, <1>2, ElementOfSeq

\* An order of a copy is one.
LEMMA OrderType ==
  ASSUME NEW s \in Copy, NEW i \in DOMAIN s.orders
  PROVE  s.orders \in Seq(Order) /\ i \in 1..Len(s.orders) /\ s.orders[i] \in Order
<1>1. s.orders \in Seq(Order)
  BY DEF Copy
<1>2. i \in 1..Len(s.orders)
  BY <1>1, LenProperties
<1> QED BY <1>1, <1>2, ElementOfSeq

\* Retiring a conditional order closes it and moves no money.
LEMMA RetiredFacts ==
  ASSUME NEW s \in Copy, NEW i \in DOMAIN s.conditionals
  PROVE  /\ Retired(s, i) \in Copy /\ ConditionalEnded(s, Retired(s, i), i)
         /\ Retired(s, i).orders = s.orders
         /\ Retired(s, i).base = s.base /\ Retired(s, i).rwa = s.rwa
         /\ Retired(s, i).ok = s.ok
<1> DEFINE c == s.conditionals[i]
           q == [s.conditionals EXCEPT ![i] = Closed(c)]
           l == [s.live EXCEPT ![c.maker] = IF @ > 0 THEN @ - 1 ELSE 0]
<1>1. c \in Conditional /\ s.conditionals \in Seq(Conditional) /\ i \in 1..Len(s.conditionals)
  BY ConditionalType
<1>2. q \in Seq(Conditional)
  BY <1>1, ClosedType, ExceptSeq
<1>3. l \in [Trader -> 0..MaxConditional]
  <2>1. s.live \in [Trader -> 0..MaxConditional] /\ c.maker \in Trader
    BY <1>1 DEF Copy, Conditional
  <2> QED BY <2>1, Numbers
<1>4. Retired(s, i) = [s EXCEPT !.conditionals = q, !.live = l]
  BY DEF Retired, Closed
<1> DEFINE r == Retired(s, i)
<1>5. /\ r \in Copy /\ r.orders = s.orders /\ r.conditionals = q
      /\ r.base = s.base /\ r.rwa = s.rwa /\ r.ok = s.ok
      /\ r.last_price = s.last_price /\ r.vwap = s.vwap /\ r.breaker = s.breaker
  <2> DEFINE retired == [s EXCEPT !.conditionals = q, !.live = l]
  <2>1. /\ retired \in Copy /\ retired.orders = s.orders /\ retired.conditionals = q
        /\ retired.base = s.base /\ retired.rwa = s.rwa /\ retired.ok = s.ok
        /\ retired.last_price = s.last_price /\ retired.vwap = s.vwap
        /\ retired.breaker = s.breaker
    <3> HIDE DEF q, l
    <3> QED BY <1>2, <1>3 DEF Copy
  <2>2. r = retired
    BY <1>4
  <2> HIDE DEF retired, r, q
  <2> QED BY <2>1, <2>2
<1>6. ConditionalEnded(s, r, i)
  <2> HIDE DEF r
  <2> QED BY <1>5 DEF ConditionalEnded
<1> QED BY <1>5, <1>6

\* The order that a conditional one becomes owes what that one did.
LEMMA RestingType ==
  ASSUME NEW c \in Conditional
  PROVE  /\ RestingOrder(c) \in Order
         /\ \A currency, makers :
               c.is_active => Due(RestingOrder(c), currency, makers) = Due(c, currency, makers)
  BY DEF RestingOrder, Conditional, Order, Account, Due, Unfilled

\* What one round of evaluate_conditional_orders does with conditional order i.
ConditionalRefunded(s, r, i) ==
  /\ ConditionalEnded(s, r, i)
  /\ r.orders = s.orders
  /\ r.ok => Refunded(s, r, s.conditionals[i])

ConditionalRests(s, r, i) ==
  /\ ConditionalEnded(s, r, i)
  /\ r.orders = Append(s.orders, RestingOrder(s.conditionals[i]))
  /\ r.base = s.base /\ r.rwa = s.rwa

\* A refund and the retiring of a conditional order together end it with its money back.
LEMMA EndConditional ==
  ASSUME NEW s \in Copy, NEW i \in DOMAIN s.conditionals
  PROVE  LET r == Retired(Refund(s, s.conditionals[i]), i)
         IN  r \in Copy /\ ConditionalRefunded(s, r, i)
<1> DEFINE paid == Refund(s, s.conditionals[i])
<1>1. s.conditionals[i] \in Conditional /\ s.conditionals[i].maker \in Trader
  BY ConditionalType DEF Conditional
<1>2. /\ paid \in Copy /\ BalancesApart(s, paid)
      /\ paid.ok => s.ok /\ Refunded(s, paid, s.conditionals[i])
  BY <1>1, RefundFacts
<1>3. paid.conditionals = s.conditionals /\ i \in DOMAIN paid.conditionals
  BY <1>2 DEF BalancesApart
<1> HIDE DEF paid
<1>4. /\ Retired(paid, i) \in Copy /\ ConditionalEnded(paid, Retired(paid, i), i)
      /\ Retired(paid, i).orders = paid.orders
      /\ Retired(paid, i).base = paid.base /\ Retired(paid, i).rwa = paid.rwa
      /\ Retired(paid, i).ok = paid.ok
  BY <1>2, <1>3, RetiredFacts
<1>5. ConditionalRefunded(s, Retired(paid, i), i)
  BY <1>2, <1>3, <1>4 DEF ConditionalRefunded, ConditionalEnded, BalancesApart, Refunded
<1> QED BY <1>4, <1>5 DEF paid

\* A conditional order that is retired for a resting one hands its escrow on.
LEMMA RestConditional ==
  ASSUME NEW s \in Copy, NEW i \in DOMAIN s.conditionals
  PROVE  LET r == Retired([s EXCEPT !.orders = Append(@, RestingOrder(s.conditionals[i]))], i)
         IN  r \in Copy /\ ConditionalRests(s, r, i)
<1> DEFINE q == Append(s.orders, RestingOrder(s.conditionals[i]))
           resting == [s EXCEPT !.orders = q]
<1>1. q \in Seq(Order)
  <2>1. s.orders \in Seq(Order)
    BY DEF Copy
  <2>2. RestingOrder(s.conditionals[i]) \in Order
    BY ConditionalType, RestingType
  <2> QED BY <2>1, <2>2, AppendProperties
<1>2. /\ resting \in Copy /\ resting.orders = q /\ resting.conditionals = s.conditionals
      /\ resting.base = s.base /\ resting.rwa = s.rwa /\ resting.ok = s.ok
      /\ resting.last_price = s.last_price /\ resting.vwap = s.vwap
      /\ resting.breaker = s.breaker
  <2> HIDE DEF q
  <2> QED BY <1>1, CopyOrders
<1>3. Retired([s EXCEPT !.orders = Append(@, RestingOrder(s.conditionals[i]))], i)
        = Retired(resting, i)
  OBVIOUS
<1> HIDE DEF resting
<1>4. /\ Retired(resting, i) \in Copy /\ ConditionalEnded(resting, Retired(resting, i), i)
      /\ Retired(resting, i).orders = resting.orders
      /\ Retired(resting, i).base = resting.base /\ Retired(resting, i).rwa = resting.rwa
      /\ Retired(resting, i).ok = resting.ok
  BY <1>2, RetiredFacts
<1>5. ConditionalRests(s, Retired(resting, i), i)
  BY <1>2, <1>4 DEF ConditionalRests, ConditionalEnded
<1> QED BY <1>3, <1>4, <1>5

\* Evaluating a conditional order leaves all as it is, refunds it, or lets it rest.
LEMMA EvaluatedFacts ==
  ASSUME NEW s \in Copy, NEW i \in DOMAIN s.conditionals
  PROVE  LET r == Evaluated(s, i)
         IN  \/ r = s
             \/ /\ s.conditionals[i].is_active /\ r \in Copy
                /\ ConditionalRefunded(s, r, i) \/ ConditionalRests(s, r, i)
<1> DEFINE c == s.conditionals[i]
<1>1. CASE ~c.is_active
  BY <1>1 DEF Evaluated
<1>2. CASE c.is_active /\ c.expires_at <= now
  <2>1. Evaluated(s, i) = Retired(Refund(s, c), i)
    BY <1>2 DEF Evaluated
  <2> QED BY <1>2, <2>1, EndConditional
<1>3. CASE c.is_active /\ ~(c.expires_at <= now) /\ s.last_price # 0 /\ Triggered(c, s.last_price)
  <2>1. Evaluated(s, i) = Retired([s EXCEPT !.orders = Append(@, RestingOrder(c))], i)
    BY <1>3 DEF Evaluated
  <2> QED BY <1>3, <2>1, RestConditional
<1>4. CASE c.is_active /\ ~(c.expires_at <= now) /\ ~(s.last_price # 0 /\ Triggered(c, s.last_price))
  BY <1>4 DEF Evaluated
<1> QED BY <1>1, <1>2, <1>3, <1>4

-----------------------------------------------------------------------------
(* The circuit breaker and the settlement of a fill.                       *)

\* r is s but for the breaker, or panics.
BreakerApart(s, r) ==
  /\ r.orders = s.orders /\ r.conditionals = s.conditionals /\ r.live = s.live
  /\ r.base = s.base /\ r.rwa = s.rwa /\ r.last_price = s.last_price /\ r.vwap = s.vwap
  /\ r.ok => s.ok

\* A change of the breaker changes nothing else of the copy.
LEMMA CopyBreaker ==
  ASSUME NEW s \in Copy, NEW b \in BreakerState
  PROVE  LET r == [s EXCEPT !.breaker = b]
         IN  r \in Copy /\ BreakerApart(s, r) /\ r.ok = s.ok
BY DEF Copy, BreakerApart

\* The volume-weighted price is a natural.
LEMMA VwapType ==
  ASSUME NEW s \in Copy
  PROVE  Vwap(s) \in Nat
<1>1. s.vwap[1] \in Nat /\ s.vwap[2] \in Nat
  BY DEF Copy
<1> QED BY <1>1 DEF Vwap

\* Asking the breaker changes at most the breaker and whether the call fails.
LEMMA EnforceFacts ==
  ASSUME NEW s \in Copy, NEW price
  PROVE  EnforceBreaker(s, price) \in Copy /\ BreakerApart(s, EnforceBreaker(s, price))
<1> DEFINE reference == IF Vwap(s) > 0 THEN Vwap(s) ELSE s.breaker.reference_price
           reset == [Untripped EXCEPT !.reference_price = reference]
<1>1. s.breaker \in BreakerState /\ s.breaker.reference_price \in Nat
  BY DEF Copy, BreakerState
<1>2. reset \in BreakerState
  <2>1. reference \in Nat
    BY <1>1, VwapType
  <2> HIDE DEF reference
  <2> QED BY <2>1 DEF Untripped, BreakerState
<1>3. \/ EnforceBreaker(s, price) = s
      \/ EnforceBreaker(s, price) = [s EXCEPT !.breaker = reset]
      \/ EnforceBreaker(s, price) = Panic(s)
  BY DEF EnforceBreaker
<1>4. CASE EnforceBreaker(s, price) = s
  BY <1>4 DEF BreakerApart
<1>5. CASE EnforceBreaker(s, price) = [s EXCEPT !.breaker = reset]
  <2> HIDE DEF reset
  <2> QED BY <1>2, <1>5, CopyBreaker
<1>6. CASE EnforceBreaker(s, price) = Panic(s)
  BY <1>6, CopyOk DEF BalancesApart, BreakerApart
<1> QED BY <1>3, <1>4, <1>5, <1>6

\* Tripping the breaker changes at most the breaker and whether the call fails.
LEMMA TripFacts ==
  ASSUME EnvTypes, NEW s \in Copy, NEW price \in Nat
  PROVE  /\ TripBreaker(s, price) \in Copy /\ BreakerApart(s, TripBreaker(s, price))
<1> DEFINE tripped == [is_tripped |-> TRUE, tripped_at |-> now,
                       reference_price |-> Vwap(s), trip_price |-> price]
<1>1. tripped \in BreakerState
  BY VwapType, Numbers DEF EnvTypes, BreakerState
<1>2. TripBreaker(s, price) = s \/ TripBreaker(s, price) = [s EXCEPT !.breaker = tripped]
  BY DEF TripBreaker
<1>3. [s EXCEPT !.breaker = tripped] \in Copy /\ BreakerApart(s, [s EXCEPT !.breaker = tripped])
  <2> HIDE DEF tripped
  <2> QED BY <1>1, CopyBreaker
<1>4. BreakerApart(s, s)
  BY DEF BreakerApart
<1> QED BY <1>2, <1>3, <1>4

\* Rounding towards zero gives an integer, keeps the sign, and gives nothing for nothing.
LEMMA BpsType ==
  ASSUME NEW n \in Int
  PROVE  Bps(n) \in Int /\ (n >= 0 => Bps(n) >= 0) /\ (n <= 0 => Bps(n) <= 0) /\ (n = 0 => Bps(n) = 0)
<1>1. \A m \in Int : m \div 10000 \in Int /\ (m >= 0 => m \div 10000 >= 0)
                     /\ (m = 0 => m \div 10000 = 0)
  OBVIOUS
<1>2. CASE n >= 0
  BY <1>1, <1>2 DEF Bps
<1>3. CASE ~(n >= 0)
  <2>1. 0 - n \in Int /\ 0 - n >= 0
    BY <1>3
  <2>2. (0 - n) \div 10000 \in Int /\ (0 - n) \div 10000 >= 0
    BY <1>1, <2>1
  <2>3. Bps(n) = 0 - ((0 - n) \div 10000)
    BY <1>3 DEF Bps
  <2> QED BY <1>3, <2>2, <2>3
<1> QED BY <1>2, <1>3

\* The fees of a tier are naturals.
LEMMA TierType ==
  ASSUME NEW tier \in Tiers
  PROVE  tier.maker_fee_bps \in Nat /\ tier.taker_fee_bps \in Nat
<1> DEFINE Rates == 0..10000
<1>1. \A n \in Rates : n \in Nat
  OBVIOUS
<1>2. Tiers \subseteq [maker_fee_bps : Rates, taker_fee_bps : Rates]
  BY MarketAssumption
<1> HIDE DEF Rates
<1>3. tier \in [maker_fee_bps : Rates, taker_fee_bps : Rates]
  BY <1>2
<1> QED BY <1>1, <1>3

\* Fees are integers: not negative without a rebate, and with one the maker's is not
\* positive and the taker has none.
LEMMA FeesType ==
  ASSUME EnvTypes, NEW value \in Nat
  PROVE  /\ Fees(value)[1] \in Int /\ Fees(value)[2] \in Int /\ MakerFee(value) \in Nat
         /\ Fees(value)[1] <= MakerFee(value)
         /\ ~Rebate => Fees(value)[1] >= 0 /\ Fees(value)[2] >= 0
         /\ Rebate => Fees(value)[1] <= 0 /\ Fees(value)[2] = 0
<1>1. config.fee_rate_bps \in Int
  BY MarketAssumption DEF EnvTypes
<1>2. /\ Fees(value)[1] \in Int /\ Fees(value)[2] \in Int
      /\ ~Rebate => Fees(value)[1] >= 0 /\ Fees(value)[2] >= 0
      /\ Rebate => Fees(value)[1] <= 0 /\ Fees(value)[2] = 0
  <2>1. CASE fee_tiers = <<>>
    <3>1. /\ value * config.fee_rate_bps \in Int
          /\ config.fee_rate_bps >= 0 => value * config.fee_rate_bps >= 0
          /\ config.fee_rate_bps < 0 => value * config.fee_rate_bps <= 0
      BY <1>1
    <3>2. Fees(value)[1] = Bps(value * config.fee_rate_bps) /\ Fees(value)[2] = 0
      BY <2>1 DEF Fees
    <3>3. Rebate <=> config.fee_rate_bps < 0
      BY <2>1 DEF Rebate
    <3> QED BY <1>1, <3>1, <3>2, <3>3, BpsType
  <2>2. CASE fee_tiers # <<>>
    <3>1. fee_tiers[1] \in Tiers
      BY <2>2, EmptySeq, ElementOfSeq DEF EnvTypes
    <3>2. fee_tiers[1].maker_fee_bps \in Nat /\ fee_tiers[1].taker_fee_bps \in Nat
      BY <3>1, TierType
    <3>3. /\ value * fee_tiers[1].maker_fee_bps \in Nat
          /\ value * fee_tiers[1].taker_fee_bps \in Nat
      BY <3>2
    <3>4. /\ Fees(value)[1] = Bps(value * fee_tiers[1].maker_fee_bps)
          /\ Fees(value)[2] = Bps(value * fee_tiers[1].taker_fee_bps)
      BY <2>2 DEF Fees
    <3>5. \A n \in Nat : Bps(n) \in Int /\ Bps(n) >= 0
      BY BpsType
    <3>6. ~Rebate
      BY <2>2 DEF Rebate
    <3> QED BY <3>3, <3>4, <3>5, <3>6
  <2> QED BY <2>1, <2>2
<1>3. MakerFee(value) \in Nat /\ Fees(value)[1] <= MakerFee(value)
  BY <1>2 DEF MakerFee
<1> QED BY <1>2, <1>3

\* What a settled fill of x of order o moves: between the market and the traders who
\* do not take it.
Settled(s, r, taker, o, x) ==
  IF o.side = "buy"
  THEN /\ r.base[Market] <= s.base[Market] - x * o.price
       /\ ~Rebate => r.base[Market] = s.base[Market] - x * o.price
       /\ r.rwa[Market] = s.rwa[Market]
       /\ \A u \in Trader \ {taker} :
            r.base[u] = s.base[u] /\ r.rwa[u] = s.rwa[u] + (IF u = o.maker THEN x ELSE 0)
  ELSE /\ r.base[Market] = s.base[Market]
       /\ r.rwa[Market] = s.rwa[Market] - x
       /\ \A u \in Trader \ {taker} :
            /\ r.rwa[u] = s.rwa[u]
            /\ r.base[u] = s.base[u]
                 + (IF u = o.maker THEN x * o.price - Fees(x * o.price)[1] ELSE 0)

\* The payments of a fill that succeed settle it, and change only balances.
LEMMA SettledFacts ==
  ASSUME EnvTypes, NEW s \in Copy, NEW o \in Order, o.is_active,
         NEW taker \in Trader, taker # o.maker, NEW x \in Nat
  PROVE  LET r == SettlePayments(s, taker, o, x)
         IN  /\ r \in Copy /\ BalancesApart(s, r)
             /\ r.ok => s.ok /\ x > 0 /\ Settled(s, r, taker, o, x)
<1> DEFINE value == x * o.price
           maker_fee == Fees(value)[1]
           fee == Fees(value)[1] + Fees(value)[2]
           maker == o.maker
<1>1. maker \in Trader /\ o.price \in Nat
  BY DEF Order
<1>2. /\ taker \in Account /\ maker \in Account /\ Market \in Account /\ FeeRecipient \in Account
      /\ Market # FeeRecipient /\ Market # taker /\ Market # maker
      /\ FeeRecipient # taker /\ FeeRecipient # maker
  BY <1>1, Accounts
<1>3. value \in Nat
  BY <1>1
<1>4. maker_fee \in Int /\ fee \in Int /\ (~Rebate => fee >= 0)
  <2> HIDE DEF value
  <2> QED BY <1>3, FeesType
<1>5. \A t \in Copy : t.base \in [Account -> Nat] /\ t.rwa \in [Account -> Nat]
  BY DEF Copy
<1>6. \A t1, t2, t3 : BalancesApart(t1, t2) /\ BalancesApart(t2, t3) => BalancesApart(t1, t3)
  BY DEF BalancesApart
<1>7. CASE o.side = "buy"
  <2> DEFINE p1 == PayRwa(s, taker, maker, x)
             p2 == PayBase(p1, Market, taker, value - fee)
             p3 == PayBase(p2, Market, FeeRecipient, fee)
  <2>1. /\ p1 \in Copy /\ BalancesApart(s, p1) /\ p1.base = s.base
        /\ p1.ok => s.ok /\ x > 0 /\ Moved(s.rwa, p1.rwa, taker, maker, x)
    BY <1>2, PayRwaFacts
  <2>2. /\ p2 \in Copy /\ BalancesApart(p1, p2) /\ p2.rwa = p1.rwa
        /\ p2.ok => p1.ok /\ Moved(p1.base, p2.base, Market, taker, value - fee)
    <3>1. value - fee \in Int
      BY <1>3, <1>4
    <3> HIDE DEF p1, value, fee
    <3> QED BY <1>2, <2>1, <3>1, PayBaseFacts
  <2>3. /\ p3 \in Copy /\ BalancesApart(p2, p3) /\ p3.rwa = p2.rwa
        /\ p3.ok => p2.ok /\ Moved(p2.base, p3.base, Market, FeeRecipient, fee)
    <3> HIDE DEF p2, fee
    <3> QED BY <1>2, <1>4, <2>2, PayBaseFacts
  <2>4. SettlePayments(s, taker, o, x) = IF fee > 0 THEN p3 ELSE p2
    BY <1>7 DEF SettlePayments
  <2>5. Moved(s.rwa, p1.rwa, taker, maker, x) /\ p1 \in Copy =>
          /\ p1.rwa[Market] = s.rwa[Market]
          /\ \A u \in Trader \ {taker} : p1.rwa[u] = s.rwa[u] + (IF u = maker THEN x ELSE 0)
    <3> HIDE DEF p1
    <3> QED BY <1>1, <1>2, <1>5, Accounts DEF Moved
  <2>6. ASSUME p2.ok
        PROVE  /\ p2.base[Market] = s.base[Market] - (value - fee)
               /\ \A u \in Trader \ {taker} : p2.base[u] = s.base[u]
    <3> HIDE DEF p1, p2, value, fee
    <3> QED BY <2>1, <2>2, <2>6, <1>2, Accounts DEF Moved
  <2>7. ASSUME p2.ok, ~(fee > 0)
        PROVE  Settled(s, p2, taker, o, x)
    <3>1. s.base[Market] \in Int
      BY <1>2, <1>5
    <3>2. /\ p2.base[Market] <= s.base[Market] - value
          /\ ~Rebate => p2.base[Market] = s.base[Market] - value
      <4> HIDE DEF p2, fee, value
      <4> QED BY <2>6, <2>7, <3>1, <1>3, <1>4
    <3> HIDE DEF p1, p2, fee
    <3> QED BY <1>7, <3>2, <2>1, <2>2, <2>5, <2>6, <2>7 DEF Settled
  <2>8. ASSUME p3.ok
        PROVE  Settled(s, p3, taker, o, x)
    <3>1. s.base[Market] \in Int /\ p2.ok
      BY <1>2, <1>5, <2>3, <2>8
    <3>2. /\ p3.base[Market] = s.base[Market] - value
          /\ p3.base[Market] <= s.base[Market] - value
      <4> HIDE DEF p2, p3, fee, value
      <4> QED BY <2>3, <2>6, <2>8, <3>1, <1>3, <1>4 DEF Moved
    <3>3. \A u \in Trader \ {taker} : p3.base[u] = s.base[u]
      <4> HIDE DEF p2, p3, fee, value
      <4> QED BY <2>3, <2>6, <2>8, <3>1, Accounts DEF Moved
    <3> HIDE DEF p1, p2, p3, fee
    <3> QED BY <1>7, <3>1, <3>2, <3>3, <2>1, <2>2, <2>3, <2>5 DEF Settled
  <2> HIDE DEF p1, p2, p3, fee
  <2> QED BY <1>6, <2>1, <2>2, <2>3, <2>4, <2>7, <2>8
<1>8. CASE o.side # "buy"
  <2> DEFINE p1 == PayRwa(s, Market, taker, x)
             p2 == PayBase(p1, taker, maker, value - maker_fee)
             p3 == PayBase(p2, taker, FeeRecipient, fee)
  <2>1. /\ p1 \in Copy /\ BalancesApart(s, p1) /\ p1.base = s.base
        /\ p1.ok => s.ok /\ x > 0 /\ Moved(s.rwa, p1.rwa, Market, taker, x)
    BY <1>2, PayRwaFacts
  <2>2. /\ p2 \in Copy /\ BalancesApart(p1, p2) /\ p2.rwa = p1.rwa
        /\ p2.ok => p1.ok /\ Moved(p1.base, p2.base, taker, maker, value - maker_fee)
    <3>1. value - maker_fee \in Int
      BY <1>3, <1>4
    <3> HIDE DEF p1, value, maker_fee
    <3> QED BY <1>2, <2>1, <3>1, PayBaseFacts
  <2>3. /\ p3 \in Copy /\ BalancesApart(p2, p3) /\ p3.rwa = p2.rwa
        /\ p3.ok => p2.ok /\ Moved(p2.base, p3.base, taker, FeeRecipient, fee)
    <3> HIDE DEF p2, fee
    <3> QED BY <1>2, <1>4, <2>2, PayBaseFacts
  <2>4. SettlePayments(s, taker, o, x) = IF fee > 0 THEN p3 ELSE p2
    BY <1>8 DEF SettlePayments
  <2>5. Moved(s.rwa, p1.rwa, Market, taker, x) =>
          /\ p1.rwa[Market] = s.rwa[Market] - x
          /\ \A u \in Trader \ {taker} : p1.rwa[u] = s.rwa[u]
    <3> HIDE DEF p1
    <3> QED BY Accounts DEF Moved
  <2>6. ASSUME p2.ok
        PROVE  /\ p2.base[Market] = s.base[Market]
               /\ \A u \in Trader \ {taker} :
                    p2.base[u] = s.base[u] + (IF u = maker THEN value - maker_fee ELSE 0)
    <3> HIDE DEF p1, p2, value, maker_fee
    <3> QED BY <2>1, <2>2, <2>6, <1>2, <1>5, Accounts DEF Moved
  <2>7. ASSUME p3.ok
        PROVE  /\ p3.base[Market] = p2.base[Market]
               /\ \A u \in Trader \ {taker} : p3.base[u] = p2.base[u]
    <3> HIDE DEF p2, p3, value, fee
    <3> QED BY <2>3, <2>7, <1>2, Accounts DEF Moved
  <2>8. ASSUME p2.ok
        PROVE  Settled(s, p2, taker, o, x)
    <3> HIDE DEF p1, p2
    <3> QED BY <1>8, <2>1, <2>2, <2>5, <2>6, <2>8 DEF Settled
  <2>9. ASSUME p3.ok
        PROVE  Settled(s, p3, taker, o, x)
    <3>1. p2.ok
      BY <2>3, <2>9
    <3> HIDE DEF p1, p2, p3
    <3> QED BY <1>8, <3>1, <2>3, <2>7, <2>8, <2>9 DEF Settled
  <2> HIDE DEF p1, p2, p3, fee
  <2> QED BY <1>6, <2>1, <2>2, <2>3, <2>4, <2>8, <2>9
<1> QED BY <1>7, <1>8

\* The copy of settle_fill when its conditional orders are about to be evaluated.
Traded(s, taker, i, x) ==
  LET o == s.orders[i]
      paid == SettlePayments(TripBreaker(s, o.price), taker, o, x)
  IN  [paid EXCEPT !.orders[i] = FilledBy(o, x),
                   !.last_price = o.price,
                   !.vwap = <<@[1] + x, @[2] + x * o.price>>]

\* An order that is filled by no more than it lacks is an order.
LEMMA FilledByType ==
  ASSUME NEW o \in Order, o.is_active, NEW x \in Nat, x <= Unfilled(o)
  PROVE  FilledBy(o, x) \in Order
<1>1. o.filled \in Nat /\ o.amount \in Nat /\ o.filled + x <= o.amount
  BY DEF Order, Unfilled
<1>2. FilledBy(o, x) \in [maker : Account, side : {"buy", "sell", "none"}, price : Nat,
                          amount : Nat, filled : Nat, min_fill : Nat, expires_at : Nat,
                          is_active : BOOLEAN]
  <2> DEFINE f == o.filled + x
             a == o.filled + x # o.amount
  <2>1. f \in Nat /\ a \in BOOLEAN /\ FilledBy(o, x) = [o EXCEPT !.filled = f, !.is_active = a]
    BY <1>1 DEF FilledBy
  <2> HIDE DEF f, a
  <2> QED BY <2>1 DEF Order
<1>3. /\ FilledBy(o, x).filled = o.filled + x /\ FilledBy(o, x).amount = o.amount
      /\ FilledBy(o, x).maker = o.maker /\ FilledBy(o, x).side = o.side
      /\ FilledBy(o, x).is_active = (o.filled + x # o.amount)
  BY DEF Order, FilledBy
<1> QED BY <1>1, <1>2, <1>3 DEF Order

\* What settle_fill does before it evaluates the conditional orders.
TradedAs(s, r, taker, i, x) ==
  /\ r.orders = [s.orders EXCEPT ![i] = FilledBy(s.orders[i], x)]
  /\ r.conditionals = s.conditionals /\ r.live = s.live
  /\ r.ok => s.ok /\ x > 0 /\ Settled(s, r, taker, s.orders[i], x)

\* A fill, without the housekeeping behind it, is a trade of one order.
LEMMA TradedFacts ==
  ASSUME EnvTypes, NEW s \in Copy, NEW i \in DOMAIN s.orders, s.orders[i].is_active,
         NEW taker \in Trader, taker # s.orders[i].maker,
         NEW x \in Nat, x <= Unfilled(s.orders[i])
  PROVE  Traded(s, taker, i, x) \in Copy /\ TradedAs(s, Traded(s, taker, i, x), taker, i, x)
<1> DEFINE o == s.orders[i]
           watched == TripBreaker(s, o.price)
           paid == SettlePayments(watched, taker, o, x)
           q == [s.orders EXCEPT ![i] = FilledBy(o, x)]
           v == <<paid.vwap[1] + x, paid.vwap[2] + x * o.price>>
           r == [paid EXCEPT !.orders = q, !.last_price = o.price, !.vwap = v]
<1>1. s.orders \in Seq(Order) /\ i \in 1..Len(s.orders) /\ o \in Order /\ o.price \in Nat
  BY OrderType DEF Order
<1>2. watched \in Copy /\ BreakerApart(s, watched)
  <2> HIDE DEF o
  <2> QED BY <1>1, TripFacts
<1>3. /\ paid \in Copy /\ BalancesApart(watched, paid)
      /\ paid.ok => watched.ok /\ x > 0 /\ Settled(watched, paid, taker, o, x)
  <2> DEFINE oo == o
  <2>1. watched \in Copy /\ oo \in Order /\ oo.is_active /\ taker # oo.maker
    BY <1>1, <1>2
  <2>2. paid = SettlePayments(watched, taker, oo, x)
    OBVIOUS
  <2> HIDE DEF watched, oo, paid
  <2>3. /\ paid \in Copy /\ BalancesApart(watched, paid)
        /\ paid.ok => watched.ok /\ x > 0 /\ Settled(watched, paid, taker, oo, x)
    BY <2>1, <2>2, SettledFacts
  <2> QED BY <2>3 DEF oo
<1>4. q \in Seq(Order)
  <2>1. FilledBy(o, x) \in Order
    BY <1>1, FilledByType
  <2> QED BY <1>1, <2>1, ExceptSeq
<1>5. v \in Nat \X Nat
  <2>1. paid.vwap[1] \in Nat /\ paid.vwap[2] \in Nat
    <3> HIDE DEF paid
    <3> QED BY <1>3 DEF Copy
  <2>2. x * o.price \in Nat
    BY <1>1
  <2>3. \A m, n \in Nat : m + n \in Nat
    OBVIOUS
  <2> HIDE DEF paid, o
  <2> QED BY <2>1, <2>2, <2>3
<1>6. Traded(s, taker, i, x) = r
  <2>1. paid.orders = s.orders
    <3> HIDE DEF paid, watched
    <3> QED BY <1>2, <1>3 DEF BalancesApart, BreakerApart
  <2>2. Traded(s, taker, i, x) =
          [paid EXCEPT !.orders[i] = FilledBy(o, x),
                       !.last_price = o.price,
                       !.vwap = <<@[1] + x, @[2] + x * o.price>>]
    BY DEF Traded
  <2> HIDE DEF paid
  <2> QED BY <1>1, <2>1, <2>2
<1>7. /\ r \in Copy /\ r.orders = q /\ r.conditionals = paid.conditionals
      /\ r.live = paid.live /\ r.base = paid.base /\ r.rwa = paid.rwa /\ r.ok = paid.ok
  <2> HIDE DEF paid, q, v
  <2> QED BY <1>1, <1>3, <1>4, <1>5 DEF Copy
<1>8. TradedAs(s, r, taker, i, x)
  <2> HIDE DEF r, paid, watched
  <2> QED BY <1>2, <1>3, <1>7 DEF TradedAs, BalancesApart, BreakerApart, Settled
<1> QED BY <1>6, <1>7, <1>8

\* A fill is a trade and then a look at the conditional orders.
LEMMA FillThenEvaluate ==
  ASSUME NEW s, NEW taker, NEW i, NEW x
  PROVE  SettleFill(s, taker, i, x) = EvaluateConditionals(Traded(s, taker, i, x))
BY DEF SettleFill, Traded

-----------------------------------------------------------------------------
(* The escrow of the market.                                               *)

\* What is due on the orders of a copy after one of them has changed.
LEMMA OrderChanged ==
  ASSUME NEW s \in Copy, NEW i \in DOMAIN s.orders, NEW o \in Order, NEW currency, NEW makers
  PROVE  /\ DueOn([s.orders EXCEPT ![i] = o], currency, makers)
              = DueOn(s.orders, currency, makers) - Due(s.orders[i], currency, makers)
                  + Due(o, currency, makers)
         /\ DueOn(s.orders, currency, makers) \in Int
         /\ Due(s.orders[i], currency, makers) \in Int /\ Due(o, currency, makers) \in Int
<1>1. \A v \in Order : Due(v, currency, makers) \in Int
  BY DueType
<1>2. s.orders \in Seq(Order) /\ s.orders[i] \in Order
  BY OrderType
<1> QED BY <1>1, <1>2, DueOnChange, DueOnType

\* Closing a conditional order takes what is due on it off the list's total.
LEMMA ConditionalChanged ==
  ASSUME NEW s \in Copy, NEW i \in DOMAIN s.conditionals, NEW currency, NEW makers
  PROVE  /\ DueOn([s.conditionals EXCEPT ![i] = Closed(s.conditionals[i])], currency, makers)
              = DueOn(s.conditionals, currency, makers) - Due(s.conditionals[i], currency, makers)
         /\ DueOn(s.conditionals, currency, makers) \in Int
         /\ Due(s.conditionals[i], currency, makers) \in Int
<1>1. \A v \in Conditional : Due(v, currency, makers) \in Int
  BY DueType
<1>2. s.conditionals \in Seq(Conditional) /\ s.conditionals[i] \in Conditional
        /\ Closed(s.conditionals[i]) \in Conditional
  BY ConditionalType, ClosedType
<1>3. Due(Closed(s.conditionals[i]), currency, makers) = 0
  BY <1>2, ClosedOwesNothing
<1>4. DueOn([s.conditionals EXCEPT ![i] = Closed(s.conditionals[i])], currency, makers)
        = DueOn(s.conditionals, currency, makers) - Due(s.conditionals[i], currency, makers) + 0
  BY <1>1, <1>2, <1>3, DueOnChange
<1>5. DueOn(s.conditionals, currency, makers) \in Int /\ Due(s.conditionals[i], currency, makers) \in Int
  BY <1>1, <1>2, DueOnType
<1> QED BY <1>4, <1>5

\* What both lists owe are integers.
LEMMA ListsType ==
  ASSUME NEW s \in Copy, NEW currency, NEW makers
  PROVE  /\ DueOn(s.orders, currency, makers) \in Int
         /\ DueOn(s.conditionals, currency, makers) \in Int
<1>1. s.orders \in Seq(Order) /\ s.conditionals \in Seq(Conditional)
  BY DEF Copy
<1>2. \A v \in Order : Due(v, currency, makers) \in Int
  BY DueType
<1>3. \A v \in Conditional : Due(v, currency, makers) \in Int
  BY DueType
<1> QED BY <1>1, <1>2, <1>3, DueOnType

\* An order that is placed adds what is due on it to the list's total.
LEMMA OrderAdded ==
  ASSUME NEW s \in Copy, NEW o \in Order, NEW currency, NEW makers
  PROVE  /\ DueOn(Append(s.orders, o), currency, makers)
              = DueOn(s.orders, currency, makers) + Due(o, currency, makers)
         /\ DueOn(s.orders, currency, makers) \in Int
         /\ DueOn(s.conditionals, currency, makers) \in Int
         /\ Due(o, currency, makers) \in Int
<1>1. s.orders \in Seq(Order) /\ \A v \in Order : Due(v, currency, makers) \in Int
  BY DueType DEF Copy
<1> QED BY <1>1, DueOnAppend, ListsType

\* A conditional order that is placed adds what is due on it to the list's total.
LEMMA ConditionalAdded ==
  ASSUME NEW s \in Copy, NEW c \in Conditional, NEW currency, NEW makers
  PROVE  /\ DueOn(Append(s.conditionals, c), currency, makers)
              = DueOn(s.conditionals, currency, makers) + Due(c, currency, makers)
         /\ DueOn(s.orders, currency, makers) \in Int
         /\ DueOn(s.conditionals, currency, makers) \in Int
         /\ Due(c, currency, makers) \in Int
<1>1. s.conditionals \in Seq(Conditional) /\ \A v \in Conditional : Due(v, currency, makers) \in Int
  BY DueType DEF Copy
<1> QED BY <1>1, DueOnAppend, ListsType

\* A fill lowers what is due on the order by what it settles.
LEMMA FilledDue ==
  ASSUME NEW o \in Order, o.is_active, NEW x \in Nat, x <= Unfilled(o), NEW makers
  PROVE  /\ o.maker \in makers => 
              /\ o.side = "buy" => /\ Due(FilledBy(o, x), "base", makers)
                                        = Due(o, "base", makers) - x * o.price
                                   /\ Due(FilledBy(o, x), "rwa", makers) = Due(o, "rwa", makers)
              /\ o.side # "buy" => /\ Due(FilledBy(o, x), "base", makers)
                                        = Due(o, "base", makers)
                                   /\ Due(FilledBy(o, x), "rwa", makers)
                                        = Due(o, "rwa", makers) - x
         /\ o.maker \notin makers =>
              \A currency : Due(FilledBy(o, x), currency, makers) = Due(o, currency, makers)
<1> DEFINE f == FilledBy(o, x)
<1>1. /\ f.filled = o.filled + x /\ f.amount = o.amount /\ f.maker = o.maker /\ f.side = o.side
      /\ f.price = o.price /\ (f.is_active <=> o.filled + x # o.amount)
  BY DEF FilledBy, Order
<1>2. o.filled \in Nat /\ o.amount \in Nat /\ o.price \in Nat /\ o.side \in {"buy", "sell"}
  BY DEF Order
<1>3. /\ Unfilled(f) = Unfilled(o) - x /\ Unfilled(f) * o.price = Unfilled(o) * o.price - x * o.price
      /\ ~f.is_active => Unfilled(f) = 0 /\ Unfilled(f) * o.price = 0
      /\ Unfilled(o) \in Int /\ x * o.price \in Int
  <2>1. Unfilled(f) = Unfilled(o) - x /\ Unfilled(o) \in Int /\ (~f.is_active => Unfilled(f) = 0)
    <3> HIDE DEF f
    <3> QED BY <1>1, <1>2 DEF Unfilled
  <2>2. \A a, b, p \in Int : (a - b) * p = a * p - b * p
    OBVIOUS
  <2> HIDE DEF f
  <2> QED BY <2>1, <2>2, <1>2
<1> HIDE DEF f
<1>4. CASE o.maker \notin makers
  BY <1>1, <1>4 DEF Due, f
<1>5. CASE o.maker \in makers /\ o.side = "buy"
  BY <1>1, <1>2, <1>3, <1>5 DEF Due, f
<1>6. CASE o.maker \in makers /\ o.side # "buy"
  BY <1>1, <1>2, <1>3, <1>6 DEF Due, f
<1> QED BY <1>4, <1>5, <1>6

-----------------------------------------------------------------------------
(* The traders who do not take.                                            *)

\* How much of order i has been filled by then, and how much of it a call fills.
Reached(s, i) == IF i \in DOMAIN s.orders THEN s.orders[i].filled ELSE 0

Gain(s, r, i) == r.orders[i].filled - Reached(s, i)

\* What order i is to bring its maker t, in tokens and at least in base currency, when a
\* call goes from s to r.
TokenShare(s, r, t, i) ==
  IF r.orders[i].maker # t THEN 0
  ELSE IF r.orders[i].side = "buy" THEN Gain(s, r, i)
  ELSE IF r.orders[i].side = "sell" THEN 0 - Gain(s, r, i)
  ELSE 0

BaseShare(s, r, t, i) ==
  IF r.orders[i].maker # t THEN 0
  ELSE IF r.orders[i].side = "buy" THEN 0 - Gain(s, r, i) * r.orders[i].price
  ELSE IF r.orders[i].side = "sell"
  THEN Gain(s, r, i) * r.orders[i].price - MakerFee(Gain(s, r, i) * r.orders[i].price)
  ELSE 0

TokenShares(s, r, t) ==
  SumFunctionOnSet([i \in DOMAIN r.orders |-> TokenShare(s, r, t, i)], DOMAIN r.orders)

BaseShares(s, r, t) ==
  SumFunctionOnSet([i \in DOMAIN r.orders |-> BaseShare(s, r, t, i)], DOMAIN r.orders)

\* What t has, with what the market holds for it.
Tokens(s, t) == s.rwa[t] + (DueOn(s.orders, "rwa", {t}) + DueOn(s.conditionals, "rwa", {t}))

Money(s, t) == s.base[t] + (DueOn(s.orders, "base", {t}) + DueOn(s.conditionals, "base", {t}))

\* No order changes its terms or loses a fill.
Grows(s, r) ==
  /\ DOMAIN s.orders \subseteq DOMAIN r.orders
  /\ \A i \in DOMAIN s.orders :
       /\ r.orders[i].maker = s.orders[i].maker /\ r.orders[i].side = s.orders[i].side
       /\ r.orders[i].price = s.orders[i].price /\ r.orders[i].filled >= s.orders[i].filled

Fair(s, r, t) ==
  /\ Tokens(r, t) - Tokens(s, t) = TokenShares(s, r, t)
  /\ Money(r, t) - Money(s, t) >= BaseShares(s, r, t)

\* A call in which at most u takes, unless it has panicked, is fair to all others.
FairToOthers(s, r, u) ==
  Grows(s, r) /\ (r.ok => \A t \in Trader \ {u} : Fair(s, r, t))

\* A maker's fees are rounded down on each fill: together they are at most those of one
\* fill of all, which are none for nothing.
LEMMA FeesAdd ==
  ASSUME EnvTypes
  PROVE  /\ MakerFee(0) = 0
         /\ \A v, w \in Nat : MakerFee(v) + MakerFee(w) <= MakerFee(v + w)
<1> DEFINE rate == IF fee_tiers = <<>> THEN config.fee_rate_bps ELSE fee_tiers[1].maker_fee_bps
<1>1. rate \in Int
  <2>1. config.fee_rate_bps \in Int
    BY MarketAssumption DEF EnvTypes
  <2>2. fee_tiers # <<>> => fee_tiers[1] \in Tiers
    BY EmptySeq, ElementOfSeq DEF EnvTypes
  <2>3. fee_tiers # <<>> => fee_tiers[1].maker_fee_bps \in Nat
    BY <2>2, TierType
  <2> QED BY <2>1, <2>3
<1>2. \A v : MakerFee(v) = IF Bps(v * rate) > 0 THEN Bps(v * rate) ELSE 0
  BY DEF MakerFee, Fees
<1> HIDE DEF rate
<1>3. \A m, n \in Int : (m \div 10000) + (n \div 10000) <= (m + n) \div 10000
  OBVIOUS
<1>4. \A v, w, k \in Int : (v + w) * k = v * k + w * k /\ v * k \in Int
  OBVIOUS
<1>5. \A n \in Int : n <= 0 => ~(Bps(n) > 0)
  BY BpsType
<1>6. MakerFee(0) = 0
  <2>1. \A k \in Int : 0 * k = 0
    OBVIOUS
  <2> QED BY <1>1, <1>2, <1>5, <2>1
<1>7. ASSUME NEW v \in Nat, NEW w \in Nat
      PROVE  MakerFee(v) + MakerFee(w) <= MakerFee(v + w)
  <2>1. (v + w) * rate = v * rate + w * rate /\ v * rate \in Int /\ w * rate \in Int
    BY <1>1, <1>4
  <2>2. CASE rate >= 0
    <3>1. v * rate >= 0 /\ w * rate >= 0
      BY <1>1, <2>2
    <3>2. \A n \in Nat : Bps(n) = n \div 10000 /\ Bps(n) \in Int /\ Bps(n) >= 0
      BY BpsType DEF Bps
    <3>3. \A n \in Nat : (IF Bps(n) > 0 THEN Bps(n) ELSE 0) = n \div 10000
      BY <3>2
    <3>4. v * rate \in Nat /\ w * rate \in Nat /\ (v + w) * rate \in Nat
      BY <2>1, <3>1
    <3>5. /\ MakerFee(v) = (v * rate) \div 10000 /\ MakerFee(w) = (w * rate) \div 10000
          /\ MakerFee(v + w) = (v * rate + w * rate) \div 10000
      BY <1>2, <2>1, <3>3, <3>4
    <3> QED BY <1>3, <2>1, <3>5
  <2>3. CASE rate < 0
    <3>1. v * rate <= 0 /\ w * rate <= 0 /\ (v + w) * rate <= 0 /\ (v + w) * rate \in Int
      BY <1>1, <2>1, <2>3
    <3>2. MakerFee(v) = 0 /\ MakerFee(w) = 0 /\ MakerFee(v + w) = 0
      BY <1>2, <1>5, <2>1, <3>1
    <3> QED BY <3>2
  <2> QED BY <1>1, <2>2, <2>3
<1> QED BY <1>6, <1>7

\* What an order was filled by, and what that is worth, are naturals.
LEMMA GainType ==
  ASSUME NEW s \in Copy, NEW r \in Copy, Grows(s, r), NEW i \in DOMAIN r.orders
  PROVE  /\ Gain(s, r, i) \in Nat /\ r.orders[i].price \in Nat
         /\ Gain(s, r, i) * r.orders[i].price \in Nat
<1>1. r.orders[i] \in Order /\ r.orders[i].filled \in Nat /\ r.orders[i].price \in Nat
  BY OrderType DEF Order
<1>2. CASE i \in DOMAIN s.orders
  <2>1. s.orders[i].filled \in Nat
    BY <1>2, OrderType DEF Order
  <2>2. r.orders[i].filled >= s.orders[i].filled
    BY <1>2 DEF Grows
  <2>3. Gain(s, r, i) \in Nat
    BY <1>1, <1>2, <2>1, <2>2 DEF Gain, Reached
  <2> QED BY <1>1, <2>3
<1>3. CASE i \notin DOMAIN s.orders
  <2>1. Gain(s, r, i) \in Nat
    BY <1>1, <1>3 DEF Gain, Reached
  <2> QED BY <1>1, <2>1
<1> QED BY <1>2, <1>3

\* A trader's shares of the fills of an order are integers.
LEMMA ShareType ==
  ASSUME EnvTypes, NEW s \in Copy, NEW r \in Copy, Grows(s, r), NEW i \in DOMAIN r.orders, NEW t
  PROVE  TokenShare(s, r, t, i) \in Int /\ BaseShare(s, r, t, i) \in Int
<1>1. Gain(s, r, i) \in Nat /\ Gain(s, r, i) * r.orders[i].price \in Nat
  BY GainType
<1>2. MakerFee(Gain(s, r, i) * r.orders[i].price) \in Int
  BY <1>1, FeesType
<1>3. TokenShare(s, r, t, i) \in Int
  BY <1>1 DEF TokenShare
<1>4. BaseShare(s, r, t, i) \in Int
  BY <1>1, <1>2 DEF BaseShare
<1> QED BY <1>3, <1>4

\* There are finitely many orders.
LEMMA OrderIndices ==
  ASSUME NEW s \in Copy
  PROVE  IsFiniteSet(DOMAIN s.orders)
<1>1. s.orders \in Seq(Order)
  BY DEF Copy
<1>2. DOMAIN s.orders = 1..Len(s.orders) /\ Len(s.orders) \in Nat
  BY <1>1, LenProperties
<1> QED BY <1>2, FS_Interval

\* What a trader has, with what is escrowed for them, are integers.
LEMMA WealthType ==
  ASSUME NEW s \in Copy, NEW t \in Trader
  PROVE  /\ Tokens(s, t) \in Int /\ Money(s, t) \in Int
         /\ s.base[t] \in Nat /\ s.rwa[t] \in Nat
<1>1. s.base[t] \in Nat /\ s.rwa[t] \in Nat
  BY Accounts DEF Copy
<1>2. \A currency : /\ DueOn(s.orders, currency, {t}) \in Int
                    /\ DueOn(s.conditionals, currency, {t}) \in Int
  BY ListsType
<1>3. Tokens(s, t) \in Int
  BY <1>1, <1>2 DEF Tokens
<1>4. Money(s, t) \in Int
  BY <1>1, <1>2 DEF Money
<1> QED BY <1>1, <1>3, <1>4

\* What an order brings in two calls is what it brings in each.
LEMMA SharesAdd ==
  ASSUME EnvTypes, NEW s \in Copy, NEW r \in Copy, NEW q \in Copy, Grows(s, r), Grows(r, q),
         NEW t, NEW i \in DOMAIN q.orders
  PROVE  /\ i \in DOMAIN r.orders =>
              /\ TokenShare(s, q, t, i) = TokenShare(r, q, t, i) + TokenShare(s, r, t, i)
              /\ BaseShare(s, q, t, i) <= BaseShare(r, q, t, i) + BaseShare(s, r, t, i)
         /\ i \notin DOMAIN r.orders =>
              /\ TokenShare(s, q, t, i) = TokenShare(r, q, t, i)
              /\ BaseShare(s, q, t, i) = BaseShare(r, q, t, i)
<1>1. CASE i \notin DOMAIN r.orders
  <2>1. i \notin DOMAIN s.orders
    BY <1>1 DEF Grows
  <2>2. Gain(s, q, i) = Gain(r, q, i)
    BY <1>1, <2>1 DEF Gain, Reached
  <2> QED BY <1>1, <2>2 DEF TokenShare, BaseShare
<1>2. CASE i \in DOMAIN r.orders
  <2> DEFINE a == Gain(r, q, i)
             b == Gain(s, r, i)
             p == r.orders[i].price
  <2>1. /\ q.orders[i].maker = r.orders[i].maker /\ q.orders[i].side = r.orders[i].side
        /\ q.orders[i].price = p
    BY <1>2 DEF Grows
  <2>2. a \in Nat /\ b \in Nat /\ p \in Nat
    BY <1>2, GainType
  <2>3. Gain(s, q, i) = a + b
    <3>1. q.orders[i].filled \in Nat /\ r.orders[i].filled \in Nat
      BY <1>2, OrderType DEF Order
    <3>2. Reached(s, i) \in Nat
      BY OrderType DEF Reached, Order
    <3>3. Reached(r, i) = r.orders[i].filled
      BY <1>2 DEF Reached
    <3> QED BY <3>1, <3>2, <3>3 DEF Gain
  <2>4. (a + b) * p = a * p + b * p /\ a * p \in Nat /\ b * p \in Nat
    <3>1. \A k, l, m \in Nat : (k + l) * m = k * m + l * m /\ k * m \in Nat
      OBVIOUS
    <3> HIDE DEF a, b, p
    <3> QED BY <2>2, <3>1
  <2>5. /\ MakerFee(a * p) + MakerFee(b * p) <= MakerFee(a * p + b * p)
        /\ MakerFee(a * p) \in Int /\ MakerFee(b * p) \in Int /\ MakerFee(a * p + b * p) \in Int
    <3>1. a * p + b * p \in Nat
      BY <2>4
    <3> HIDE DEF a, b, p
    <3> QED BY <2>4, <3>1, FeesAdd, FeesType
  <2>6. TokenShare(s, q, t, i) = TokenShare(r, q, t, i) + TokenShare(s, r, t, i)
    <3>1. Gain(s, q, i) = Gain(r, q, i) + Gain(s, r, i) /\ Gain(r, q, i) \in Nat /\ Gain(s, r, i) \in Nat
      BY <2>2, <2>3
    <3> HIDE DEF a, b, p
    <3> QED BY <2>1, <3>1 DEF TokenShare
  <2>7. BaseShare(s, q, t, i) <= BaseShare(r, q, t, i) + BaseShare(s, r, t, i)
    <3>1. CASE q.orders[i].maker = t /\ q.orders[i].side = "buy"
      <4>1. /\ BaseShare(s, q, t, i) = 0 - (a + b) * p /\ BaseShare(r, q, t, i) = 0 - a * p
            /\ BaseShare(s, r, t, i) = 0 - b * p
        BY <2>1, <2>3, <3>1 DEF BaseShare
      <4> HIDE DEF a, b, p
      <4> QED BY <2>4, <4>1
    <3>2. CASE q.orders[i].maker = t /\ q.orders[i].side = "sell"
      <4>1. /\ BaseShare(s, q, t, i) = (a + b) * p - MakerFee((a + b) * p)
            /\ BaseShare(r, q, t, i) = a * p - MakerFee(a * p)
            /\ BaseShare(s, r, t, i) = b * p - MakerFee(b * p)
        BY <2>1, <2>3, <3>2 DEF BaseShare
      <4> HIDE DEF a, b, p
      <4> QED BY <2>4, <2>5, <4>1
    <3>3. CASE ~(q.orders[i].maker = t /\ q.orders[i].side \in {"buy", "sell"})
      <4>1. /\ BaseShare(s, q, t, i) = 0 /\ BaseShare(r, q, t, i) = 0
            /\ BaseShare(s, r, t, i) = 0
        BY <2>1, <3>3 DEF BaseShare
      <4> QED BY <4>1
    <3> QED BY <3>1, <3>2, <3>3
  <2> QED BY <1>2, <2>6, <2>7
<1> QED BY <1>1, <1>2

\* Orders that grow twice have grown.
LEMMA GrowsOn ==
  ASSUME NEW s \in Copy, NEW r \in Copy, NEW q \in Copy, Grows(s, r), Grows(r, q)
  PROVE  Grows(s, q)
<1>1. ASSUME NEW i \in DOMAIN s.orders
      PROVE  q.orders[i].filled >= s.orders[i].filled
  <2>1. i \in DOMAIN r.orders /\ i \in DOMAIN q.orders
    BY DEF Grows
  <2>2. q.orders[i].filled >= r.orders[i].filled /\ r.orders[i].filled >= s.orders[i].filled
    BY <2>1 DEF Grows
  <2>3. q.orders[i].filled \in Nat /\ r.orders[i].filled \in Nat /\ s.orders[i].filled \in Nat
    BY <2>1, OrderType DEF Order
  <2> QED BY <2>2, <2>3
<1> QED BY <1>1 DEF Grows

\* What is fair to a trader twice is fair to them altogether.
LEMMA FairOn ==
  ASSUME EnvTypes, NEW s \in Copy, NEW r \in Copy, NEW q \in Copy, Grows(s, r), Grows(r, q),
         NEW t \in Trader, Fair(s, r, t), Fair(r, q, t)
  PROVE  Fair(s, q, t)
<1> DEFINE D == DOMAIN q.orders
           E == DOMAIN r.orders
           f == [i \in D |-> TokenShare(s, q, t, i)]
           g == [i \in D |-> TokenShare(r, q, t, i)]
           h == [i \in E |-> TokenShare(s, r, t, i)]
           k == [i \in D |-> IF i \in E THEN h[i] ELSE 0]
           ff == [i \in D |-> BaseShare(s, q, t, i)]
           gg == [i \in D |-> BaseShare(r, q, t, i)]
           hh == [i \in E |-> BaseShare(s, r, t, i)]
           kk == [i \in D |-> IF i \in E THEN hh[i] ELSE 0]
           ll == [i \in D |-> gg[i] + kk[i]]
<1>1. IsFiniteSet(D) /\ E \in SUBSET D /\ Grows(s, q)
  BY OrderIndices, GrowsOn DEF Grows
<1>2. /\ \A i \in D : f[i] \in Int /\ g[i] \in Int /\ ff[i] \in Int /\ gg[i] \in Int
      /\ \A i \in E : h[i] \in Int /\ hh[i] \in Int
  BY <1>1, ShareType
<1>3. /\ \A i \in D : k[i] \in Int /\ kk[i] \in Int
      /\ \A i \in E : k[i] = h[i] /\ kk[i] = hh[i]
      /\ \A i \in D \ E : k[i] = 0 /\ kk[i] = 0
  <2>1. \A i \in E : k[i] = h[i] /\ kk[i] = hh[i]
    BY <1>1
  <2>2. \A i \in D \ E : k[i] = 0 /\ kk[i] = 0
    OBVIOUS
  <2>3. \A i \in D : i \in E \/ i \in D \ E
    OBVIOUS
  <2> HIDE DEF D, E, h, hh, k, kk
  <2> QED BY <1>2, <2>1, <2>2, <2>3
<1>4. \A i \in D : f[i] = g[i] + k[i] /\ ff[i] <= gg[i] + kk[i]
  <2> SUFFICES ASSUME NEW i \in D
               PROVE  f[i] = g[i] + k[i] /\ ff[i] <= gg[i] + kk[i]
    OBVIOUS
  <2>1. CASE i \in E
    <3>1. /\ TokenShare(s, q, t, i) = TokenShare(r, q, t, i) + TokenShare(s, r, t, i)
          /\ BaseShare(s, q, t, i) <= BaseShare(r, q, t, i) + BaseShare(s, r, t, i)
      BY <2>1, SharesAdd
    <3>2. /\ f[i] = TokenShare(s, q, t, i) /\ g[i] = TokenShare(r, q, t, i)
          /\ ff[i] = BaseShare(s, q, t, i) /\ gg[i] = BaseShare(r, q, t, i)
          /\ k[i] = TokenShare(s, r, t, i) /\ kk[i] = BaseShare(s, r, t, i)
      BY <2>1
    <3> QED BY <3>1, <3>2
  <2>2. CASE i \notin E
    <3>1. f[i] = g[i] /\ ff[i] = gg[i]
      BY <2>2, SharesAdd
    <3>2. k[i] = 0 /\ kk[i] = 0 /\ g[i] \in Int /\ gg[i] \in Int
      BY <1>2, <2>2
    <3> HIDE DEF f, g, k, ff, gg, kk
    <3> QED BY <3>1, <3>2
  <2> QED BY <2>1, <2>2
<1>5. SumFunctionOnSet(f, D) = SumFunctionOnSet(g, D) + SumFunctionOnSet(h, E)
  <2> HIDE DEF D, E, f, g, h, k
  <2>1. SumFunctionOnSet(f, D) = SumFunctionOnSet(g, D) + SumFunctionOnSet(k, D)
    BY <1>1, <1>2, <1>3, <1>4, SumPlus
  <2>2. \A i \in E : h[i] \in Int /\ k[i] = h[i]
    BY <1>2, <1>3
  <2>3. \A i \in D \ E : k[i] = 0
    BY <1>3
  <2>4. SumFunctionOnSet(k, D) = SumFunctionOnSet(h, E)
    BY <1>1, <2>2, <2>3, SumWithin
  <2> QED BY <2>1, <2>4
<1>6. SumFunctionOnSet(ff, D) <= SumFunctionOnSet(gg, D) + SumFunctionOnSet(hh, E)
  <2>1. \A i \in D : ll[i] = gg[i] + kk[i]
    OBVIOUS
  <2> HIDE DEF D, E, ff, gg, hh, kk, ll
  <2>2. SumFunctionOnSet(ll, D) = SumFunctionOnSet(gg, D) + SumFunctionOnSet(kk, D)
    BY <1>1, <1>2, <1>3, <2>1, SumPlus
  <2>3. SumFunctionOnSet(kk, D) = SumFunctionOnSet(hh, E)
    <3>1. \A i \in E : hh[i] \in Int /\ kk[i] = hh[i]
      BY <1>2, <1>3
    <3>2. \A i \in D \ E : kk[i] = 0
      BY <1>3
    <3> QED BY <1>1, <3>1, <3>2, SumWithin
  <2>4. \A i \in D : ff[i] \in Int /\ ll[i] \in Int /\ ff[i] <= ll[i]
    BY <1>2, <1>3, <1>4, <2>1
  <2>5. SumFunctionOnSet(ff, D) <= SumFunctionOnSet(ll, D)
    BY <1>1, <2>4, SumMonotone
  <2> QED BY <2>2, <2>3, <2>5
<1>7. /\ SumFunctionOnSet(g, D) \in Int /\ SumFunctionOnSet(h, E) \in Int
      /\ SumFunctionOnSet(ff, D) \in Int
      /\ SumFunctionOnSet(gg, D) \in Int /\ SumFunctionOnSet(hh, E) \in Int
  <2>1. IsFiniteSet(E)
    BY <1>1, FS_Subset
  <2> HIDE DEF D, E, f, g, h, ff, gg, hh
  <2> QED BY <1>1, <1>2, <2>1, SumType
<1>8. /\ TokenShares(s, q, t) = SumFunctionOnSet(f, D)
      /\ TokenShares(r, q, t) = SumFunctionOnSet(g, D)
      /\ TokenShares(s, r, t) = SumFunctionOnSet(h, E)
      /\ BaseShares(s, q, t) = SumFunctionOnSet(ff, D)
      /\ BaseShares(r, q, t) = SumFunctionOnSet(gg, D)
      /\ BaseShares(s, r, t) = SumFunctionOnSet(hh, E)
  BY DEF TokenShares, BaseShares
<1>9. /\ Tokens(s, t) \in Int /\ Tokens(r, t) \in Int /\ Tokens(q, t) \in Int
      /\ Money(s, t) \in Int /\ Money(r, t) \in Int /\ Money(q, t) \in Int
  BY WealthType
<1> HIDE DEF D, E, f, g, h, ff, gg, hh
<1>10. Tokens(q, t) - Tokens(s, t) = TokenShares(s, q, t)
  BY <1>5, <1>7, <1>8, <1>9 DEF Fair
<1>11. Money(q, t) - Money(s, t) >= BaseShares(s, q, t)
  BY <1>6, <1>7, <1>8, <1>9 DEF Fair
<1> QED BY <1>10, <1>11 DEF Fair

\* From s to r no order is filled.
Quiet(s, r) == Grows(s, r) /\ \A i \in DOMAIN r.orders : r.orders[i].filled = Reached(s, i)

\* A change that fills nothing and leaves a trader's wealth is fair to them.
LEMMA QuietFair ==
  ASSUME EnvTypes, NEW s \in Copy, NEW r \in Copy, Quiet(s, r), NEW t \in Trader,
         Tokens(r, t) = Tokens(s, t), Money(r, t) = Money(s, t)
  PROVE  Fair(s, r, t)
<1> DEFINE D == DOMAIN r.orders
           f == [i \in D |-> TokenShare(s, r, t, i)]
           g == [i \in D |-> BaseShare(s, r, t, i)]
<1>1. IsFiniteSet(D)
  BY OrderIndices
<1>2. ASSUME NEW i \in D
      PROVE  f[i] = 0 /\ g[i] = 0
  <2>1. r.orders[i].filled \in Nat /\ r.orders[i].price \in Nat
    BY OrderType DEF Order
  <2>2. Gain(s, r, i) = 0 /\ Gain(s, r, i) * r.orders[i].price = 0
    BY <2>1 DEF Quiet, Gain
  <2>3. MakerFee(Gain(s, r, i) * r.orders[i].price) = 0
    BY <2>2, FeesAdd
  <2>4. TokenShare(s, r, t, i) = 0
    BY <2>2 DEF TokenShare
  <2>5. BaseShare(s, r, t, i) = 0
    BY <2>2, <2>3 DEF BaseShare
  <2> QED BY <2>4, <2>5
<1>3. SumFunctionOnSet(f, D) = 0 /\ SumFunctionOnSet(g, D) = 0
  <2> HIDE DEF D, f, g
  <2> QED BY <1>1, <1>2, SumZero
<1>4. TokenShares(s, r, t) = 0 /\ BaseShares(s, r, t) = 0
  BY <1>3 DEF TokenShares, BaseShares
<1> QED BY <1>4, WealthType DEF Fair


\* A change that fills nothing and leaves every trader's wealth is fair to all.
LEMMA QuietFairToOthers ==
  ASSUME EnvTypes, NEW s \in Copy, NEW r \in Copy, Quiet(s, r), NEW u,
         r.ok => \A t \in Trader : Tokens(r, t) = Tokens(s, t) /\ Money(r, t) = Money(s, t)
  PROVE  FairToOthers(s, r, u)
BY QuietFair DEF FairToOthers, Quiet

\* Which steps fill no order: those that keep or close the orders, and those that add one.
LEMMA QuietSame ==
  ASSUME NEW s \in Copy, NEW r \in Copy, r.orders = s.orders
  PROVE  Quiet(s, r)
<1>1. \A i \in DOMAIN s.orders : s.orders[i].filled \in Nat
  BY OrderType DEF Order
<1> QED BY <1>1 DEF Quiet, Grows, Reached

\* Closing an order fills nothing.
LEMMA QuietClosed ==
  ASSUME NEW s \in Copy, NEW r \in Copy, NEW i \in DOMAIN s.orders,
         r.orders = [s.orders EXCEPT ![i] = Closed(s.orders[i])]
  PROVE  Quiet(s, r)
<1>1. DOMAIN r.orders = DOMAIN s.orders
  OBVIOUS
<1>2. ASSUME NEW j \in DOMAIN s.orders
      PROVE  /\ r.orders[j].maker = s.orders[j].maker /\ r.orders[j].side = s.orders[j].side
             /\ r.orders[j].price = s.orders[j].price /\ r.orders[j].filled = s.orders[j].filled
             /\ s.orders[j].filled \in Nat
  <2>1. s.orders[j] \in Order
    BY OrderType
  <2>2. r.orders[j] = IF j = i THEN Closed(s.orders[j]) ELSE s.orders[j]
    OBVIOUS
  <2> QED BY <2>1, <2>2 DEF Closed, Order
<1> QED BY <1>1, <1>2 DEF Quiet, Grows, Reached

\* Placing an order fills nothing.
LEMMA QuietAdded ==
  ASSUME NEW s \in Copy, NEW r \in Copy, NEW o \in Order, o.filled = 0,
         r.orders = Append(s.orders, o)
  PROVE  Quiet(s, r)
<1>1. s.orders \in Seq(Order)
  BY DEF Copy
<1>2. /\ Len(s.orders) \in Nat /\ DOMAIN s.orders = 1..Len(s.orders)
      /\ DOMAIN r.orders = 1..(Len(s.orders) + 1) /\ r.orders[Len(s.orders) + 1] = o
      /\ \A j \in 1..Len(s.orders) : r.orders[j] = s.orders[j]
  BY <1>1, AppendProperties, LenProperties
<1>3. \A j \in DOMAIN s.orders : s.orders[j].filled \in Nat /\ r.orders[j] = s.orders[j]
  BY <1>2, OrderType DEF Order
<1>4. \A j \in DOMAIN r.orders : j \in DOMAIN s.orders \/ j = Len(s.orders) + 1
  BY <1>2
<1>5. Len(s.orders) + 1 \notin DOMAIN s.orders /\ DOMAIN s.orders \subseteq DOMAIN r.orders
  BY <1>2
<1>6. Grows(s, r)
  BY <1>3, <1>5 DEF Grows
<1>7. \A j \in DOMAIN r.orders : r.orders[j].filled = Reached(s, j)
  BY <1>2, <1>3, <1>4, <1>5 DEF Reached
<1> QED BY <1>6, <1>7 DEF Quiet

\* What is due to a trader on an active order.
LEMMA DueTo ==
  ASSUME NEW o \in Order \union Conditional, o.is_active, NEW t \in Trader
  PROVE  /\ o.maker # t => Due(o, "base", {t}) = 0 /\ Due(o, "rwa", {t}) = 0
         /\ o.maker = t /\ o.side = "buy" => /\ Due(o, "base", {t}) = Unfilled(o) * o.price
                                             /\ Due(o, "rwa", {t}) = 0
         /\ o.maker = t /\ o.side # "buy" => /\ Due(o, "base", {t}) = 0
                                             /\ Due(o, "rwa", {t}) = Unfilled(o)
<1>1. o.side \in {"buy", "sell"}
  BY DEF Order, Conditional
<1> QED BY <1>1 DEF Due

\* A refund gives a trader what was due to it, an escrow takes what will be.
LEMMA RefundWealth ==
  ASSUME NEW s \in Copy, NEW r \in Copy, NEW o \in Order \union Conditional, o.is_active,
         Refunded(s, r, o), NEW t \in Trader
  PROVE  /\ r.base[t] = s.base[t] + Due(o, "base", {t})
         /\ r.rwa[t] = s.rwa[t] + Due(o, "rwa", {t})
<1>1. t \in Account /\ t # Market /\ s.base[t] \in Nat /\ s.rwa[t] \in Nat
  BY Accounts, WealthType
<1> QED BY <1>1, DueTo DEF Refunded, Moved

\* What an escrow takes from a trader is due to them.
LEMMA EscrowWealth ==
  ASSUME NEW s \in Copy, NEW r \in Copy, NEW o \in Order \union Conditional, o.is_active,
         o.filled = 0, Escrowed(s, r, o), NEW t \in Trader
  PROVE  /\ r.base[t] + Due(o, "base", {t}) = s.base[t]
         /\ r.rwa[t] + Due(o, "rwa", {t}) = s.rwa[t]
<1>1. t \in Account /\ t # Market /\ s.base[t] \in Nat /\ s.rwa[t] \in Nat
  BY Accounts, WealthType
<1>2. Unfilled(o) = o.amount /\ o.amount \in Nat /\ o.amount * o.price \in Nat
  <2>1. o.amount \in Nat /\ o.price \in Nat
    BY DEF Order, Conditional
  <2> QED BY <2>1 DEF Unfilled
<1>3. CASE o.side = "buy"
  <2>1. r.rwa = s.rwa /\ Moved(s.base, r.base, o.maker, Market, o.amount * o.price)
    BY <1>3 DEF Escrowed
  <2> QED BY <1>1, <1>2, <1>3, <2>1, DueTo DEF Moved
<1>4. CASE o.side # "buy"
  <2>1. r.base = s.base /\ Moved(s.rwa, r.rwa, o.maker, Market, o.amount)
    BY <1>4 DEF Escrowed
  <2> QED BY <1>1, <1>2, <1>4, <2>1, DueTo DEF Moved
<1> QED BY <1>3, <1>4

\* The end of an order is fair to all.
LEMMA OrderEndedFair ==
  ASSUME EnvTypes, NEW s \in Copy, NEW i \in DOMAIN s.orders, s.orders[i].is_active,
         NEW r \in Copy, OrderEnded(s, r, i), NEW u
  PROVE  FairToOthers(s, r, u)
<1> DEFINE o == s.orders[i]
<1>1. /\ o \in Order /\ o.is_active /\ Closed(o) \in Order
      /\ r.orders = [s.orders EXCEPT ![i] = Closed(o)] /\ r.conditionals = s.conditionals
      /\ r.ok => Refunded(s, r, o)
  BY OrderType, ClosedType DEF OrderEnded
<1>2. Quiet(s, r)
  BY <1>1, QuietClosed
<1>3. ASSUME r.ok, NEW t \in Trader
      PROVE  Tokens(r, t) = Tokens(s, t) /\ Money(r, t) = Money(s, t)
  <2>1. ASSUME NEW currency
        PROVE  /\ DueOn(r.orders, currency, {t})
                    = DueOn(s.orders, currency, {t}) - Due(o, currency, {t})
               /\ DueOn(s.orders, currency, {t}) \in Int /\ Due(o, currency, {t}) \in Int
               /\ DueOn(s.conditionals, currency, {t}) \in Int
    <3>1. Due(Closed(o), currency, {t}) = 0
      BY <1>1, ClosedOwesNothing
    <3>2. /\ DueOn(r.orders, currency, {t}) = DueOn(s.orders, currency, {t})
                - Due(o, currency, {t}) + Due(Closed(o), currency, {t})
          /\ DueOn(s.orders, currency, {t}) \in Int /\ Due(o, currency, {t}) \in Int
      BY <1>1, OrderChanged
    <3>3. DueOn(s.conditionals, currency, {t}) \in Int
      BY ListsType
    <3> HIDE DEF o
    <3> QED BY <3>1, <3>2, <3>3
  <2>2. Refunded(s, r, o)
    BY <1>1, <1>3
  <2> HIDE DEF o
  <2>3. /\ r.base[t] = s.base[t] + Due(o, "base", {t})
        /\ r.rwa[t] = s.rwa[t] + Due(o, "rwa", {t})
        /\ s.base[t] \in Nat /\ s.rwa[t] \in Nat
    BY <1>1, <2>2, RefundWealth, WealthType
  <2>4. Tokens(r, t) = Tokens(s, t)
    BY <1>1, <2>1, <2>3 DEF Tokens
  <2>5. Money(r, t) = Money(s, t)
    <3>1. /\ DueOn(r.orders, "base", {t}) = DueOn(s.orders, "base", {t}) - Due(o, "base", {t})
          /\ DueOn(s.orders, "base", {t}) \in Int /\ Due(o, "base", {t}) \in Int
          /\ DueOn(s.conditionals, "base", {t}) \in Int
      BY <2>1
    <3> QED BY <1>1, <2>3, <3>1 DEF Money
  <2> QED BY <2>4, <2>5
<1> QED BY <1>2, <1>3, QuietFairToOthers

\* The refund of a conditional order is fair to all.
LEMMA ConditionalRefundedFair ==
  ASSUME EnvTypes, NEW s \in Copy, NEW i \in DOMAIN s.conditionals, s.conditionals[i].is_active,
         NEW r \in Copy, ConditionalRefunded(s, r, i), NEW u
  PROVE  FairToOthers(s, r, u)
<1> DEFINE c == s.conditionals[i]
<1>1. /\ c \in Conditional /\ c.is_active /\ r.orders = s.orders
      /\ r.conditionals = [s.conditionals EXCEPT ![i] = Closed(c)]
      /\ r.ok => Refunded(s, r, c)
  BY ConditionalType DEF ConditionalRefunded, ConditionalEnded
<1>2. Quiet(s, r)
  BY <1>1, QuietSame
<1>3. ASSUME r.ok, NEW t \in Trader
      PROVE  Tokens(r, t) = Tokens(s, t) /\ Money(r, t) = Money(s, t)
  <2>1. ASSUME NEW currency
        PROVE  /\ DueOn(r.conditionals, currency, {t})
                    = DueOn(s.conditionals, currency, {t}) - Due(c, currency, {t})
               /\ DueOn(s.conditionals, currency, {t}) \in Int /\ Due(c, currency, {t}) \in Int
               /\ DueOn(s.orders, currency, {t}) \in Int
    BY <1>1, ConditionalChanged, ListsType
  <2>2. Refunded(s, r, c)
    BY <1>1, <1>3
  <2> HIDE DEF c
  <2>3. /\ r.base[t] = s.base[t] + Due(c, "base", {t})
        /\ r.rwa[t] = s.rwa[t] + Due(c, "rwa", {t})
        /\ s.base[t] \in Nat /\ s.rwa[t] \in Nat
    BY <1>1, <2>2, RefundWealth, WealthType
  <2>4. Tokens(r, t) = Tokens(s, t)
    BY <1>1, <2>1, <2>3 DEF Tokens
  <2>5. Money(r, t) = Money(s, t)
    <3>1. /\ DueOn(r.conditionals, "base", {t}) = DueOn(s.conditionals, "base", {t}) - Due(c, "base", {t})
          /\ DueOn(s.conditionals, "base", {t}) \in Int /\ Due(c, "base", {t}) \in Int
          /\ DueOn(s.orders, "base", {t}) \in Int
      BY <2>1
    <3> QED BY <1>1, <2>3, <3>1 DEF Money
  <2> QED BY <2>4, <2>5
<1> QED BY <1>2, <1>3, QuietFairToOthers


\* A conditional order that comes to rest is fair to all.
LEMMA ConditionalRestsFair ==
  ASSUME EnvTypes, NEW s \in Copy, NEW i \in DOMAIN s.conditionals, s.conditionals[i].is_active,
         NEW r \in Copy, ConditionalRests(s, r, i), NEW u
  PROVE  FairToOthers(s, r, u)
<1> DEFINE c == s.conditionals[i]
           o == RestingOrder(c)
<1>1. /\ c \in Conditional /\ c.is_active /\ o \in Order /\ o.filled = 0
      /\ r.conditionals = [s.conditionals EXCEPT ![i] = Closed(c)]
      /\ r.orders = Append(s.orders, o) /\ r.base = s.base /\ r.rwa = s.rwa
  BY ConditionalType, RestingType DEF ConditionalRests, ConditionalEnded, RestingOrder
<1>2. Quiet(s, r)
  <2> HIDE DEF o
  <2> QED BY <1>1, QuietAdded
<1>3. ASSUME NEW t \in Trader
      PROVE  Tokens(r, t) = Tokens(s, t) /\ Money(r, t) = Money(s, t)
  <2>1. ASSUME NEW currency
        PROVE  /\ DueOn(r.conditionals, currency, {t})
                    = DueOn(s.conditionals, currency, {t}) - Due(c, currency, {t})
               /\ DueOn(s.conditionals, currency, {t}) \in Int /\ Due(c, currency, {t}) \in Int
               /\ DueOn(r.orders, currency, {t})
                    = DueOn(s.orders, currency, {t}) + Due(c, currency, {t})
               /\ DueOn(s.orders, currency, {t}) \in Int
    <3>1. /\ DueOn(r.conditionals, currency, {t})
               = DueOn(s.conditionals, currency, {t}) - Due(c, currency, {t})
          /\ DueOn(s.conditionals, currency, {t}) \in Int /\ Due(c, currency, {t}) \in Int
      BY <1>1, ConditionalChanged
    <3>2. Due(o, currency, {t}) = Due(c, currency, {t})
      BY <1>1, RestingType
    <3> HIDE DEF o, c
    <3>3. /\ DueOn(r.orders, currency, {t}) = DueOn(s.orders, currency, {t}) + Due(o, currency, {t})
          /\ DueOn(s.orders, currency, {t}) \in Int
      BY <1>1, OrderAdded
    <3> QED BY <3>1, <3>2, <3>3
  <2>2. s.base[t] \in Nat /\ s.rwa[t] \in Nat
    BY WealthType
  <2> HIDE DEF o, c
  <2>3. Tokens(r, t) = Tokens(s, t)
    <3>1. /\ DueOn(r.conditionals, "rwa", {t})
               = DueOn(s.conditionals, "rwa", {t}) - Due(c, "rwa", {t})
          /\ DueOn(s.conditionals, "rwa", {t}) \in Int /\ Due(c, "rwa", {t}) \in Int
          /\ DueOn(r.orders, "rwa", {t}) = DueOn(s.orders, "rwa", {t}) + Due(c, "rwa", {t})
          /\ DueOn(s.orders, "rwa", {t}) \in Int
      BY <2>1
    <3> QED BY <1>1, <2>2, <3>1 DEF Tokens
  <2>4. Money(r, t) = Money(s, t)
    <3>1. /\ DueOn(r.conditionals, "base", {t})
               = DueOn(s.conditionals, "base", {t}) - Due(c, "base", {t})
          /\ DueOn(s.conditionals, "base", {t}) \in Int /\ Due(c, "base", {t}) \in Int
          /\ DueOn(r.orders, "base", {t}) = DueOn(s.orders, "base", {t}) + Due(c, "base", {t})
          /\ DueOn(s.orders, "base", {t}) \in Int
      BY <2>1
    <3> QED BY <1>1, <2>2, <3>1 DEF Money
  <2> QED BY <2>3, <2>4
<1> QED BY <1>2, <1>3, QuietFairToOthers

\* Placing an order is fair to all.
LEMMA PlacedFair ==
  ASSUME EnvTypes, NEW s \in Copy, NEW o \in Order, o.is_active, o.filled = 0, NEW r \in Copy,
         r.orders = Append(s.orders, o), r.conditionals = s.conditionals,
         r.ok => Escrowed(s, r, o), NEW u
  PROVE  FairToOthers(s, r, u)
<1>1. Quiet(s, r)
  BY QuietAdded
<1>2. ASSUME r.ok, NEW t \in Trader
      PROVE  Tokens(r, t) = Tokens(s, t) /\ Money(r, t) = Money(s, t)
  <2>1. ASSUME NEW currency
        PROVE  /\ DueOn(r.orders, currency, {t})
                    = DueOn(s.orders, currency, {t}) + Due(o, currency, {t})
               /\ DueOn(s.orders, currency, {t}) \in Int
               /\ DueOn(s.conditionals, currency, {t}) \in Int
               /\ Due(o, currency, {t}) \in Int
    BY OrderAdded
  <2>2. /\ r.base[t] + Due(o, "base", {t}) = s.base[t]
        /\ r.rwa[t] + Due(o, "rwa", {t}) = s.rwa[t]
        /\ s.base[t] \in Nat /\ s.rwa[t] \in Nat /\ r.base[t] \in Nat /\ r.rwa[t] \in Nat
    <3>1. Escrowed(s, r, o)
      BY <1>2
    <3> QED BY <3>1, EscrowWealth, WealthType
  <2>3. Tokens(r, t) = Tokens(s, t)
    <3>1. /\ DueOn(r.orders, "rwa", {t}) = DueOn(s.orders, "rwa", {t}) + Due(o, "rwa", {t})
          /\ DueOn(s.orders, "rwa", {t}) \in Int /\ Due(o, "rwa", {t}) \in Int
          /\ DueOn(s.conditionals, "rwa", {t}) \in Int
      BY <2>1
    <3> QED BY <2>2, <3>1 DEF Tokens
  <2>4. Money(r, t) = Money(s, t)
    <3>1. /\ DueOn(r.orders, "base", {t}) = DueOn(s.orders, "base", {t}) + Due(o, "base", {t})
          /\ DueOn(s.orders, "base", {t}) \in Int /\ Due(o, "base", {t}) \in Int
          /\ DueOn(s.conditionals, "base", {t}) \in Int
      BY <2>1
    <3> QED BY <2>2, <3>1 DEF Money
  <2> QED BY <2>3, <2>4
<1> QED BY <1>1, <1>2, QuietFairToOthers

\* Placing a conditional order is fair to all.
LEMMA ConditionalPlacedFair ==
  ASSUME EnvTypes, NEW s \in Copy, NEW c \in Conditional, c.is_active, NEW r \in Copy,
         r.conditionals = Append(s.conditionals, c), r.orders = s.orders,
         r.ok => Escrowed(s, r, c), NEW u
  PROVE  FairToOthers(s, r, u)
<1>1. Quiet(s, r)
  BY QuietSame
<1>2. ASSUME r.ok, NEW t \in Trader
      PROVE  Tokens(r, t) = Tokens(s, t) /\ Money(r, t) = Money(s, t)
  <2>1. ASSUME NEW currency
        PROVE  /\ DueOn(r.conditionals, currency, {t})
                    = DueOn(s.conditionals, currency, {t}) + Due(c, currency, {t})
               /\ DueOn(s.orders, currency, {t}) \in Int
               /\ DueOn(s.conditionals, currency, {t}) \in Int
               /\ Due(c, currency, {t}) \in Int
    BY ConditionalAdded
  <2>2. /\ r.base[t] + Due(c, "base", {t}) = s.base[t]
        /\ r.rwa[t] + Due(c, "rwa", {t}) = s.rwa[t]
        /\ s.base[t] \in Nat /\ s.rwa[t] \in Nat /\ r.base[t] \in Nat /\ r.rwa[t] \in Nat
    <3>1. c.filled = 0 /\ Escrowed(s, r, c)
      BY <1>2 DEF Conditional
    <3> QED BY <3>1, EscrowWealth, WealthType
  <2>3. Tokens(r, t) = Tokens(s, t)
    <3>1. /\ DueOn(r.conditionals, "rwa", {t})
               = DueOn(s.conditionals, "rwa", {t}) + Due(c, "rwa", {t})
          /\ DueOn(s.conditionals, "rwa", {t}) \in Int /\ Due(c, "rwa", {t}) \in Int
          /\ DueOn(s.orders, "rwa", {t}) \in Int
      BY <2>1
    <3> QED BY <2>2, <3>1 DEF Tokens
  <2>4. Money(r, t) = Money(s, t)
    <3>1. /\ DueOn(r.conditionals, "base", {t})
               = DueOn(s.conditionals, "base", {t}) + Due(c, "base", {t})
          /\ DueOn(s.conditionals, "base", {t}) \in Int /\ Due(c, "base", {t}) \in Int
          /\ DueOn(s.orders, "base", {t}) \in Int
      BY <2>1
    <3> QED BY <2>2, <3>1 DEF Money
  <2> QED BY <2>3, <2>4
<1> QED BY <1>1, <1>2, QuietFairToOthers

\* A step of a call that only looks at the breaker, or panics.
LEMMA SameFair ==
  ASSUME EnvTypes, NEW s \in Copy, NEW r \in Copy, r.orders = s.orders,
         r.conditionals = s.conditionals, r.base = s.base, r.rwa = s.rwa, NEW u
  PROVE  FairToOthers(s, r, u)
<1>1. \A t \in Trader : Tokens(r, t) = Tokens(s, t) /\ Money(r, t) = Money(s, t)
  BY DEF Tokens, Money
<1> QED BY <1>1, QuietSame, QuietFairToOthers


\* A fill brings the maker of the order its share, and the other traders nothing.
LEMMA FilledDueTo ==
  ASSUME NEW o \in Order, o.is_active, NEW x \in Nat, x <= Unfilled(o), NEW t \in Trader
  PROVE  LET f == FilledBy(o, x)
         IN  /\ o.maker # t => /\ Due(f, "base", {t}) = Due(o, "base", {t})
                               /\ Due(f, "rwa", {t}) = Due(o, "rwa", {t})
             /\ o.maker = t /\ o.side = "buy" =>
                  /\ Due(f, "base", {t}) = Due(o, "base", {t}) - x * o.price
                  /\ Due(f, "rwa", {t}) = Due(o, "rwa", {t})
             /\ o.maker = t /\ o.side # "buy" =>
                  /\ Due(f, "base", {t}) = Due(o, "base", {t})
                  /\ Due(f, "rwa", {t}) = Due(o, "rwa", {t}) - x
<1> DEFINE makers == {t}
<1>1. o.maker \in makers <=> o.maker = t
  OBVIOUS
<1> HIDE DEF makers
<1> QED BY <1>1, FilledDue DEF makers

\* A trade is fair to all but the taker, whose trade it is.
LEMMA TradedFair ==
  ASSUME EnvTypes, NEW s \in Copy, NEW i \in DOMAIN s.orders, s.orders[i].is_active,
         NEW taker \in Trader, NEW x \in Nat, x <= Unfilled(s.orders[i]),
         NEW r \in Copy, TradedAs(s, r, taker, i, x)
  PROVE  FairToOthers(s, r, taker)
<1> DEFINE o == s.orders[i]
           f == FilledBy(o, x)
           D == DOMAIN s.orders
<1>1. /\ o \in Order /\ f \in Order /\ o.is_active /\ x <= Unfilled(o)
      /\ r.orders = [s.orders EXCEPT ![i] = f] /\ r.conditionals = s.conditionals
      /\ r.ok => Settled(s, r, taker, o, x)
  BY OrderType, FilledByType DEF TradedAs
<1>2. /\ f.filled = o.filled + x /\ f.maker = o.maker /\ f.side = o.side /\ f.price = o.price
      /\ o.filled \in Nat /\ o.price \in Nat /\ o.side \in {"buy", "sell"}
  BY <1>1 DEF FilledBy, Order
<1>3. DOMAIN r.orders = D /\ i \in D /\ r.orders[i] = f /\ \A j \in D \ {i} : r.orders[j] = s.orders[j]
  <2> HIDE DEF f
  <2> QED BY <1>1
<1>4. \A j \in D : s.orders[j].filled \in Nat
  BY OrderType DEF Order
<1>5. Grows(s, r)
  <2>1. ASSUME NEW j \in D
        PROVE  /\ r.orders[j].maker = s.orders[j].maker /\ r.orders[j].side = s.orders[j].side
               /\ r.orders[j].price = s.orders[j].price /\ r.orders[j].filled >= s.orders[j].filled
    <3>1. CASE j = i
      <4> HIDE DEF f
      <4> QED BY <1>2, <1>3, <3>1
    <3>2. CASE j # i
      <4>1. r.orders[j] = s.orders[j] /\ s.orders[j].filled \in Nat
        BY <1>3, <1>4, <3>2
      <4> QED BY <4>1
    <3> QED BY <3>1, <3>2
  <2> QED BY <1>3, <2>1 DEF Grows
<1>6. Gain(s, r, i) = x /\ \A j \in D \ {i} : Gain(s, r, j) = 0
  <2>1. Gain(s, r, i) = x
    <3> HIDE DEF f
    <3> QED BY <1>2, <1>3 DEF Gain, Reached
  <2>2. ASSUME NEW j \in D \ {i}
        PROVE  Gain(s, r, j) = 0
    <3>1. r.orders[j] = s.orders[j] /\ s.orders[j].filled \in Nat
      BY <1>3, <1>4
    <3> QED BY <3>1 DEF Gain, Reached
  <2> QED BY <2>1, <2>2
<1>7. ASSUME r.ok, NEW t \in Trader \ {taker}
      PROVE  Fair(s, r, t)
  <2> DEFINE tokens == [j \in D |-> TokenShare(s, r, t, j)]
             moneys == [j \in D |-> BaseShare(s, r, t, j)]
  <2>1. \A j \in D \ {i} : tokens[j] = 0 /\ moneys[j] = 0
    <3> SUFFICES ASSUME NEW j \in D \ {i} PROVE tokens[j] = 0 /\ moneys[j] = 0
      OBVIOUS
    <3>1. Gain(s, r, j) = 0
      BY <1>6
    <3>2. r.orders[j].price \in Nat
      BY <1>3, OrderType DEF Order
    <3>3. Gain(s, r, j) * r.orders[j].price = 0
      BY <3>1, <3>2
    <3>4. MakerFee(Gain(s, r, j) * r.orders[j].price) = 0
      BY <3>3, FeesAdd
    <3>5. TokenShare(s, r, t, j) = 0
      BY <3>1 DEF TokenShare
    <3>6. BaseShare(s, r, t, j) = 0
      BY <3>3, <3>4 DEF BaseShare
    <3> QED BY <3>5, <3>6
  <2>2. \A j \in D : tokens[j] \in Int /\ moneys[j] \in Int
    BY <1>3, <1>5, ShareType
  <2>3. /\ TokenShares(s, r, t) = SumFunctionOnSet(tokens, D)
        /\ BaseShares(s, r, t) = SumFunctionOnSet(moneys, D)
    BY <1>3 DEF TokenShares, BaseShares
  <2>4. tokens[i] = TokenShare(s, r, t, i) /\ moneys[i] = BaseShare(s, r, t, i)
    BY <1>3
  <2>5. SumFunctionOnSet(tokens, D) = tokens[i] /\ SumFunctionOnSet(moneys, D) = moneys[i]
    <3>1. IsFiniteSet(D) /\ IsFiniteSet(D \ {i}) /\ i \in D
      BY OrderIndices, FS_Difference
    <3> HIDE DEF D, tokens, moneys
    <3>2. SumFunctionOnSet(tokens, D \ {i}) = 0 /\ SumFunctionOnSet(moneys, D \ {i}) = 0
      BY <2>1, <3>1, SumZero
    <3>3. /\ SumFunctionOnSet(tokens, D) = tokens[i] + SumFunctionOnSet(tokens, D \ {i})
          /\ SumFunctionOnSet(moneys, D) = moneys[i] + SumFunctionOnSet(moneys, D \ {i})
      BY <2>2, <3>1, SumRemove
    <3>4. tokens[i] \in Int /\ moneys[i] \in Int
      BY <2>2, <3>1
    <3> QED BY <3>2, <3>3, <3>4
  <2> HIDE DEF tokens, moneys
  <2>6. /\ TokenShares(s, r, t) = TokenShare(s, r, t, i)
        /\ BaseShares(s, r, t) = BaseShare(s, r, t, i)
    BY <2>3, <2>4, <2>5
  <2>7. ASSUME NEW currency
        PROVE  /\ DueOn(r.orders, currency, {t})
                    = DueOn(s.orders, currency, {t}) - Due(o, currency, {t}) + Due(f, currency, {t})
               /\ DueOn(s.orders, currency, {t}) \in Int
               /\ Due(o, currency, {t}) \in Int /\ Due(f, currency, {t}) \in Int
               /\ DueOn(s.conditionals, currency, {t}) \in Int
    <3>1. r \in Copy /\ f \in Order /\ r.orders = [s.orders EXCEPT ![i] = f]
      BY <1>1
    <3> HIDE DEF f
    <3>2. /\ DueOn(r.orders, currency, {t})
               = DueOn(s.orders, currency, {t}) - Due(o, currency, {t}) + Due(f, currency, {t})
          /\ DueOn(s.orders, currency, {t}) \in Int
          /\ Due(o, currency, {t}) \in Int /\ Due(f, currency, {t}) \in Int
      BY <3>1, OrderChanged
    <3>3. DueOn(s.conditionals, currency, {t}) \in Int
      BY ListsType
    <3> QED BY <3>2, <3>3
  <2>8. /\ DueOn(r.orders, "base", {t})
             = DueOn(s.orders, "base", {t}) - Due(o, "base", {t}) + Due(f, "base", {t})
        /\ DueOn(s.orders, "base", {t}) \in Int
        /\ Due(o, "base", {t}) \in Int /\ Due(f, "base", {t}) \in Int
        /\ DueOn(s.conditionals, "base", {t}) \in Int
    BY <2>7
  <2>9. /\ DueOn(r.orders, "rwa", {t})
             = DueOn(s.orders, "rwa", {t}) - Due(o, "rwa", {t}) + Due(f, "rwa", {t})
        /\ DueOn(s.orders, "rwa", {t}) \in Int
        /\ Due(o, "rwa", {t}) \in Int /\ Due(f, "rwa", {t}) \in Int
        /\ DueOn(s.conditionals, "rwa", {t}) \in Int
    BY <2>7
  <2>10. Settled(s, r, taker, o, x)
    BY <1>1, <1>7
  <2>11. /\ s.base[t] \in Nat /\ s.rwa[t] \in Nat /\ x * o.price \in Nat
         /\ Fees(x * o.price)[1] \in Int /\ MakerFee(x * o.price) \in Int
         /\ Fees(x * o.price)[1] <= MakerFee(x * o.price)
    <3>1. x * o.price \in Nat
      BY <1>2
    <3> QED BY <3>1, WealthType, FeesType
  <2>12. r.orders[i].maker = o.maker /\ r.orders[i].side = o.side /\ r.orders[i].price = o.price
    BY <1>2, <1>3
  <2> HIDE DEF o, f
  <2>13. CASE o.maker # t
    <3>1. TokenShare(s, r, t, i) = 0 /\ BaseShare(s, r, t, i) = 0
      BY <2>12, <2>13 DEF TokenShare, BaseShare
    <3>2. Due(f, "base", {t}) = Due(o, "base", {t}) /\ Due(f, "rwa", {t}) = Due(o, "rwa", {t})
      BY <1>1, <2>13, FilledDueTo DEF f
    <3>3. r.base[t] = s.base[t] /\ r.rwa[t] = s.rwa[t]
      BY <2>10, <2>11, <2>13 DEF Settled
    <3>4. Tokens(r, t) - Tokens(s, t) = 0
      BY <1>1, <2>9, <2>11, <3>2, <3>3 DEF Tokens
    <3>5. Money(r, t) - Money(s, t) = 0
      BY <1>1, <2>8, <2>11, <3>2, <3>3 DEF Money
    <3> QED BY <2>6, <3>1, <3>4, <3>5 DEF Fair
  <2>14. CASE o.maker = t /\ o.side = "buy"
    <3>1. TokenShare(s, r, t, i) = x /\ BaseShare(s, r, t, i) = 0 - x * o.price
      BY <1>6, <2>12, <2>14 DEF TokenShare, BaseShare
    <3>2. /\ Due(f, "base", {t}) = Due(o, "base", {t}) - x * o.price
          /\ Due(f, "rwa", {t}) = Due(o, "rwa", {t})
      BY <1>1, <2>14, FilledDueTo DEF f
    <3>3. r.base[t] = s.base[t] /\ r.rwa[t] = s.rwa[t] + x
      BY <2>10, <2>11, <2>14 DEF Settled
    <3>4. Tokens(r, t) - Tokens(s, t) = x
      BY <1>1, <2>9, <2>11, <3>2, <3>3 DEF Tokens
    <3>5. Money(r, t) - Money(s, t) = 0 - x * o.price
      BY <1>1, <2>8, <2>11, <3>2, <3>3 DEF Money
    <3> QED BY <2>6, <2>11, <3>1, <3>4, <3>5 DEF Fair
  <2>15. CASE o.maker = t /\ o.side # "buy"
    <3>1. /\ TokenShare(s, r, t, i) = 0 - x
          /\ BaseShare(s, r, t, i) = x * o.price - MakerFee(x * o.price)
      BY <1>2, <1>6, <2>12, <2>15 DEF TokenShare, BaseShare
    <3>2. /\ Due(f, "base", {t}) = Due(o, "base", {t})
          /\ Due(f, "rwa", {t}) = Due(o, "rwa", {t}) - x
      BY <1>1, <2>15, FilledDueTo DEF f
    <3>3. /\ r.base[t] = s.base[t] + (x * o.price - Fees(x * o.price)[1])
          /\ r.rwa[t] = s.rwa[t]
      BY <2>10, <2>15 DEF Settled
    <3>4. Tokens(r, t) - Tokens(s, t) = 0 - x
      BY <1>1, <2>9, <2>11, <3>2, <3>3 DEF Tokens
    <3>5. Money(r, t) - Money(s, t) = x * o.price - Fees(x * o.price)[1]
      BY <1>1, <2>8, <2>11, <3>2, <3>3 DEF Money
    <3> QED BY <2>6, <2>11, <3>1, <3>4, <3>5 DEF Fair
  <2> QED BY <2>13, <2>14, <2>15
<1> QED BY <1>5, <1>7 DEF FairToOthers


\* What the market holds beyond what it owes.
BaseSlack(s) ==
  s.base[Market] - (DueOn(s.orders, "base", Trader) + DueOn(s.conditionals, "base", Trader))

RwaSlack(s) ==
  s.rwa[Market] - (DueOn(s.orders, "rwa", Trader) + DueOn(s.conditionals, "rwa", Trader))

\* A call that goes from s to r, unless it has panicked, leaves what the market has to
\* spare, less the rebates it pays to a taker, and is fair to all but u, who may take.
Keeps(s, r, u) ==
  /\ s \in Copy /\ r \in Copy
  /\ r.ok => s.ok
  /\ r.ok => BaseSlack(r) <= BaseSlack(s) /\ RwaSlack(r) = RwaSlack(s)
  /\ r.ok /\ (~Rebate \/ u \notin Trader) => BaseSlack(r) = BaseSlack(s)
  /\ FairToOthers(s, r, u)

\* The market's own balances are naturals.
LEMMA MarketHolds ==
  ASSUME NEW s \in Copy
  PROVE  s.base[Market] \in Nat /\ s.rwa[Market] \in Nat
BY Accounts DEF Copy

\* What the market has to spare are integers.
LEMMA SlackType ==
  ASSUME NEW s \in Copy
  PROVE  BaseSlack(s) \in Int /\ RwaSlack(s) \in Int
<1>1. \A currency : /\ DueOn(s.orders, currency, Trader) \in Int
                    /\ DueOn(s.conditionals, currency, Trader) \in Int
  BY ListsType
<1>2. BaseSlack(s) \in Int
  BY <1>1, MarketHolds DEF BaseSlack
<1>3. RwaSlack(s) \in Int
  BY <1>1, MarketHolds DEF RwaSlack
<1> QED BY <1>2, <1>3

\* What is kept twice is kept altogether.
LEMMA KeepsOn ==
  ASSUME EnvTypes, NEW s, NEW r, NEW q, NEW u, Keeps(s, r, u), Keeps(r, q, u)
  PROVE  Keeps(s, q, u)
<1>1. /\ s \in Copy /\ r \in Copy /\ q \in Copy /\ Grows(s, r) /\ Grows(r, q)
      /\ q.ok => r.ok /\ s.ok
  BY DEF Keeps, FairToOthers
<1>2. ASSUME q.ok, NEW t \in Trader \ {u}
      PROVE  Fair(s, q, t)
  <2>1. Fair(s, r, t) /\ Fair(r, q, t)
    BY <1>1, <1>2 DEF Keeps, FairToOthers
  <2> QED BY <1>1, <2>1, FairOn
<1>3. FairToOthers(s, q, u)
  BY <1>1, <1>2, GrowsOn DEF FairToOthers
<1>4. q.ok => /\ BaseSlack(q) <= BaseSlack(r) /\ BaseSlack(r) <= BaseSlack(s)
              /\ RwaSlack(q) = RwaSlack(s)
  BY <1>1 DEF Keeps
<1>5. BaseSlack(s) \in Int /\ BaseSlack(r) \in Int /\ BaseSlack(q) \in Int
  BY <1>1, SlackType
<1>6. q.ok => BaseSlack(q) <= BaseSlack(s)
  BY <1>4, <1>5
<1>7. q.ok /\ (~Rebate \/ u \notin Trader) => BaseSlack(q) = BaseSlack(s)
  BY <1>1 DEF Keeps
<1> QED BY <1>1, <1>3, <1>4, <1>6, <1>7 DEF Keeps

\* The lists and the balances are all it depends on.
LEMMA KeepsSame ==
  ASSUME EnvTypes, NEW s \in Copy, NEW r \in Copy, r.orders = s.orders,
         r.conditionals = s.conditionals, r.base = s.base, r.rwa = s.rwa, r.ok => s.ok, NEW u
  PROVE  Keeps(s, r, u)
<1>1. BaseSlack(r) = BaseSlack(s) /\ RwaSlack(r) = RwaSlack(s)
  BY DEF BaseSlack, RwaSlack
<1>2. BaseSlack(r) <= BaseSlack(s)
  BY <1>1, SlackType
<1> QED BY <1>1, <1>2, SameFair DEF Keeps

\* What changes nothing keeps everything.
LEMMA KeepsItself ==
  ASSUME EnvTypes, NEW s \in Copy, NEW u
  PROVE  Keeps(s, s, u)
BY KeepsSame

\* A call that only looks at the breaker, and one that panics.
LEMMA KeepsApart ==
  ASSUME EnvTypes, NEW s \in Copy, NEW r \in Copy, BreakerApart(s, r), NEW u
  PROVE  Keeps(s, r, u)
BY KeepsSame DEF BreakerApart

\* A call that panics keeps everything.
LEMMA KeepsPanic ==
  ASSUME EnvTypes, NEW s \in Copy, NEW u
  PROVE  Keeps(s, Panic(s), u)
BY KeepsApart, CopyOk DEF BalancesApart, BreakerApart

\* What is due to all traders on an active order is what refunding it pays.
LEMMA ActiveDue ==
  ASSUME NEW o \in Order \union Conditional, o.is_active
  PROVE  /\ o.maker \in Trader
         /\ o.side = "buy" => /\ Due(o, "base", Trader) = Unfilled(o) * o.price
                              /\ Due(o, "rwa", Trader) = 0
         /\ o.side # "buy" => /\ Due(o, "base", Trader) = 0
                              /\ Due(o, "rwa", Trader) = Unfilled(o)
<1>1. o.maker \in Trader /\ o.side \in {"buy", "sell"}
  BY DEF Order, Conditional
<1> QED BY <1>1 DEF Due

\* A refund takes what is due out of the market.
LEMMA RefundDue ==
  ASSUME NEW s \in Copy, NEW r \in Copy, NEW o \in Order \union Conditional, o.is_active,
         Refunded(s, r, o)
  PROVE  /\ r.base[Market] = s.base[Market] - Due(o, "base", Trader)
         /\ r.rwa[Market] = s.rwa[Market] - Due(o, "rwa", Trader)
BY ActiveDue, Accounts, MarketHolds DEF Refunded, Moved

\* The end of an order keeps what the market has to spare, and is fair.
LEMMA KeepsOrderEnded ==
  ASSUME EnvTypes, NEW s \in Copy, NEW i \in DOMAIN s.orders, s.orders[i].is_active,
         NEW r \in Copy, OrderEnded(s, r, i), NEW u
  PROVE  Keeps(s, r, u)
<1> DEFINE o == s.orders[i]
<1>1. o \in Order /\ Closed(o) \in Order
  BY OrderType, ClosedType
<1>2. \A currency : /\ DueOn(r.orders, currency, Trader)
                         = DueOn(s.orders, currency, Trader) - Due(o, currency, Trader)
                    /\ DueOn(s.orders, currency, Trader) \in Int
                    /\ Due(o, currency, Trader) \in Int
  <2> SUFFICES ASSUME NEW currency
               PROVE  /\ DueOn(r.orders, currency, Trader)
                           = DueOn(s.orders, currency, Trader) - Due(o, currency, Trader)
                      /\ DueOn(s.orders, currency, Trader) \in Int
                      /\ Due(o, currency, Trader) \in Int
    OBVIOUS
  <2>1. Due(Closed(o), currency, Trader) = 0
    BY <1>1, ClosedOwesNothing
  <2>2. r.orders = [s.orders EXCEPT ![i] = Closed(o)]
    BY DEF OrderEnded
  <2> QED BY <1>1, <2>1, <2>2, OrderChanged
<1>3. r.ok => s.ok /\ Refunded(s, r, o)
  BY DEF OrderEnded
<1>4. r.ok => /\ r.base[Market] = s.base[Market] - Due(o, "base", Trader)
              /\ r.rwa[Market] = s.rwa[Market] - Due(o, "rwa", Trader)
  <2> HIDE DEF o
  <2> QED BY <1>1, <1>3, RefundDue DEF o
<1>5. r.conditionals = s.conditionals
  BY DEF OrderEnded
<1>6. \A currency : DueOn(s.conditionals, currency, Trader) \in Int
  BY ListsType
<1> HIDE DEF o
<1>7. r.ok => BaseSlack(r) = BaseSlack(s) /\ RwaSlack(r) = RwaSlack(s)
  BY <1>2, <1>4, <1>5, <1>6, MarketHolds DEF BaseSlack, RwaSlack
<1>8. r.ok => BaseSlack(r) <= BaseSlack(s)
  BY <1>3, <1>7, SlackType
<1> QED BY <1>3, <1>7, <1>8, OrderEndedFair DEF Keeps

\* The refund of a conditional order keeps what the market has to spare, and is fair.
LEMMA KeepsConditionalRefunded ==
  ASSUME EnvTypes, NEW s \in Copy, NEW i \in DOMAIN s.conditionals, s.conditionals[i].is_active,
         NEW r \in Copy, ConditionalRefunded(s, r, i), NEW u
  PROVE  Keeps(s, r, u)
<1> DEFINE c == s.conditionals[i]
<1>1. c \in Conditional /\ r.conditionals = [s.conditionals EXCEPT ![i] = Closed(c)]
        /\ r.orders = s.orders /\ (r.ok => s.ok /\ Refunded(s, r, c))
  BY ConditionalType DEF ConditionalRefunded, ConditionalEnded
<1>2. \A currency : /\ DueOn(r.conditionals, currency, Trader)
                         = DueOn(s.conditionals, currency, Trader) - Due(c, currency, Trader)
                    /\ DueOn(s.conditionals, currency, Trader) \in Int
                    /\ Due(c, currency, Trader) \in Int
                    /\ DueOn(s.orders, currency, Trader) \in Int
  BY <1>1, ConditionalChanged, ListsType
<1>3. r.ok => /\ r.base[Market] = s.base[Market] - Due(c, "base", Trader)
              /\ r.rwa[Market] = s.rwa[Market] - Due(c, "rwa", Trader)
  <2>1. c.is_active
    OBVIOUS
  <2> HIDE DEF c
  <2> QED BY <1>1, <2>1, RefundDue
<1> HIDE DEF c
<1>4. r.ok => BaseSlack(r) = BaseSlack(s) /\ RwaSlack(r) = RwaSlack(s)
  BY <1>1, <1>2, <1>3, MarketHolds DEF BaseSlack, RwaSlack
<1>8. r.ok => BaseSlack(r) <= BaseSlack(s)
  BY <1>1, <1>4, SlackType
<1> QED BY <1>1, <1>4, <1>8, ConditionalRefundedFair DEF Keeps

\* A conditional order that comes to rest keeps what the market has to spare, and is fair.
LEMMA KeepsConditionalRests ==
  ASSUME EnvTypes, NEW s \in Copy, NEW i \in DOMAIN s.conditionals, s.conditionals[i].is_active,
         NEW r \in Copy, ConditionalRests(s, r, i), NEW u
  PROVE  Keeps(s, r, u)
<1> DEFINE c == s.conditionals[i]
           o == RestingOrder(c)
<1>1. /\ c \in Conditional /\ r.conditionals = [s.conditionals EXCEPT ![i] = Closed(c)]
      /\ r.orders = Append(s.orders, o) /\ r.base = s.base /\ r.rwa = s.rwa /\ (r.ok => s.ok)
  BY ConditionalType DEF ConditionalRests, ConditionalEnded
<1>2. \A currency : /\ DueOn(r.conditionals, currency, Trader)
                         = DueOn(s.conditionals, currency, Trader) - Due(c, currency, Trader)
                    /\ DueOn(s.conditionals, currency, Trader) \in Int
                    /\ Due(c, currency, Trader) \in Int
                    /\ DueOn(s.orders, currency, Trader) \in Int
  BY <1>1, ConditionalChanged, ListsType
<1>3. s.orders \in Seq(Order) /\ o \in Order
        /\ \A currency : Due(o, currency, Trader) = Due(c, currency, Trader)
  BY <1>1, RestingType DEF Copy
<1>4. \A currency : DueOn(r.orders, currency, Trader)
                      = DueOn(s.orders, currency, Trader) + Due(c, currency, Trader)
  <2> SUFFICES ASSUME NEW currency
               PROVE  DueOn(r.orders, currency, Trader)
                        = DueOn(s.orders, currency, Trader) + Due(c, currency, Trader)
    OBVIOUS
  <2>1. \A v \in Order : Due(v, currency, Trader) \in Int
    BY DueType
  <2> HIDE DEF o, c
  <2> QED BY <1>1, <1>3, <2>1, DueOnAppend
<1> HIDE DEF c, o
<1>5. r.ok => BaseSlack(r) = BaseSlack(s) /\ RwaSlack(r) = RwaSlack(s)
  BY <1>1, <1>2, <1>4, MarketHolds DEF BaseSlack, RwaSlack
<1>8. r.ok => BaseSlack(r) <= BaseSlack(s)
  BY <1>1, <1>5, SlackType
<1> QED BY <1>1, <1>5, <1>8, ConditionalRestsFair DEF Keeps

\* A trade keeps what the market has to spare, and is fair to all but the taker.
LEMMA KeepsTraded ==
  ASSUME EnvTypes, NEW s \in Copy, NEW i \in DOMAIN s.orders, s.orders[i].is_active,
         NEW taker \in Trader, NEW x \in Nat, x <= Unfilled(s.orders[i]),
         NEW r \in Copy, TradedAs(s, r, taker, i, x)
  PROVE  Keeps(s, r, taker)
<1> DEFINE o == s.orders[i]
           f == FilledBy(o, x)
<1>1. /\ o \in Order /\ f \in Order /\ o.maker \in Trader
      /\ r.orders = [s.orders EXCEPT ![i] = f] /\ r.conditionals = s.conditionals
      /\ r.ok => s.ok /\ Settled(s, r, taker, o, x)
  BY OrderType, FilledByType, ActiveDue DEF TradedAs
<1>2. \A currency : /\ DueOn(r.orders, currency, Trader)
                         = DueOn(s.orders, currency, Trader) - Due(o, currency, Trader)
                             + Due(f, currency, Trader)
                    /\ DueOn(s.orders, currency, Trader) \in Int
                    /\ Due(o, currency, Trader) \in Int /\ Due(f, currency, Trader) \in Int
                    /\ DueOn(s.conditionals, currency, Trader) \in Int
  BY <1>1, OrderChanged, ListsType
<1>3. /\ o.side = "buy" => /\ Due(f, "base", Trader) = Due(o, "base", Trader) - x * o.price
                           /\ Due(f, "rwa", Trader) = Due(o, "rwa", Trader)
      /\ o.side # "buy" => /\ Due(f, "base", Trader) = Due(o, "base", Trader)
                           /\ Due(f, "rwa", Trader) = Due(o, "rwa", Trader) - x
  BY <1>1, FilledDue
<1>4. x * o.price \in Int
  BY <1>1 DEF Order
<1>5. FairToOthers(s, r, taker)
  BY TradedFair
<1> HIDE DEF o, f
<1>6. CASE o.side = "buy"
  <2>1. r.ok => /\ r.base[Market] <= s.base[Market] - x * o.price
                /\ ~Rebate => r.base[Market] = s.base[Market] - x * o.price
                /\ r.rwa[Market] = s.rwa[Market]
    BY <1>1, <1>6 DEF Settled
  <2>2. r.ok => RwaSlack(r) = RwaSlack(s)
    BY <1>1, <1>2, <1>3, <1>6, <2>1 DEF RwaSlack
  <2>3. r.ok => BaseSlack(r) <= BaseSlack(s)
    BY <1>1, <1>2, <1>3, <1>4, <1>6, <2>1, MarketHolds DEF BaseSlack
  <2>4. r.ok /\ ~Rebate => BaseSlack(r) = BaseSlack(s)
    BY <1>1, <1>2, <1>3, <1>4, <1>6, <2>1, MarketHolds DEF BaseSlack
  <2> QED BY <1>1, <1>5, <2>2, <2>3, <2>4 DEF Keeps
<1>7. CASE o.side # "buy"
  <2>1. r.ok => r.base[Market] = s.base[Market] /\ r.rwa[Market] = s.rwa[Market] - x
    BY <1>1, <1>7 DEF Settled
  <2>2. r.ok => BaseSlack(r) = BaseSlack(s) /\ RwaSlack(r) = RwaSlack(s)
    BY <1>1, <1>2, <1>3, <1>4, <1>7, <2>1, MarketHolds DEF BaseSlack, RwaSlack
  <2>3. r.ok => BaseSlack(r) <= BaseSlack(s)
    BY <1>1, <2>2, SlackType
  <2> QED BY <1>1, <1>5, <2>2, <2>3 DEF Keeps
<1> QED BY <1>6, <1>7

\* Changing an element of a list leaves its length.
LEMMA SameLength ==
  ASSUME NEW V, NEW list \in Seq(V), NEW i \in DOMAIN list, NEW v
  PROVE  DOMAIN [list EXCEPT ![i] = v] = DOMAIN list
OBVIOUS

\* Pruning expired orders keeps what must be kept, and the number of orders.
LEMMA PruneKeeps ==
  ASSUME EnvTypes, NEW s \in Copy, NEW u
  PROVE  Keeps(s, Prune(s), u) /\ DOMAIN Prune(s).orders = DOMAIN s.orders
<1> DEFINE W == {t \in Copy : Keeps(s, t, u) /\ DOMAIN t.orders = DOMAIN s.orders}
           n == Len(s.orders)
<1>1. n \in Nat /\ DOMAIN s.orders = 1..n
  <2>1. s.orders \in Seq(Order)
    BY DEF Copy
  <2> QED BY <2>1, LenProperties
<1>2. s \in W
  BY KeepsItself
<1>3. ASSUME NEW t \in W, NEW i \in 1..n
      PROVE  Expired(t, i) \in W
  <2> DEFINE r == Expired(t, i)
  <2>1. t \in Copy /\ i \in DOMAIN t.orders
    BY <1>1
  <2>2. CASE r = t
    BY <2>2
  <2>3. CASE t.orders[i].is_active /\ r \in Copy /\ OrderEnded(t, r, i)
    <3>1. Keeps(t, r, u)
      BY <2>1, <2>3, KeepsOrderEnded
    <3>2. DOMAIN r.orders = DOMAIN t.orders
      BY <2>3 DEF OrderEnded
    <3> QED BY <2>3, <3>1, <3>2, KeepsOn
  <2> QED BY <2>1, <2>2, <2>3, ExpiredFacts
<1>4. Prune(s) \in W
  <2> HIDE DEF W, n
  <2> QED BY <1>1, <1>2, <1>3, PruneWithin
<1> QED BY <1>4

\* Looking at the conditional orders keeps what must be kept.
LEMMA EvaluateKeeps ==
  ASSUME EnvTypes, NEW s \in Copy, NEW u
  PROVE  Keeps(s, EvaluateConditionals(s), u)
<1> DEFINE W == {t \in Copy : Keeps(s, t, u) /\ DOMAIN t.conditionals = DOMAIN s.conditionals}
           n == Len(s.conditionals)
<1>1. n \in Nat /\ DOMAIN s.conditionals = 1..n
  <2>1. s.conditionals \in Seq(Conditional)
    BY DEF Copy
  <2> QED BY <2>1, LenProperties
<1>2. s \in W
  BY KeepsItself
<1>3. ASSUME NEW t \in W, NEW i \in 1..n
      PROVE  Evaluated(t, i) \in W
  <2> DEFINE r == Evaluated(t, i)
  <2>1. t \in Copy /\ i \in DOMAIN t.conditionals
    BY <1>1
  <2>2. CASE r = t
    BY <2>2
  <2>3. CASE /\ t.conditionals[i].is_active /\ r \in Copy
             /\ ConditionalRefunded(t, r, i) \/ ConditionalRests(t, r, i)
    <3>1. Keeps(t, r, u)
      BY <2>1, <2>3, KeepsConditionalRefunded, KeepsConditionalRests
    <3>2. DOMAIN r.conditionals = DOMAIN t.conditionals
      BY <2>3 DEF ConditionalRefunded, ConditionalRests, ConditionalEnded
    <3> QED BY <2>3, <3>1, <3>2, KeepsOn
  <2> QED BY <2>1, <2>2, <2>3, EvaluatedFacts
<1>4. EvaluateConditionals(s) \in W
  <2> HIDE DEF W, n
  <2> QED BY <1>1, <1>2, <1>3, EvaluateWithin
<1> QED BY <1>4

\* A fill with the housekeeping behind it keeps what must be kept.
LEMMA SettleKeeps ==
  ASSUME EnvTypes, NEW s \in Copy, NEW i \in DOMAIN s.orders, s.orders[i].is_active,
         NEW taker \in Trader, taker # s.orders[i].maker,
         NEW x \in Nat, x <= Unfilled(s.orders[i])
  PROVE  Keeps(s, SettleFill(s, taker, i, x), taker)
<1> DEFINE r == Traded(s, taker, i, x)
<1>1. r \in Copy /\ TradedAs(s, r, taker, i, x)
  BY TradedFacts
<1> HIDE DEF r
<1>2. Keeps(s, r, taker)
  BY <1>1, KeepsTraded
<1>3. Keeps(r, EvaluateConditionals(r), taker)
  BY <1>1, EvaluateKeeps
<1>4. Keeps(s, EvaluateConditionals(r), taker)
  BY <1>2, <1>3, KeepsOn
<1> QED BY <1>4, FillThenEvaluate DEF r

\* The least of three numbers is one, and at most each of them.
LEMMA LeastOfThree ==
  ASSUME NEW a \in Nat, NEW b \in Nat, NEW c \in Nat
  PROVE  Min({a, b, c}) \in Nat /\ Min({a, b, c}) <= a /\ Min({a, b, c}) <= b
           /\ Min({a, b, c}) <= c
<1>1. \E x \in {a, b, c} : \A y \in {a, b, c} : x =< y
  OBVIOUS
<1>2. Min({a, b, c}) \in {a, b, c} /\ \A y \in {a, b, c} : Min({a, b, c}) =< y
  BY <1>1 DEF Min
<1> QED BY <1>2

\* A sweep under way never overshoots, so that each fill it makes is of some amount.
SweepState == [s : Copy, left : Nat, filled : Nat]

\* A round of a sweep ends it, or fills an order by no more than the order and the sweep
\* lack.
LEMMA SweptFacts ==
  ASSUME EnvTypes, NEW w \in SweepState, NEW taker \in Trader, NEW side, NEW limit,
         NEW slice \in Nat
  PROVE  \/ Swept(w, taker, side, limit, slice) = [w EXCEPT !.left = 0]
         \/ \E i \in DOMAIN w.s.orders, x \in Nat :
               /\ w.s.ok /\ w.s.orders[i].is_active /\ w.s.orders[i].maker # taker
               /\ x <= Unfilled(w.s.orders[i]) /\ x <= w.left
               /\ Swept(w, taker, side, limit, slice)
                    = [s |-> SettleFill(w.s, taker, i, x), left |-> w.left - x,
                       filled |-> w.filled + x]
<1> DEFINE within == {i \in DOMAIN w.s.orders :
                        /\ IsBest(w.s, Opposite(side), taker, i)
                        /\ ~BetterPrice(side, w.s.orders[i].price, limit)}
           i == CHOOSE j \in within : TRUE
           x == Min({Unfilled(w.s.orders[i]), slice, w.left})
<1>1. CASE ~w.s.ok \/ w.left = 0 \/ within = {}
  BY <1>1 DEF Swept
<1>2. CASE ~(~w.s.ok \/ w.left = 0 \/ within = {})
  <2>1. i \in within
    BY <1>2
  <2>2. i \in DOMAIN w.s.orders /\ i \in Matchable(w.s, Opposite(side), taker)
    <3> HIDE DEF i
    <3> QED BY <2>1 DEF IsBest
  <2> DEFINE o == w.s.orders[i]
  <2>3. o.is_active /\ o.maker # taker
    <3> HIDE DEF i
    <3> QED BY <2>2 DEF Matchable
  <2>4. Unfilled(o) \in Nat /\ w.left \in Nat
    <3>1. w.s \in Copy /\ w.left \in Nat
      BY DEF SweepState
    <3>2. o \in Order
      <4> HIDE DEF i
      <4> QED BY <3>1, <2>2, OrderType
    <3> HIDE DEF o
    <3> QED BY <3>1, <3>2 DEF Order, Unfilled
  <2>5. x \in Nat /\ x <= Unfilled(o) /\ x <= w.left
    <3> HIDE DEF i
    <3> QED BY <2>4, LeastOfThree
  <2>6. Swept(w, taker, side, limit, slice)
          = [s |-> SettleFill(w.s, taker, i, x), left |-> w.left - x, filled |-> w.filled + x]
    BY <1>2 DEF Swept
  <2> HIDE DEF i, x
  <2> QED BY <1>2, <2>2, <2>3, <2>5, <2>6
<1> QED BY <1>1, <1>2

\* A sweep, however many rounds it has, keeps what must be kept.
LEMMA SweepKeeps ==
  ASSUME EnvTypes, NEW s \in Copy, NEW taker \in Trader, NEW side, NEW amount \in Nat, NEW limit,
         NEW slice \in Nat, NEW n \in Nat
  PROVE  Keeps(s, Sweep(s, taker, side, amount, limit, slice, n), taker)
<1> DEFINE W == {w \in SweepState : Keeps(s, w.s, taker)}
           first == [s |-> s, left |-> amount, filled |-> 0]
<1>1. first \in W
  BY KeepsItself DEF SweepState
<1>2. ASSUME NEW w \in W
      PROVE  Swept(w, taker, side, limit, slice) \in W
  <2> DEFINE r == Swept(w, taker, side, limit, slice)
  <2>1. w \in SweepState /\ w.s \in Copy /\ w.left \in Nat /\ w.filled \in Nat /\ Keeps(s, w.s, taker)
    BY DEF SweepState
  <2>2. CASE r = [w EXCEPT !.left = 0]
    <3>1. [w EXCEPT !.left = 0] \in SweepState /\ [w EXCEPT !.left = 0].s = w.s
      BY <2>1 DEF SweepState
    <3> QED BY <2>1, <2>2, <3>1
  <2>3. ASSUME NEW i \in DOMAIN w.s.orders, NEW x \in Nat,
               w.s.orders[i].is_active, w.s.orders[i].maker # taker,
               x <= Unfilled(w.s.orders[i]), x <= w.left,
               r = [s |-> SettleFill(w.s, taker, i, x), left |-> w.left - x,
                    filled |-> w.filled + x]
        PROVE  r \in W
    <3>1. Keeps(w.s, SettleFill(w.s, taker, i, x), taker)
      BY <2>1, <2>3, SettleKeeps
    <3>2. Keeps(s, SettleFill(w.s, taker, i, x), taker) /\ SettleFill(w.s, taker, i, x) \in Copy
      BY <2>1, <3>1, KeepsOn DEF Keeps
    <3>3. w.left - x \in Nat /\ w.filled + x \in Nat
      BY <2>1, <2>3
    <3> HIDE DEF r
    <3> QED BY <2>3, <3>2, <3>3 DEF SweepState
  <2> HIDE DEF W, r
  <2> QED BY <2>1, <2>2, <2>3, SweptFacts DEF r
<1>3. PICK w \in W : Sweep(s, taker, side, amount, limit, slice, n) = Require(w.s, w.filled > 0)
  <2> HIDE DEF W
  <2> QED BY <1>1, <1>2, SweepWithin
<1>4. Keeps(s, w.s, taker) /\ w.s \in Copy
  BY DEF SweepState
<1>5. Keeps(w.s, Panic(w.s), taker)
  BY <1>4, KeepsPanic
<1>6. Keeps(s, Require(w.s, w.filled > 0), taker)
  BY <1>4, <1>5, KeepsOn DEF Require
<1> QED BY <1>3, <1>6

\* Every call that fills one order.
LEMMA FilledKeeps ==
  ASSUME EnvTypes, State \in Copy, NEW taker \in Trader, NEW i \in DOMAIN orders, NEW x \in Int
  PROVE  Keeps(State, Filled(taker, i, x), taker)
<1> DEFINE pruned == Prune(State)
           enforced == EnforceBreaker(pruned, 0)
<1>1. Keeps(State, pruned, taker) /\ DOMAIN pruned.orders = DOMAIN State.orders
  BY PruneKeeps
<1>2. pruned \in Copy /\ i \in DOMAIN pruned.orders
  BY <1>1 DEF Keeps, State
<1> HIDE DEF pruned
<1>3. CASE ~Fillable(pruned, taker, i, x)
  <2>1. Keeps(pruned, Panic(pruned), taker)
    BY <1>2, KeepsPanic
  <2> QED BY <1>1, <1>3, <2>1, KeepsOn DEF Filled, pruned
<1>4. CASE Fillable(pruned, taker, i, x)
  <2>1. enforced \in Copy /\ BreakerApart(pruned, enforced)
    BY <1>2, EnforceFacts
  <2> HIDE DEF enforced
  <2>2. Keeps(pruned, enforced, taker) /\ enforced.orders = pruned.orders
    BY <1>2, <2>1, KeepsApart DEF BreakerApart
  <2>3. pruned.orders[i] \in Order
    BY <1>2, OrderType
  <2>4. /\ pruned.orders[i].is_active /\ taker # pruned.orders[i].maker
        /\ x <= Unfilled(pruned.orders[i]) /\ x \in Nat
    BY <1>4, <2>3 DEF Fillable, Order, Unfilled
  <2>5. Keeps(enforced, SettleFill(enforced, taker, i, x), taker)
    BY <1>2, <2>1, <2>2, <2>4, SettleKeeps
  <2>6. Keeps(State, SettleFill(enforced, taker, i, x), taker)
    BY <1>1, <2>2, <2>5, KeepsOn
  <2> QED BY <1>4, <2>6 DEF Filled, pruned, enforced
<1> QED BY <1>3, <1>4

-----------------------------------------------------------------------------
(* The calls.                                                              *)

\* The inductive invariant of the types: what the calls start from is a copy.
Types == State \in Copy /\ EnvTypes

\* What a call commits is the next state, and its environment stays.
LEMMA CommitFacts ==
  ASSUME NEW r \in Copy, Commit(r)
  PROVE  State' = r /\ r.ok /\ UNCHANGED envVars
<1>1. r = [orders |-> r.orders, conditionals |-> r.conditionals, live |-> r.live,
           base |-> r.base, rwa |-> r.rwa, last_price |-> r.last_price, vwap |-> r.vwap,
           breaker |-> r.breaker, ok |-> r.ok]
  BY DEF Copy
<1>2. r.ok = TRUE
  BY DEF Commit, Copy
<1> QED BY <1>1, <1>2 DEF Commit, State

\* An environment that stays keeps its types.
LEMMA EnvUnchanged ==
  ASSUME EnvTypes, UNCHANGED envVars
  PROVE  EnvTypes'
BY DEF EnvTypes, envVars

\* A step that only changes what surrounds the book.
LEMMA BookUnchanged ==
  ASSUME State \in Copy, UNCHANGED bookVars
  PROVE  State' = State
BY DEF State, bookVars

\* An order that comes with the escrow for all of it.
LEMMA EscrowDue ==
  ASSUME NEW s \in Copy, NEW r \in Copy, NEW o \in Order \union Conditional, o.is_active,
         o.filled = 0, Escrowed(s, r, o)
  PROVE  /\ r.base[Market] = s.base[Market] + Due(o, "base", Trader)
         /\ r.rwa[Market] = s.rwa[Market] + Due(o, "rwa", Trader)
<1>1. Unfilled(o) = o.amount
  BY DEF Unfilled, Order, Conditional
<1> QED BY <1>1, ActiveDue, Accounts, MarketHolds DEF Escrowed, Moved

\* Placing an order keeps what must be kept.
LEMMA KeepsPlaced ==
  ASSUME EnvTypes, NEW s \in Copy, NEW o \in Order, o.is_active, o.filled = 0, NEW r \in Copy,
         r.orders = Append(s.orders, o), r.conditionals = s.conditionals,
         r.ok => s.ok /\ Escrowed(s, r, o), NEW u
  PROVE  Keeps(s, r, u)
<1>1. s.orders \in Seq(Order)
  BY DEF Copy
<1>2. \A currency : /\ DueOn(r.orders, currency, Trader)
                         = DueOn(s.orders, currency, Trader) + Due(o, currency, Trader)
                    /\ DueOn(s.orders, currency, Trader) \in Int
                    /\ DueOn(s.conditionals, currency, Trader) \in Int
                    /\ Due(o, currency, Trader) \in Int
  <2> SUFFICES ASSUME NEW currency
               PROVE  /\ DueOn(r.orders, currency, Trader)
                           = DueOn(s.orders, currency, Trader) + Due(o, currency, Trader)
                      /\ DueOn(s.orders, currency, Trader) \in Int
                      /\ DueOn(s.conditionals, currency, Trader) \in Int
                      /\ Due(o, currency, Trader) \in Int
    OBVIOUS
  <2>1. \A v \in Order : Due(v, currency, Trader) \in Int
    BY DueType
  <2> QED BY <1>1, <2>1, DueOnAppend, ListsType
<1>3. r.ok => /\ r.base[Market] = s.base[Market] + Due(o, "base", Trader)
              /\ r.rwa[Market] = s.rwa[Market] + Due(o, "rwa", Trader)
  BY EscrowDue
<1>4. r.ok => BaseSlack(r) = BaseSlack(s)
  <2>1. s.base[Market] \in Int
    BY MarketHolds
  <2> QED BY <1>2, <1>3, <2>1 DEF BaseSlack
<1>5. r.ok => RwaSlack(r) = RwaSlack(s)
  <2>1. s.rwa[Market] \in Int
    BY MarketHolds
  <2> QED BY <1>2, <1>3, <2>1 DEF RwaSlack
<1>6. r.ok => BaseSlack(r) <= BaseSlack(s)
  BY <1>4, SlackType
<1> QED BY <1>4, <1>5, <1>6, PlacedFair DEF Keeps

\* Placing a conditional order keeps what must be kept.
LEMMA KeepsConditionalPlaced ==
  ASSUME EnvTypes, NEW s \in Copy, NEW c \in Conditional, c.is_active, NEW r \in Copy,
         r.conditionals = Append(s.conditionals, c), r.orders = s.orders,
         r.ok => s.ok /\ Escrowed(s, r, c), NEW u
  PROVE  Keeps(s, r, u)
<1>1. s.conditionals \in Seq(Conditional) /\ c.filled = 0
  BY DEF Copy, Conditional
<1>2. \A currency : /\ DueOn(r.conditionals, currency, Trader)
                         = DueOn(s.conditionals, currency, Trader) + Due(c, currency, Trader)
                    /\ DueOn(s.orders, currency, Trader) \in Int
                    /\ DueOn(s.conditionals, currency, Trader) \in Int
                    /\ Due(c, currency, Trader) \in Int
  <2> SUFFICES ASSUME NEW currency
               PROVE  /\ DueOn(r.conditionals, currency, Trader)
                           = DueOn(s.conditionals, currency, Trader) + Due(c, currency, Trader)
                      /\ DueOn(s.orders, currency, Trader) \in Int
                      /\ DueOn(s.conditionals, currency, Trader) \in Int
                      /\ Due(c, currency, Trader) \in Int
    OBVIOUS
  <2>1. \A v \in Conditional : Due(v, currency, Trader) \in Int
    BY DueType
  <2> QED BY <1>1, <2>1, DueOnAppend, ListsType
<1>3. r.ok => /\ r.base[Market] = s.base[Market] + Due(c, "base", Trader)
              /\ r.rwa[Market] = s.rwa[Market] + Due(c, "rwa", Trader)
  BY <1>1, EscrowDue
<1>4. r.ok => BaseSlack(r) = BaseSlack(s)
  BY <1>2, <1>3, MarketHolds DEF BaseSlack
<1>5. r.ok => RwaSlack(r) = RwaSlack(s)
  BY <1>2, <1>3, MarketHolds DEF RwaSlack
<1>6. r.ok => BaseSlack(r) <= BaseSlack(s)
  BY <1>4, SlackType
<1> QED BY <1>4, <1>5, <1>6, ConditionalPlacedFair DEF Keeps

\* What every call, in which at most u takes, does to the copy it starts from and to what
\* surrounds the book.
CallKeeps(u) == Keeps(State, State', u) /\ UNCHANGED envVars

\* A call whose copy keeps what must be kept does so when it is committed.
LEMMA CommitKeeps ==
  ASSUME NEW r, NEW u, Keeps(State, r, u), Commit(r)
  PROVE  CallKeeps(u)
BY CommitFacts DEF Keeps, CallKeeps

\* The order that a call places.
LEMMA PlacedType ==
  ASSUME EnvTypes, NEW t \in Trader, NEW side \in Sides, NEW p \in Prices, NEW x \in Amounts,
         NEW d \in Lifetimes, NEW m \in MinFills, PlaceOrder(t, side, p, x, d, m)
  PROVE  [maker |-> t, side |-> side, price |-> p, amount |-> x, filled |-> 0,
          min_fill |-> m, expires_at |-> now + d, is_active |-> TRUE] \in Order
<1>1. p \in Nat /\ x \in Nat \ {0} /\ m \in Nat /\ now + d \in Nat /\ side \in {"buy", "sell"}
  <2>1. p \in Int /\ x \in Int /\ m \in Int /\ d \in Nat /\ now \in Nat /\ side \in {"buy", "sell"}
    BY MarketAssumption, Numbers DEF EnvTypes
  <2>2. x >= MinOrderSize /\ p > 0 /\ m \in 0..x
    BY DEF PlaceOrder
  <2> QED BY <2>1, <2>2, Numbers
<1> QED BY <1>1, Accounts DEF Order

\* place_order keeps what must be kept.
LEMMA PlaceOrderKeeps ==
  ASSUME Types, NEW t \in Trader, NEW side \in Sides, NEW p \in Prices, NEW x \in Amounts,
         NEW d \in Lifetimes, NEW m \in MinFills, PlaceOrder(t, side, p, x, d, m)
  PROVE  CallKeeps(Market)
<1> DEFINE o == [maker |-> t, side |-> side, price |-> p, amount |-> x, filled |-> 0,
                 min_fill |-> m, expires_at |-> now + d, is_active |-> TRUE]
           enforced == EnforceBreaker(State, p)
           escrowed == Escrow(enforced, o)
           q == Append(escrowed.orders, o)
           r == [escrowed EXCEPT !.orders = q]
<1>1. State \in Copy /\ EnvTypes
  BY DEF Types
<1>3. o \in Order /\ o.is_active /\ o.filled = 0 /\ o.maker \in Trader
  BY <1>1, PlacedType
<1>4. enforced \in Copy /\ BreakerApart(State, enforced) /\ Keeps(State, enforced, Market)
  <2>1. enforced \in Copy /\ BreakerApart(State, enforced)
    BY <1>1, EnforceFacts
  <2> HIDE DEF enforced
  <2> QED BY <1>1, <2>1, KeepsApart
<1>5. /\ escrowed \in Copy /\ BalancesApart(enforced, escrowed)
      /\ escrowed.ok => enforced.ok /\ Escrowed(enforced, escrowed, o)
  <2> HIDE DEF enforced, o
  <2> QED BY <1>3, <1>4, EscrowFacts
<1>6. q \in Seq(Order)
  <2>1. escrowed.orders \in Seq(Order)
    <3> HIDE DEF escrowed
    <3> QED BY <1>5 DEF Copy
  <2> HIDE DEF escrowed, o
  <2> QED BY <1>3, <2>1, AppendProperties
<1>7. /\ r \in Copy /\ r.orders = q /\ r.conditionals = escrowed.conditionals
      /\ r.base = escrowed.base /\ r.rwa = escrowed.rwa /\ r.ok = escrowed.ok
  <2> HIDE DEF escrowed, q
  <2> QED BY <1>5, <1>6, CopyOrders
<1>8. Keeps(enforced, r, Market)
  <2>1. q = Append(enforced.orders, o) /\ escrowed.conditionals = enforced.conditionals
    BY <1>5 DEF BalancesApart
  <2> HIDE DEF r, q, escrowed, enforced, o
  <2>2. r.ok => enforced.ok /\ Escrowed(enforced, r, o)
    BY <1>5, <1>7 DEF Escrowed
  <2> QED BY <1>1, <1>3, <1>4, <1>7, <2>1, <2>2, KeepsPlaced
<1>9. Commit(Prune(r))
  BY DEF PlaceOrder
<1> HIDE DEF r, enforced
<1>10. Keeps(r, Prune(r), Market)
  BY <1>1, <1>7, PruneKeeps
<1>11. Keeps(State, Prune(r), Market)
  BY <1>1, <1>4, <1>8, <1>10, KeepsOn
<1> QED BY <1>9, <1>11, CommitKeeps

\* place_conditional_order keeps what must be kept.
LEMMA PlaceConditionalKeeps ==
  ASSUME Types, NEW t \in Trader, NEW side \in Sides, NEW p \in Prices, NEW x \in Amounts,
         NEW condition \in Conditions, NEW d \in Lifetimes,
         PlaceConditionalOrder(t, side, p, x, condition, d)
  PROVE  CallKeeps(Market)
<1> DEFINE c == [maker |-> t, side |-> side, price |-> p, amount |-> x, filled |-> 0,
                 condition |-> condition, expires_at |-> now + d, is_active |-> TRUE]
           escrowed == Escrow(State, c)
           q == Append(escrowed.conditionals, c)
           l == [escrowed.live EXCEPT ![t] = @ + 1]
           r == [escrowed EXCEPT !.conditionals = q, !.live = l]
<1>1. State \in Copy /\ EnvTypes
  BY DEF Types
<1>2. p \in Nat /\ x \in Nat \ {0} /\ now + d \in Nat /\ side \in {"buy", "sell"}
        /\ condition \in {"StopLoss", "TakeProfit"} \X Int
  <2>1. p \in Int /\ x \in Int /\ d \in Nat /\ now \in Nat /\ side \in {"buy", "sell"}
          /\ condition \in {"StopLoss", "TakeProfit"} \X Int
    BY <1>1, MarketAssumption, Numbers DEF EnvTypes
  <2>2. x >= MinOrderSize /\ p > 0
    BY DEF PlaceConditionalOrder
  <2> QED BY <2>1, <2>2, Numbers
<1>3. c \in Conditional /\ c.is_active /\ c.maker \in Trader
  BY <1>2 DEF Conditional
<1>4. /\ escrowed \in Copy /\ BalancesApart(State, escrowed)
      /\ escrowed.ok => State.ok /\ Escrowed(State, escrowed, c)
  <2> HIDE DEF c
  <2> QED BY <1>1, <1>3, EscrowFacts
<1>5. /\ escrowed.conditionals \in Seq(Conditional) /\ escrowed.live \in [Trader -> 0..MaxConditional]
      /\ escrowed.live = live /\ escrowed.conditionals = State.conditionals
  <2> HIDE DEF escrowed
  <2> QED BY <1>4 DEF Copy, BalancesApart, State
<1>6. q \in Seq(Conditional) /\ q = Append(State.conditionals, c)
  <2> HIDE DEF escrowed, c
  <2> QED BY <1>3, <1>5, AppendProperties
<1>7. l \in [Trader -> 0..MaxConditional]
  <2>1. live[t] < MaxConditional
    BY DEF PlaceConditionalOrder
  <2> HIDE DEF escrowed
  <2> QED BY <1>5, <2>1, Numbers
<1>8. /\ r \in Copy /\ r.conditionals = q /\ r.orders = escrowed.orders
      /\ r.base = escrowed.base /\ r.rwa = escrowed.rwa /\ r.ok = escrowed.ok
  <2> HIDE DEF escrowed, q, l
  <2> QED BY <1>4, <1>6, <1>7 DEF Copy
<1>9. Keeps(State, r, Market)
  <2>1. escrowed.orders = State.orders
    BY <1>4 DEF BalancesApart
  <2> HIDE DEF r, q, escrowed, c
  <2>2. r.ok => State.ok /\ Escrowed(State, r, c)
    BY <1>4, <1>8 DEF Escrowed
  <2> QED BY <1>1, <1>3, <1>6, <1>8, <2>1, <2>2, KeepsConditionalPlaced
<1>10. Commit(r)
  BY DEF PlaceConditionalOrder
<1> HIDE DEF r
<1> QED BY <1>9, <1>10, CommitKeeps

\* fill_order keeps what must be kept, the taker's trade aside.
LEMMA FillKeeps ==
  ASSUME Types, NEW t \in Trader, NEW i \in DOMAIN orders, NEW x \in Int,
         Commit(Filled(t, i, x))
  PROVE  CallKeeps(t)
BY FilledKeeps, CommitKeeps DEF Types

\* Every call of a taker keeps what must be kept, the taker's trade aside.
LEMMA TakeKeeps ==
  ASSUME Types, NEW t \in Trader, Take(t)
  PROVE  CallKeeps(t)
<1>1. State \in Copy /\ EnvTypes /\ orders \in Seq(Order)
  BY DEF Types, Copy, State
<1>2. ASSUME NEW i \in DOMAIN orders, NEW x \in Amounts, FillOrder(t, i, x)
      PROVE  CallKeeps(t)
  BY <1>2, FillKeeps, MarketAssumption DEF FillOrder
<1>3. ASSUME NEW side \in Sides, MatchBestOrder(t, side)
      PROVE  CallKeeps(t)
  <2>1. PICK i \in DOMAIN orders : Commit(Filled(t, i, Unfilled(orders[i])))
    BY <1>3 DEF MatchBestOrder
  <2>2. Unfilled(orders[i]) \in Int
    <3>1. orders[i] \in Order
      BY <1>1, LenProperties, ElementOfSeq
    <3> QED BY <3>1 DEF Unfilled, Order
  <2> QED BY <2>1, <2>2, FillKeeps
<1>4. ASSUME NEW side, NEW amount \in Int, NEW limit, NEW slice \in Int, NEW n \in Nat,
             SweepBook(t, side, amount, limit, slice, n)
      PROVE  CallKeeps(t)
  <2> DEFINE enforced == EnforceBreaker(State, 0)
             swept == Sweep(enforced, t, side, amount, limit, slice, n)
  <2>1. amount \in Nat /\ slice \in Nat
    BY <1>4, Numbers DEF SweepBook
  <2>2. enforced \in Copy /\ Keeps(State, enforced, t)
    <3>1. enforced \in Copy /\ BreakerApart(State, enforced)
      BY <1>1, EnforceFacts
    <3> HIDE DEF enforced
    <3> QED BY <1>1, <3>1, KeepsApart
  <2>3. Keeps(enforced, swept, t)
    <3> HIDE DEF enforced
    <3> QED BY <1>1, <2>1, <2>2, SweepKeeps
  <2>4. Keeps(swept, EvaluateConditionals(swept), t)
    <3> HIDE DEF swept
    <3> QED BY <1>1, <2>3, EvaluateKeeps DEF Keeps
  <2>5. Commit(EvaluateConditionals(swept))
    BY <1>4 DEF SweepBook
  <2> HIDE DEF enforced, swept
  <2> QED BY <1>1, <2>2, <2>3, <2>4, <2>5, KeepsOn, CommitKeeps
<1>5. ASSUME NEW side \in Sides, NEW x \in Amounts, NEW p \in Prices,
             PlaceMarketOrder(t, side, x, p)
      PROVE  CallKeeps(t)
  BY <1>4, <1>5, MarketAssumption DEF PlaceMarketOrder
<1>6. ASSUME NEW side \in Sides, NEW x \in Amounts, NEW n \in Slices, NEW p \in Prices,
             PlaceTwapOrder(t, side, x, n, p)
      PROVE  CallKeeps(t)
  <2>1. x \in Int /\ n \in Nat /\ n > 0
    BY <1>6, MarketAssumption DEF PlaceTwapOrder
  <2>2. x \div n \in Int
    BY <2>1
  <2> QED BY <1>4, <1>6, <2>1, <2>2 DEF PlaceTwapOrder
<1> QED BY <1>2, <1>3, <1>5, <1>6 DEF Take

\* Every cancellation keeps what must be kept.
LEMMA CancelKeeps ==
  ASSUME Types, NEW t \in Trader, Cancel(t)
  PROVE  CallKeeps(Market)
<1>1. State \in Copy /\ EnvTypes
  BY DEF Types
<1>2. ASSUME NEW i \in DOMAIN orders, CancelOrder(t, i)
      PROVE  CallKeeps(Market)
  <2> DEFINE r == [Refund(State, State.orders[i]) EXCEPT !.orders[i].is_active = FALSE]
  <2>1. State.orders = orders
    BY DEF State
  <2>2. i \in DOMAIN State.orders /\ State.orders[i].is_active /\ Commit(r)
    BY <1>2, <2>1 DEF CancelOrder
  <2>3. r \in Copy /\ OrderEnded(State, r, i)
    BY <1>1, <2>2, EndOrder
  <2> HIDE DEF r
  <2> QED BY <1>1, <2>2, <2>3, KeepsOrderEnded, CommitKeeps
<1>3. ASSUME NEW i \in DOMAIN conditionals, CancelConditionalOrder(t, i)
      PROVE  CallKeeps(Market)
  <2> DEFINE r == Retired(Refund(State, State.conditionals[i]), i)
  <2>1. State.conditionals = conditionals
    BY DEF State
  <2>2. i \in DOMAIN State.conditionals /\ State.conditionals[i].is_active /\ Commit(r)
    BY <1>3, <2>1 DEF CancelConditionalOrder
  <2>3. r \in Copy /\ ConditionalRefunded(State, r, i)
    BY <1>1, <2>2, EndConditional
  <2> HIDE DEF r
  <2> QED BY <1>1, <2>2, <2>3, KeepsConditionalRefunded, CommitKeeps
<1> QED BY <1>2, <1>3 DEF Cancel

\* Every placing of an order keeps what must be kept.
LEMMA PlaceKeeps ==
  ASSUME Types, NEW t \in Trader, Place(t)
  PROVE  CallKeeps(Market)
BY PlaceOrderKeeps, PlaceConditionalKeeps DEF Place

\* The two calls that anyone may make keep what must be kept.
LEMMA HousekeepingKeeps ==
  ASSUME Types, PruneExpiredOrders \/ EvaluateConditionalOrders
  PROVE  CallKeeps(Market)
<1>1. State \in Copy /\ EnvTypes
  BY DEF Types
<1>2. CASE PruneExpiredOrders
  BY <1>1, <1>2, PruneKeeps, CommitKeeps DEF PruneExpiredOrders
<1>3. CASE EvaluateConditionalOrders
  BY <1>1, <1>3, EvaluateKeeps, CommitKeeps DEF EvaluateConditionalOrders
<1> QED BY <1>2, <1>3

\* The administrators reset the breaker or change what surrounds the book.
LEMMA AdministerKeeps ==
  ASSUME Types, Administer
  PROVE  Keeps(State, State', Market) /\ EnvTypes'
<1>1. State \in Copy /\ EnvTypes
  BY DEF Types
<1>2. CASE ForceResetBreaker
  <2>1. State' = [orders |-> orders, conditionals |-> conditionals, live |-> live, base |-> base,
                  rwa |-> rwa, last_price |-> last_price, vwap |-> vwap,
                  breaker |-> Untripped, ok |-> TRUE]
    BY <1>2 DEF ForceResetBreaker, State
  <2>2. Untripped \in BreakerState
    BY DEF Untripped, BreakerState
  <2>3. State' \in Copy /\ BreakerApart(State, State')
    BY <1>1, <2>1, <2>2 DEF Copy, State, BreakerApart
  <2>4. UNCHANGED envVars
    BY <1>2 DEF ForceResetBreaker
  <2> QED BY <1>1, <2>3, <2>4, KeepsApart, EnvUnchanged
<1>3. ASSUME NEW c \in Configs, UpdateConfig(c)
      PROVE  UNCHANGED bookVars /\ EnvTypes'
  BY <1>1, <1>3 DEF UpdateConfig, EnvTypes
<1>4. ASSUME NEW tier \in Tiers, SetFeeTiers(tier)
      PROVE  UNCHANGED bookVars /\ EnvTypes'
  <2>1. <<tier>> \in Seq(Tiers)
    OBVIOUS
  <2> QED BY <1>1, <1>4, <2>1 DEF SetFeeTiers, EnvTypes
<1>5. ASSUME NEW c \in Breakers, SetBreakerConfig(c)
      PROVE  UNCHANGED bookVars /\ EnvTypes'
  <2>1. <<c>> \in Seq(Breakers)
    OBVIOUS
  <2> QED BY <1>1, <1>5, <2>1 DEF SetBreakerConfig, EnvTypes
<1>6. ASSUME UNCHANGED bookVars
      PROVE  Keeps(State, State', Market)
  BY <1>1, <1>6, BookUnchanged, KeepsItself
<1> QED BY <1>2, <1>3, <1>4, <1>5, <1>6 DEF Administer

\* The archive takes an order, or what surrounds the book changes.
LEMMA EnvironmentKeeps ==
  ASSUME Types, Environment
  PROVE  EnvTypes' /\ (Keeps(State, State', Market) \/ \E i \in Evictable \intersect DOMAIN orders : Evict(i))
<1>1. State \in Copy /\ EnvTypes
  BY DEF Types
<1>2. now \in Nat
  BY <1>1, Numbers DEF EnvTypes
<1>3. ASSUME NEW p \in OraclePrices, SetOraclePrice(p)
      PROVE  UNCHANGED bookVars /\ EnvTypes'
  <2>1. <<[price |-> p, timestamp |-> now]>> \in Seq([price : OraclePrices, timestamp : Nat])
    BY <1>2
  <2> QED BY <1>1, <1>3, <2>1 DEF SetOraclePrice, EnvTypes
<1>4. ASSUME RemoveOracle
      PROVE  UNCHANGED bookVars /\ EnvTypes'
  <2>1. <<>> \in Seq([price : OraclePrices, timestamp : Nat])
    OBVIOUS
  <2> QED BY <1>1, <1>4, <2>1 DEF RemoveOracle, EnvTypes
<1>5. ASSUME NEW a \in Reviewed, NEW s \in Standings, StandingChange(a, s)
      PROVE  UNCHANGED bookVars /\ EnvTypes'
  <2>1. s \in {"unverified", "verified", "cleared"}
    BY MarketAssumption
  <2>2. [standing EXCEPT ![a] = s] \in [Account -> {"unverified", "verified", "cleared"}]
    BY <1>1, <2>1 DEF EnvTypes
  <2> QED BY <1>1, <1>5, <2>2 DEF StandingChange, EnvTypes
<1>6. ASSUME NEW i \in DOMAIN orders, Evict(i)
      PROVE  EnvTypes'
  BY <1>1, <1>6, EnvUnchanged DEF Evict
<1>7. ASSUME Tick
      PROVE  UNCHANGED bookVars /\ EnvTypes'
  <2>1. now + 1 \in 0..MaxTime
    BY <1>1, <1>2, <1>7, Numbers DEF Tick, EnvTypes
  <2> QED BY <1>1, <1>7, <2>1 DEF Tick, EnvTypes
<1>8. ASSUME UNCHANGED bookVars
      PROVE  Keeps(State, State', Market)
  BY <1>1, <1>8, BookUnchanged, KeepsItself
<1> QED BY <1>3, <1>4, <1>5, <1>6, <1>7, <1>8 DEF Environment

\* What is due on an order is no longer due, to anybody, once its record is archived.
LEMMA ArchivedDue ==
  ASSUME NEW s \in Copy, NEW i \in DOMAIN s.orders, NEW r,
         r.orders = [s.orders EXCEPT ![i] = Archived], r.conditionals = s.conditionals,
         NEW currency, NEW makers
  PROVE  /\ DueOn(r.orders, currency, makers) + DueOn(r.conditionals, currency, makers)
              = (DueOn(s.orders, currency, makers) + DueOn(s.conditionals, currency, makers))
                  - Due(s.orders[i], currency, makers)
         /\ DueOn(s.orders, currency, makers) + DueOn(s.conditionals, currency, makers) \in Int
         /\ Due(s.orders[i], currency, makers) \in Nat
<1>1. Due(Archived, currency, makers) = 0
  BY DEF Due, Archived
<1>2. Archived \in Order
  BY Accounts DEF Archived, Order
<1>3. /\ DueOn(r.orders, currency, makers)
           = DueOn(s.orders, currency, makers) - Due(s.orders[i], currency, makers) + 0
      /\ DueOn(s.orders, currency, makers) \in Int
  BY <1>1, <1>2, OrderChanged
<1>4. Due(s.orders[i], currency, makers) \in Nat
  BY OrderType, DueType
<1>5. DueOn(s.conditionals, currency, makers) \in Int
  BY ListsType
<1> QED BY <1>3, <1>4, <1>5

\* The archiving of a record leaves the market what was due on it, and costs its maker
\* that.
LEMMA EvictFacts ==
  ASSUME Types, NEW i \in DOMAIN orders, Evict(i)
  PROVE  /\ State' \in Copy
         /\ BaseSlack(State') = BaseSlack(State) + Due(orders[i], "base", Trader)
         /\ RwaSlack(State') = RwaSlack(State) + Due(orders[i], "rwa", Trader)
         /\ Due(orders[i], "base", Trader) \in Nat /\ Due(orders[i], "rwa", Trader) \in Nat
         /\ \A t \in Trader :
              /\ Money(State', t) - Money(State, t) = 0 - Due(orders[i], "base", {t})
              /\ Tokens(State', t) - Tokens(State, t) = 0 - Due(orders[i], "rwa", {t})
<1> DEFINE q == [orders EXCEPT ![i] = Archived]
<1>1. State \in Copy /\ State.orders = orders
  BY DEF Types, State
<1>2. q \in Seq(Order)
  <2>1. Archived \in Order
    BY Accounts DEF Archived, Order
  <2> QED BY <1>1, <2>1, OrderType, ExceptSeq
<1>3. State' = [orders |-> q, conditionals |-> conditionals, live |-> live, base |-> base,
                rwa |-> rwa, last_price |-> last_price, vwap |-> vwap, breaker |-> breaker,
                ok |-> TRUE]
  BY DEF Evict, State
<1> DEFINE r == State'
<1>4. /\ r \in Copy /\ r.orders = q /\ r.conditionals = State.conditionals
      /\ r.base = State.base /\ r.rwa = State.rwa
  <2> HIDE DEF q
  <2> QED BY <1>1, <1>2, <1>3 DEF State, Copy
<1> DEFINE s == State
<1>5. /\ s \in Copy /\ i \in DOMAIN s.orders /\ s.orders[i] = orders[i]
      /\ r.orders = [s.orders EXCEPT ![i] = Archived]
  BY <1>1, <1>4
<1>6. r.conditionals = s.conditionals /\ r.base = s.base /\ r.rwa = s.rwa
  BY <1>4
<1> HIDE DEF r, s, q
<1>7. ASSUME NEW currency, NEW makers
      PROVE  /\ DueOn(r.orders, currency, makers) + DueOn(r.conditionals, currency, makers)
                  = (DueOn(s.orders, currency, makers) + DueOn(s.conditionals, currency, makers))
                      - Due(orders[i], currency, makers)
             /\ DueOn(s.orders, currency, makers) + DueOn(s.conditionals, currency, makers) \in Int
             /\ Due(orders[i], currency, makers) \in Nat
  BY <1>5, <1>6, ArchivedDue
<1>8. /\ BaseSlack(r) = BaseSlack(s) + Due(orders[i], "base", Trader)
      /\ RwaSlack(r) = RwaSlack(s) + Due(orders[i], "rwa", Trader)
  <2>1. s.base[Market] \in Nat /\ s.rwa[Market] \in Nat
    BY <1>5, MarketHolds
  <2> QED BY <1>6, <1>7, <2>1 DEF BaseSlack, RwaSlack
<1>9. ASSUME NEW t \in Trader
      PROVE  /\ Money(r, t) - Money(s, t) = 0 - Due(orders[i], "base", {t})
             /\ Tokens(r, t) - Tokens(s, t) = 0 - Due(orders[i], "rwa", {t})
  <2>1. s.base[t] \in Nat /\ s.rwa[t] \in Nat
    BY <1>5, WealthType
  <2> QED BY <1>6, <1>7, <2>1 DEF Money, Tokens
<1> QED BY <1>4, <1>7, <1>8, <1>9 DEF r, s

\* Every step keeps the types, and either keeps what the market holds for its orders,
\* fair to all who do not take, or archives one of them.
LEMMA NextKeeps ==
  ASSUME Types, Next
  PROVE  /\ Types'
         /\ \/ \E u \in Account : Keeps(State, State', u) /\ (u \in Trader => Take(u))
            \/ \E i \in Evictable \intersect DOMAIN orders : Evict(i)
<1>1. EnvTypes
  BY DEF Types
<1>2. Market \in Account /\ Market \notin Trader /\ Trader \subseteq Account
  BY Accounts
<1>3. ASSUME NEW u, CallKeeps(u)
      PROVE  Keeps(State, State', u) /\ Types'
  BY <1>1, <1>3, EnvUnchanged DEF CallKeeps, Keeps, Types
<1>4. ASSUME NEW t \in Trader, Take(t)
      PROVE  t \in Account /\ Keeps(State, State', t) /\ Types'
  BY <1>2, <1>3, <1>4, TakeKeeps
<1>5. CASE CallKeeps(Market)
  BY <1>2, <1>3, <1>5
<1>6. CASE Administer
  BY <1>2, <1>6, AdministerKeeps DEF Keeps, Types
<1>7. CASE Environment
  BY <1>2, <1>7, EnvironmentKeeps, EvictFacts DEF Keeps, Types
<1> QED BY <1>4, <1>5, <1>6, <1>7, PlaceKeeps, CancelKeeps, HousekeepingKeeps DEF Next

\* In the beginning the types hold and the market has and owes nothing.
LEMMA InitFacts ==
  ASSUME Init
  PROVE  Types /\ BaseSlack(State) = 0 /\ RwaSlack(State) = 0
<1>1. \A t \in Trader : Deposit[t].base \in Nat /\ Deposit[t].rwa \in Nat
  BY MarketAssumption
<1>2. base \in [Account -> Nat] /\ rwa \in [Account -> Nat]
  BY <1>1 DEF Init
<1>3. base[Market] = 0 /\ rwa[Market] = 0
  BY Accounts DEF Init
<1>4. live \in [Trader -> 0..MaxConditional] /\ breaker \in BreakerState
  BY Numbers DEF Init, Untripped, BreakerState
<1>5. orders \in Seq(Order) /\ conditionals \in Seq(Conditional)
  BY DEF Init
<1>6. last_price \in Nat /\ vwap \in Nat \X Nat
  BY DEF Init
<1>7. State \in Copy
  BY <1>2, <1>4, <1>5, <1>6 DEF State, Copy
<1>8. EnvTypes
  BY Numbers DEF Init, EnvTypes
<1>9. \A currency : DueOn(<<>>, currency, Trader) = 0
  BY SumEmpty DEF DueOn
<1>10. orders = <<>> /\ conditionals = <<>>
  BY DEF Init
<1> QED BY <1>3, <1>7, <1>8, <1>9, <1>10 DEF Types, BaseSlack, RwaSlack, State

\* The types of the state, and that no order is filled beyond its amount.
THEOREM MarketTypes == Spec => []TypeOK
<1>1. Init => Types
  BY InitFacts
<1>2. Types /\ [Next]_vars => Types'
  <2>1. Types /\ UNCHANGED vars => Types'
    BY DEF Types, State, vars, bookVars, envVars, EnvTypes
  <2> QED BY <2>1, NextKeeps
<1>3. Types => TypeOK
  <2> SUFFICES ASSUME Types PROVE TypeOK
    OBVIOUS
  <2>1. State \in Copy /\ EnvTypes
    BY DEF Types
  <2>2. ASSUME NEW i \in DOMAIN orders
        PROVE  /\ orders[i].filled \in 0..orders[i].amount
               /\ orders[i].is_active => orders[i].filled < orders[i].amount
    <3>1. orders[i] \in Order
      BY <2>1, OrderType DEF State
    <3> QED BY <3>1 DEF Order
  <2>3. /\ live \in [Trader -> 0..MaxConditional]
        /\ base \in [Account -> Nat] /\ rwa \in [Account -> Nat]
        /\ last_price \in Nat /\ vwap \in Nat \X Nat /\ breaker \in BreakerState
    BY <2>1 DEF State, Copy
  <2> QED BY <2>1, <2>2, <2>3 DEF TypeOK, EnvTypes, BreakerState
<1> QED BY <1>1, <1>2, <1>3, PTL DEF Spec

\* What the market has to spare is what it holds beyond what it owes the traders.
LEMMA SlackIsSurplus ==
  ASSUME State \in Copy
  PROVE  /\ BaseSlack(State) = base[Market] - Owed("base", Trader)
         /\ RwaSlack(State) = rwa[Market] - Owed("rwa", Trader)
         /\ Owed("base", Trader) \in Int /\ Owed("rwa", Trader) \in Int
         /\ base[Market] \in Int /\ rwa[Market] \in Int
<1>1. \A currency : /\ DueOn(orders, currency, Trader) \in Int
                    /\ DueOn(conditionals, currency, Trader) \in Int
  BY ListsType DEF State
<1>2. base[Market] \in Int /\ rwa[Market] \in Int
  BY MarketHolds DEF State
<1> QED BY <1>1, <1>2 DEF BaseSlack, RwaSlack, Owed, State

\* The property's name for it.
LEMMA SpareIsSlack ==
  /\ Spare("base") = BaseSlack(State) /\ Spare("rwa") = RwaSlack(State)
  /\ Spare("base")' = BaseSlack(State)' /\ Spare("rwa")' = RwaSlack(State)'
BY DEF Spare, BaseSlack, RwaSlack, Owed, State

\* Whatever is placed, filled in parts, triggered, swept, cancelled, expired or archived,
\* in whatever order and under whatever fees, negative ones included, what the market
\* holds beyond what it owes on open orders moves only by what was due on an archived
\* order and by the rebates paid to takers.
THEOREM EscrowIsAccountedFor == Spec => EscrowAccountedFor
<1>1. Init => Types
  BY InitFacts
<1>2. Types /\ [Next]_vars => Types'
  <2>1. Types /\ UNCHANGED vars => Types'
    BY DEF Types, State, vars, bookVars, envVars, EnvTypes
  <2> QED BY <2>1, NextKeeps
<1>3. ASSUME Types, Next
      PROVE  \/ \E i \in DOMAIN orders :
                   /\ Evict(i)
                   /\ \A currency \in {"base", "rwa"} :
                         Spare(currency)' = Spare(currency) + Due(orders[i], currency, Trader)
             \/ /\ Spare("rwa")' = Spare("rwa")
                /\ \/ Spare("base")' = Spare("base")
                   \/ /\ Spare("base")' < Spare("base")
                      /\ Rebate
                      /\ \E t \in Trader : Take(t)
  <2>1. CASE \E i \in Evictable \intersect DOMAIN orders : Evict(i)
    <3>1. PICK i \in DOMAIN orders : Evict(i)
      BY <2>1
    <3>2. /\ Spare("base")' = Spare("base") + Due(orders[i], "base", Trader)
          /\ Spare("rwa")' = Spare("rwa") + Due(orders[i], "rwa", Trader)
      BY <1>3, <3>1, EvictFacts, SpareIsSlack DEF BaseSlack, RwaSlack
    <3> QED BY <3>1, <3>2
  <2>2. CASE \E u \in Account : Keeps(State, State', u) /\ (u \in Trader => Take(u))
    <3>1. PICK u \in Account : Keeps(State, State', u) /\ (u \in Trader => Take(u))
      BY <2>2
    <3>2. /\ BaseSlack(State') <= BaseSlack(State) /\ RwaSlack(State') = RwaSlack(State)
          /\ ~Rebate \/ u \notin Trader => BaseSlack(State') = BaseSlack(State)
          /\ State \in Copy /\ State' \in Copy
      BY <3>1 DEF Keeps, State
    <3>3. BaseSlack(State) \in Int /\ BaseSlack(State') \in Int
      BY <3>2, SlackType
    <3>4. /\ Spare("base") = BaseSlack(State) /\ Spare("rwa") = RwaSlack(State)
          /\ Spare("base")' = BaseSlack(State') /\ Spare("rwa")' = RwaSlack(State')
      BY SpareIsSlack DEF BaseSlack, RwaSlack
    <3>5. \/ Spare("base")' = Spare("base")
          \/ Spare("base")' < Spare("base") /\ Rebate /\ u \in Trader
      BY <3>2, <3>3, <3>4
    <3> QED BY <3>1, <3>2, <3>4, <3>5
  <2> QED BY <1>3, <2>1, <2>2, NextKeeps
<1>4. Types /\ [Next]_vars =>
        [\/ \E i \in DOMAIN orders :
               /\ Evict(i)
               /\ \A currency \in {"base", "rwa"} :
                     Spare(currency)' = Spare(currency) + Due(orders[i], currency, Trader)
         \/ /\ Spare("rwa")' = Spare("rwa")
            /\ \/ Spare("base")' = Spare("base")
               \/ /\ Spare("base")' < Spare("base")
                  /\ Rebate
                  /\ \E t \in Trader : Take(t)]_vars
  BY <1>3
<1> QED BY <1>1, <1>2, <1>4, PTL DEF Spec, EscrowAccountedFor

\* What the escrow corollary rests on: the market has no less than it owes.
Covered == Types /\ BaseSlack(State) >= 0 /\ RwaSlack(State) >= 0

\* As long as the flat fee in force never is a rebate, the market can refund every order
\* that is open, whatever is archived.
COROLLARY EscrowCovers == Spec /\ []~Rebate => []EscrowCoversOrders
<1>1. Init => Covered
  BY InitFacts DEF Covered
<1>2. Covered /\ ~Rebate /\ [Next]_vars => Covered'
  <2> SUFFICES ASSUME Covered, ~Rebate, [Next]_vars PROVE Covered'
    OBVIOUS
  <2>1. CASE UNCHANGED vars
    BY <2>1 DEF Covered, Types, State, vars, bookVars, envVars, EnvTypes, BaseSlack, RwaSlack
  <2>2. CASE Next
    <3>1. Types /\ Types'
      BY <2>2, NextKeeps DEF Covered, Types
    <3>2. ASSUME NEW u, Keeps(State, State', u)
          PROVE  Covered'
      <4>1. BaseSlack(State') = BaseSlack(State) /\ RwaSlack(State') = RwaSlack(State)
        BY <3>1, <3>2 DEF Keeps, State
      <4> QED BY <3>1, <4>1 DEF Covered, BaseSlack, RwaSlack
    <3>3. ASSUME NEW i \in DOMAIN orders, Evict(i)
          PROVE  Covered'
      <4>1. /\ BaseSlack(State') = BaseSlack(State) + Due(orders[i], "base", Trader)
            /\ RwaSlack(State') = RwaSlack(State) + Due(orders[i], "rwa", Trader)
            /\ Due(orders[i], "base", Trader) \in Nat /\ Due(orders[i], "rwa", Trader) \in Nat
        BY <3>1, <3>3, EvictFacts
      <4>2. BaseSlack(State) \in Int /\ RwaSlack(State) \in Int
        BY <3>1, SlackType DEF Types
      <4>3. BaseSlack(State') >= 0 /\ RwaSlack(State') >= 0
        BY <4>1, <4>2 DEF Covered
      <4> QED BY <3>1, <4>3 DEF Covered, BaseSlack, RwaSlack
    <3> QED BY <2>2, <3>1, <3>2, <3>3, NextKeeps
  <2> QED BY <2>1, <2>2
<1>3. Covered => EscrowCoversOrders
  BY SlackIsSurplus DEF Covered, Types, EscrowCoversOrders
<1> QED BY <1>1, <1>2, <1>3, PTL DEF Spec

\* The orders of t on a side, and what a step brings on them, as the property has them.
MineNow(t, side) == {i \in DOMAIN orders' : orders'[i].maker = t /\ orders'[i].side = side}

PaidNow(i) == FilledNow(i) * orders'[i].price

ProceedsNow(i) == PaidNow(i) - MakerFee(PaidNow(i))

\* A trader's shares of a step's fills are the sums that the property speaks of.
LEMMA SharesNow ==
  ASSUME Types, State' \in Copy, Grows(State, State'), NEW t \in Trader
  PROVE  /\ TokenShares(State, State', t)
              = SumOver(FilledNow, MineNow(t, "buy")) - SumOver(FilledNow, MineNow(t, "sell"))
         /\ BaseShares(State, State', t)
              = SumOver(ProceedsNow, MineNow(t, "sell")) - SumOver(PaidNow, MineNow(t, "buy"))
<1> DEFINE s == State
           r == State'
           D == DOMAIN r.orders
           Buys == MineNow(t, "buy")
           Sells == MineNow(t, "sell")
           tokens == [i \in D |-> TokenShare(s, r, t, i)]
           moneys == [i \in D |-> BaseShare(s, r, t, i)]
           bought == [i \in Buys |-> FilledNow(i)]
           sold == [i \in Sells |-> FilledNow(i)]
           paid == [i \in Buys |-> PaidNow(i)]
           proceeds == [i \in Sells |-> ProceedsNow(i)]
<1>1. s \in Copy /\ r \in Copy /\ EnvTypes /\ Grows(s, r)
  BY DEF Types
<1>2. s.orders = orders /\ r.orders = orders'
  BY DEF State
<1>3. IsFiniteSet(D) /\ Buys \in SUBSET D /\ Sells \in SUBSET D
  <2> HIDE DEF r
  <2>1. IsFiniteSet(D)
    BY <1>1, OrderIndices
  <2> QED BY <1>2, <2>1 DEF MineNow
<1>4. ASSUME NEW i \in D
      PROVE  /\ FilledNow(i) = Gain(s, r, i) /\ PaidNow(i) = Gain(s, r, i) * r.orders[i].price
             /\ FilledNow(i) \in Int /\ PaidNow(i) \in Int /\ ProceedsNow(i) \in Int
             /\ tokens[i] \in Int /\ moneys[i] \in Int
  <2> HIDE DEF s, r
  <2>1. FilledNow(i) = Gain(s, r, i) /\ PaidNow(i) = Gain(s, r, i) * r.orders[i].price
    BY <1>2 DEF FilledNow, PaidNow, Gain, Reached
  <2>2. Gain(s, r, i) \in Nat /\ Gain(s, r, i) * r.orders[i].price \in Nat
    BY <1>1, GainType
  <2>3. MakerFee(PaidNow(i)) \in Int
    BY <1>1, <2>1, <2>2, FeesType
  <2>4. tokens[i] \in Int /\ moneys[i] \in Int
    BY <1>1, ShareType
  <2> QED BY <2>1, <2>2, <2>3, <2>4 DEF ProceedsNow
<1>5. ASSUME NEW i \in D
      PROVE  /\ tokens[i] = (IF i \in Buys THEN bought[i] ELSE 0)
                               - (IF i \in Sells THEN sold[i] ELSE 0)
             /\ moneys[i] = (IF i \in Sells THEN proceeds[i] ELSE 0)
                               - (IF i \in Buys THEN paid[i] ELSE 0)
  <2> HIDE DEF s, r
  <2>1. tokens[i] = TokenShare(s, r, t, i) /\ moneys[i] = BaseShare(s, r, t, i)
    OBVIOUS
  <2>2. CASE i \in Buys
    <3>1. i \notin Sells /\ r.orders[i].maker = t /\ r.orders[i].side = "buy"
      BY <1>2, <2>2 DEF MineNow
    <3>2. tokens[i] = FilledNow(i) /\ moneys[i] = 0 - PaidNow(i)
      BY <1>4, <2>1, <3>1 DEF TokenShare, BaseShare
    <3>3. bought[i] = FilledNow(i) /\ paid[i] = PaidNow(i)
      BY <2>2
    <3> HIDE DEF Buys, Sells, tokens, moneys, bought, paid, sold, proceeds
    <3> QED BY <1>4, <2>2, <3>1, <3>2, <3>3
  <2>3. CASE i \in Sells
    <3>1. i \notin Buys /\ r.orders[i].maker = t /\ r.orders[i].side = "sell"
      BY <1>2, <2>3 DEF MineNow
    <3>2. tokens[i] = 0 - FilledNow(i) /\ moneys[i] = ProceedsNow(i)
      BY <1>4, <2>1, <3>1 DEF TokenShare, BaseShare, ProceedsNow
    <3>3. sold[i] = FilledNow(i) /\ proceeds[i] = ProceedsNow(i)
      BY <2>3
    <3> HIDE DEF Buys, Sells, tokens, moneys, bought, paid, sold, proceeds
    <3> QED BY <1>4, <2>3, <3>1, <3>2, <3>3
  <2>4. CASE i \notin Buys /\ i \notin Sells
    <3>1. ~(r.orders[i].maker = t /\ r.orders[i].side \in {"buy", "sell"})
      BY <1>2, <2>4 DEF MineNow
    <3>2. tokens[i] = 0 /\ moneys[i] = 0
      BY <2>1, <3>1 DEF TokenShare, BaseShare
    <3> QED BY <2>4, <3>2
  <2> QED BY <2>2, <2>3, <2>4
<1>6. /\ \A i \in Buys : bought[i] \in Int /\ paid[i] \in Int
      /\ \A i \in Sells : sold[i] \in Int /\ proceeds[i] \in Int
  BY <1>3, <1>4
<1>7. /\ SumFunctionOnSet(tokens, D) = SumFunctionOnSet(bought, Buys) - SumFunctionOnSet(sold, Sells)
      /\ SumFunctionOnSet(moneys, D)
           = SumFunctionOnSet(proceeds, Sells) - SumFunctionOnSet(paid, Buys)
  <2>1. \A i \in D : tokens[i] \in Int /\ moneys[i] \in Int
    BY <1>4
  <2> HIDE DEF D, Buys, Sells, tokens, moneys, bought, sold, paid, proceeds
  <2>2. SumFunctionOnSet(tokens, D) = SumFunctionOnSet(bought, Buys) - SumFunctionOnSet(sold, Sells)
    BY <1>3, <1>5, <1>6, <2>1, SumApart
  <2>3. SumFunctionOnSet(moneys, D)
          = SumFunctionOnSet(proceeds, Sells) - SumFunctionOnSet(paid, Buys)
    BY <1>3, <1>5, <1>6, <2>1, SumApart
  <2> QED BY <2>2, <2>3
<1> QED BY <1>7 DEF TokenShares, BaseShares, SumOver

\* What t and the market for it gain in a step.
MoneyGainedNow(t) == (base[t] + Owed("base", {t}))' - (base[t] + Owed("base", {t}))

TokensGainedNow(t) == (rwa[t] + Owed("rwa", {t}))' - (rwa[t] + Owed("rwa", {t}))

\* Whoever fills orders, and at whatever fees, a trader who does not take is paid for what
\* its orders sell and pays for what they buy at its own prices: no fill of another order,
\* no trigger, refund or housekeeping of the call touches what it has, and the archiving
\* of an order costs its maker what was due on it and nobody else anything.
THEOREM MakersAreSafe == Spec => MakersTradeAtTheirPrice
<1>1. Init => Types
  BY InitFacts
<1>2. Types /\ [Next]_vars => Types'
  <2>1. Types /\ UNCHANGED vars => Types'
    BY DEF Types, State, vars, bookVars, envVars, EnvTypes
  <2> QED BY <2>1, NextKeeps
<1>3. ASSUME Types, Next, NEW t \in Trader, ~Take(t)
      PROVE  \/ \E i \in DOMAIN orders :
                   /\ Evict(i)
                   /\ MoneyGainedNow(t) = 0 - Due(orders[i], "base", {t})
                   /\ TokensGainedNow(t) = 0 - Due(orders[i], "rwa", {t})
             \/ /\ MoneyGainedNow(t)
                     >= SumOver(ProceedsNow, MineNow(t, "sell")) - SumOver(PaidNow, MineNow(t, "buy"))
                /\ TokensGainedNow(t)
                     = SumOver(FilledNow, MineNow(t, "buy")) - SumOver(FilledNow, MineNow(t, "sell"))
  <2>1. /\ MoneyGainedNow(t) = Money(State', t) - Money(State, t)
        /\ TokensGainedNow(t) = Tokens(State', t) - Tokens(State, t)
    BY DEF Money, Tokens, Owed, State, MoneyGainedNow, TokensGainedNow
  <2>2. CASE \E i \in Evictable \intersect DOMAIN orders : Evict(i)
    <3>1. PICK i \in DOMAIN orders : Evict(i)
      BY <2>2
    <3> QED BY <1>3, <2>1, <3>1, EvictFacts
  <2>3. CASE \E u \in Account : Keeps(State, State', u) /\ (u \in Trader => Take(u))
    <3>1. PICK u \in Account : Keeps(State, State', u) /\ (u \in Trader => Take(u))
      BY <2>3
    <3>2. t # u
      BY <1>3, <3>1
    <3>3. State' \in Copy /\ Grows(State, State') /\ Fair(State, State', t)
      BY <3>1, <3>2 DEF Keeps, FairToOthers, State
    <3> QED BY <1>3, <2>1, <3>3, SharesNow DEF Fair
  <2> QED BY <1>3, <2>2, <2>3, NextKeeps
<1>4. Types /\ [Next]_vars => [\A t \in Trader :
          LET Mine(side) == {i \in DOMAIN orders' : orders'[i].maker = t /\ orders'[i].side = side}
              Paid(i) == FilledNow(i) * orders'[i].price
              Proceeds(i) == Paid(i) - MakerFee(Paid(i))
              MoneyGained == (base[t] + Owed("base", {t}))' - (base[t] + Owed("base", {t}))
              TokensGained == (rwa[t] + Owed("rwa", {t}))' - (rwa[t] + Owed("rwa", {t}))
          IN  \/ /\ MoneyGained >= SumOver(Proceeds, Mine("sell")) - SumOver(Paid, Mine("buy"))
                 /\ TokensGained
                       = SumOver(FilledNow, Mine("buy")) - SumOver(FilledNow, Mine("sell"))
              \/ \E i \in DOMAIN orders :
                    /\ Evict(i)
                    /\ MoneyGained = 0 - Due(orders[i], "base", {t})
                    /\ TokensGained = 0 - Due(orders[i], "rwa", {t})
              \/ Take(t)]_vars
  BY <1>3 DEF MineNow, PaidNow, ProceedsNow, SumOver, MoneyGainedNow, TokensGainedNow
<1> QED BY <1>1, <1>2, <1>4, PTL DEF Spec, MakersTradeAtTheirPrice

-----------------------------------------------------------------------------
(* What the circuit breaker stops.                                         *)

\* From s to r nothing is traded, and for every order that has come to rest on the book
\* a conditional order is spent.
Rests(s, r) ==
  /\ r \in Copy /\ r.breaker = s.breaker
  /\ DOMAIN s.orders \subseteq DOMAIN r.orders
  /\ \A i \in DOMAIN s.orders : r.orders[i].filled = s.orders[i].filled
  /\ DOMAIN r.conditionals = DOMAIN s.conditionals
  /\ Active(r.conditionals) \subseteq Active(s.conditionals)
  /\ Len(r.orders) - Len(s.orders) <= Cardinality(Active(s.conditionals) \ Active(r.conditionals))

\* Any of the active conditional orders are finitely many.
LEMMA ActiveFinite ==
  ASSUME NEW s \in Copy, NEW A \in SUBSET Active(s.conditionals)
  PROVE  IsFiniteSet(A) /\ Cardinality(A) \in Nat /\ Len(s.orders) \in Nat
<1>1. s.conditionals \in Seq(Conditional) /\ s.orders \in Seq(Order)
  BY DEF Copy
<1>2. Len(s.conditionals) \in Nat /\ Len(s.orders) \in Nat
        /\ DOMAIN s.conditionals = 1..Len(s.conditionals)
  BY <1>1, LenProperties
<1>3. IsFiniteSet(1..Len(s.conditionals)) /\ A \subseteq 1..Len(s.conditionals)
  BY <1>2, FS_Interval DEF Active
<1> QED BY <1>2, <1>3, FS_Subset, FS_CardinalityType

\* What changes nothing only lets orders rest.
LEMMA RestsItself ==
  ASSUME NEW s \in Copy
  PROVE  Rests(s, s)
<1>1. Cardinality(Active(s.conditionals) \ Active(s.conditionals)) \in Nat /\ Len(s.orders) \in Nat
  BY ActiveFinite
<1> QED BY <1>1 DEF Rests

\* Steps that only let orders rest do so together.
LEMMA RestsOn ==
  ASSUME NEW s \in Copy, NEW r \in Copy, NEW t, Rests(s, r), Rests(r, t)
  PROVE  Rests(s, t)
<1> DEFINE A == Active(s.conditionals)
           B == Active(r.conditionals)
           C == Active(t.conditionals)
<1>1. t \in Copy /\ B \subseteq A /\ C \subseteq B
  BY DEF Rests
<1>2. /\ IsFiniteSet(A \ B) /\ IsFiniteSet(B \ C)
      /\ Cardinality(A \ B) \in Nat /\ Cardinality(B \ C) \in Nat
      /\ Len(s.orders) \in Nat /\ Len(r.orders) \in Nat /\ Len(t.orders) \in Nat
  BY <1>1, ActiveFinite
<1>3. A \ C = (A \ B) \union (B \ C) /\ (A \ B) \intersect (B \ C) = {}
  BY <1>1
<1>4. Cardinality(A \ C) = Cardinality(A \ B) + Cardinality(B \ C)
  <2>1. Cardinality((A \ B) \union (B \ C))
          = Cardinality(A \ B) + Cardinality(B \ C) - Cardinality((A \ B) \intersect (B \ C))
    BY <1>2, FS_Union
  <2>2. Cardinality((A \ B) \intersect (B \ C)) = 0
    BY <1>3, FS_EmptySet
  <2>3. \A a, b \in Nat : a + b - 0 = a + b
    OBVIOUS
  <2> HIDE DEF A, B, C
  <2> QED BY <1>2, <1>3, <2>1, <2>2, <2>3, Zenon
<1>5. /\ Len(r.orders) - Len(s.orders) <= Cardinality(A \ B)
      /\ Len(t.orders) - Len(r.orders) <= Cardinality(B \ C)
  BY DEF Rests
<1>6. Len(t.orders) - Len(s.orders) <= Cardinality(A \ C)
  <2>1. \A k, l, m, a, b \in Nat : l - k <= a /\ m - l <= b => m - k <= a + b
    OBVIOUS
  <2> HIDE DEF A, B, C
  <2> QED BY <1>2, <1>4, <1>5, <2>1, Zenon
<1> QED BY <1>1, <1>6 DEF Rests

\* A step of a housekeeping loop closes an order, or spends a conditional one.
LEMMA OrderEndedRests ==
  ASSUME NEW s \in Copy, NEW i \in DOMAIN s.orders, NEW r \in Copy, OrderEnded(s, r, i)
  PROVE  Rests(s, r) /\ DOMAIN r.orders = DOMAIN s.orders
<1>1. /\ r.orders = [s.orders EXCEPT ![i] = Closed(s.orders[i])]
      /\ r.conditionals = s.conditionals /\ r.breaker = s.breaker
  BY DEF OrderEnded
<1>2. s.orders \in Seq(Order) /\ s.orders[i] \in Order
  BY OrderType
<1>3. Closed(s.orders[i]).filled = s.orders[i].filled
  BY <1>2 DEF Closed, Order
<1>4. DOMAIN r.orders = DOMAIN s.orders /\ \A j \in DOMAIN s.orders : r.orders[j].filled = s.orders[j].filled
  <2>1. \A j \in DOMAIN s.orders : r.orders[j] = IF j = i THEN Closed(s.orders[i]) ELSE s.orders[j]
    BY <1>1
  <2> QED BY <1>1, <1>3, <2>1
<1>5. Len(r.orders) = Len(s.orders)
  BY <1>1, <1>2, ExceptSeq
<1>6. Cardinality(Active(s.conditionals) \ Active(r.conditionals)) \in Nat /\ Len(s.orders) \in Nat
  BY <1>1, ActiveFinite
<1> QED BY <1>1, <1>4, <1>5, <1>6 DEF Rests

\* What is left of the active ones when one of them is closed.
LEMMA ActiveEnded ==
  ASSUME NEW s \in Copy, NEW i \in DOMAIN s.conditionals, s.conditionals[i].is_active,
         NEW r \in Copy, ConditionalEnded(s, r, i)
  PROVE  /\ DOMAIN r.conditionals = DOMAIN s.conditionals
         /\ Active(r.conditionals) \subseteq Active(s.conditionals)
         /\ Active(s.conditionals) \ Active(r.conditionals) = {i}
<1>1. s.conditionals[i] \in Conditional /\ s.conditionals \in Seq(Conditional)
  BY ConditionalType
<1>2. ~Closed(s.conditionals[i]).is_active
  BY <1>1 DEF Closed, Conditional
<1>3. r.conditionals = [s.conditionals EXCEPT ![i] = Closed(s.conditionals[i])]
  BY DEF ConditionalEnded
<1>4. DOMAIN r.conditionals = DOMAIN s.conditionals
  BY <1>3
<1>5. \A j \in DOMAIN s.conditionals :
         r.conditionals[j].is_active <=> j # i /\ s.conditionals[j].is_active
  <2>1. \A j \in DOMAIN s.conditionals :
           r.conditionals[j] = IF j = i THEN Closed(s.conditionals[i]) ELSE s.conditionals[j]
    BY <1>3
  <2> QED BY <1>2, <2>1
<1> QED BY <1>4, <1>5 DEF Active

\* The end of a conditional order lets at most one order rest, and spends it.
LEMMA ConditionalEndedRests ==
  ASSUME NEW s \in Copy, NEW i \in DOMAIN s.conditionals, s.conditionals[i].is_active,
         NEW r \in Copy, ConditionalRefunded(s, r, i) \/ ConditionalRests(s, r, i)
  PROVE  Rests(s, r)
<1>1. ConditionalEnded(s, r, i) /\ r.breaker = s.breaker
  BY DEF ConditionalRefunded, ConditionalRests, ConditionalEnded
<1>2. /\ DOMAIN r.conditionals = DOMAIN s.conditionals
      /\ Active(r.conditionals) \subseteq Active(s.conditionals)
      /\ Active(s.conditionals) \ Active(r.conditionals) = {i}
  BY <1>1, ActiveEnded
<1>3. Cardinality(Active(s.conditionals) \ Active(r.conditionals)) = 1
  BY <1>2, FS_Singleton
<1>4. s.orders \in Seq(Order) /\ Len(s.orders) \in Nat /\ DOMAIN s.orders = 1..Len(s.orders)
  <2>1. s.orders \in Seq(Order)
    BY DEF Copy
  <2> QED BY <2>1, LenProperties
<1>5. CASE r.orders = s.orders
  BY <1>1, <1>2, <1>3, <1>4, <1>5 DEF Rests
<1>6. CASE r.orders = Append(s.orders, RestingOrder(s.conditionals[i]))
  <2> DEFINE o == RestingOrder(s.conditionals[i])
  <2>1. o \in Order
    BY ConditionalType, RestingType
  <2>2. /\ DOMAIN r.orders = 1..(Len(s.orders) + 1) /\ Len(r.orders) = Len(s.orders) + 1
        /\ \A j \in 1..Len(s.orders) : r.orders[j] = s.orders[j]
    <3> HIDE DEF o
    <3> QED BY <1>4, <1>6, <2>1, AppendProperties DEF o
  <2>3. DOMAIN s.orders \subseteq DOMAIN r.orders
    BY <1>4, <2>2
  <2> QED BY <1>1, <1>2, <1>3, <1>4, <2>2, <2>3 DEF Rests
<1> QED BY <1>5, <1>6 DEF ConditionalRefunded, ConditionalRests
\* Pruning trades nothing.
LEMMA PruneRests ==
  ASSUME NEW s \in Copy
  PROVE  Rests(s, Prune(s))
<1> DEFINE W == {t \in Copy : Rests(s, t) /\ DOMAIN t.orders = DOMAIN s.orders}
           n == Len(s.orders)
<1>1. n \in Nat /\ DOMAIN s.orders = 1..n
  <2>1. s.orders \in Seq(Order)
    BY DEF Copy
  <2> QED BY <2>1, LenProperties
<1>2. s \in W
  BY RestsItself
<1>3. ASSUME NEW t \in W, NEW i \in 1..n
      PROVE  Expired(t, i) \in W
  <2> DEFINE r == Expired(t, i)
  <2>1. t \in Copy /\ i \in DOMAIN t.orders /\ Rests(s, t)
    BY <1>1
  <2>2. CASE r = t
    BY <2>2
  <2>3. CASE r \in Copy /\ OrderEnded(t, r, i)
    <3>1. Rests(t, r) /\ DOMAIN r.orders = DOMAIN t.orders
      BY <2>1, <2>3, OrderEndedRests
    <3> QED BY <2>1, <2>3, <3>1, RestsOn
  <2> QED BY <2>1, <2>2, <2>3, ExpiredFacts
<1>4. Prune(s) \in W
  <2> HIDE DEF W, n
  <2> QED BY <1>1, <1>2, <1>3, PruneWithin
<1> QED BY <1>4

\* Looking at the conditional orders trades nothing.
LEMMA EvaluateRests ==
  ASSUME NEW s \in Copy
  PROVE  Rests(s, EvaluateConditionals(s))
<1> DEFINE W == {t \in Copy : Rests(s, t)}
           n == Len(s.conditionals)
<1>1. n \in Nat /\ DOMAIN s.conditionals = 1..n
  <2>1. s.conditionals \in Seq(Conditional)
    BY DEF Copy
  <2> QED BY <2>1, LenProperties
<1>2. s \in W
  BY RestsItself
<1>3. ASSUME NEW t \in W, NEW i \in 1..n
      PROVE  Evaluated(t, i) \in W
  <2> DEFINE r == Evaluated(t, i)
  <2>1. t \in Copy /\ i \in DOMAIN t.conditionals /\ Rests(s, t)
    BY <1>1 DEF Rests
  <2>2. CASE r = t
    BY <2>2
  <2>3. CASE /\ t.conditionals[i].is_active /\ r \in Copy
             /\ ConditionalRefunded(t, r, i) \/ ConditionalRests(t, r, i)
    <3>1. Rests(t, r)
      BY <2>1, <2>3, ConditionalEndedRests
    <3> QED BY <2>1, <2>3, <3>1, RestsOn
  <2> QED BY <2>1, <2>2, <2>3, EvaluatedFacts
<1>4. EvaluateConditionals(s) \in W
  <2> HIDE DEF W, n
  <2> QED BY <1>1, <1>2, <1>3, EvaluateWithin
<1> QED BY <1>4

\* A call that asks the breaker while it cools down panics, whatever price it names.
LEMMA CoolingPanics ==
  ASSUME EnvTypes, CoolingDown, NEW s \in Copy, s.breaker = breaker, NEW price
  PROVE  EnforceBreaker(s, price) \in Copy /\ ~EnforceBreaker(s, price).ok
<1>1. breaker_config[1] \in Breakers /\ BreakerConfig = breaker_config[1]
  BY EmptySeq, ElementOfSeq DEF CoolingDown, EnvTypes, BreakerConfig
<1>2. s.breaker.tripped_at \in Nat /\ now \in Nat
  <2>1. s.breaker \in BreakerState
    BY DEF Copy
  <2> QED BY <2>1, Numbers DEF BreakerState, EnvTypes
<1>3. breaker_config[1].cooldown_seconds \in Nat
  <2> DEFINE Thresholds == 0..10000
  <2>1. Breakers \subseteq [threshold_bps : Thresholds, cooldown_seconds : Nat, auto_reset : BOOLEAN]
    BY MarketAssumption
  <2> HIDE DEF Thresholds
  <2> QED BY <1>1, <2>1
<1>4. ~(now >= s.breaker.tripped_at + BreakerConfig.cooldown_seconds)
  <2>1. now < s.breaker.tripped_at + BreakerConfig.cooldown_seconds
    BY <1>1 DEF CoolingDown
  <2>2. BreakerConfig.cooldown_seconds \in Nat
    BY <1>1, <1>3
  <2> QED BY <1>2, <2>1, <2>2
<1>5. s.breaker.is_tripped
  BY DEF CoolingDown
<1>6. EnforceBreaker(s, price) = Panic(s)
  BY <1>4, <1>5, Zenon DEF EnforceBreaker
<1> QED BY <1>6, CopyOk

\* So no order is taken and none is placed, but for conditional ones.
LEMMA CoolingStopsFills ==
  ASSUME Types, CoolingDown, NEW t \in Trader, NEW i \in DOMAIN orders, NEW x \in Int
  PROVE  ~Commit(Filled(t, i, x))
<1> DEFINE pruned == Prune(State)
           enforced == EnforceBreaker(pruned, 0)
<1>1. State \in Copy /\ EnvTypes
  BY DEF Types
<1>2. /\ pruned \in Copy /\ pruned.breaker = breaker
      /\ DOMAIN pruned.orders = DOMAIN State.orders /\ i \in DOMAIN pruned.orders
  BY <1>1, PruneRests, PruneKeeps DEF Rests, State
<1> HIDE DEF pruned
<1>3. enforced \in Copy /\ BreakerApart(pruned, enforced) /\ ~enforced.ok
  BY <1>1, <1>2, CoolingPanics, EnforceFacts
<1> HIDE DEF enforced
<1>4. CASE ~Fillable(pruned, t, i, x)
  BY <1>2, <1>4, CopyOk DEF Filled, Commit, pruned
<1>5. CASE Fillable(pruned, t, i, x)
  <2>1. pruned.orders[i] \in Order
    BY <1>2, OrderType
  <2>2. /\ pruned.orders[i].is_active /\ t # pruned.orders[i].maker
        /\ x <= Unfilled(pruned.orders[i]) /\ x \in Nat
    BY <1>5, <2>1 DEF Fillable, Order, Unfilled
  <2>3. Keeps(enforced, SettleFill(enforced, t, i, x), t)
    BY <1>1, <1>2, <1>3, <2>2, SettleKeeps DEF BreakerApart
  <2> QED BY <1>3, <1>5, <2>3 DEF Filled, Commit, Keeps, pruned, enforced
<1> QED BY <1>4, <1>5

\* No taker's call succeeds while the breaker cools down.
LEMMA CoolingStopsTakers ==
  ASSUME Types, CoolingDown, NEW t \in Trader
  PROVE  ~Take(t)
<1>1. State \in Copy /\ EnvTypes /\ orders \in Seq(Order) /\ State.breaker = breaker
  BY DEF Types, Copy, State
<1>2. ASSUME NEW i \in DOMAIN orders, NEW x \in Amounts, FillOrder(t, i, x)
      PROVE  FALSE
  BY <1>2, CoolingStopsFills, MarketAssumption DEF FillOrder
<1>3. ASSUME NEW side \in Sides, MatchBestOrder(t, side)
      PROVE  FALSE
  <2>1. PICK i \in DOMAIN orders : Commit(Filled(t, i, Unfilled(orders[i])))
    BY <1>3 DEF MatchBestOrder
  <2>2. Unfilled(orders[i]) \in Int
    <3>1. orders[i] \in Order
      BY <1>1, LenProperties, ElementOfSeq
    <3> QED BY <3>1 DEF Unfilled, Order
  <2> QED BY <2>1, <2>2, CoolingStopsFills
<1>4. ASSUME NEW side, NEW amount \in Int, NEW limit, NEW slice \in Int, NEW n \in Nat,
             SweepBook(t, side, amount, limit, slice, n)
      PROVE  FALSE
  <2> DEFINE enforced == EnforceBreaker(State, 0)
             swept == Sweep(enforced, t, side, amount, limit, slice, n)
  <2>1. amount \in Nat /\ slice \in Nat
    BY <1>4, Numbers DEF SweepBook
  <2>2. enforced \in Copy /\ ~enforced.ok
    BY <1>1, CoolingPanics
  <2>3. Keeps(enforced, swept, t)
    <3> HIDE DEF enforced
    <3> QED BY <1>1, <2>1, <2>2, SweepKeeps
  <2>4. Keeps(swept, EvaluateConditionals(swept), t)
    <3> HIDE DEF swept
    <3> QED BY <1>1, <2>3, EvaluateKeeps DEF Keeps
  <2>5. Commit(EvaluateConditionals(swept))
    BY <1>4 DEF SweepBook
  <2> HIDE DEF enforced, swept
  <2> QED BY <2>2, <2>3, <2>4, <2>5 DEF Keeps, Commit
<1>5. ASSUME NEW side \in Sides, NEW x \in Amounts, NEW p \in Prices,
             PlaceMarketOrder(t, side, x, p)
      PROVE  FALSE
  BY <1>4, <1>5, MarketAssumption DEF PlaceMarketOrder
<1>6. ASSUME NEW side \in Sides, NEW x \in Amounts, NEW n \in Slices, NEW p \in Prices,
             PlaceTwapOrder(t, side, x, n, p)
      PROVE  FALSE
  <2>1. x \in Int /\ n \in Nat /\ n > 0
    BY <1>6, MarketAssumption DEF PlaceTwapOrder
  <2>2. x \div n \in Int
    BY <2>1
  <2> QED BY <1>4, <1>6, <2>1, <2>2 DEF PlaceTwapOrder
<1> QED BY <1>2, <1>3, <1>5, <1>6 DEF Take
\* No order is placed while the breaker cools down.
LEMMA CoolingStopsOrders ==
  ASSUME Types, CoolingDown, NEW t \in Trader, NEW side \in Sides, NEW p \in Prices,
         NEW x \in Amounts, NEW d \in Lifetimes, NEW m \in MinFills
  PROVE  ~PlaceOrder(t, side, p, x, d, m)
<1> SUFFICES ASSUME PlaceOrder(t, side, p, x, d, m) PROVE FALSE
  OBVIOUS
<1> DEFINE o == [maker |-> t, side |-> side, price |-> p, amount |-> x, filled |-> 0,
                 min_fill |-> m, expires_at |-> now + d, is_active |-> TRUE]
           enforced == EnforceBreaker(State, p)
           escrowed == Escrow(enforced, o)
           q == Append(escrowed.orders, o)
           r == [escrowed EXCEPT !.orders = q]
<1>1. State \in Copy /\ EnvTypes /\ State.breaker = breaker
  BY DEF Types, State
<1>2. o \in Order /\ o.maker \in Trader
  BY <1>1, PlacedType
<1>3. enforced \in Copy /\ ~enforced.ok
  BY <1>1, CoolingPanics
<1>4. escrowed \in Copy /\ ~escrowed.ok
  <2> HIDE DEF enforced, o
  <2> QED BY <1>2, <1>3, EscrowFacts
<1>5. q \in Seq(Order)
  <2>1. escrowed.orders \in Seq(Order)
    <3> HIDE DEF escrowed
    <3> QED BY <1>4 DEF Copy
  <2> HIDE DEF escrowed, o
  <2> QED BY <1>2, <2>1, AppendProperties
<1>6. r \in Copy /\ ~r.ok
  <2> HIDE DEF escrowed, q
  <2> QED BY <1>4, <1>5, CopyOrders
<1>7. Commit(Prune(r))
  BY DEF PlaceOrder
<1> HIDE DEF r
<1> QED BY <1>1, <1>6, <1>7, PruneKeeps DEF Keeps, Commit

\* From s to r nothing is traded and no order comes to rest on the book but for the
\* conditional ones that are spent.
Halted(s, r) ==
  /\ \A i \in DOMAIN s.orders : r.orders[i].filled <= s.orders[i].filled
  /\ Len(r.orders) - Len(s.orders)
       <= Cardinality(Active(s.conditionals) \ Active(r.conditionals))

\* What an order was filled by is a natural.
LEMMA FilledType ==
  ASSUME NEW s \in Copy, NEW i \in DOMAIN s.orders
  PROVE  s.orders[i].filled \in Nat
BY OrderType DEF Order

\* Where orders only come to rest, trading is halted.
LEMMA RestsHalted ==
  ASSUME NEW s \in Copy, NEW r, Rests(s, r)
  PROVE  Halted(s, r)
<1>1. ASSUME NEW i \in DOMAIN s.orders
      PROVE  r.orders[i].filled <= s.orders[i].filled
  <2>1. r.orders[i].filled = s.orders[i].filled
    BY DEF Rests
  <2> QED BY <2>1, FilledType
<1>2. Len(r.orders) - Len(s.orders)
        <= Cardinality(Active(s.conditionals) \ Active(r.conditionals))
  BY DEF Rests
<1> QED BY <1>1, <1>2 DEF Halted

\* When no order comes to rest, it does not matter what the conditional ones do.
LEMMA NoneRestsHalted ==
  ASSUME NEW s \in Copy, NEW r, Len(r.orders) = Len(s.orders),
         \A i \in DOMAIN s.orders : r.orders[i].filled <= s.orders[i].filled
  PROVE  Halted(s, r)
<1>1. /\ Cardinality(Active(s.conditionals) \ Active(r.conditionals)) \in Nat
      /\ Len(s.orders) \in Nat
  BY ActiveFinite
<1> QED BY <1>1 DEF Halted

\* Where the orders stay, trading is halted.
LEMMA SameOrdersHalted ==
  ASSUME NEW s \in Copy, NEW r, r.orders = s.orders
  PROVE  Halted(s, r)
<1>1. \A i \in DOMAIN s.orders : s.orders[i].filled \in Nat
  BY FilledType
<1>2. \A i \in DOMAIN s.orders : r.orders[i].filled <= s.orders[i].filled
  BY <1>1
<1> QED BY <1>2, NoneRestsHalted

\* Whatever happens while the breaker cools down, trading is halted.
LEMMA CoolingHalts ==
  ASSUME Types, CoolingDown, Next
  PROVE  Halted(State, State')
<1>1. /\ State \in Copy /\ EnvTypes /\ State.orders = orders /\ State'.orders = orders'
      /\ State.conditionals = conditionals
  BY DEF Types, State
<1>2. ASSUME orders' = orders
      PROVE  Halted(State, State')
  BY <1>1, <1>2, SameOrdersHalted
<1>3. ASSUME NEW r, Rests(State, r), Commit(r)
      PROVE  Halted(State, State')
  <2>1. State' = r
    BY <1>3, CommitFacts DEF Rests
  <2> QED BY <1>1, <1>3, <2>1, RestsHalted
<1>4. ASSUME NEW t \in Trader, Place(t)
      PROVE  Halted(State, State')
  <2>1. PICK side \in Sides, p \in Prices, x \in Amounts, c \in Conditions, d \in Lifetimes :
           PlaceConditionalOrder(t, side, p, x, c, d)
    BY <1>4, CoolingStopsOrders DEF Place
  <2> DEFINE c0 == [maker |-> t, side |-> side, price |-> p, amount |-> x, filled |-> 0,
                    condition |-> c, expires_at |-> now + d, is_active |-> TRUE]
             r == [Escrow(State, c0) EXCEPT !.conditionals = Append(@, c0), !.live[t] = @ + 1]
  <2>2. Commit(r)
    BY <2>1 DEF PlaceConditionalOrder
  <2>3. r.orders = Escrow(State, c0).orders
    OBVIOUS
  <2>4. orders' = r.orders
    <3> HIDE DEF r
    <3> QED BY <2>2 DEF Commit
  <2>5. Escrow(State, c0).orders = State.orders
    BY DEF Escrow, PayBase, PayRwa, Panic, State
  <2> QED BY <1>1, <1>2, <2>3, <2>4, <2>5
<1>5. ASSUME NEW t \in Trader, Cancel(t)
      PROVE  Halted(State, State')
  <2>1. ASSUME NEW i \in DOMAIN orders, CancelOrder(t, i)
        PROVE  Halted(State, State')
    <3> DEFINE r == [Refund(State, State.orders[i]) EXCEPT !.orders[i].is_active = FALSE]
    <3>1. i \in DOMAIN State.orders /\ State.orders[i].is_active /\ Commit(r)
      BY <1>1, <2>1 DEF CancelOrder
    <3>2. r \in Copy /\ OrderEnded(State, r, i)
      BY <1>1, <3>1, EndOrder
    <3> HIDE DEF r
    <3>3. Rests(State, r)
      BY <1>1, <3>1, <3>2, OrderEndedRests
    <3> QED BY <1>3, <3>1, <3>3
  <2>2. ASSUME NEW i \in DOMAIN conditionals, CancelConditionalOrder(t, i)
        PROVE  Halted(State, State')
    <3> DEFINE r == Retired(Refund(State, State.conditionals[i]), i)
    <3>1. i \in DOMAIN State.conditionals /\ State.conditionals[i].is_active /\ Commit(r)
      BY <1>1, <2>2 DEF CancelConditionalOrder
    <3>2. r \in Copy /\ ConditionalRefunded(State, r, i)
      BY <1>1, <3>1, EndConditional
    <3> HIDE DEF r
    <3>3. Rests(State, r)
      BY <1>1, <3>1, <3>2, ConditionalEndedRests
    <3> QED BY <1>3, <3>1, <3>3
  <2> QED BY <1>5, <2>1, <2>2 DEF Cancel
<1>6. CASE PruneExpiredOrders
  BY <1>1, <1>3, <1>6, PruneRests DEF PruneExpiredOrders
<1>7. CASE EvaluateConditionalOrders
  BY <1>1, <1>3, <1>7, EvaluateRests DEF EvaluateConditionalOrders
<1>8. CASE Administer
  BY <1>2, <1>8 DEF Administer, ForceResetBreaker, UpdateConfig, SetFeeTiers, SetBreakerConfig,
                    bookVars
<1>9. CASE Environment
  <2>1. ASSUME NEW i \in DOMAIN orders, Evict(i)
        PROVE  Halted(State, State')
    <3>1. orders \in Seq(Order) /\ orders' = [orders EXCEPT ![i] = Archived] /\ Archived.filled = 0
      BY <1>1, <2>1 DEF Evict, Archived, Copy, State
    <3>2. Len(orders') = Len(orders)
      BY <3>1
    <3>3. ASSUME NEW j \in DOMAIN orders
          PROVE  orders'[j].filled <= orders[j].filled
      <4>1. orders[j].filled \in Nat
        BY <1>1, FilledType
      <4>2. orders'[j] = IF j = i THEN Archived ELSE orders[j]
        BY <3>1
      <4> QED BY <3>1, <4>1, <4>2
    <3> QED BY <1>1, <3>2, <3>3, NoneRestsHalted
  <2> QED BY <1>2, <1>9, <2>1 DEF Environment, SetOraclePrice, RemoveOracle, StandingChange, Tick,
                                  bookVars
<1> QED BY <1>4, <1>5, <1>6, <1>7, <1>8, <1>9, CoolingStopsTakers DEF Next

\* While the breaker cools down nothing is traded, whoever calls what: the loops that
\* close and trigger orders fill none of them, and every call that would trade or place
\* an order asks the breaker and panics.
THEOREM BreakerStopsTrading == Spec => CooldownStopsTrading
<1>1. Types /\ [Next]_vars => Types'
  <2>1. Types /\ UNCHANGED vars => Types'
    BY DEF Types, State, vars, bookVars, envVars, EnvTypes
  <2> QED BY <2>1, NextKeeps
<1>2. Types /\ [Next]_vars =>
        [CoolingDown =>
          /\ \A i \in DOMAIN orders : orders'[i].filled <= orders[i].filled
          /\ Len(orders') - Len(orders)
                <= Cardinality(Active(conditionals) \ Active(conditionals'))]_vars
  <2> SUFFICES ASSUME Types, Next, CoolingDown
               PROVE  /\ \A i \in DOMAIN orders : orders'[i].filled <= orders[i].filled
                      /\ Len(orders') - Len(orders)
                            <= Cardinality(Active(conditionals) \ Active(conditionals'))
    OBVIOUS
  <2>1. Halted(State, State')
    BY CoolingHalts
  <2> QED BY <2>1 DEF Halted, State
<1>3. Init => Types
  BY InitFacts
<1> QED BY <1>1, <1>2, <1>3, PTL DEF Spec, CooldownStopsTrading
=============================================================================
