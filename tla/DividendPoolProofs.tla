------------------------- MODULE DividendPoolProofs ------------------------
(***************************************************************************)
(* Proofs about the dividend distributor.                                  *)
(***************************************************************************)
EXTENDS DividendPool, SumLemmas, SequenceTheorems

-----------------------------------------------------------------------------
(* The two loops: what every round keeps, the loop keeps.                  *)

\* multi_ccy_distributions, one amount after the other.
LEMMA CreatedAllWithin ==
  ASSUME NEW W, NEW s \in W, NEW amounts, NEW window, NEW n \in Nat, DOMAIN amounts = 1..n,
         \A t \in W, i \in 1..n : CreatedNext(t, amounts[i], window) \in W
  PROVE  CreatedAll(s, amounts, window) \in W
<1> DEFINE S == 1..n
           step == [v \in W \X S |-> CreatedNext(v[1], amounts[v[2]], window)]
           IsIter(h) == h = [T \in SUBSET S |->
                              IF T = {} THEN s ELSE CreatedNext(h[T \ {Max(T)}], amounts[Max(T)], window)]
           iter == CHOOSE h : IsIter(h)
<1>1. Indices(S) /\ \A T \in SUBSET S : T # {} => Max(T) \in S
  <2>1. Indices(S)
    BY IntervalIndices
  <2> HIDE DEF S
  <2> QED BY <2>1, MaxIn, FS_Subset DEF Indices
<1>2. step \in [W \X S -> W]
  OBVIOUS
<1>3. PICK h \in [SUBSET S -> W] :
         \A T \in SUBSET S : h[T] = IF T = {} THEN s ELSE step[<<h[T \ {Max(T)}], Max(T)>>]
  <2>1. s \in W /\ Indices(S)
    BY <1>1
  <2>2. FoldsWithin(s, step, S, W)
    <3> HIDE DEF S, step
    <3> QED BY <2>1, <1>2, FoldWithin
  <2> HIDE DEF S, step
  <2> QED BY <2>2 DEF FoldsWithin
<1>4. \A T \in SUBSET S : h[T] = IF T = {} THEN s ELSE CreatedNext(h[T \ {Max(T)}], amounts[Max(T)], window)
  <2> SUFFICES ASSUME NEW T \in SUBSET S, T # {}
               PROVE  step[<<h[T \ {Max(T)}], Max(T)>>] = CreatedNext(h[T \ {Max(T)}], amounts[Max(T)], window)
    BY <1>3
  <2>1. Max(T) \in S /\ h[T \ {Max(T)}] \in W
    BY <1>1
  <2> HIDE DEF S
  <2> QED BY <2>1
<1>5. IsIter(h)
  <2> HIDE DEF S, step
  <2> QED BY <1>3, <1>4
<1>6. IsIter(iter)
  <2> HIDE DEF IsIter
  <2> QED BY <1>5
<1>7. /\ iter[{}] \in W
      /\ \A T \in SUBSET S : T # {} /\ iter[T \ {Max(T)}] \in W => iter[T] \in W
  <2>1. \A T \in SUBSET S : iter[T] = IF T = {} THEN s ELSE CreatedNext(iter[T \ {Max(T)}], amounts[Max(T)], window)
    <3> HIDE DEF S, iter
    <3> QED BY <1>6
  <2>2. \A T \in SUBSET S : T # {} => Max(T) \in S
    BY <1>1
  <2> HIDE DEF iter
  <2> QED BY <2>1, <2>2
<1>8. iter[S] \in W
  <2> HIDE DEF iter, S
  <2> QED BY <1>1, <1>7, FoldStays
<1>9. CreatedAll(s, amounts, window) = iter[S]
  <2>1. DOMAIN amounts = S
    OBVIOUS
  <2> HIDE DEF S
  <2> QED BY <2>1, Zenon DEF CreatedAll, FoldLeft, MapThenFoldSet
<1> QED BY <1>8, <1>9

\* claim_all_dividends, one distribution after the other.
LEMMA ClaimedAllWithin ==
  ASSUME NEW W, NEW s \in W, NEW a, NEW n \in Nat, DOMAIN distributions = 1..n,
         \A t \in W, i \in 1..n : ClaimedNext(t, a, i) \in W
  PROVE  ClaimedAll(s, a) \in W
<1> DEFINE S == 1..n
           step == [v \in W \X S |-> ClaimedNext(v[1], a, v[2])]
           index == [i \in S |-> i]
           IsIter(h) == h = [T \in SUBSET S |->
                              IF T = {} THEN s ELSE ClaimedNext(h[T \ {Max(T)}], a, index[Max(T)])]
           iter == CHOOSE h : IsIter(h)
<1>1. Indices(S) /\ \A T \in SUBSET S : T # {} => Max(T) \in S
  <2>1. Indices(S)
    BY IntervalIndices
  <2> HIDE DEF S
  <2> QED BY <2>1, MaxIn, FS_Subset DEF Indices
<1>2. step \in [W \X S -> W]
  OBVIOUS
<1>3. PICK h \in [SUBSET S -> W] :
         \A T \in SUBSET S : h[T] = IF T = {} THEN s ELSE step[<<h[T \ {Max(T)}], Max(T)>>]
  <2>1. s \in W /\ Indices(S)
    BY <1>1
  <2>2. FoldsWithin(s, step, S, W)
    <3> HIDE DEF S, step
    <3> QED BY <2>1, <1>2, FoldWithin
  <2> HIDE DEF S, step
  <2> QED BY <2>2 DEF FoldsWithin
<1>4. \A T \in SUBSET S : h[T] = IF T = {} THEN s ELSE ClaimedNext(h[T \ {Max(T)}], a, index[Max(T)])
  <2> SUFFICES ASSUME NEW T \in SUBSET S, T # {}
               PROVE  step[<<h[T \ {Max(T)}], Max(T)>>] = ClaimedNext(h[T \ {Max(T)}], a, index[Max(T)])
    BY <1>3
  <2>1. Max(T) \in S /\ h[T \ {Max(T)}] \in W
    BY <1>1
  <2> HIDE DEF S
  <2> QED BY <2>1
<1>5. IsIter(h)
  <2> HIDE DEF S, step, index
  <2> QED BY <1>3, <1>4
<1>6. IsIter(iter)
  <2> HIDE DEF IsIter
  <2> QED BY <1>5
<1>7. /\ iter[{}] \in W
      /\ \A T \in SUBSET S : T # {} /\ iter[T \ {Max(T)}] \in W => iter[T] \in W
  <2>1. \A T \in SUBSET S : iter[T] = IF T = {} THEN s ELSE ClaimedNext(iter[T \ {Max(T)}], a, index[Max(T)])
    <3> HIDE DEF S, index, iter
    <3> QED BY <1>6
  <2>2. \A T \in SUBSET S : T # {} => Max(T) \in S /\ index[Max(T)] = Max(T)
    BY <1>1
  <2> HIDE DEF iter, index
  <2> QED BY <2>1, <2>2
<1>8. iter[S] \in W
  <2> HIDE DEF iter, S
  <2> QED BY <1>1, <1>7, FoldStays
<1>9. ClaimedAll(s, a) = iter[S]
  <2>1. DOMAIN index = S /\ index = [i \in DOMAIN distributions |-> i]
    OBVIOUS
  <2> HIDE DEF S, index
  <2> QED BY <2>1, Zenon DEF ClaimedAll, FoldLeft, MapThenFoldSet
<1> QED BY <1>8, <1>9
-----------------------------------------------------------------------------
(* Shares.                                                                 *)

\* A quotient, times what was divided by, is at most what was divided.
LEMMA DivBounds ==
  \A x \in Nat, y \in Nat \ {0} : x \div y \in Nat /\ (x \div y) * y <= x
OBVIOUS

\* The part of x that z in y makes is at most x.
LEMMA PartOf ==
  \A x, z \in Nat, y \in Nat \ {0} : z <= y => (x * z) \div y \in 0..x
OBVIOUS

\* However the share of a token and the shares of the holders are rounded, all the
\* holders' shares together are within the amount distributed.
LEMMA SharesWithinAmount ==
  ASSUME NEW h \in [Holder -> Nat], NEW supply \in Nat \ {0}, NEW amount \in Nat,
         SumFunctionOnSet(h, Holder) <= supply
  PROVE  SumFunctionOnSet([a \in Holder |-> (h[a] * PerToken(amount, supply)) \div Scale], Holder)
           <= amount
<1> DEFINE p == PerToken(amount, supply)
           share == [a \in Holder |-> (h[a] * p) \div Scale]
           scaled == [a \in Holder |-> Scale * share[a]]
           owed == [a \in Holder |-> p * h[a]]
           H == SumFunctionOnSet(h, Holder)
           K == SumFunctionOnSet(share, Holder)
<1>1. IsFiniteSet(Holder) /\ Scale \in Nat \ {0}
  BY PoolAssumption
<1>2. p \in Nat /\ p * supply <= amount * Scale
  BY <1>1, DivBounds DEF PerToken
<1> HIDE DEF p
<1>3. \A a \in Holder : h[a] \in Nat /\ share[a] \in Nat /\ scaled[a] \in Nat /\ owed[a] \in Nat
                          /\ scaled[a] <= owed[a]
  <2> TAKE a \in Holder
  <2>1. h[a] * p \in Nat
    BY <1>2
  <2>2. share[a] \in Nat /\ share[a] * Scale <= h[a] * p
    BY <1>1, <2>1, DivBounds
  <2> HIDE DEF share
  <2> QED BY <1>1, <1>2, <2>2
<1>4. SumFunctionOnSet(scaled, Holder) <= SumFunctionOnSet(owed, Holder)
  <2> HIDE DEF scaled, owed
  <2> QED BY <1>1, <1>3, SumMonotone
<1>5. SumFunctionOnSet(scaled, Holder) = Scale * K
  <2>1. \A a \in Holder : share[a] \in Int /\ scaled[a] = Scale * share[a]
    BY <1>3
  <2> HIDE DEF scaled, share
  <2> QED BY <1>1, <2>1, SumTimes
<1>6. SumFunctionOnSet(owed, Holder) = p * H
  <2>1. \A a \in Holder : h[a] \in Int /\ owed[a] = p * h[a]
    BY <1>3
  <2> HIDE DEF owed
  <2> QED BY <1>1, <1>2, <2>1, SumTimes
<1>7. K \in Nat /\ H \in Nat /\ H <= supply
  <2> HIDE DEF share
  <2> QED BY <1>1, <1>3, SumType
<1> HIDE DEF K, H, share, scaled, owed
<1>8. p * H <= p * supply
  BY <1>2, <1>7
<1>9. Scale * K <= amount * Scale
  <2>1. p * H \in Nat /\ p * supply \in Nat /\ amount * Scale \in Nat /\ Scale * K \in Nat
    BY <1>1, <1>2, <1>7
  <2> QED BY <1>2, <1>4, <1>5, <1>6, <1>8, <2>1
<1>10. K <= amount
  BY <1>1, <1>7, <1>9
<1> QED BY <1>10 DEF K, share, p
-----------------------------------------------------------------------------
(* Types.                                                                  *)

Distribution ==
    [total_amount : Nat, per_token_amount : Nat, start_time : Nat, claim_deadline : Nat,
     is_active : BOOLEAN]

\* The copies a call works on, and what they keep beside their types.
Copy ==
    [distributions : Seq(Distribution), claimed : Seq(SUBSET Holder), clm_tot : Seq(Nat),
     pool : Nat, holding : [Holder -> Nat], total_supply : Nat, ok : BOOLEAN]

Proper(s) ==
    /\ Len(s.claimed) = Len(s.distributions) /\ Len(s.clm_tot) = Len(s.distributions)
    /\ \A d \in DOMAIN s.distributions :
          /\ s.distributions[d].total_amount > 0
          /\ s.distributions[d].start_time < s.distributions[d].claim_deadline
    /\ SumFunctionOnSet(s.holding, Holder) <= s.total_supply

RateRecord == [amount_per_second : Int, last_accrual_update : Nat, total_accrued : Int]

EnvTypes ==
    /\ frozen \in BOOLEAN /\ config \in ConfigRecord /\ config.fee_rate \in 0..MaxFeeRate
    /\ snapshot \in [Holder -> {<<>>} \union {<<t>> : t \in 0..now}]
    /\ raw_multiplier \in [Holder -> Nat]
    /\ max_boost \in Nat /\ reinvesting \subseteq Holder /\ vwap \in Nat
    /\ accrual \in {<<>>} \union {<<r>> : r \in RateRecord}
    /\ accrual_claimed \in [Holder -> Int]
    /\ last_auto \in 0..now /\ now \in 0..MaxTime

Types == Contract \in Copy /\ Proper(Contract) /\ EnvTypes

\* The types of the proof contain the type invariant.
LEMMA TypesImplyTypeOK == Types => TypeOK
<1> SUFFICES ASSUME Types PROVE TypeOK
  OBVIOUS
<1>1. /\ distributions \in Seq(Distribution) /\ claimed \in Seq(SUBSET Holder) /\ clm_tot \in Seq(Nat)
      /\ pool \in Nat /\ holding \in [Holder -> Nat] /\ total_supply \in Nat
  BY DEF Types, Copy, Contract
<1>2. /\ Len(claimed) = Len(distributions) /\ Len(clm_tot) = Len(distributions)
      /\ \A d \in DOMAIN distributions :
            /\ distributions[d].total_amount > 0
            /\ distributions[d].start_time < distributions[d].claim_deadline
      /\ SumFunctionOnSet(holding, Holder) <= total_supply
  BY DEF Types, Proper, Contract
<1>3. \A d \in DOMAIN distributions :
         /\ distributions[d].per_token_amount >= 0
         /\ claimed[d] \subseteq Holder /\ clm_tot[d] \in Nat
  <2> TAKE d \in DOMAIN distributions
  <2>1. distributions[d] \in Distribution /\ claimed[d] \in SUBSET Holder /\ clm_tot[d] \in Nat
    BY <1>1, <1>2
  <2> QED BY <2>1 DEF Distribution
<1>4. total_supply >= SumFunctionOnSet(holding, Holder)
  <2>1. IsFiniteSet(Holder) /\ \A a \in Holder : holding[a] \in Int
    BY <1>1, PoolAssumption
  <2>2. SumFunctionOnSet(holding, Holder) \in Int
    BY <2>1, SumType
  <2> QED BY <1>1, <1>2, <2>2
<1>5. EnvTypes
  BY DEF Types
<1> QED BY <1>1, <1>2, <1>3, <1>4, <1>5 DEF TypeOK, EnvTypes

-----------------------------------------------------------------------------
(* What a claim does.                                                      *)

ShareIn(s, x, d) == (x * s.distributions[d].per_token_amount) \div Scale

OpenIn(s) ==
    {d \in DOMAIN s.distributions :
        s.distributions[d].is_active /\ now <= s.distributions[d].claim_deadline}

\* A fee is between nothing and what it is taken from.
LEMMA FeeFacts == ASSUME EnvTypes, NEW g \in Nat PROVE Fee(g) \in 0..g
<1>1. config.fee_rate \in Nat /\ config.fee_rate <= 10000
  <2>1. MaxFeeRate \in 0..10000
    BY PoolAssumption
  <2>2. MaxFeeRate \in Nat /\ MaxFeeRate <= 10000
    BY <2>1
  <2>3. config.fee_rate \in 0..MaxFeeRate
    BY DEF EnvTypes
  <2> HIDE <2>1
  <2> QED BY <2>2, <2>3
<1> QED BY <1>1, PartOf DEF Fee

\* The time weight is between nothing and one.
LEMMA WeightFacts ==
  ASSUME EnvTypes, NEW a \in Holder, NEW d \in Distribution, d.start_time < d.claim_deadline
  PROVE  TimeWeight(a, d) \in 0..One
<1> DEFINE period == d.claim_deadline - d.start_time
           since  == IF snapshot[a] = <<>> \/ snapshot[a][1] <= d.start_time
                     THEN d.start_time ELSE snapshot[a][1]
           until  == IF now < d.claim_deadline THEN now ELSE d.claim_deadline
           weight == ((until - since) * One) \div period
<1>1. d.start_time \in Nat /\ d.claim_deadline \in Nat /\ period \in Nat \ {0}
  BY DEF Distribution
<1>2. since \in Nat
  <2>1. snapshot[a] # <<>> => snapshot[a][1] \in 0..now
    BY DEF EnvTypes
  <2> QED BY <1>1, <2>1 DEF EnvTypes
<1>3. until \in Nat
  BY <1>1 DEF EnvTypes
<1>4. One \in Nat
  BY PoolAssumption
<1>5. ~(until <= since) => weight \in Nat
  <2> HIDE DEF period, since, until
  <2> SUFFICES ASSUME ~(until <= since) PROVE weight \in Nat
    OBVIOUS
  <2>1. (until - since) * One \in Nat
    BY <1>2, <1>3, <1>4
  <2> QED BY <1>1, <2>1, DivBounds
<1>6. TimeWeight(a, d) = IF until <= since THEN 0 ELSE IF weight > One THEN One ELSE weight
  BY DEF TimeWeight
<1> HIDE DEF weight, until, since
<1> QED BY <1>4, <1>5, <1>6

\* A holder's share follows from what they hold, and weighted it is no more.
LEMMA ShareFacts ==
  ASSUME EnvTypes, NEW s \in Copy, Proper(s), s.distributions = distributions,
         NEW a \in Holder, NEW d \in DOMAIN distributions
  PROVE  /\ Share(s, a, d) \in Nat /\ Share(s, a, d) = ShareIn(s, s.holding[a], d)
         /\ Weighted(s, a, d) \in 0..Share(s, a, d)
<1>1. s.holding[a] \in Nat /\ distributions \in Seq(Distribution)
  BY DEF Copy
<1>2. distributions[d] \in Distribution
  BY <1>1
<1>3. distributions[d].start_time < distributions[d].claim_deadline
  BY DEF Proper
<1>4. Scale \in Nat \ {0} /\ One \in Nat \ {0}
  BY PoolAssumption
<1>5. s.holding[a] * distributions[d].per_token_amount \in Nat
  BY <1>1, <1>2 DEF Distribution
<1>6. Share(s, a, d) \in Nat /\ Share(s, a, d) = ShareIn(s, s.holding[a], d)
  BY <1>4, <1>5, DivBounds DEF Share, ShareOf, ShareIn
<1>7. TimeWeight(a, distributions[d]) \in 0..One
  BY <1>2, <1>3, WeightFacts
<1>8. Weighted(s, a, d) \in 0..Share(s, a, d)
  BY <1>4, <1>6, <1>7, PartOf DEF Weighted
<1> QED BY <1>6, <1>8
\* A payment that succeeds takes its amount from the pool and changes nothing else.
LEMMA PaidOutFacts ==
  ASSUME NEW s \in Copy, NEW x \in Int, NEW r, r = PaidOut(s, x)
  PROVE  /\ r \in Copy
         /\ r.distributions = s.distributions /\ r.claimed = s.claimed /\ r.clm_tot = s.clm_tot
         /\ r.holding = s.holding /\ r.total_supply = s.total_supply
         /\ r.ok => s.ok /\ r.pool = s.pool - x
<1>1. s.pool \in Nat
  BY DEF Copy
<1>2. CASE x < 0 \/ x > s.pool
  <2>1. r = [s EXCEPT !.ok = FALSE]
    BY <1>2 DEF PaidOut, Panic
  <2> QED BY <2>1 DEF Copy
<1>3. CASE ~(x < 0 \/ x > s.pool)
  <2>1. r = [s EXCEPT !.pool = @ - x] /\ s.pool - x \in Nat
    BY <1>1, <1>3 DEF PaidOut
  <2> QED BY <2>1 DEF Copy
<1> QED BY <1>2, <1>3

Minted(s, a, b) == [s EXCEPT !.holding[a] = @ + b, !.total_supply = @ + b]

\* Tokens minted for what is reinvested stay within the supply.
LEMMA MintedFacts ==
  ASSUME NEW s \in Copy, Proper(s), NEW a \in Holder, NEW b \in Nat,
         NEW r, r = Minted(s, a, b)
  PROVE  /\ r \in Copy
         /\ r.distributions = s.distributions /\ r.claimed = s.claimed /\ r.clm_tot = s.clm_tot
         /\ r.pool = s.pool /\ r.ok = s.ok
         /\ r.total_supply = s.total_supply + b
         /\ SumFunctionOnSet(r.holding, Holder) <= r.total_supply
<1>1. s.holding \in [Holder -> Nat] /\ s.total_supply \in Nat
  BY DEF Copy
<1> DEFINE h == [s.holding EXCEPT ![a] = @ + b]
<1>2. h \in [Holder -> Nat] /\ h[a] = s.holding[a] + b /\ s.total_supply + b \in Nat
        /\ \A c \in Holder \ {a} : h[c] = s.holding[c]
  BY <1>1
<1>3. r = [s EXCEPT !.holding = h, !.total_supply = s.total_supply + b]
  BY DEF Copy, Minted
<1>4. r \in Copy /\ r.holding = h /\ r.total_supply = s.total_supply + b
  <2> HIDE DEF h
  <2> QED BY <1>2, <1>3 DEF Copy
<1>5. /\ r.distributions = s.distributions /\ r.claimed = s.claimed /\ r.clm_tot = s.clm_tot
      /\ r.pool = s.pool /\ r.ok = s.ok
  <2> HIDE DEF h
  <2> QED BY <1>3 DEF Copy
<1>6. SumFunctionOnSet(h, Holder) <= s.total_supply + b
  <2>1. /\ IsFiniteSet(Holder)
        /\ \A c \in Holder : s.holding[c] \in Int /\ h[c] \in Int
        /\ \A c \in Holder \ {a} : h[c] = s.holding[c]
    BY <1>1, <1>2, PoolAssumption
  <2> HIDE DEF h
  <2>2. SumFunctionOnSet(h, Holder) = SumFunctionOnSet(s.holding, Holder) - s.holding[a] + h[a]
    BY <2>1, SumUpdate
  <2>3. SumFunctionOnSet(s.holding, Holder) \in Int
    BY <2>1, SumType
  <2>4. SumFunctionOnSet(s.holding, Holder) <= s.total_supply
    BY DEF Proper
  <2> QED BY <1>1, <1>2, <2>2, <2>3, <2>4
<1> QED BY <1>4, <1>5, <1>6

Put(q, d, v) == [q EXCEPT ![d] = v]

\* r is s with a's claim of net from d recorded.
RecordedAs(s, r, a, d, net) ==
    /\ r \in Copy
    /\ r.distributions = s.distributions /\ r.holding = s.holding
    /\ r.total_supply = s.total_supply /\ r.pool = s.pool /\ r.ok = s.ok
    /\ Len(r.claimed) = Len(s.claimed) /\ Len(r.clm_tot) = Len(s.clm_tot)
    /\ r.claimed = Put(s.claimed, d, s.claimed[d] \union {a})
    /\ r.clm_tot = Put(s.clm_tot, d, s.clm_tot[d] + net)

\* A claim that is recorded changes the records of its distribution only.
LEMMA RecordedFacts ==
  ASSUME NEW s \in Copy, NEW a \in Holder, NEW d \in 1..Len(s.claimed), d \in 1..Len(s.clm_tot),
         NEW net \in Nat
  PROVE  RecordedAs(s, Recorded(s, a, d, net), a, d, net)
<1> DEFINE c == [s.claimed EXCEPT ![d] = s.claimed[d] \union {a}]
           t == [s.clm_tot EXCEPT ![d] = s.clm_tot[d] + net]
           r == Recorded(s, a, d, net)
<1>1. s.claimed \in Seq(SUBSET Holder) /\ s.clm_tot \in Seq(Nat)
  BY DEF Copy
<1>2. s.claimed[d] \union {a} \in SUBSET Holder /\ s.clm_tot[d] + net \in Nat
  BY <1>1, ElementOfSeq
<1>3. c \in Seq(SUBSET Holder) /\ Len(c) = Len(s.claimed)
  BY <1>1, <1>2, ExceptSeq
<1>4. t \in Seq(Nat) /\ Len(t) = Len(s.clm_tot)
  BY <1>1, <1>2, ExceptSeq
<1>5. r = [s EXCEPT !.claimed = c, !.clm_tot = t]
  BY DEF Recorded, Copy
<1> HIDE DEF c, t, r
<1>6. /\ r \in Copy /\ r.claimed = c /\ r.clm_tot = t
      /\ r.distributions = s.distributions /\ r.holding = s.holding
      /\ r.total_supply = s.total_supply /\ r.pool = s.pool /\ r.ok = s.ok
  BY <1>3, <1>4, <1>5 DEF Copy
<1>7. c = Put(s.claimed, d, s.claimed[d] \union {a}) /\ t = Put(s.clm_tot, d, s.clm_tot[d] + net)
  BY DEF c, t, Put
<1> QED BY <1>3, <1>4, <1>6, <1>7 DEF RecordedAs, r

\* A claim that is recorded leaves a proper copy.
LEMMA ProperRecorded ==
  ASSUME NEW s \in Copy, Proper(s), NEW t \in Copy, t.distributions = s.distributions,
         t.claimed = s.claimed, t.clm_tot = s.clm_tot,
         SumFunctionOnSet(t.holding, Holder) <= t.total_supply,
         NEW a \in Holder, NEW d \in DOMAIN s.distributions, NEW net \in Nat
  PROVE  /\ RecordedAs(t, Recorded(t, a, d, net), a, d, net)
         /\ Proper(Recorded(t, a, d, net))
<1>1. s.distributions \in Seq(Distribution)
  BY DEF Copy
<1>2. d \in 1..Len(t.claimed) /\ d \in 1..Len(t.clm_tot)
  BY <1>1 DEF Proper
<1> DEFINE r == Recorded(t, a, d, net)
<1>3. RecordedAs(t, r, a, d, net)
  BY <1>2, RecordedFacts
<1> HIDE DEF r
<1> QED BY <1>3 DEF Proper, RecordedAs, r

\* A claim that goes through: d was open, a had no record under it and now has one.
Pays(s, r, a, d, net) ==
    /\ s.ok /\ ~frozen /\ d \in OpenIn(s) /\ a \notin s.claimed[d]
    /\ r.claimed = Put(s.claimed, d, s.claimed[d] \union {a})
    /\ r.clm_tot = Put(s.clm_tot, d, s.clm_tot[d] + net)
    /\ r.total_supply >= s.total_supply

\* It pays and records no more than the share.
Modest(s, r, a, d, net) ==
    /\ r.holding = s.holding
    /\ net <= ShareIn(s, s.holding[a], d)
    /\ r.pool >= s.pool - ShareIn(s, s.holding[a], d)

\* A claim that succeeds pays once, and no more than the share where nothing is minted.
LEMMA ClaimedFacts ==
  ASSUME EnvTypes, NEW s \in Copy, Proper(s), s.distributions = distributions,
         NEW a \in Holder, NEW d \in DOMAIN distributions, NEW r, r = Claimed(s, a, d)
  PROVE  /\ r \in Copy /\ Proper(r) /\ r.distributions = s.distributions
         /\ r.ok => \E net \in Nat : /\ Pays(s, r, a, d, net)
                                     /\ r.total_supply = s.total_supply => Modest(s, r, a, d, net)
<1> DEFINE gross  == Weighted(s, a, d)
           net    == gross - Fee(gross)
           bought == Bought(a, net)
           minted == [PaidOut(s, Fee(gross)) EXCEPT !.holding[a] = @ + bought,
                                                    !.total_supply = @ + bought]
           paid   == IF bought > 0 THEN minted ELSE PaidOut(s, gross)
           share  == ShareIn(s, s.holding[a], d)
<1>1. gross \in 0..share /\ share \in Nat /\ Fee(gross) \in 0..gross /\ net \in 0..gross
  <2>1. gross \in 0..share /\ share \in Nat
    BY ShareFacts
  <2>2. Fee(gross) \in 0..gross
    BY <2>1, FeeFacts
  <2> QED BY <2>1, <2>2
<1>2. bought \in Nat
  <2>1. vwap \in Nat
    BY DEF EnvTypes
  <2> QED BY <1>1, <2>1, DivBounds DEF Bought
<1>3. r = IF frozen \/ ~Open(d) \/ a \in s.claimed[d] \/ gross <= 0 THEN Panic(s)
          ELSE Recorded(paid, a, d, net)
  BY DEF Claimed
<1>4. s.total_supply \in Nat /\ s.pool \in Nat
  BY DEF Copy
<1> HIDE DEF gross, net, bought, share
<1>5. /\ paid \in Copy /\ paid.distributions = s.distributions
      /\ paid.claimed = s.claimed /\ paid.clm_tot = s.clm_tot
      /\ SumFunctionOnSet(paid.holding, Holder) <= paid.total_supply
      /\ paid.ok => /\ s.ok /\ paid.total_supply >= s.total_supply
                    /\ paid.total_supply = s.total_supply =>
                          paid.holding = s.holding /\ paid.pool = s.pool - gross
  <2>1. CASE bought > 0
    <3> DEFINE q == PaidOut(s, Fee(gross))
    <3>1. /\ q \in Copy
          /\ q.distributions = s.distributions /\ q.claimed = s.claimed /\ q.clm_tot = s.clm_tot
          /\ q.holding = s.holding /\ q.total_supply = s.total_supply
          /\ q.ok => s.ok /\ q.pool = s.pool - Fee(gross)
      BY <1>1, PaidOutFacts
    <3> HIDE DEF q
    <3>2. Proper(q)
      BY <3>1 DEF Proper
    <3>3. paid = Minted(q, a, bought)
      BY <2>1 DEF q, Minted
    <3> HIDE DEF minted, paid
    <3>4. /\ paid \in Copy
          /\ paid.distributions = q.distributions /\ paid.claimed = q.claimed
          /\ paid.clm_tot = q.clm_tot /\ paid.pool = q.pool /\ paid.ok = q.ok
          /\ paid.total_supply = q.total_supply + bought
          /\ SumFunctionOnSet(paid.holding, Holder) <= paid.total_supply
      BY <1>2, <3>1, <3>2, <3>3, MintedFacts
    <3> QED BY <1>2, <1>4, <2>1, <3>1, <3>4
  <2>2. CASE ~(bought > 0)
    <3>1. paid = PaidOut(s, gross) /\ gross \in Int
      BY <1>1, <2>2
    <3> HIDE DEF minted, paid
    <3>2. /\ paid \in Copy
          /\ paid.distributions = s.distributions /\ paid.claimed = s.claimed
          /\ paid.clm_tot = s.clm_tot
          /\ paid.holding = s.holding /\ paid.total_supply = s.total_supply
          /\ paid.ok => s.ok /\ paid.pool = s.pool - gross
      BY <3>1, PaidOutFacts
    <3> QED BY <1>4, <3>2 DEF Proper
  <2> QED BY <2>1, <2>2
<1>6. CASE frozen \/ ~Open(d) \/ a \in s.claimed[d] \/ gross <= 0
  <2>1. r = [s EXCEPT !.ok = FALSE]
    BY <1>3, <1>6 DEF Panic
  <2> QED BY <2>1 DEF Copy, Proper
<1>7. CASE ~(frozen \/ ~Open(d) \/ a \in s.claimed[d] \/ gross <= 0)
  <2>1. r = Recorded(paid, a, d, net) /\ net \in Nat
    BY <1>1, <1>3, <1>7
  <2> HIDE DEF minted, paid
  <2>2. RecordedAs(paid, r, a, d, net) /\ Proper(r)
    BY <1>5, <2>1, ProperRecorded
  <2>3. d \in OpenIn(s) /\ ~frozen /\ a \notin s.claimed[d]
    BY <1>7 DEF OpenIn, Open
  <2>4. r.ok => Pays(s, r, a, d, net)
    BY <1>5, <2>2, <2>3 DEF Pays, RecordedAs
  <2>5. net <= share /\ s.pool - gross >= s.pool - share
    BY <1>1, <1>4
  <2>6. r.ok /\ r.total_supply = s.total_supply => Modest(s, r, a, d, net)
    BY <1>5, <2>2, <2>5 DEF Modest, RecordedAs, share
  <2> QED BY <1>5, <2>1, <2>2, <2>4, <2>6 DEF RecordedAs
<1> QED BY <1>6, <1>7
\* A boosted claim that succeeds pays once, and no more than the share without a boost.
LEMMA BoostedFacts ==
  ASSUME EnvTypes, NEW s \in Copy, Proper(s), s.distributions = distributions,
         NEW a \in Holder, NEW d \in DOMAIN distributions, NEW r, r = ClaimedBoosted(s, a, d)
  PROVE  /\ r \in Copy /\ Proper(r) /\ r.distributions = s.distributions
         /\ r.ok => \E net \in Nat : /\ Pays(s, r, a, d, net)
                                     /\ Multiplier(a) <= One => Modest(s, r, a, d, net)
<1> DEFINE share == Share(s, a, d)
           gross == (share * Multiplier(a)) \div One
           net   == gross - Fee(gross)
           paid  == PaidOut(s, gross)
<1>1. share \in Nat /\ share = ShareIn(s, s.holding[a], d)
  BY ShareFacts
<1>2. Multiplier(a) \in Nat /\ One \in Nat \ {0}
  <2>1. raw_multiplier[a] \in Nat /\ max_boost \in Nat
    BY DEF EnvTypes
  <2> QED BY <2>1, PoolAssumption DEF Multiplier
<1> HIDE DEF share
<1>3. gross \in Nat /\ (Multiplier(a) <= One => gross <= share)
  <2>1. share * Multiplier(a) \in Nat
    BY <1>1, <1>2
  <2> QED BY <1>1, <1>2, <2>1, DivBounds, PartOf
<1>4. r = IF frozen \/ ~Open(d) \/ a \in s.claimed[d] \/ share <= 0 THEN Panic(s)
          ELSE Recorded(paid, a, d, net)
  BY DEF ClaimedBoosted, share
<1>5. s.total_supply \in Nat /\ s.pool \in Nat
  BY DEF Copy
<1> HIDE DEF gross
<1>6. net \in Nat /\ net <= gross
  BY <1>3, FeeFacts
<1>7. /\ paid \in Copy
      /\ paid.distributions = s.distributions /\ paid.claimed = s.claimed
      /\ paid.clm_tot = s.clm_tot
      /\ paid.holding = s.holding /\ paid.total_supply = s.total_supply
      /\ paid.ok => s.ok /\ paid.pool = s.pool - gross
  BY <1>3, PaidOutFacts
<1> HIDE DEF net, paid
<1>8. CASE frozen \/ ~Open(d) \/ a \in s.claimed[d] \/ share <= 0
  <2>1. r = [s EXCEPT !.ok = FALSE]
    BY <1>4, <1>8 DEF Panic
  <2> QED BY <2>1 DEF Copy, Proper
<1>9. CASE ~(frozen \/ ~Open(d) \/ a \in s.claimed[d] \/ share <= 0)
  <2>1. r = Recorded(paid, a, d, net)
    BY <1>4, <1>9
  <2>2. SumFunctionOnSet(paid.holding, Holder) <= paid.total_supply
    BY <1>7 DEF Proper
  <2>3. RecordedAs(paid, r, a, d, net) /\ Proper(r)
    BY <1>6, <1>7, <2>1, <2>2, ProperRecorded
  <2>4. d \in OpenIn(s) /\ ~frozen /\ a \notin s.claimed[d]
    BY <1>9 DEF OpenIn, Open
  <2>5. r.ok => Pays(s, r, a, d, net)
    BY <1>5, <1>7, <2>3, <2>4 DEF Pays, RecordedAs
  <2>6. Multiplier(a) <= One => net <= share /\ s.pool - gross >= s.pool - share
    BY <1>1, <1>3, <1>5, <1>6
  <2>7. r.ok /\ Multiplier(a) <= One => Modest(s, r, a, d, net)
    BY <1>1, <1>7, <2>3, <2>6 DEF Modest, RecordedAs
  <2> QED BY <1>6, <1>7, <2>3, <2>5, <2>7 DEF RecordedAs
<1> QED BY <1>8, <1>9

-----------------------------------------------------------------------------
(* What the distributions and the pool are committed to.                   *)

\* What the holders without a record under d may claim with what they hold.
Unclaimed(s, d) ==
    SumFunctionOnSet([a \in Holder |-> ShareIn(s, s.holding[a], d)], Holder \ s.claimed[d])

Committed(s, d) == s.clm_tot[d] + Unclaimed(s, d)

Slack(s) == s.pool - SumFunctionOnSet([d \in OpenIn(s) |-> Unclaimed(s, d)], OpenIn(s))

\* From s to r records of claims are only added, one for whatever was paid.
OnceOnly(s, r) ==
    \A d \in DOMAIN s.distributions :
        /\ s.claimed[d] \subseteq r.claimed[d]
        /\ r.clm_tot[d] > s.clm_tot[d] => r.claimed[d] # s.claimed[d]

\* From s to r no distribution is committed to more and the pool has no less to spare.
Within(s, r) ==
    /\ r.holding = s.holding
    /\ \A d \in DOMAIN s.distributions : Committed(r, d) <= Committed(s, d)
    /\ Slack(r) >= Slack(s)

\* Every distribution has its holders who claimed and what they were paid.
LEMMA ElementTypes ==
  ASSUME NEW s \in Copy, Proper(s), NEW d \in DOMAIN s.distributions
  PROVE  /\ s.distributions[d] \in Distribution
         /\ s.claimed[d] \in SUBSET Holder /\ s.clm_tot[d] \in Nat
         /\ DOMAIN s.claimed = DOMAIN s.distributions /\ DOMAIN s.clm_tot = DOMAIN s.distributions
<1>1. s.distributions \in Seq(Distribution) /\ s.claimed \in Seq(SUBSET Holder) /\ s.clm_tot \in Seq(Nat)
  BY DEF Copy
<1>2. Len(s.claimed) = Len(s.distributions) /\ Len(s.clm_tot) = Len(s.distributions)
  BY DEF Proper
<1> QED BY <1>1, <1>2

\* The share of what is held is a natural.
LEMMA ShareType ==
  ASSUME NEW s \in Copy, Proper(s), NEW d \in DOMAIN s.distributions, NEW x \in Nat
  PROVE  ShareIn(s, x, d) \in Nat
<1>1. s.distributions[d].per_token_amount \in Nat
  BY ElementTypes DEF Distribution
<1>2. x * s.distributions[d].per_token_amount \in Nat
  BY <1>1
<1> QED BY <1>2, DivBounds, PoolAssumption DEF ShareIn

\* What is unclaimed of a distribution, and what it is committed to, are naturals.
LEMMA UnclaimedType ==
  ASSUME NEW s \in Copy, Proper(s), NEW d \in DOMAIN s.distributions
  PROVE  Unclaimed(s, d) \in Nat /\ Committed(s, d) \in Nat
<1> DEFINE f == [a \in Holder |-> ShareIn(s, s.holding[a], d)]
           S == Holder \ s.claimed[d]
<1>1. \A a \in Holder : f[a] \in Nat
  <2>1. \A a \in Holder : s.holding[a] \in Nat
    BY DEF Copy
  <2> QED BY <2>1, ShareType
<1>2. IsFiniteSet(S)
  BY FS_Subset, PoolAssumption
<1>3. SumFunctionOnSet(f, S) \in Nat
  <2> HIDE DEF f
  <2> QED BY <1>1, <1>2, SumType
<1>4. s.clm_tot[d] \in Nat
  BY ElementTypes
<1> QED BY <1>3, <1>4 DEF Unclaimed, Committed

\* The open distributions are finitely many.
LEMMA OpenFinite ==
  ASSUME NEW s \in Copy
  PROVE  IsFiniteSet(OpenIn(s)) /\ OpenIn(s) \subseteq DOMAIN s.distributions
<1>1. s.distributions \in Seq(Distribution)
  BY DEF Copy
<1>2. IsFiniteSet(DOMAIN s.distributions)
  BY <1>1, FS_Interval, LenProperties
<1> QED BY <1>2, FS_Subset DEF OpenIn

\* What the pool has to spare is an integer.
LEMMA SlackType ==
  ASSUME NEW s \in Copy, Proper(s)
  PROVE  Slack(s) \in Int
<1> DEFINE g == [d \in OpenIn(s) |-> Unclaimed(s, d)]
<1>1. \A d \in OpenIn(s) : g[d] \in Nat
  BY OpenFinite, UnclaimedType
<1>2. SumFunctionOnSet(g, OpenIn(s)) \in Nat
  <2> HIDE DEF g
  <2> QED BY <1>1, OpenFinite, SumType
<1>3. s.pool \in Nat
  BY DEF Copy
<1> QED BY <1>2, <1>3 DEF Slack
\* Changing one element of a sequence changes no other.
LEMMA PutFacts ==
  ASSUME NEW q, NEW d \in DOMAIN q, NEW v
  PROVE  Put(q, d, v)[d] = v /\ \A e \in DOMAIN q \ {d} : Put(q, d, v)[e] = q[e]
BY DEF Put

\* What pays one holder of one distribution only adds a record for it.
LEMMA PaysOnce ==
  ASSUME NEW s \in Copy, Proper(s), NEW a \in Holder, NEW d \in DOMAIN s.distributions,
         NEW net \in Nat, NEW r, Pays(s, r, a, d, net)
  PROVE  OnceOnly(s, r)
<1> SUFFICES ASSUME NEW e \in DOMAIN s.distributions
             PROVE  /\ s.claimed[e] \subseteq r.claimed[e]
                    /\ r.clm_tot[e] > s.clm_tot[e] => r.claimed[e] # s.claimed[e]
  BY DEF OnceOnly
<1>1. /\ d \in DOMAIN s.claimed /\ d \in DOMAIN s.clm_tot /\ e \in DOMAIN s.claimed
      /\ e \in DOMAIN s.clm_tot /\ s.clm_tot[e] \in Nat
  BY ElementTypes
<1>2. /\ r.claimed = Put(s.claimed, d, s.claimed[d] \union {a}) /\ a \notin s.claimed[d]
      /\ r.clm_tot = Put(s.clm_tot, d, s.clm_tot[d] + net)
  BY DEF Pays
<1>3. CASE e = d
  <2>1. r.claimed[e] = s.claimed[e] \union {a} /\ a \notin s.claimed[e]
    BY <1>1, <1>2, <1>3, PutFacts
  <2> QED BY <2>1
<1>4. CASE e # d
  <2>1. r.claimed[e] = s.claimed[e] /\ r.clm_tot[e] = s.clm_tot[e]
    BY <1>1, <1>2, <1>4, PutFacts
  <2> QED BY <1>1, <2>1
<1> QED BY <1>3, <1>4

\* What pays one holder no more than the share keeps every commitment.
LEMMA ModestWithin ==
  ASSUME NEW s \in Copy, Proper(s), NEW a \in Holder, NEW d \in DOMAIN s.distributions,
         NEW net \in Nat, NEW r \in Copy, Proper(r), r.distributions = s.distributions,
         Pays(s, r, a, d, net), Modest(s, r, a, d, net)
  PROVE  Within(s, r)
<1> DEFINE share == ShareIn(s, s.holding[a], d)
           O == OpenIn(s)
           f == [e \in O |-> Unclaimed(s, e)]
           g == [e \in O |-> Unclaimed(r, e)]
<1>1. /\ DOMAIN s.claimed = DOMAIN s.distributions /\ DOMAIN s.clm_tot = DOMAIN s.distributions
      /\ s.clm_tot[d] \in Nat /\ r.clm_tot[d] \in Nat /\ s.pool \in Nat /\ r.pool \in Nat
  BY ElementTypes DEF Copy
<1>2. /\ r.claimed = Put(s.claimed, d, s.claimed[d] \union {a})
      /\ r.clm_tot = Put(s.clm_tot, d, s.clm_tot[d] + net)
      /\ a \in Holder \ s.claimed[d] /\ d \in O
      /\ r.holding = s.holding /\ net <= share /\ r.pool >= s.pool - share
  BY DEF Pays, Modest
<1>3. share \in Nat
  <2>1. s.holding[a] \in Nat
    BY DEF Copy
  <2> QED BY <2>1, ShareType
<1>4. \A e \in DOMAIN s.distributions \ {d} :
         Unclaimed(r, e) = Unclaimed(s, e) /\ Committed(r, e) = Committed(s, e)
  <2> TAKE e \in DOMAIN s.distributions \ {d}
  <2>1. r.claimed[e] = s.claimed[e] /\ r.clm_tot[e] = s.clm_tot[e]
    BY <1>1, <1>2, PutFacts
  <2>2. Unclaimed(r, e) = Unclaimed(s, e)
    BY <1>2, <2>1 DEF Unclaimed, ShareIn
  <2> QED BY <2>1, <2>2 DEF Committed
<1>5. Unclaimed(r, d) = Unclaimed(s, d) - share
  <2> DEFINE h == [c \in Holder |-> ShareIn(s, s.holding[c], d)]
             S == Holder \ s.claimed[d]
  <2>1. r.claimed[d] = s.claimed[d] \union {a}
    BY <1>1, <1>2, PutFacts
  <2>2. \A c \in Holder : h[c] \in Nat
    <3>1. \A c \in Holder : s.holding[c] \in Nat
      BY DEF Copy
    <3> QED BY <3>1, ShareType
  <2>3. IsFiniteSet(S) /\ a \in S /\ IsFiniteSet(S \ {a})
    BY <1>2, FS_Subset, PoolAssumption
  <2>4. SumFunctionOnSet(h, S) = h[a] + SumFunctionOnSet(h, S \ {a})
    <3> HIDE DEF h, S
    <3>1. \A c \in S : h[c] \in Int
      BY <2>2 DEF S
    <3> QED BY <2>3, <3>1, SumRemove
  <2>5. SumFunctionOnSet(h, S \ {a}) \in Nat
    <3> HIDE DEF h
    <3> QED BY <2>2, <2>3, SumType
  <2>6. Unclaimed(s, d) = SumFunctionOnSet(h, S)
    BY DEF Unclaimed
  <2>7. Unclaimed(r, d) = SumFunctionOnSet(h, S \ {a})
    <3>1. Holder \ r.claimed[d] = S \ {a}
      BY <2>1
    <3>2. [c \in Holder |-> ShareIn(r, r.holding[c], d)] = h
      BY <1>2 DEF ShareIn
    <3> HIDE DEF h, S
    <3> QED BY <3>1, <3>2 DEF Unclaimed
  <2>8. h[a] = share
    OBVIOUS
  <2> HIDE DEF h, S, share
  <2> QED BY <1>3, <2>4, <2>5, <2>6, <2>7, <2>8
<1>6. Committed(r, d) <= Committed(s, d)
  <2>1. r.clm_tot[d] = s.clm_tot[d] + net
    BY <1>1, <1>2, PutFacts
  <2>2. Unclaimed(s, d) \in Nat
    BY UnclaimedType
  <2> HIDE DEF share
  <2> QED BY <1>1, <1>2, <1>3, <1>5, <2>1, <2>2 DEF Committed
<1>7. \A e \in DOMAIN s.distributions : Committed(r, e) <= Committed(s, e)
  <2>1. \A e \in DOMAIN s.distributions : Committed(s, e) \in Nat
    BY UnclaimedType
  <2> QED BY <1>4, <1>6, <2>1
<1>8. Slack(r) >= Slack(s)
  <2>1. OpenIn(r) = O
    BY DEF OpenIn
  <2>2. IsFiniteSet(O) /\ O \subseteq DOMAIN s.distributions
    BY OpenFinite
  <2>3. \A e \in O : f[e] \in Int /\ g[e] \in Int
    BY <2>2, UnclaimedType
  <2>4. \A e \in O \ {d} : g[e] = f[e]
    BY <1>4, <2>2
  <2>5. f[d] = Unclaimed(s, d) /\ g[d] = Unclaimed(s, d) - share /\ Unclaimed(s, d) \in Nat
    BY <1>2, <1>5, UnclaimedType
  <2>6. d \in O
    BY <1>2
  <2>7. Slack(s) = s.pool - SumFunctionOnSet(f, O) /\ Slack(r) = r.pool - SumFunctionOnSet(g, O)
    BY <2>1 DEF Slack
  <2> HIDE DEF f, g, O, share
  <2>8. SumFunctionOnSet(g, O) = SumFunctionOnSet(f, O) - f[d] + g[d]
    BY <2>2, <2>3, <2>4, <2>6, SumUpdate
  <2>9. SumFunctionOnSet(f, O) \in Int
    BY <2>2, <2>3, SumType
  <2> QED BY <1>1, <1>2, <1>3, <2>5, <2>7, <2>8, <2>9
<1> QED BY <1>2, <1>7, <1>8 DEF Within

\* What changes nothing pays nobody and keeps every commitment.
LEMMA OnceOnlyReflexive == ASSUME NEW s \in Copy, Proper(s) PROVE OnceOnly(s, s) /\ Within(s, s)
<1>1. \A d \in DOMAIN s.distributions : s.clm_tot[d] \in Nat /\ Committed(s, d) \in Nat
  BY ElementTypes, UnclaimedType
<1>2. Slack(s) \in Int
  BY SlackType
<1> QED BY <1>1, <1>2 DEF OnceOnly, Within

\* Two steps that only add records do so together.
LEMMA OnceOnlyTransitive ==
  ASSUME NEW s \in Copy, NEW t \in Copy, NEW r \in Copy, Proper(s), Proper(t), Proper(r),
         DOMAIN s.distributions \subseteq DOMAIN t.distributions,
         DOMAIN t.distributions \subseteq DOMAIN r.distributions,
         OnceOnly(s, t), OnceOnly(t, r)
  PROVE  OnceOnly(s, r)
<1> SUFFICES ASSUME NEW d \in DOMAIN s.distributions
             PROVE  /\ s.claimed[d] \subseteq r.claimed[d]
                    /\ r.clm_tot[d] > s.clm_tot[d] => r.claimed[d] # s.claimed[d]
  BY DEF OnceOnly
<1>1. d \in DOMAIN t.distributions /\ d \in DOMAIN r.distributions
  OBVIOUS
<1>2. s.clm_tot[d] \in Nat /\ t.clm_tot[d] \in Nat /\ r.clm_tot[d] \in Nat
  BY <1>1, ElementTypes
<1>3. /\ s.claimed[d] \subseteq t.claimed[d]
      /\ t.clm_tot[d] > s.clm_tot[d] => t.claimed[d] # s.claimed[d]
  BY DEF OnceOnly
<1>4. /\ t.claimed[d] \subseteq r.claimed[d]
      /\ r.clm_tot[d] > t.clm_tot[d] => r.claimed[d] # t.claimed[d]
  BY <1>1 DEF OnceOnly
<1> QED BY <1>2, <1>3, <1>4

\* Two steps that keep every commitment do so together.
LEMMA WithinTransitive ==
  ASSUME NEW s \in Copy, NEW t \in Copy, NEW r \in Copy, Proper(s), Proper(t), Proper(r),
         t.distributions = s.distributions, r.distributions = s.distributions,
         Within(s, t), Within(t, r)
  PROVE  Within(s, r)
<1>1. \A d \in DOMAIN s.distributions :
         Committed(s, d) \in Nat /\ Committed(t, d) \in Nat /\ Committed(r, d) \in Nat
  BY UnclaimedType
<1>2. Slack(s) \in Int /\ Slack(t) \in Int /\ Slack(r) \in Int
  BY SlackType
<1>3. \A d \in DOMAIN s.distributions : Committed(r, d) <= Committed(s, d)
  <2> TAKE d \in DOMAIN s.distributions
  <2>1. Committed(t, d) <= Committed(s, d) /\ Committed(r, d) <= Committed(t, d)
    BY DEF Within
  <2> QED BY <1>1, <2>1
<1>4. Slack(r) >= Slack(s)
  BY <1>2 DEF Within
<1> QED BY <1>3, <1>4 DEF Within
\* What claims of one holder do, one or all.
Claims(s, r) ==
    /\ OnceOnly(s, r)
    /\ r.total_supply >= s.total_supply
    /\ r.total_supply = s.total_supply => Within(s, r)

\* One claim only adds records and keeps every commitment.
LEMMA ClaimedClaims ==
  ASSUME EnvTypes, NEW s \in Copy, Proper(s), s.distributions = distributions,
         NEW a \in Holder, NEW d \in DOMAIN distributions
  PROVE  LET r == Claimed(s, a, d)
         IN  /\ r \in Copy /\ Proper(r) /\ r.distributions = s.distributions
             /\ r.ok => Claims(s, r)
<1> DEFINE r == Claimed(s, a, d)
<1>1. /\ r \in Copy /\ Proper(r) /\ r.distributions = s.distributions
      /\ r.ok => \E net \in Nat : /\ Pays(s, r, a, d, net)
                                  /\ r.total_supply = s.total_supply => Modest(s, r, a, d, net)
  BY ClaimedFacts
<1> HIDE DEF r
<1>2. ASSUME r.ok PROVE Claims(s, r)
  <2>1. PICK net \in Nat : /\ Pays(s, r, a, d, net)
                           /\ r.total_supply = s.total_supply => Modest(s, r, a, d, net)
    BY <1>1, <1>2
  <2>2. OnceOnly(s, r)
    BY <2>1, PaysOnce
  <2>3. r.total_supply >= s.total_supply
    BY <2>1 DEF Pays
  <2>4. r.total_supply = s.total_supply => Within(s, r)
    BY <1>1, <2>1, ModestWithin
  <2> QED BY <2>2, <2>3, <2>4 DEF Claims
<1> QED BY <1>1, <1>2 DEF r

\* Two claims are one of several.
LEMMA ClaimsTransitive ==
  ASSUME NEW s \in Copy, NEW t \in Copy, NEW r \in Copy, Proper(s), Proper(t), Proper(r),
         t.distributions = s.distributions, r.distributions = s.distributions,
         Claims(s, t), Claims(t, r)
  PROVE  Claims(s, r)
<1>1. OnceOnly(s, r)
  BY OnceOnlyTransitive DEF Claims
<1>2. s.total_supply \in Nat /\ t.total_supply \in Nat /\ r.total_supply \in Nat
  BY DEF Copy
<1>3. t.total_supply >= s.total_supply /\ r.total_supply >= t.total_supply
  BY DEF Claims
<1>4. r.total_supply = s.total_supply => Within(s, t) /\ Within(t, r)
  BY <1>2, <1>3 DEF Claims
<1>5. r.total_supply = s.total_supply => Within(s, r)
  BY <1>4, WithinTransitive
<1> QED BY <1>1, <1>2, <1>3, <1>5 DEF Claims

\* Claiming everything is a loop of claims.
LEMMA ClaimedAllClaims ==
  ASSUME EnvTypes, NEW s \in Copy, Proper(s), s.distributions = distributions, NEW a \in Holder
  PROVE  LET r == ClaimedAll(s, a)
         IN  /\ r \in Copy /\ Proper(r) /\ r.distributions = s.distributions
             /\ r.ok => Claims(s, r)
<1> DEFINE W == {t \in Copy : /\ Proper(t) /\ t.distributions = s.distributions
                              /\ t.ok => Claims(s, t)}
<1>1. PICK n \in Nat : DOMAIN distributions = 1..n
  <2>1. s.distributions \in Seq(Distribution)
    BY DEF Copy
  <2> QED BY <2>1, LenProperties
<1>2. s \in W
  <2>1. s.total_supply \in Nat
    BY DEF Copy
  <2> QED BY <2>1, OnceOnlyReflexive DEF Claims
<1>3. \A t \in W, d \in 1..n : ClaimedNext(t, a, d) \in W
  <2> TAKE t \in W, d \in 1..n
  <2>1. /\ t \in Copy /\ Proper(t) /\ t.distributions = distributions /\ d \in DOMAIN distributions
        /\ t.ok => Claims(s, t)
    BY <1>1
  <2> DEFINE r == Claimed(t, a, d)
  <2>2. /\ r \in Copy /\ Proper(r) /\ r.distributions = t.distributions
        /\ r.ok => Claims(t, r)
    BY <2>1, ClaimedClaims
  <2> HIDE DEF r
  <2>3. ASSUME t.ok PROVE r \in W
    <3>1. r.ok => Claims(s, r)
      BY <2>1, <2>2, <2>3, ClaimsTransitive
    <3> QED BY <2>1, <2>2, <3>1
  <2>4. ClaimedNext(t, a, d) = t \/ (t.ok /\ ClaimedNext(t, a, d) = r)
    BY DEF ClaimedNext, r
  <2> QED BY <2>3, <2>4
<1>4. ClaimedAll(s, a) \in W
  <2> HIDE DEF W
  <2> QED BY <1>1, <1>2, <1>3, ClaimedAllWithin
<1> QED BY <1>4

-----------------------------------------------------------------------------
(* What the creation of distributions does.                                *)

Covers(s, d) == Committed(s, d) <= s.distributions[d].total_amount

\* From s to r distributions are only added, each within its amount, and each is paid for.
Begun(s, r) ==
    /\ r.holding = s.holding /\ r.total_supply = s.total_supply
    /\ \A d \in DOMAIN s.distributions :
          /\ d \in DOMAIN r.distributions /\ r.distributions[d] = s.distributions[d]
          /\ r.claimed[d] = s.claimed[d] /\ r.clm_tot[d] = s.clm_tot[d]
    /\ \A d \in DOMAIN r.distributions \ DOMAIN s.distributions : Covers(r, d)
    /\ Slack(r) >= Slack(s)

\* What begins distributions leaves the old ones as they are.
LEMMA BegunKeeps ==
  ASSUME NEW s, NEW r, Begun(s, r), NEW d \in DOMAIN s.distributions
  PROVE  /\ Unclaimed(r, d) = Unclaimed(s, d) /\ Committed(r, d) = Committed(s, d)
         /\ Covers(r, d) <=> Covers(s, d)
<1>1. /\ r.holding = s.holding /\ r.distributions[d] = s.distributions[d]
      /\ r.claimed[d] = s.claimed[d] /\ r.clm_tot[d] = s.clm_tot[d]
  BY DEF Begun
<1>2. Unclaimed(r, d) = Unclaimed(s, d)
  BY <1>1 DEF Unclaimed, ShareIn
<1> QED BY <1>1, <1>2 DEF Committed, Covers

\* Two steps that begin distributions do so together.
LEMMA BegunTransitive ==
  ASSUME NEW s \in Copy, NEW t \in Copy, NEW r \in Copy, Proper(s), Proper(t), Proper(r),
         Begun(s, t), Begun(t, r)
  PROVE  Begun(s, r)
<1>1. Slack(r) >= Slack(s)
  <2>1. Slack(s) \in Int /\ Slack(t) \in Int /\ Slack(r) \in Int
    BY SlackType
  <2> QED BY <2>1 DEF Begun
<1>2. \A d \in DOMAIN r.distributions \ DOMAIN s.distributions : Covers(r, d)
  <2> TAKE d \in DOMAIN r.distributions \ DOMAIN s.distributions
  <2>1. CASE d \in DOMAIN t.distributions
    <3>1. Covers(t, d)
      BY <2>1 DEF Begun
    <3> QED BY <2>1, <3>1, BegunKeeps
  <2>2. CASE d \notin DOMAIN t.distributions
    BY <2>2 DEF Begun
  <2> QED BY <2>1, <2>2
<1> QED BY <1>1, <1>2 DEF Begun
\* Appending adds one element and moves no other.
LEMMA AppendFacts ==
  ASSUME NEW V, NEW q \in Seq(V), NEW v \in V
  PROVE  /\ Append(q, v) \in Seq(V) /\ Len(Append(q, v)) = Len(q) + 1
         /\ DOMAIN Append(q, v) = DOMAIN q \union {Len(q) + 1}
         /\ Len(q) \in Nat /\ Len(q) + 1 \notin DOMAIN q
         /\ Append(q, v)[Len(q) + 1] = v
         /\ \A i \in DOMAIN q : Append(q, v)[i] = q[i]
<1>1. Append(q, v) \in Seq(V) /\ Len(Append(q, v)) = Len(q) + 1 /\ Len(q) \in Nat
  OBVIOUS
<1>2. DOMAIN Append(q, v) = 1..(Len(q) + 1) /\ DOMAIN q = 1..Len(q)
  BY <1>1, LenProperties
<1> QED BY <1>1, <1>2

\* Creating a distribution begins one that is paid for.
LEMMA CreatedBegins ==
  ASSUME EnvTypes, NEW s \in Copy, Proper(s), NEW amount \in Int, NEW window \in Nat
  PROVE  LET r == Created(s, amount, window)
         IN  /\ r \in Copy /\ Proper(r)
             /\ r.ok => s.ok /\ Begun(s, r)
<1> DEFINE r == Created(s, amount, window)
           D == [total_amount |-> amount, per_token_amount |-> PerToken(amount, s.total_supply),
                 start_time |-> now, claim_deadline |-> now + window, is_active |-> TRUE]
           n == Len(s.distributions) + 1
           added == [s EXCEPT !.distributions = Append(@, D), !.claimed = Append(@, {}),
                              !.clm_tot = Append(@, 0), !.pool = @ + amount]
<1>1. r = Panic(s) \/ (amount > 0 /\ window > 0 /\ s.total_supply # 0 /\ r = added)
  BY DEF Created
<1>2. /\ s.distributions \in Seq(Distribution) /\ s.claimed \in Seq(SUBSET Holder)
      /\ s.clm_tot \in Seq(Nat) /\ s.pool \in Nat /\ s.holding \in [Holder -> Nat]
      /\ s.total_supply \in Nat
  BY DEF Copy
<1>3. Len(s.claimed) = Len(s.distributions) /\ Len(s.clm_tot) = Len(s.distributions)
  BY DEF Proper
<1>4. CASE r = Panic(s)
  <2>1. r = [s EXCEPT !.ok = FALSE]
    BY <1>4 DEF Panic
  <2> HIDE DEF r
  <2>2. r \in Copy /\ Proper(r) /\ ~r.ok
    BY <2>1 DEF Copy, Proper
  <2> QED BY <2>2 DEF r
<1>5. CASE amount > 0 /\ window > 0 /\ s.total_supply # 0 /\ r = added
  <2> HIDE DEF r
  <2>1. D \in Distribution /\ D.start_time < D.claim_deadline /\ D.total_amount > 0
    <3>1. amount * Scale \in Nat /\ s.total_supply \in Nat \ {0}
      BY <1>2, <1>5, PoolAssumption
    <3>2. PerToken(amount, s.total_supply) \in Nat
      BY <3>1, DivBounds DEF PerToken
    <3>3. now \in Nat
      BY DEF EnvTypes
    <3> QED BY <1>5, <3>2, <3>3 DEF Distribution
  <2>2. D.per_token_amount = PerToken(amount, s.total_supply) /\ D.total_amount = amount
        /\ D.is_active = TRUE /\ now <= D.claim_deadline
    <3>1. now \in Nat
      BY DEF EnvTypes
    <3> QED BY <3>1
  <2> DEFINE ds == Append(s.distributions, D)
             cs == Append(s.claimed, {})
             ts == Append(s.clm_tot, 0)
             p == s.pool + amount
  <2>3. r = [s EXCEPT !.distributions = ds, !.claimed = cs, !.clm_tot = ts, !.pool = p]
    BY <1>5
  <2> HIDE DEF D
  <2>4. /\ ds \in Seq(Distribution) /\ Len(ds) = n
        /\ DOMAIN ds = DOMAIN s.distributions \union {n} /\ n \notin DOMAIN s.distributions
        /\ ds[n] = D /\ \A i \in DOMAIN s.distributions : ds[i] = s.distributions[i]
    BY <1>2, <2>1, AppendFacts
  <2>5. /\ cs \in Seq(SUBSET Holder) /\ Len(cs) = n
        /\ cs[n] = {} /\ \A i \in DOMAIN s.claimed : cs[i] = s.claimed[i]
    <3>1. {} \in SUBSET Holder
      OBVIOUS
    <3> QED BY <1>2, <1>3, <3>1, AppendFacts
  <2>6. /\ ts \in Seq(Nat) /\ Len(ts) = n
        /\ ts[n] = 0 /\ \A i \in DOMAIN s.clm_tot : ts[i] = s.clm_tot[i]
    <3>1. 0 \in Nat
      OBVIOUS
    <3> QED BY <1>2, <1>3, <3>1, AppendFacts
  <2>7. p \in Nat
    BY <1>2, <1>5
  <2> HIDE DEF ds, cs, ts, n, p
  <2>8. /\ r \in Copy /\ r.distributions = ds /\ r.claimed = cs /\ r.clm_tot = ts /\ r.pool = p
        /\ r.holding = s.holding /\ r.total_supply = s.total_supply /\ r.ok = s.ok
    BY <2>3, <2>4, <2>5, <2>6, <2>7 DEF Copy
  <2>9. Proper(r)
    <3>1. \A d \in DOMAIN r.distributions :
             r.distributions[d].total_amount > 0
             /\ r.distributions[d].start_time < r.distributions[d].claim_deadline
      BY <2>1, <2>4, <2>8 DEF Proper
    <3> QED BY <2>4, <2>5, <2>6, <2>8, <3>1 DEF Proper
  <2>10. \A d \in DOMAIN s.distributions :
            /\ d \in DOMAIN r.distributions /\ r.distributions[d] = s.distributions[d]
            /\ r.claimed[d] = s.claimed[d] /\ r.clm_tot[d] = s.clm_tot[d]
            /\ Unclaimed(r, d) = Unclaimed(s, d)
    <3> TAKE d \in DOMAIN s.distributions
    <3>1. d \in DOMAIN s.claimed /\ d \in DOMAIN s.clm_tot
      BY ElementTypes
    <3>2. /\ d \in DOMAIN r.distributions /\ r.distributions[d] = s.distributions[d]
          /\ r.claimed[d] = s.claimed[d] /\ r.clm_tot[d] = s.clm_tot[d]
      BY <2>4, <2>5, <2>6, <2>8, <3>1
    <3>3. Unclaimed(r, d) = Unclaimed(s, d)
      BY <2>8, <3>2 DEF Unclaimed, ShareIn
    <3> QED BY <3>2, <3>3
  <2>11. Unclaimed(r, n) \in Nat /\ Unclaimed(r, n) <= amount
    <3>1. n \in DOMAIN r.distributions
      BY <2>4, <2>8
    <3>2. Unclaimed(r, n) \in Nat
      BY <2>8, <2>9, <3>1, UnclaimedType
    <3>3. Holder \ r.claimed[n] = Holder
      BY <2>5, <2>8
    <3>4. \A a \in Holder :
            ShareIn(r, r.holding[a], n) = (s.holding[a] * PerToken(amount, s.total_supply)) \div Scale
      BY <2>2, <2>4, <2>8 DEF ShareIn
    <3>5. Unclaimed(r, n) =
            SumFunctionOnSet([a \in Holder |-> (s.holding[a] * PerToken(amount, s.total_supply)) \div Scale],
                             Holder)
      BY <3>3, <3>4 DEF Unclaimed
    <3>6. SumFunctionOnSet(s.holding, Holder) <= s.total_supply
      BY DEF Proper
    <3>7. s.total_supply \in Nat \ {0} /\ amount \in Nat
      BY <1>2, <1>5
    <3> QED BY <1>2, <3>2, <3>5, <3>6, <3>7, SharesWithinAmount
  <2>12. Covers(r, n)
    BY <2>2, <2>4, <2>6, <2>8, <2>11 DEF Covers, Committed
  <2>13. Slack(r) >= Slack(s)
    <3> DEFINE O == OpenIn(s)
               f == [d \in O |-> Unclaimed(s, d)]
               Q == OpenIn(r)
               g == [d \in Q |-> Unclaimed(r, d)]
    <3>1. Q = O \union {n} /\ n \notin O
      BY <2>2, <2>4, <2>8 DEF OpenIn
    <3>2. IsFiniteSet(O) /\ O \subseteq DOMAIN s.distributions
          /\ IsFiniteSet(Q) /\ Q \subseteq DOMAIN r.distributions
      BY <2>8, OpenFinite
    <3>3. (\A d \in O : f[d] \in Int /\ g[d] = f[d]) /\ \A d \in Q : g[d] \in Int
      BY <2>8, <2>9, <2>10, <3>1, <3>2, UnclaimedType
    <3>4. g[n] = Unclaimed(r, n) /\ n \in Q /\ Q \ {n} = O
      BY <3>1
    <3>5. Slack(s) = s.pool - SumFunctionOnSet(f, O) /\ Slack(r) = p - SumFunctionOnSet(g, Q)
      BY <2>8 DEF Slack
    <3> HIDE DEF f, g, O, Q
    <3>6. SumFunctionOnSet(g, Q) = g[n] + SumFunctionOnSet(g, O)
      BY <3>2, <3>3, <3>4, SumRemove
    <3>7. SumFunctionOnSet(g, O) = SumFunctionOnSet(f, O) /\ SumFunctionOnSet(f, O) \in Int
      BY <3>2, <3>3, SumSame, SumType
    <3> QED BY <1>2, <2>11, <3>4, <3>5, <3>6, <3>7 DEF p
  <2>14. Begun(s, r)
    <3>1. \A d \in DOMAIN r.distributions \ DOMAIN s.distributions : d = n
      BY <2>4, <2>8
    <3> QED BY <2>8, <2>10, <2>12, <2>13, <3>1 DEF Begun
  <2> QED BY <2>8, <2>9, <2>14 DEF r
<1> QED BY <1>1, <1>4, <1>5

\* Creating a batch begins distributions that are paid for.
LEMMA CreatedAllBegins ==
  ASSUME EnvTypes, NEW s \in Copy, Proper(s), NEW amounts \in Seq(Int), NEW window \in Nat
  PROVE  LET r == CreatedAll(s, amounts, window)
         IN  /\ r \in Copy /\ Proper(r)
             /\ r.ok => Begun(s, r)
<1> DEFINE W == {t \in Copy : Proper(t) /\ (t.ok => Begun(s, t))}
<1>1. PICK n \in Nat : DOMAIN amounts = 1..n
  BY LenProperties
<1>2. s \in W
  <2>1. Slack(s) \in Int
    BY SlackType
  <2> QED BY <2>1 DEF Begun
<1>3. \A t \in W, i \in 1..n : CreatedNext(t, amounts[i], window) \in W
  <2> TAKE t \in W, i \in 1..n
  <2>1. t \in Copy /\ Proper(t) /\ (t.ok => Begun(s, t)) /\ amounts[i] \in Int
    BY <1>1
  <2> DEFINE r == Created(t, amounts[i], window)
  <2>2. r \in Copy /\ Proper(r) /\ (r.ok => t.ok /\ Begun(t, r))
    BY <2>1, CreatedBegins
  <2> HIDE DEF r
  <2>3. r \in W
    <3>1. r.ok => Begun(s, r)
      BY <2>1, <2>2, BegunTransitive
    <3> QED BY <2>2, <3>1
  <2>4. CreatedNext(t, amounts[i], window) \in {t, r}
    BY DEF CreatedNext, r
  <2> QED BY <2>3, <2>4
<1>4. CreatedAll(s, amounts, window) \in W
  <2> HIDE DEF W
  <2> QED BY <1>1, <1>2, <1>3, CreatedAllWithin
<1> QED BY <1>4
-----------------------------------------------------------------------------
(* Every step keeps the types.                                             *)

\* What a call commits is the contract's next state.
LEMMA CommitIs ==
  ASSUME NEW r \in Copy, Commit(r)
  PROVE  Contract' = r
<1>1. r = [distributions |-> r.distributions, claimed |-> r.claimed, clm_tot |-> r.clm_tot,
           pool |-> r.pool, holding |-> r.holding, total_supply |-> r.total_supply, ok |-> r.ok]
  BY DEF Copy
<1>2. r.ok = TRUE
  BY DEF Commit, Copy
<1> QED BY <1>1, <1>2 DEF Commit, Contract

\* The accrued yield is an integer.
LEMMA AccruedType == ASSUME EnvTypes PROVE Accrued \in Int
<1>1. CASE accrual = <<>>
  BY <1>1 DEF Accrued
<1>2. CASE accrual # <<>>
  <2>1. PICK r \in RateRecord : accrual = <<r>>
    BY <1>2 DEF EnvTypes
  <2>2. now \in Nat
    BY DEF EnvTypes
  <2>3. Settled(r) \in Int
    BY <2>2 DEF Settled, RateRecord
  <2> QED BY <1>2, <2>1, <2>3 DEF Accrued
<1> QED BY <1>1, <1>2

\* Every call that creates distributions begins them and keeps the types.
LEMMA CreationTypes ==
  ASSUME Types, NEW b \in Batches, NEW w \in Windows,
         Commit(CreatedAll(Contract, b, w)), last_auto' \in {last_auto, now},
         UNCHANGED <<holderVars, adminVars, accrualVars, vwap, now>>
  PROVE  /\ Contract' \in Copy /\ Proper(Contract') /\ Begun(Contract, Contract')
         /\ Types'
<1>1. b \in Seq(Int) /\ w \in Nat
  BY PoolAssumption
<1> DEFINE r == CreatedAll(Contract, b, w)
<1>2. r \in Copy /\ Proper(r) /\ (r.ok => Begun(Contract, r))
  BY <1>1, CreatedAllBegins DEF Types
<1>3. Commit(r) /\ r.ok
  BY DEF Commit
<1> HIDE DEF r
<1>4. Contract' = r
  BY <1>2, <1>3, CommitIs
<1>5. EnvTypes'
  BY DEF Types, EnvTypes, holderVars, adminVars, accrualVars
<1> QED BY <1>2, <1>3, <1>4, <1>5 DEF Types

\* Every claim that is committed succeeded and keeps the types.
LEMMA ClaimTypes ==
  ASSUME Types, NEW r \in Copy, Proper(r), Claim(r)
  PROVE  Contract' = r /\ r.ok /\ Types'
<1>1. Contract' = r /\ r.ok
  BY CommitIs DEF Claim, Commit
<1>2. EnvTypes'
  BY DEF Types, EnvTypes, Claim, holderVars, adminVars, accrualVars
<1> QED BY <1>1, <1>2 DEF Types

\* The two plain claims only add records and keep every commitment.
LEMMA HoldsClaims ==
  ASSUME Types, NEW a \in Holder
  PROVE  /\ \A d \in DOMAIN distributions :
               ClaimDividend(a, d) => /\ Contract' \in Copy /\ Claims(Contract, Contract') /\ Types'
                                      /\ Contract'.distributions = distributions
         /\ ClaimAllDividends(a) => /\ Contract' \in Copy /\ Claims(Contract, Contract') /\ Types'
                                    /\ Contract'.distributions = distributions
<1>1. Contract \in Copy /\ Proper(Contract) /\ EnvTypes /\ Contract.distributions = distributions
  BY DEF Types, Contract
<1>2. ASSUME NEW d \in DOMAIN distributions, ClaimDividend(a, d)
      PROVE  /\ Contract' \in Copy /\ Claims(Contract, Contract') /\ Types'
             /\ Contract'.distributions = distributions
  <2> DEFINE r == Claimed(Contract, a, d)
  <2>1. /\ r \in Copy /\ Proper(r) /\ r.distributions = distributions
        /\ r.ok => Claims(Contract, r)
    BY <1>1, ClaimedClaims
  <2>2. Claim(r)
    BY <1>2 DEF ClaimDividend
  <2> HIDE DEF r
  <2> QED BY <2>1, <2>2, ClaimTypes
<1>3. ASSUME ClaimAllDividends(a)
      PROVE  /\ Contract' \in Copy /\ Claims(Contract, Contract') /\ Types'
             /\ Contract'.distributions = distributions
  <2> DEFINE r == ClaimedAll(Contract, a)
  <2>1. /\ r \in Copy /\ Proper(r) /\ r.distributions = distributions
        /\ r.ok => Claims(Contract, r)
    BY <1>1, ClaimedAllClaims
  <2>2. Claim(r)
    BY <1>3 DEF ClaimAllDividends
  <2> HIDE DEF r
  <2> QED BY <2>1, <2>2, ClaimTypes
<1> QED BY <1>2, <1>3

\* A boosted claim only adds records, and without a boost keeps every commitment.
LEMMA HoldsBoosted ==
  ASSUME Types, NEW a \in Holder, NEW d \in DOMAIN distributions, ClaimBoostedDividend(a, d)
  PROVE  /\ Contract' \in Copy /\ OnceOnly(Contract, Contract') /\ Types'
         /\ Contract'.distributions = distributions
         /\ Multiplier(a) <= One => Within(Contract, Contract')
<1>1. /\ Contract \in Copy /\ Proper(Contract) /\ EnvTypes /\ Contract.distributions = distributions
      /\ d \in DOMAIN Contract.distributions
  BY DEF Types, Contract
<1> DEFINE r == ClaimedBoosted(Contract, a, d)
<1>2. /\ r \in Copy /\ Proper(r) /\ r.distributions = Contract.distributions
      /\ r.ok => \E net \in Nat : /\ Pays(Contract, r, a, d, net)
                                  /\ Multiplier(a) <= One => Modest(Contract, r, a, d, net)
  BY <1>1, BoostedFacts
<1>3. Claim(r)
  BY DEF ClaimBoostedDividend
<1> HIDE DEF r
<1>4. Contract' = r /\ r.ok /\ Types'
  BY <1>2, <1>3, ClaimTypes
<1>5. PICK net \in Nat : /\ Pays(Contract, r, a, d, net)
                         /\ Multiplier(a) <= One => Modest(Contract, r, a, d, net)
  BY <1>2, <1>4
<1>6. OnceOnly(Contract, r)
  BY <1>1, <1>5, PaysOnce
<1>7. Multiplier(a) <= One => Within(Contract, r)
  BY <1>1, <1>2, <1>5, ModestWithin
<1> QED BY <1>1, <1>2, <1>4, <1>6, <1>7
\* A claim of accrued yield changes no distribution, record or holding.
LEMMA YieldTypes ==
  ASSUME Types, NEW a \in Holder, ClaimAccruedYield(a)
  PROVE  /\ Types'
         /\ Contract'.distributions = distributions /\ Contract'.claimed = claimed
         /\ Contract'.clm_tot = clm_tot /\ Contract'.holding = holding
<1>1. Contract \in Copy /\ Proper(Contract) /\ EnvTypes
  BY DEF Types
<1>2. PICK g \in Int : g = (holding[a] * (Accrued - accrual_claimed[a])) \div Scale
                       /\ Commit(PaidOut(Contract, g))
  <2>1. /\ holding[a] \in Int /\ Accrued \in Int /\ accrual_claimed[a] \in Int
        /\ Scale \in Nat \ {0}
    <3>1. Contract.holding = holding /\ Contract.holding \in [Holder -> Nat]
      BY <1>1 DEF Contract, Copy
    <3>2. Accrued \in Int /\ accrual_claimed[a] \in Int
      BY <1>1, AccruedType DEF EnvTypes
    <3>3. Scale \in Nat \ {0}
      BY PoolAssumption
    <3> QED BY <3>1, <3>2, <3>3
  <2>2. holding[a] * (Accrued - accrual_claimed[a]) \in Int
    BY <2>1
  <2>3. (holding[a] * (Accrued - accrual_claimed[a])) \div Scale \in Int
    BY <2>1, <2>2
  <2> QED BY <2>3 DEF ClaimAccruedYield
<1> DEFINE r == PaidOut(Contract, g)
<1>3. /\ r \in Copy
      /\ r.distributions = Contract.distributions /\ r.claimed = Contract.claimed
      /\ r.clm_tot = Contract.clm_tot
      /\ r.holding = Contract.holding /\ r.total_supply = Contract.total_supply
  BY <1>1, PaidOutFacts
<1>4. Commit(r)
  BY <1>2
<1> HIDE DEF r
<1>5. Contract' = r /\ Proper(r)
  BY <1>1, <1>3, <1>4, CommitIs DEF Proper
<1>6. EnvTypes'
  <2>1. accrual' \in {<<q>> : q \in RateRecord}
    <3>1. PICK q \in RateRecord : accrual = <<q>>
      BY <1>1 DEF EnvTypes, ClaimAccruedYield
    <3>2. [q EXCEPT !.total_accrued = Accrued, !.last_accrual_update = now] \in RateRecord
      <4>1. Accrued \in Int /\ now \in Nat
        BY <1>1, AccruedType DEF EnvTypes
      <4> HIDE DEF Accrued
      <4> QED BY <4>1 DEF RateRecord
    <3>3. accrual' = <<[q EXCEPT !.total_accrued = Accrued, !.last_accrual_update = now]>>
      BY <3>1 DEF ClaimAccruedYield
    <3> QED BY <3>2, <3>3
  <2>2. accrual_claimed' \in [Holder -> Int]
    BY <1>1, AccruedType DEF EnvTypes, ClaimAccruedYield
  <2>3. UNCHANGED <<holderVars, adminVars, last_auto, vwap, now>>
    BY DEF ClaimAccruedYield
  <2> QED BY <1>1, <2>1, <2>2, <2>3 DEF EnvTypes, holderVars, adminVars
<1> QED BY <1>3, <1>5, <1>6 DEF Types, Contract

\* Deactivating a distribution changes neither its amounts nor any record.
LEMMA DeactivateTypes ==
  ASSUME Types, NEW d \in DOMAIN distributions, DeactivateDistribution(d)
  PROVE  /\ Types'
         /\ Contract'.claimed = claimed /\ Contract'.clm_tot = clm_tot
         /\ Contract'.holding = holding /\ Contract'.pool = pool
         /\ DOMAIN Contract'.distributions = DOMAIN distributions
         /\ \A e \in DOMAIN distributions :
              /\ Contract'.distributions[e].per_token_amount = distributions[e].per_token_amount
              /\ Contract'.distributions[e].total_amount = distributions[e].total_amount
              /\ Contract'.distributions[e].claim_deadline = distributions[e].claim_deadline
              /\ Contract'.distributions[e].is_active => distributions[e].is_active
<1> DEFINE c == [distributions[d] EXCEPT !.is_active = FALSE]
           q == [distributions EXCEPT ![d] = c]
<1>1. Contract \in Copy /\ Proper(Contract) /\ EnvTypes
  BY DEF Types
<1>2. distributions \in Seq(Distribution) /\ distributions[d] \in Distribution
  <2>1. distributions \in Seq(Distribution)
    BY <1>1 DEF Copy, Contract
  <2> QED BY <2>1
<1>3. /\ c \in Distribution /\ c.is_active = FALSE
      /\ c.total_amount = distributions[d].total_amount
      /\ c.per_token_amount = distributions[d].per_token_amount
      /\ c.start_time = distributions[d].start_time
      /\ c.claim_deadline = distributions[d].claim_deadline
  BY <1>2 DEF Distribution
<1>4. distributions' = q
  BY <1>2 DEF DeactivateDistribution
<1> HIDE DEF c
<1>5. /\ q \in Seq(Distribution) /\ Len(q) = Len(distributions) /\ DOMAIN q = DOMAIN distributions
      /\ \A e \in DOMAIN distributions : q[e] = IF e = d THEN c ELSE distributions[e]
  BY <1>2, <1>3, ExceptSeq
<1>6. /\ claimed' = claimed /\ clm_tot' = clm_tot /\ pool' = pool /\ holding' = holding
      /\ total_supply' = total_supply
  BY DEF DeactivateDistribution
<1>7. /\ Contract'.distributions = q
      /\ Contract'.claimed = claimed /\ Contract'.clm_tot = clm_tot
      /\ Contract'.holding = holding /\ Contract'.pool = pool
      /\ Contract'.total_supply = Contract.total_supply
  BY <1>4, <1>6 DEF Contract
<1> HIDE DEF q
<1>8. Contract' \in Copy
  <2>1. /\ claimed \in Seq(SUBSET Holder) /\ clm_tot \in Seq(Nat) /\ pool \in Nat
        /\ holding \in [Holder -> Nat] /\ total_supply \in Nat
    BY <1>1 DEF Copy, Contract
  <2> QED BY <1>4, <1>5, <1>6, <2>1 DEF Copy, Contract
<1>9. \A e \in DOMAIN distributions :
         /\ q[e].per_token_amount = distributions[e].per_token_amount
         /\ q[e].total_amount = distributions[e].total_amount
         /\ q[e].start_time = distributions[e].start_time
         /\ q[e].claim_deadline = distributions[e].claim_deadline
         /\ q[e].is_active => distributions[e].is_active
  BY <1>3, <1>5
<1>10. Proper(Contract')
  <2>1. /\ Len(claimed) = Len(distributions) /\ Len(clm_tot) = Len(distributions)
        /\ \A e \in DOMAIN distributions :
              /\ distributions[e].total_amount > 0
              /\ distributions[e].start_time < distributions[e].claim_deadline
        /\ SumFunctionOnSet(holding, Holder) <= Contract.total_supply
    BY <1>1 DEF Proper, Contract
  <2> QED BY <1>5, <1>7, <1>9, <2>1 DEF Proper
<1>11. EnvTypes'
  BY <1>1 DEF DeactivateDistribution, EnvTypes, holderVars, adminVars, accrualVars
<1> QED BY <1>5, <1>7, <1>8, <1>9, <1>10, <1>11 DEF Types

\* Moving tokens keeps the types: balances stay within the supply.
LEMMA MoveTypes ==
  ASSUME Types, NEW from \in Holder, NEW to \in Holder, NEW x \in Nat, TokenMove(from, to, x)
  PROVE  Types'
<1> DEFINE h == [holding EXCEPT ![from] = @ - x, ![to] = @ + x]
           m == [holding EXCEPT ![from] = @ - x]
<1>1. Contract \in Copy /\ Proper(Contract) /\ EnvTypes
  BY DEF Types
<1>2. holding \in [Holder -> Nat] /\ SumFunctionOnSet(holding, Holder) <= total_supply
  BY <1>1 DEF Copy, Proper, Contract
<1>3. from # to /\ holding[from] - x \in Nat /\ holding' = h
  BY <1>2 DEF TokenMove
<1>4. /\ m \in [Holder -> Nat] /\ m[from] = holding[from] - x /\ m[to] = holding[to]
      /\ \A a \in Holder \ {from} : m[a] = holding[a]
  BY <1>2, <1>3
<1>5. /\ h \in [Holder -> Nat] /\ h[to] = holding[to] + x
      /\ \A a \in Holder \ {to} : h[a] = m[a]
  BY <1>2, <1>3
<1>6. SumFunctionOnSet(h, Holder) = SumFunctionOnSet(holding, Holder)
  <2>1. IsFiniteSet(Holder)
    BY PoolAssumption
  <2>2. \A a \in Holder : holding[a] \in Int /\ m[a] \in Int /\ h[a] \in Int
    BY <1>2, <1>4, <1>5
  <2> HIDE DEF h, m
  <2>3. SumFunctionOnSet(m, Holder) = SumFunctionOnSet(holding, Holder) - holding[from] + m[from]
    BY <1>4, <2>1, <2>2, SumUpdate
  <2>4. SumFunctionOnSet(h, Holder) = SumFunctionOnSet(m, Holder) - m[to] + h[to]
    BY <1>5, <2>1, <2>2, SumUpdate
  <2>5. SumFunctionOnSet(holding, Holder) \in Int
    BY <2>1, <2>2, SumType
  <2> QED BY <1>2, <1>4, <1>5, <2>3, <2>4, <2>5
<1> HIDE DEF h, m
<1>7. /\ Contract'.holding = h /\ Contract'.pool = pool /\ Contract'.ok = TRUE
      /\ Contract'.claimed = Contract.claimed /\ Contract'.clm_tot = Contract.clm_tot
      /\ Contract'.distributions = Contract.distributions /\ Contract'.total_supply = total_supply
  BY <1>3 DEF TokenMove, Contract
<1>8. Contract' \in Copy
  <2>1. /\ distributions \in Seq(Distribution) /\ claimed \in Seq(SUBSET Holder)
        /\ clm_tot \in Seq(Nat) /\ pool \in Nat /\ total_supply \in Nat
    BY <1>1 DEF Copy, Contract
  <2>2. UNCHANGED <<distributions, claimed, clm_tot, pool, total_supply>>
    BY DEF TokenMove
  <2> QED BY <1>3, <1>5, <2>1, <2>2 DEF Copy, Contract
<1>9. Proper(Contract')
  BY <1>1, <1>2, <1>6, <1>7 DEF Proper
<1>10. EnvTypes'
  BY <1>1 DEF TokenMove, EnvTypes, holderVars, adminVars, accrualVars
<1> QED BY <1>8, <1>9, <1>10 DEF Types
\* What leaves the contract as it is keeps the types.
LEMMA OtherTypes ==
  ASSUME Types, UNCHANGED contractVars, EnvTypes'
  PROVE  Contract' = Contract /\ Types'
<1>1. Contract' = Contract
  BY DEF contractVars, Contract
<1> QED BY <1>1 DEF Types

\* Every step keeps the types.
LEMMA NextTypes == Types /\ [Next]_vars => Types'
<1> SUFFICES ASSUME Types, [Next]_vars PROVE Types'
  OBVIOUS
<1>1. EnvTypes
  BY DEF Types
<1>2. CASE UNCHANGED vars
  <2>1. EnvTypes' /\ UNCHANGED contractVars
    BY <1>1, <1>2 DEF EnvTypes, vars, holderVars, adminVars, accrualVars
  <2> QED BY <2>1, OtherTypes
<1>3. CASE Holds
  <2>1. CASE \E a \in Holder, d \in DOMAIN distributions :
                ClaimDividend(a, d) \/ ClaimBoostedDividend(a, d)
    BY <2>1, HoldsClaims, HoldsBoosted
  <2>2. CASE \E a \in Holder : ClaimAllDividends(a) \/ ClaimAccruedYield(a)
    BY <2>2, HoldsClaims, YieldTypes
  <2>3. CASE \E a \in Snapshots : RecordHoldingSnapshot(a)
    <3>1. PICK a \in Snapshots : RecordHoldingSnapshot(a)
      BY <2>3
    <3>2. snapshot' \in [Holder -> {<<>>} \union {<<t>> : t \in 0..now}]
      <4>1. now \in 0..now
        BY <1>1 DEF EnvTypes
      <4>2. <<now>> \in {<<>>} \union {<<t>> : t \in 0..now}
        BY <4>1
      <4> QED BY <1>1, <3>1, <4>2 DEF EnvTypes, RecordHoldingSnapshot
    <3>3. EnvTypes' /\ UNCHANGED contractVars
      BY <1>1, <3>1, <3>2 DEF EnvTypes, RecordHoldingSnapshot, adminVars, accrualVars
    <3> QED BY <3>3, OtherTypes
  <2>4. CASE \E a \in Lockers, t \in Tiers : RegisterLockDuration(a, t)
    <3>1. PICK a \in Lockers, t \in Tiers : RegisterLockDuration(a, t)
      BY <2>4
    <3>2. t \in Nat
      BY PoolAssumption
    <3>3. EnvTypes' /\ UNCHANGED contractVars
      BY <1>1, <3>1, <3>2 DEF EnvTypes, RegisterLockDuration, adminVars, accrualVars
    <3> QED BY <3>3, OtherTypes
  <2>5. CASE \E a \in Reinvestors, b \in BOOLEAN : SetReinvestment(a, b)
    <3>1. PICK a \in Reinvestors, b \in BOOLEAN : SetReinvestment(a, b)
      BY <2>5
    <3>2. a \in Holder
      BY PoolAssumption
    <3>3. EnvTypes' /\ UNCHANGED contractVars
      BY <1>1, <3>1, <3>2 DEF EnvTypes, SetReinvestment, adminVars, accrualVars
    <3> QED BY <3>3, OtherTypes
  <2> QED BY <1>3, <2>1, <2>2, <2>3, <2>4, <2>5 DEF Holds
<1>4. CASE Administers
  <2>1. CASE \E b \in Batches, w \in Windows : Distribute(b, w) \/ AutoYieldDistribute(b, w)
    <3>1. PICK b \in Batches, w \in Windows : Distribute(b, w) \/ AutoYieldDistribute(b, w)
      BY <2>1
    <3>2. /\ Commit(CreatedAll(Contract, b, w)) /\ last_auto' \in {last_auto, now}
          /\ UNCHANGED <<holderVars, adminVars, accrualVars, vwap, now>>
      BY <3>1 DEF Distribute, AutoYieldDistribute
    <3> QED BY <3>2, CreationTypes
  <2>2. CASE \E d \in DOMAIN distributions : DeactivateDistribution(d)
    BY <2>2, DeactivateTypes
  <2>3. CASE \E x \in Rates : UpdateAccrual(x)
    <3>1. PICK x \in Rates : UpdateAccrual(x)
      BY <2>3
    <3>2. x \in Int
      BY PoolAssumption
    <3>3. Rate(x) \in RateRecord
      <4>1. Accrued \in Int /\ now \in Nat
        BY <1>1, AccruedType DEF EnvTypes
      <4> QED BY <3>2, <4>1 DEF Rate, RateRecord
    <3>4. EnvTypes' /\ UNCHANGED contractVars
      BY <1>1, <3>1, <3>3 DEF EnvTypes, UpdateAccrual, holderVars, adminVars
    <3> QED BY <3>4, OtherTypes
  <2>4. CASE \E m \in MaxBoosts : SetBoostConfig(m)
    <3>1. PICK m \in MaxBoosts : SetBoostConfig(m)
      BY <2>4
    <3>2. m \in Nat
      BY PoolAssumption
    <3>3. EnvTypes' /\ UNCHANGED contractVars
      BY <1>1, <3>1, <3>2 DEF EnvTypes, SetBoostConfig, holderVars, accrualVars
    <3> QED BY <3>3, OtherTypes
  <2>5. CASE \E c \in Configs : UpdateConfig(c)
    <3>1. PICK c \in Configs : UpdateConfig(c)
      BY <2>5
    <3>2. c \in ConfigRecord
      BY PoolAssumption
    <3>3. EnvTypes' /\ UNCHANGED contractVars
      BY <1>1, <3>1, <3>2 DEF EnvTypes, UpdateConfig, holderVars, accrualVars
    <3> QED BY <3>3, OtherTypes
  <2>6. CASE \E b \in Flags : SetFrozen(b)
    <3>1. PICK b \in Flags : SetFrozen(b)
      BY <2>6
    <3>2. b \in BOOLEAN
      BY PoolAssumption
    <3>3. EnvTypes' /\ UNCHANGED contractVars
      BY <1>1, <3>1, <3>2 DEF EnvTypes, SetFrozen, holderVars, accrualVars
    <3> QED BY <3>3, OtherTypes
  <2> QED BY <1>4, <2>1, <2>2, <2>3, <2>4, <2>5, <2>6 DEF Administers
<1>5. CASE Environment
  <2>1. CASE \E m \in Moves : TokenMove(m[1], m[2], m[3])
    <3>1. PICK m \in Moves : TokenMove(m[1], m[2], m[3])
      BY <2>1
    <3>2. m[1] \in Holder /\ m[2] \in Holder /\ m[3] \in Nat
      BY PoolAssumption
    <3> QED BY <3>1, <3>2, MoveTypes
  <2>2. CASE \E p \in Vwaps : MarketMove(p)
    <3>1. PICK p \in Vwaps : MarketMove(p)
      BY <2>2
    <3>2. p \in Nat
      BY PoolAssumption
    <3>3. EnvTypes' /\ UNCHANGED contractVars
      BY <1>1, <3>1, <3>2 DEF EnvTypes, MarketMove, holderVars, adminVars, accrualVars
    <3> QED BY <3>3, OtherTypes
  <2>3. CASE Tick
    <3>1. now' \in 0..MaxTime /\ last_auto \in 0..now' /\ 0..now \subseteq 0..now'
      <4>1. MaxTime \in Nat
        BY PoolAssumption
      <4> QED BY <1>1, <2>3, <4>1 DEF EnvTypes, Tick
    <3>2. snapshot \in [Holder -> {<<>>} \union {<<t>> : t \in 0..now'}]
      <4>1. {<<>>} \union {<<t>> : t \in 0..now} \subseteq {<<>>} \union {<<t>> : t \in 0..now'}
        BY <3>1
      <4> QED BY <1>1, <4>1 DEF EnvTypes
    <3>3. EnvTypes' /\ UNCHANGED contractVars
      BY <1>1, <2>3, <3>1, <3>2 DEF EnvTypes, Tick, holderVars, adminVars, accrualVars
    <3> QED BY <3>3, OtherTypes
  <2> QED BY <1>5, <2>1, <2>2, <2>3 DEF Environment
<1> QED BY <1>2, <1>3, <1>4, <1>5 DEF Next

\* The types hold in the beginning.
LEMMA InitTypes == Init => Types
<1> SUFFICES ASSUME Init PROVE Types
  OBVIOUS
<1>1. Holdings \in [Holder -> Nat] /\ Supply \in Nat /\ SumFunctionOnSet(Holdings, Holder) <= Supply
  <2>1. IsFiniteSet(Holder) /\ Holdings \in [Holder -> Nat] /\ Supply \in Nat
    BY PoolAssumption
  <2>2. Supply >= SumFunctionOnSet(Holdings, Holder)
    BY PoolAssumption
  <2>3. \A a \in Holder : Holdings[a] \in Nat
    BY <2>1
  <2>4. SumFunctionOnSet(Holdings, Holder) \in Nat
    BY <2>1, <2>3, SumType
  <2> QED BY <2>1, <2>2, <2>4
<1>2. Contract \in Copy
  BY <1>1 DEF Init, Contract, Copy
<1>3. Proper(Contract)
  BY <1>1 DEF Init, Contract, Proper
<1>4. EnvTypes
  <2>1. config \in ConfigRecord
    BY PoolAssumption DEF Init
  <2>2. max_boost \in Nat /\ vwap \in Nat
    BY PoolAssumption DEF Init
  <2>3. One \in Nat
    BY PoolAssumption
  <2>4. last_auto \in 0..now /\ now \in 0..MaxTime
    <3>1. MaxTime \in Nat
      BY PoolAssumption
    <3> QED BY <3>1 DEF Init
  <2>5. snapshot \in [Holder -> {<<>>} \union {<<t>> : t \in 0..now}]
    BY DEF Init
  <2>6. config.fee_rate \in 0..MaxFeeRate /\ frozen \in BOOLEAN
    BY DEF Init
  <2>7. accrual \in {<<>>} \union {<<r>> : r \in RateRecord} /\ accrual_claimed \in [Holder -> Int]
    BY DEF Init
  <2>8. raw_multiplier \in [Holder -> Nat] /\ reinvesting \subseteq Holder
    BY <2>3 DEF Init
  <2> QED BY <2>1, <2>2, <2>4, <2>5, <2>6, <2>7, <2>8 DEF EnvTypes
<1> QED BY <1>2, <1>3, <1>4 DEF Types

\* The types hold always.
LEMMA AlwaysTypes == Spec => []Types
BY InitTypes, NextTypes, PTL DEF Spec

\* Distributions, records of claims, the pool, holdings, snapshots and accruals keep
\* their types in every reachable state: no claim, of whatever kind, takes the pool
\* or a total below zero, and the token's supply covers its balances.
THEOREM PoolTypes == Spec => []TypeOK
BY AlwaysTypes, TypesImplyTypeOK, PTL
-----------------------------------------------------------------------------
(* What is paid, and what stays covered.                                   *)

\* A step that leaves the contract as it is pays nobody.
LEMMA Sames ==
  ASSUME Types, Contract' = Contract
  PROVE  OnceOnly(Contract, Contract') /\ Within(Contract, Contract')
         /\ Contract'.distributions = distributions
BY OnceOnlyReflexive DEF Types, Contract

\* Every step only adds records of claims, one for whatever was paid.
LEMMA NextOnce ==
  ASSUME Types, [Next]_vars
  PROVE  OnceOnly(Contract, Contract')
<1>1. /\ Contract \in Copy /\ Proper(Contract)
      /\ Contract.distributions = distributions /\ Contract.claimed = claimed
      /\ Contract.clm_tot = clm_tot
  BY DEF Types, Contract
<1>2. ASSUME Contract'.claimed = claimed, Contract'.clm_tot = clm_tot
      PROVE  OnceOnly(Contract, Contract')
  <2>1. \A d \in DOMAIN Contract.distributions : Contract.clm_tot[d] \in Nat
    BY <1>1, ElementTypes
  <2> QED BY <1>1, <1>2, <2>1 DEF OnceOnly
<1>3. ASSUME UNCHANGED contractVars PROVE OnceOnly(Contract, Contract')
  BY <1>2, <1>3 DEF contractVars, Contract
<1>4. CASE UNCHANGED vars
  BY <1>3, <1>4 DEF vars
<1>5. CASE Holds
  <2>1. CASE \E a \in Holder, d \in DOMAIN distributions :
                ClaimDividend(a, d) \/ ClaimBoostedDividend(a, d)
    BY <2>1, HoldsClaims, HoldsBoosted DEF Claims
  <2>2. CASE \E a \in Holder : ClaimAllDividends(a) \/ ClaimAccruedYield(a)
    BY <1>2, <2>2, HoldsClaims, YieldTypes DEF Claims
  <2>3. CASE \/ \E a \in Snapshots : RecordHoldingSnapshot(a)
             \/ \E a \in Lockers, t \in Tiers : RegisterLockDuration(a, t)
             \/ \E a \in Reinvestors, b \in BOOLEAN : SetReinvestment(a, b)
    BY <1>3, <2>3 DEF RecordHoldingSnapshot, RegisterLockDuration, SetReinvestment
  <2> QED BY <1>5, <2>1, <2>2, <2>3 DEF Holds
<1>6. CASE Administers
  <2>1. CASE \E b \in Batches, w \in Windows : Distribute(b, w) \/ AutoYieldDistribute(b, w)
    <3>1. PICK b \in Batches, w \in Windows : Distribute(b, w) \/ AutoYieldDistribute(b, w)
      BY <2>1
    <3>2. /\ Commit(CreatedAll(Contract, b, w)) /\ last_auto' \in {last_auto, now}
          /\ UNCHANGED <<holderVars, adminVars, accrualVars, vwap, now>>
      BY <3>1 DEF Distribute, AutoYieldDistribute
    <3>3. Begun(Contract, Contract')
      BY <3>2, CreationTypes
    <3>4. \A d \in DOMAIN Contract.distributions : Contract.clm_tot[d] \in Nat
      BY <1>1, ElementTypes
    <3> QED BY <3>3, <3>4 DEF Begun, OnceOnly
  <2>2. CASE \E d \in DOMAIN distributions : DeactivateDistribution(d)
    BY <1>2, <2>2, DeactivateTypes
  <2>3. CASE \/ \E x \in Rates : UpdateAccrual(x)
             \/ \E m \in MaxBoosts : SetBoostConfig(m)
             \/ \E c \in Configs : UpdateConfig(c)
             \/ \E b \in Flags : SetFrozen(b)
    BY <1>3, <2>3 DEF UpdateAccrual, SetBoostConfig, UpdateConfig, SetFrozen
  <2> QED BY <1>6, <2>1, <2>2, <2>3 DEF Administers
<1>7. CASE Environment
  <2>1. CASE \E m \in Moves : TokenMove(m[1], m[2], m[3])
    <3>1. UNCHANGED <<claimed, clm_tot>>
      BY <2>1 DEF TokenMove
    <3> QED BY <1>2, <3>1 DEF Contract
  <2>2. CASE (\E p \in Vwaps : MarketMove(p)) \/ Tick
    BY <1>3, <2>2 DEF MarketMove, Tick
  <2> QED BY <1>7, <2>1, <2>2 DEF Environment
<1> QED BY <1>4, <1>5, <1>6, <1>7 DEF Next

\* Whatever is paid from a distribution is paid for a record that was not there, and
\* records stay: single, combined and boosted claims cannot be played against each
\* other, for any holders, amounts, weights and multipliers.
THEOREM AlwaysPaidOnce == Spec => PaidOnce
<1>1. Types /\ [Next]_vars =>
        [\A d \in DOMAIN distributions :
            /\ claimed[d] \subseteq claimed'[d]
            /\ clm_tot'[d] > clm_tot[d] => claimed'[d] # claimed[d]]_vars
  <2> SUFFICES ASSUME Types, [Next]_vars
               PROVE  \A d \in DOMAIN distributions :
                         /\ claimed[d] \subseteq claimed'[d]
                         /\ clm_tot'[d] > clm_tot[d] => claimed'[d] # claimed[d]
    OBVIOUS
  <2>1. OnceOnly(Contract, Contract')
    BY NextOnce
  <2>2. /\ Contract.distributions = distributions
        /\ Contract.claimed = claimed /\ Contract.clm_tot = clm_tot
        /\ Contract'.claimed = claimed' /\ Contract'.clm_tot = clm_tot'
    BY DEF Contract
  <2> QED BY <2>1, <2>2 DEF OnceOnly
<1> QED BY <1>1, AlwaysTypes, PTL DEF Spec, PaidOnce

\* The property's Covered is the proof's Covers of the contract's state.
LEMMA CoveredIs ==
  ASSUME NEW d \in DOMAIN distributions
  PROVE  /\ Outstanding(d) = Unclaimed(Contract, d)
         /\ Covered(d) <=> Covers(Contract, d)
<1>1. Outstanding(d) = Unclaimed(Contract, d)
  BY DEF Outstanding, ShareOf, Unclaimed, ShareIn, Contract
<1> QED BY <1>1 DEF Covered, Covers, Committed, Contract

\* So it is in the next state.
LEMMA CoveredNextIs ==
  ASSUME NEW d \in DOMAIN distributions'
  PROVE  Covered(d)' <=> Covers(Contract', d)
<1>1. Outstanding(d)' = Unclaimed(Contract', d)
  BY DEF Outstanding, ShareOf, Unclaimed, ShareIn, Contract
<1> QED BY <1>1 DEF Covered, Covers, Committed, Contract
\* The steps by what they do to the commitments.
LEMMA StepKinds ==
  ASSUME Types, [Next]_vars, ~PayeeGains
  PROVE  \/ /\ Contract'.distributions = distributions /\ now' = now
            /\ Within(Contract, Contract')
         \/ Begun(Contract, Contract') /\ now' = now
         \/ \E d \in DOMAIN distributions : DeactivateDistribution(d)
         \/ \E a \in Holder : ClaimAccruedYield(a)
         \/ Contract' = Contract /\ Tick
<1> DEFINE Plain == /\ Contract'.distributions = distributions /\ now' = now
                    /\ Within(Contract, Contract')
<1>1. ASSUME UNCHANGED contractVars, now' = now PROVE Plain
  <2>1. Contract' = Contract
    BY <1>1 DEF contractVars, Contract
  <2> QED BY <1>1, <2>1, Sames
<1>2. CASE UNCHANGED vars
  BY <1>1, <1>2 DEF vars
<1>3. /\ total_supply \in Nat /\ Contract.total_supply = total_supply
      /\ Contract'.total_supply = total_supply'
  BY DEF Types, Copy, Contract
<1>4. CASE Holds
  <2>1. ASSUME Contract' \in Copy, Claims(Contract, Contract'),
               Contract'.distributions = distributions, now' = now
        PROVE  Plain
    <3>1. total_supply' \in Nat /\ total_supply' >= total_supply
      BY <1>3, <2>1 DEF Copy, Claims
    <3>2. ~(total_supply' > total_supply)
      BY DEF PayeeGains
    <3>3. total_supply' = total_supply
      BY <1>3, <3>1, <3>2
    <3> QED BY <1>3, <2>1, <3>3 DEF Claims
  <2>2. CASE \E a \in Holder, d \in DOMAIN distributions : ClaimDividend(a, d)
    <3>1. now' = now
      BY <2>2 DEF ClaimDividend, Claim
    <3>2. /\ Contract' \in Copy /\ Claims(Contract, Contract')
          /\ Contract'.distributions = distributions
      BY <2>2, HoldsClaims
    <3> QED BY <2>1, <3>1, <3>2
  <2>3. CASE \E a \in Holder, d \in DOMAIN distributions : ClaimBoostedDividend(a, d)
    <3>1. PICK a \in Holder, d \in DOMAIN distributions : ClaimBoostedDividend(a, d)
      BY <2>3
    <3>2. ~(Multiplier(a) > One)
      BY <3>1 DEF PayeeGains
    <3>3. Multiplier(a) <= One
      <4>1. raw_multiplier[a] \in Nat /\ max_boost \in Nat
        BY DEF Types, EnvTypes
      <4>2. One \in Nat
        BY PoolAssumption
      <4> QED BY <3>2, <4>1, <4>2 DEF Multiplier
    <3>4. now' = now
      BY <3>1 DEF ClaimBoostedDividend, Claim
    <3> QED BY <3>1, <3>3, <3>4, HoldsBoosted
  <2>4. CASE \E a \in Holder : ClaimAllDividends(a)
    <3>1. now' = now
      BY <2>4 DEF ClaimAllDividends, Claim
    <3>2. /\ Contract' \in Copy /\ Claims(Contract, Contract')
          /\ Contract'.distributions = distributions
      BY <2>4, HoldsClaims
    <3> QED BY <2>1, <3>1, <3>2
  <2>5. CASE \/ \E a \in Snapshots : RecordHoldingSnapshot(a)
             \/ \E a \in Lockers, t \in Tiers : RegisterLockDuration(a, t)
             \/ \E a \in Reinvestors, b \in BOOLEAN : SetReinvestment(a, b)
    BY <1>1, <2>5 DEF RecordHoldingSnapshot, RegisterLockDuration, SetReinvestment
  <2> HIDE DEF Plain
  <2> QED BY <1>4, <2>2, <2>3, <2>4, <2>5 DEF Holds, Plain
<1>5. CASE Administers
  <2>1. CASE \E b \in Batches, w \in Windows : Distribute(b, w) \/ AutoYieldDistribute(b, w)
    <3>1. PICK b \in Batches, w \in Windows : Distribute(b, w) \/ AutoYieldDistribute(b, w)
      BY <2>1
    <3>2. /\ Commit(CreatedAll(Contract, b, w)) /\ last_auto' \in {last_auto, now}
          /\ UNCHANGED <<holderVars, adminVars, accrualVars, vwap, now>>
      BY <3>1 DEF Distribute, AutoYieldDistribute
    <3>3. Begun(Contract, Contract')
      BY <3>2, CreationTypes
    <3> QED BY <3>2, <3>3
  <2>2. CASE \/ \E x \in Rates : UpdateAccrual(x)
             \/ \E m \in MaxBoosts : SetBoostConfig(m)
             \/ \E c \in Configs : UpdateConfig(c)
             \/ \E b \in Flags : SetFrozen(b)
    BY <1>1, <2>2 DEF UpdateAccrual, SetBoostConfig, UpdateConfig, SetFrozen
  <2> HIDE DEF Plain
  <2> QED BY <1>5, <2>1, <2>2 DEF Administers, Plain
<1>6. CASE Environment
  <2>1. CASE \E p \in Vwaps : MarketMove(p)
    BY <1>1, <2>1 DEF MarketMove
  <2>2. CASE Tick
    <3>1. Contract' = Contract
      BY <2>2 DEF Tick, contractVars, Contract
    <3> QED BY <2>2, <3>1
  <2>3. ~\E m \in Moves : TokenMove(m[1], m[2], m[3])
    BY DEF PayeeGains
  <2> HIDE DEF Plain
  <2> QED BY <1>6, <2>1, <2>2, <2>3 DEF Environment, Plain
<1> QED BY <1>2, <1>4, <1>5, <1>6 DEF Next

\* A distribution whose amounts and records stay is committed to the same.
LEMMA CommittedSame ==
  ASSUME NEW s, NEW r, NEW d, r.holding = s.holding, r.claimed = s.claimed, r.clm_tot = s.clm_tot,
         r.distributions[d].per_token_amount = s.distributions[d].per_token_amount
  PROVE  Unclaimed(r, d) = Unclaimed(s, d) /\ Committed(r, d) = Committed(s, d)
<1>1. Unclaimed(r, d) = Unclaimed(s, d)
  BY DEF Unclaimed, ShareIn
<1> QED BY <1>1 DEF Committed

\* Unless tokens move, a claim is boosted or reinvested, no step makes a distribution
\* owe more than its amount, and a new one does not, however shares, weights and
\* fees are rounded: for any holders, holdings, amounts and fixed points.
THEOREM AlwaysCovered == Spec => DistributionsStayCovered
<1>1. ASSUME Types, [Next]_vars, ~PayeeGains, NEW d \in DOMAIN distributions',
             d \in DOMAIN distributions => Covered(d)
      PROVE  Covered(d)'
  <2>1. /\ Contract \in Copy /\ Proper(Contract) /\ Contract.distributions = distributions
        /\ Contract'.distributions = distributions' /\ d \in DOMAIN Contract'.distributions
    BY <1>1 DEF Types, Contract
  <2>2. d \in DOMAIN distributions => Covers(Contract, d)
    BY <1>1, CoveredIs
  <2>3. SUFFICES Covers(Contract', d)
    BY <1>1, CoveredNextIs
  <2>4. CASE Contract'.distributions = distributions /\ Within(Contract, Contract')
    <3>1. Contract' \in Copy /\ Proper(Contract')
      BY <1>1, NextTypes DEF Types
    <3>2. Committed(Contract', d) \in Nat /\ Committed(Contract, d) \in Nat
          /\ Contract.distributions[d].total_amount \in Nat
      BY <2>1, <2>4, <3>1, UnclaimedType, ElementTypes DEF Distribution
    <3>3. Committed(Contract', d) <= Committed(Contract, d)
      BY <2>1, <2>4 DEF Within
    <3> QED BY <2>1, <2>2, <2>4, <3>2, <3>3 DEF Covers
  <2>5. CASE Begun(Contract, Contract')
    <3>1. CASE d \in DOMAIN distributions
      BY <2>1, <2>2, <2>5, <3>1, BegunKeeps
    <3>2. CASE d \notin DOMAIN distributions
      BY <2>1, <2>5, <3>2 DEF Begun
    <3> QED BY <3>1, <3>2
  <2>6. CASE \E e \in DOMAIN distributions : DeactivateDistribution(e)
    <3>1. /\ Contract'.claimed = Contract.claimed /\ Contract'.clm_tot = Contract.clm_tot
          /\ Contract'.holding = Contract.holding
          /\ d \in DOMAIN distributions
          /\ Contract'.distributions[d].per_token_amount = Contract.distributions[d].per_token_amount
          /\ Contract'.distributions[d].total_amount = Contract.distributions[d].total_amount
      BY <1>1, <2>1, <2>6, DeactivateTypes DEF Contract
    <3>2. Committed(Contract', d) = Committed(Contract, d)
      BY <3>1, CommittedSame
    <3> QED BY <2>2, <3>1, <3>2 DEF Covers
  <2>7. CASE \E a \in Holder : ClaimAccruedYield(a)
    <3>1. /\ Contract'.claimed = Contract.claimed /\ Contract'.clm_tot = Contract.clm_tot
          /\ Contract'.holding = Contract.holding
          /\ Contract'.distributions = Contract.distributions
      BY <1>1, <2>1, <2>7, YieldTypes DEF Contract
    <3>2. Committed(Contract', d) = Committed(Contract, d)
      BY <3>1, CommittedSame
    <3> QED BY <2>1, <2>2, <3>1, <3>2 DEF Covers
  <2>8. CASE Contract' = Contract
    BY <2>1, <2>2, <2>8
  <2> QED BY <1>1, <2>4, <2>5, <2>6, <2>7, <2>8, StepKinds
<1>2. Types /\ [Next]_vars =>
        [\A d \in DOMAIN distributions' :
           (d \in DOMAIN distributions => Covered(d)) => Covered(d)' \/ PayeeGains]_vars
  BY <1>1
<1> QED BY <1>2, AlwaysTypes, PTL DEF Spec, DistributionsStayCovered
\* Fewer distributions to cover, none of them for more.
LEMMA SlackGrows ==
  ASSUME Types, Types', now <= now', Contract'.pool = pool, Contract'.claimed = claimed,
         Contract'.clm_tot = clm_tot, Contract'.holding = holding,
         DOMAIN Contract'.distributions = DOMAIN distributions,
         \A e \in DOMAIN distributions :
            /\ Contract'.distributions[e].per_token_amount = distributions[e].per_token_amount
            /\ Contract'.distributions[e].claim_deadline = distributions[e].claim_deadline
            /\ Contract'.distributions[e].is_active => distributions[e].is_active,
         PoolCovers
  PROVE  PoolCovers'
<1> DEFINE C == Claimable
           D == Claimable'
           f == [e \in C |-> Outstanding(e)]
           g == [e \in D |-> Outstanding(e)']
<1>1. /\ Contract \in Copy /\ Proper(Contract) /\ Contract.distributions = distributions
      /\ Contract'.distributions = distributions'
  BY DEF Types, Contract
<1>2. D \subseteq C
  <2>1. \A e \in DOMAIN distributions : distributions[e].claim_deadline \in Nat
    BY <1>1, ElementTypes DEF Distribution
  <2>2. now \in Nat /\ now' \in Nat
    BY DEF Types, EnvTypes
  <2> SUFFICES ASSUME NEW e \in D PROVE e \in C
    OBVIOUS
  <2>3. /\ e \in DOMAIN distributions'
        /\ distributions'[e].is_active /\ now' <= distributions'[e].claim_deadline
    BY DEF Claimable, Open
  <2>4. /\ e \in DOMAIN distributions /\ distributions[e].is_active
        /\ now' <= distributions[e].claim_deadline
    BY <1>1, <2>3
  <2>5. now <= distributions[e].claim_deadline
    BY <2>1, <2>2, <2>4
  <2> QED BY <2>4, <2>5 DEF Claimable, Open
<1>3. IsFiniteSet(C) /\ C \subseteq DOMAIN distributions
  <2>1. C = OpenIn(Contract)
    BY <1>1 DEF Claimable, Open, OpenIn
  <2> QED BY <1>1, <2>1, OpenFinite
<1>4. \A e \in C : f[e] = Unclaimed(Contract, e) /\ f[e] \in Nat
  BY <1>1, <1>3, CoveredIs, UnclaimedType
<1>5. \A e \in D : g[e] = f[e]
  <2> TAKE e \in D
  <2>1. e \in C /\ e \in DOMAIN distributions
    BY <1>2, <1>3
  <2>2. \A a \in Holder : ShareOf(holding[a], e)' = ShareOf(holding[a], e)
    BY <1>1, <2>1 DEF ShareOf, Contract
  <2>3. Outstanding(e)' = Outstanding(e)
    BY <2>2 DEF Outstanding, Contract
  <2> QED BY <2>1, <2>3
<1>6. PoolCovers <=> pool >= SumFunctionOnSet(f, C)
  BY DEF PoolCovers
<1>7. PoolCovers' <=> pool' >= SumFunctionOnSet(g, D)
  BY DEF PoolCovers
<1>8. pool' = pool /\ pool \in Nat
  BY <1>1 DEF Contract, Copy
<1> HIDE DEF f, g, C, D
<1>9. SumFunctionOnSet(g, D) = SumFunctionOnSet(f, D) /\ SumFunctionOnSet(f, D) \in Nat
  <2>1. IsFiniteSet(D) /\ \A e \in D : f[e] \in Nat
    BY <1>2, <1>3, <1>4, FS_Subset
  <2>2. \A e \in D : f[e] \in Int /\ g[e] = f[e]
    BY <1>5, <2>1
  <2>3. SumFunctionOnSet(g, D) = SumFunctionOnSet(f, D)
    BY <2>1, <2>2, SumSame
  <2>4. SumFunctionOnSet(f, D) \in Nat
    BY <2>1, SumType
  <2> QED BY <2>3, <2>4
<1>10. SumFunctionOnSet(f, D) <= SumFunctionOnSet(f, C) /\ SumFunctionOnSet(f, C) \in Nat
  BY <1>2, <1>3, <1>4, SumSubset, SumType
<1> QED BY <1>6, <1>7, <1>8, <1>9, <1>10

\* The pool covers what is outstanding if it has no less than nothing to spare.
LEMMA PoolCoversIs ==
  ASSUME Types
  PROVE  PoolCovers <=> Slack(Contract) >= 0
<1> DEFINE C == Claimable
           f == [e \in C |-> Outstanding(e)]
<1>1. Contract \in Copy /\ Proper(Contract) /\ Contract.distributions = distributions
      /\ Contract.pool = pool
  BY DEF Types, Contract
<1>2. C = OpenIn(Contract)
  BY <1>1 DEF Claimable, Open, OpenIn
<1>3. IsFiniteSet(C) /\ C \subseteq DOMAIN distributions
  BY <1>1, <1>2, OpenFinite
<1>4. \A e \in C : f[e] = Unclaimed(Contract, e) /\ f[e] \in Nat
  BY <1>1, <1>3, CoveredIs, UnclaimedType
<1>5. f = [e \in OpenIn(Contract) |-> Unclaimed(Contract, e)]
  BY <1>2, <1>4
<1>6. PoolCovers <=> pool >= SumFunctionOnSet(f, C)
  BY DEF PoolCovers
<1> HIDE DEF f, C
<1>7. Slack(Contract) = pool - SumFunctionOnSet(f, C)
  BY <1>1, <1>2, <1>5 DEF Slack
<1>8. SumFunctionOnSet(f, C) \in Nat /\ pool \in Nat
  BY <1>1, <1>3, <1>4, SumType DEF Copy
<1> QED BY <1>6, <1>7, <1>8

\* So it is in the next state.
LEMMA PoolCoversNextIs ==
  ASSUME Types', now' = now, NEW r, r = Contract', r \in Copy, Proper(r)
  PROVE  PoolCovers' <=> Slack(r) >= 0
<1> DEFINE C == Claimable'
           f == [e \in C |-> Outstanding(e)']
<1>1. r.distributions = distributions' /\ r.pool = pool'
  BY DEF Contract
<1>2. C = OpenIn(r)
  BY <1>1 DEF Claimable, Open, OpenIn
<1>3. IsFiniteSet(C) /\ C \subseteq DOMAIN distributions'
  BY <1>1, <1>2, OpenFinite
<1>4. \A e \in C : f[e] = Unclaimed(r, e) /\ f[e] \in Nat
  <2> TAKE e \in C
  <2>1. e \in DOMAIN r.distributions
    BY <1>1, <1>3
  <2>2. Outstanding(e)' = Unclaimed(r, e)
    BY DEF Outstanding, ShareOf, Unclaimed, ShareIn, Contract
  <2> QED BY <2>1, <2>2, UnclaimedType
<1>5. f = [e \in OpenIn(r) |-> Unclaimed(r, e)]
  BY <1>2, <1>4
<1>6. PoolCovers' <=> pool' >= SumFunctionOnSet(f, C)
  BY DEF PoolCovers
<1> HIDE DEF f, C
<1>7. Slack(r) = pool' - SumFunctionOnSet(f, C)
  BY <1>1, <1>2, <1>5 DEF Slack
<1>8. SumFunctionOnSet(f, C) \in Nat /\ pool' \in Nat
  BY <1>1, <1>3, <1>4, SumType DEF Copy
<1> QED BY <1>6, <1>7, <1>8

\* The pool keeps covering what every open distribution may still be claimed for:
\* beside the steps by which shares grow, only a claim of accrued yield leaves it
\* short, for any number of distributions over the one pool.
THEOREM OnlyYieldEverDrains == Spec => OnlyYieldDrainsPool
<1>1. ASSUME Types, [Next]_vars, ~PayeeGains, ~\E a \in Holder : ClaimAccruedYield(a), PoolCovers
      PROVE  PoolCovers'
  <2>1. Types' /\ Contract' \in Copy /\ Proper(Contract')
    BY <1>1, NextTypes DEF Types
  <2>2. Slack(Contract) >= 0 /\ Slack(Contract) \in Int /\ Slack(Contract') \in Int
    BY <1>1, <2>1, PoolCoversIs, SlackType DEF Types
  <2>3. CASE now' = now /\ Slack(Contract') >= Slack(Contract)
    BY <2>1, <2>2, <2>3, PoolCoversNextIs
  <2>4. CASE \E d \in DOMAIN distributions : DeactivateDistribution(d)
    <3>1. PICK d \in DOMAIN distributions : DeactivateDistribution(d)
      BY <2>4
    <3>2. now' = now /\ now \in Nat
      BY <1>1, <3>1 DEF DeactivateDistribution, Types, EnvTypes
    <3> QED BY <1>1, <2>1, <3>1, <3>2, DeactivateTypes, SlackGrows
  <2>5. CASE Contract' = Contract /\ Tick
    <3>1. now <= now'
      BY <1>1, <2>5 DEF Tick, Types, EnvTypes
    <3> QED BY <1>1, <2>1, <2>5, <3>1, SlackGrows DEF Contract
  <2> QED BY <1>1, <2>3, <2>4, <2>5, StepKinds DEF Within, Begun
<1>2. Types /\ [Next]_vars =>
        [PoolCovers => PoolCovers' \/ PayeeGains \/ \E a \in Holder : ClaimAccruedYield(a)]_vars
  BY <1>1
<1> QED BY <1>2, AlwaysTypes, PTL DEF Spec, OnlyYieldDrainsPool
=============================================================================
