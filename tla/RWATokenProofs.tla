--------------------------- MODULE RWATokenProofs ---------------------------
(***************************************************************************)
(* Proofs about the token, for every set of accounts and every input.      *)
(***************************************************************************)
EXTENDS RWAToken, SumLemmas, TLAPS

\* Integer division by d never exceeds the share it is taken of.
LEMMA ShareBound ==
  ASSUME NEW x \in Nat, NEW e \in Nat, NEW d \in Nat, e < d
  PROVE  (x * e) \div d \in 0..x
<1>1. x * e \in Nat /\ x * e <= x * d /\ d > 0
  OBVIOUS
<1>2. DEFINE q == (x * e) \div d
<1>3. q \in Nat /\ d * q <= x * e
  BY <1>1
<1>4. d * q <= d * x
  BY <1>1, <1>3
<1>5. q <= x
  BY <1>3, <1>4, <1>1
<1> QED BY <1>3, <1>5

\* Division by a positive number keeps the order.
LEMMA DivisionKeepsOrder ==
  ASSUME NEW x \in Nat, NEW y \in Nat, x <= y, NEW d \in Nat, d > 0
  PROVE  x \div d <= y \div d
<1> DEFINE q == x \div d
           r == y \div d
<1>1. q \in Nat /\ r \in Nat /\ d * q <= x /\ y < d * (r + 1)
  OBVIOUS
<1>2. d * q < d * (r + 1)
  BY <1>1
<1> HIDE DEF q, r
<1>3. q < r + 1
  BY <1>1, <1>2
<1> QED BY <1>1, <1>3 DEF q, r

\* A saturating product of natural numbers is one, and never beyond the product.
LEMMA SaturatingBound ==
  ASSUME NEW x \in Nat, NEW y \in Nat
  PROVE  /\ x * y \in Nat /\ SaturatingMul(x, y) \in 0..(x * y)
         /\ SaturatingMul(x, y) = IF x * y > MaxU128 THEN MaxU128 ELSE x * y
<1>1. x * y \in Nat /\ MaxU128 \in Nat
  BY TokenAssumption DEF MaxU128
<1> QED BY <1>1 DEF SaturatingMul

\* The vested share of an amount never exceeds it, whether or not the product saturates.
LEMMA VestedBound ==
  ASSUME NEW x \in Nat, NEW e \in Nat, NEW d \in Nat, e < d
  PROVE  SaturatingMul(x, e) \div d \in 0..x
<1> DEFINE p == SaturatingMul(x, e)
           w == x * e
<1>1. p \in Nat /\ w \in Nat /\ p <= w
  BY SaturatingBound
<1>2. w \div d \in 0..x
  BY ShareBound
<1> HIDE DEF p, w
<1>3. p \div d \in Nat
  BY <1>1
<1>4. p \div d <= w \div d
  BY <1>1, DivisionKeepsOrder
<1> QED BY <1>2, <1>3, <1>4 DEF p

\* What a slot locks is a natural number, at most the slot's amount.
LEMMA SlotLockedType ==
  ASSUME NEW slot, NEW t \in Nat,
         slot.amount \in Nat, slot.created_at \in Nat, slot.until \in Nat,
         slot.created_at <= t
  PROVE  SlotLocked(slot, t) \in 0..slot.amount
<1>1. CASE t >= slot.until \/ slot.vesting_type = "Cliff"
  BY <1>1 DEF SlotLocked
<1>2. CASE ~(t >= slot.until) /\ slot.vesting_type # "Cliff"
  <2> DEFINE e == t - slot.created_at
             d == slot.until - slot.created_at
  <2>1. e \in Nat /\ d \in Nat /\ e < d
    BY <1>2
  <2>2. SaturatingMul(slot.amount, e) \div d \in 0..slot.amount
    BY <2>1, VestedBound
  <2>3. SlotLocked(slot, t) = slot.amount - SaturatingMul(slot.amount, e) \div d
    BY <1>2 DEF SlotLocked
  <2> QED BY <2>2, <2>3
<1> QED BY <1>1, <1>2

-----------------------------------------------------------------------------
(* Lock vectors keep their shape under every operation on them.            *)

\* A lock vector has finitely many slots, and each locks between nothing and its amount.
LEMMA SlotFacts ==
  ASSUME NEW slots, NEW t \in 0..MaxTime, IsLockVec(slots, t)
  PROVE  /\ IsFiniteSet(DOMAIN slots)
         /\ \A i \in DOMAIN slots :
               /\ SlotLocked(slots[i], t) \in 0..slots[i].amount
               /\ slots[i].amount \in 0..MaxI128
         /\ \A i \in DOMAIN slots : LockedBy(slots, t)[i] = SlotLocked(slots[i], t)
         /\ \A i \in DOMAIN slots : LockedBy(slots, t)[i] \in Nat
<1>1. IsFiniteSet(DOMAIN slots)
  <2>1. IsFiniteSet(1..MaxSlots)
    BY FS_Interval, TokenAssumption
  <2>2. DOMAIN slots \in SUBSET (1..MaxSlots)
    BY DEF IsLockVec
  <2> QED BY <2>1, <2>2, FS_Subset
<1>2. ASSUME NEW i \in DOMAIN slots
      PROVE  SlotLocked(slots[i], t) \in 0..slots[i].amount /\ slots[i].amount \in 0..MaxI128
  <2>1. /\ slots[i].amount \in 0..MaxI128 /\ slots[i].created_at \in 0..MaxTime
        /\ slots[i].until \in Nat /\ slots[i].created_at <= t
    BY DEF IsLockVec, LockSlot
  <2>2. t \in Nat /\ slots[i].amount \in Nat /\ slots[i].created_at \in Nat
    BY <2>1, TokenAssumption
  <2> QED BY <2>1, <2>2, SlotLockedType
<1>3. \A i \in DOMAIN slots : LockedBy(slots, t)[i] = SlotLocked(slots[i], t)
  BY DEF LockedBy
<1> QED BY <1>1, <1>2, <1>3, TokenAssumption

\* What an account has locked is a natural number.
LEMMA LockedInType ==
  ASSUME NEW slots, NEW t \in 0..MaxTime, IsLockVec(slots, t)
  PROVE  LockedIn(slots, t) \in Nat
BY SlotFacts, SumType DEF LockedIn

\* Dropping the slots that lock nothing leaves a lock vector (refresh_balance).
LEMMA PrunedType ==
  ASSUME NEW slots, NEW t, IsLockVec(slots, t)
  PROVE  IsLockVec(Pruned(slots, t), t)
BY DEF IsLockVec, Pruned, Restrict

\* The new slot's number is beyond every number in use.
LEMMA NextSlotType ==
  ASSUME NEW slots, DOMAIN slots \subseteq 1..MaxSlots
  PROVE  /\ NextSlot(slots) \in 1..MaxSlots + 1
         /\ \A i \in DOMAIN slots : i < NextSlot(slots)
<1> DEFINE Above == {n \in 1..MaxSlots + 1 : \A i \in DOMAIN slots : i < n}
<1>1. MaxSlots + 1 \in Above /\ Above \in SUBSET Nat
  BY TokenAssumption
<1>3. PICK n \in Above : \A m \in Above : n <= m
  <2> HIDE DEF Above
  <2> QED BY <1>1, LeastNatural
<1>5. \E k \in 1..MaxSlots + 1 :
        /\ \A i \in DOMAIN slots : i < k
        /\ \A m \in 1..MaxSlots + 1 : (\A i \in DOMAIN slots : i < m) => k <= m
  BY <1>3
<1> QED BY <1>5 DEF NextSlot

\* lock_tokens adds a well-formed slot to a lock vector.
LEMMA PushedType ==
  ASSUME NEW slots, NEW t, IsLockVec(slots, t), NEW slot \in LockSlot,
         slot.created_at <= t, NextSlot(slots) <= MaxSlots
  PROVE  IsLockVec(Pushed(slots, slot), t)
BY NextSlotType, TokenAssumption DEF IsLockVec, Pushed

\* Rescaling a linear slot in unlock_tokens never makes it larger, nor larger than what
\* it had locked.
LEMMA ShrunkAmountType ==
  ASSUME NEW slot \in LockSlot, NEW t \in 0..MaxTime, NEW take \in Nat,
         slot.created_at <= t, take <= SlotLocked(slot, t), slot.amount \in Nat
  PROVE  /\ ShrunkAmount(slot, take, t) \in 0..slot.amount
         /\ slot.vesting_type # "Cliff" /\ take # 0
              => ShrunkAmount(slot, take, t) <= SlotLocked(slot, t)
<1> DEFINE locked == SlotLocked(slot, t)
           product == SaturatingMul(locked - take, slot.until - slot.created_at)
           scaled == AsI128(product \div (slot.until - t))
<1>1. locked \in 0..slot.amount
  BY SlotLockedType, TokenAssumption DEF LockSlot
<1>2. CASE take = 0 \/ take >= locked \/ slot.vesting_type = "Cliff"
  BY <1>1, <1>2 DEF ShrunkAmount
<1>3. CASE ~(take = 0 \/ take >= locked \/ slot.vesting_type = "Cliff")
  <2>1. t < slot.until
    BY <1>1, <1>3 DEF SlotLocked, LockSlot
  <2>2. product \in Nat
    <3>1. locked - take \in Nat /\ slot.until - slot.created_at \in Nat
      BY <1>1, <1>3, <2>1, TokenAssumption DEF LockSlot
    <3> QED BY <3>1, SaturatingBound
  <2>3. scaled \in Nat
    <3> HIDE DEF product
    <3> QED BY <2>1, <2>2, TokenAssumption DEF LockSlot, AsI128
  <2>4. ShrunkAmount(slot, take, t) = IF scaled > locked THEN locked - take ELSE scaled
    BY <1>3 DEF ShrunkAmount
  <2> HIDE DEF scaled
  <2> QED BY <1>1, <1>3, <2>3, <2>4
<1> QED BY <1>2, <1>3

\* An unlock takes from a slot at most what the slot locks.
LEMMA TakenType ==
  ASSUME NEW slots, NEW t \in 0..MaxTime, IsLockVec(slots, t), NEW x \in Nat, NEW i \in DOMAIN slots
  PROVE  Taken(slots, x, t, i) \in 0..SlotLocked(slots[i], t)
<1> DEFINE B == {j \in DOMAIN slots : j < i}
           before == SumFunctionOnSet(LockedBy(slots, t), B)
<1>1. IsFiniteSet(B) /\ \A j \in B : LockedBy(slots, t)[j] \in Nat
  BY SlotFacts, FS_Subset
<1>2. before \in Nat
  <2> HIDE DEF B
  <2> QED BY <1>1, SumType
<1>3. SlotLocked(slots[i], t) \in Nat
  BY SlotFacts, TokenAssumption
<1> HIDE DEF before
<1> QED BY <1>2, <1>3 DEF Taken, before

\* refresh_balance leaves the lock vectors of all accounts well formed.
LEMMA RefreshedType ==
  ASSUME TypeOK, NEW S
  PROVE  /\ Refreshed(S) = [a \in Addr |-> Refreshed(S)[a]]
         /\ \A a \in Addr : IsLockVec(Refreshed(S)[a], now)
BY PrunedType DEF TypeOK, Refreshed

\* unlock_tokens leaves a lock vector.
LEMMA ShrunkType ==
  ASSUME NEW slots, NEW t \in 0..MaxTime, IsLockVec(slots, t), NEW x \in Nat
  PROVE  IsLockVec(Shrunk(slots, x, t), t)
<1> DEFINE s == Shrunk(slots, x, t)
<1>1. ASSUME NEW i \in DOMAIN slots
      PROVE  s[i] \in LockSlot /\ s[i].created_at <= t
  <2>1. slots[i] \in LockSlot /\ slots[i].created_at <= t
    BY DEF IsLockVec
  <2>2. slots[i].amount \in Nat
    BY <2>1, TokenAssumption DEF LockSlot
  <2>3. Taken(slots, x, t, i) \in 0..SlotLocked(slots[i], t)
    BY TakenType
  <2>4. SlotLocked(slots[i], t) \in Nat
    BY SlotFacts, TokenAssumption
  <2>5. ShrunkAmount(slots[i], Taken(slots, x, t, i), t) \in 0..slots[i].amount
    BY <2>1, <2>2, <2>3, <2>4, ShrunkAmountType
  <2>6. ShrunkAmount(slots[i], Taken(slots, x, t, i), t) \in 0..MaxI128
    BY <2>1, <2>5, TokenAssumption DEF LockSlot
  <2> QED BY <2>1, <2>6 DEF LockSlot, Shrunk
<1>2. DOMAIN s = DOMAIN slots
  BY DEF Shrunk
<1>3. s = [i \in DOMAIN s |-> s[i]]
  BY DEF Shrunk
<1> HIDE DEF s
<1> QED BY <1>1, <1>2, <1>3 DEF IsLockVec, s

\* The holder registry keeps its range when an entry is adjusted within it.
LEMMA AdjustHoldersType ==
  ASSUME NEW registry \in [Addr -> 0..MaxI128], NEW a \in Addr, NEW change \in Int,
         FitsI128(registry[a] + change)
  PROVE  AdjustHolders(registry, a, change) \in [Addr -> 0..MaxI128]
BY TokenAssumption DEF AdjustHolders, FitsI128

\* What an account can spend is an integer, at most its balance.
LEMMA LockedType ==
  ASSUME TypeOK, NEW a \in Addr
  PROVE  Locked(a) \in Nat /\ Spendable(a) \in Int /\ Spendable(a) <= amount[a]
<1>1. Locked(a) \in Nat
  BY LockedInType DEF TypeOK, Locked
<1> QED BY <1>1, TokenAssumption DEF TypeOK, Spendable

\* What can be spent is there.
LEMMA SpendableBound ==
  ASSUME TypeOK, NEW a \in Addr, NEW x \in Nat, Spendable(a) >= x
  PROVE  amount[a] >= x /\ amount[a] - x \in 0..MaxI128
<1>1. Spendable(a) \in Int /\ Spendable(a) <= amount[a] /\ amount[a] \in 0..MaxI128
  BY LockedType DEF TypeOK
<1> QED BY <1>1, TokenAssumption

\* A payment leaves well-formed balances, whichever path guards it.
LEMMA MovedType ==
  ASSUME TypeOK, NEW from \in Addr, NEW to \in Addr, NEW x \in Nat,
         amount[from] >= x, FitsI128(amount[to] + x)
  PROVE  Moved(from, to, x) \in [Addr -> 0..MaxI128]
<1>1. amount \in [Addr -> 0..MaxI128] /\ MaxI128 \in Nat
  BY TokenAssumption DEF TypeOK
<1>2. amount[from] \in 0..MaxI128 /\ amount[to] \in 0..MaxI128
  BY <1>1
<1>3. amount[from] - x \in 0..MaxI128 /\ amount[to] + x \in 0..MaxI128
  BY <1>1, <1>2 DEF FitsI128
<1> QED BY <1>1, <1>3 DEF Moved

\* The payments of a batch that passed its checks add up to natural numbers.
LEMMA BatchFacts ==
  ASSUME NEW batch \in Batches, \A i \in DOMAIN batch : batch[i][2] > 0
  PROVE  /\ IsFiniteSet(DOMAIN batch)
         /\ \A i \in DOMAIN batch : batch[i][1] \in Addr /\ batch[i][2] \in Nat
         /\ BatchTotal(batch) \in Nat
         /\ \A a : PaidTo(batch, a) \in Nat
<1> DEFINE f == [i \in DOMAIN batch |-> batch[i][2]]
<1>1. batch \in Seq(Addr \X Int)
  BY TokenAssumption
<1>2. IsFiniteSet(DOMAIN batch)
  <2>1. DOMAIN batch = 1..Len(batch) /\ Len(batch) \in Nat
    BY <1>1
  <2> QED BY <2>1, FS_Interval
<1>3. \A i \in DOMAIN batch : batch[i][1] \in Addr /\ batch[i][2] \in Nat
  BY <1>1
<1>4. \A i \in DOMAIN batch : f[i] \in Nat
  BY <1>3
<1>5. BatchTotal(batch) \in Nat
  BY <1>2, <1>4, SumType DEF BatchTotal
<1>6. ASSUME NEW a
      PROVE  PaidTo(batch, a) \in Nat
  <2> DEFINE D == {i \in DOMAIN batch : batch[i][1] = a}
  <2>1. IsFiniteSet(D) /\ \A i \in D : f[i] \in Nat
    BY <1>2, <1>4, FS_Subset
  <2> HIDE DEF D, f
  <2>2. SumFunctionOnSet(f, D) \in Nat
    BY <2>1, SumType
  <2> QED BY <2>2 DEF PaidTo, D, f
<1> QED BY <1>2, <1>3, <1>5, <1>6

-----------------------------------------------------------------------------
(* Type correctness.                                                       *)

\* The token's initial states are type correct.
LEMMA InitTypeOK == Init => TypeOK
<1> SUFFICES ASSUME Init PROVE TypeOK
  OBVIOUS
<1>1. 0 \in 0..MaxI128 /\ 0 \in 0..MaxTime /\ 0 \in -(MaxI128 + 1)..MaxI128
  BY TokenAssumption
<1>2. \A a \in Addr : IsLockVec(locks[a], now)
  BY DEF Init, IsLockVec
<1> QED BY <1>1, <1>2 DEF Init, TypeOK

\* Every call of the token and every tick of the ledger keeps the types.
LEMMA NextTypeOK == TypeOK /\ [Next]_vars => TypeOK'
<1> SUFFICES ASSUME TypeOK, [Next]_vars PROVE TypeOK'
  OBVIOUS
<1> USE TokenAssumption
<1>0. \A S : /\ Refreshed(S) = [a \in Addr |-> Refreshed(S)[a]]
             /\ \A a \in Addr : IsLockVec(Refreshed(S)[a], now)
  BY RefreshedType
<1>1. ASSUME NEW s \in Supplies, Initialize(s) PROVE TypeOK'
  <2>1. s \in Int /\ s > 0 /\ s + s \in -(MaxI128 + 1)..MaxI128
    BY <1>1 DEF Initialize, FitsI128
  <2>2. amount' \in [Addr -> 0..MaxI128]
    BY <1>1, <2>1 DEF Initialize, TypeOK, FitsI128
  <2>3. holders' \in [Addr -> 0..MaxI128]
    BY <1>1, <2>1, AdjustHoldersType DEF Initialize, TypeOK, FitsI128
  <2> QED BY <1>0, <1>1, <2>1, <2>2, <2>3 DEF Initialize, TypeOK
<1>2. ASSUME NEW a \in Addr, NEW x \in Amounts, Mint(a, x) PROVE TypeOK'
  <2>0. x \in Int
    OBVIOUS
  <2>1. amount' \in [Addr -> 0..MaxI128]
    BY <1>2 DEF Mint, TypeOK, FitsI128
  <2>2. holders' \in [Addr -> 0..MaxI128]
    BY <1>2, <2>0, AdjustHoldersType DEF Mint, TypeOK
  <2> QED BY <1>0, <1>2, <2>1, <2>2 DEF Mint, TypeOK, FitsI128
<1>3. ASSUME NEW a \in Addr, NEW x \in Amounts, Burn(a, x) PROVE TypeOK'
  <2>0. x \in Int /\ x > 0 /\ -x \in Int /\ amount[a] \in 0..MaxI128 /\ holders[a] \in 0..MaxI128
    BY <1>3 DEF Burn, TypeOK
  <2>1. amount[a] >= x
    BY <1>3, <2>0, LockedType DEF Burn
  <2>2. amount' \in [Addr -> 0..MaxI128]
    BY <1>3, <2>0, <2>1 DEF Burn, TypeOK
  <2>3. holders[a] + (-x) \in -(MaxI128 + 1)..MaxI128
    BY <2>0, <2>1
  <2>4. holders' \in [Addr -> 0..MaxI128]
    BY <1>3, <2>0, <2>3, AdjustHoldersType DEF Burn, TypeOK, FitsI128
  <2> QED BY <1>0, <1>3, <2>2, <2>4 DEF Burn, TypeOK, FitsI128
<1>4. ASSUME NEW a \in Addr, NEW x \in Amounts, UnlockTokens(a, x) PROVE TypeOK'
  <2>1. IsLockVec(Pruned(locks[a], now), now)
    BY PrunedType DEF TypeOK
  <2> DEFINE kept == Pruned(locks[a], now)
             left == Pruned(Shrunk(kept, x, now), now)
  <2>2. x \in Nat /\ now \in 0..MaxTime
    BY <1>4 DEF UnlockTokens, TypeOK
  <2>3. IsLockVec(Shrunk(kept, x, now), now)
    BY <2>1, <2>2, ShrunkType
  <2>4. IsLockVec(left, now)
    BY <2>3, PrunedType
  <2>5. locks' = [locks EXCEPT ![a] = left]
    BY <1>4 DEF UnlockTokens
  <2> HIDE DEF left, kept
  <2>6. locks' = [b \in Addr |-> locks'[b]] /\ \A b \in Addr : IsLockVec(locks'[b], now)
    BY <2>4, <2>5 DEF TypeOK
  <2> QED BY <2>6, <1>4 DEF UnlockTokens, TypeOK
<1>5. ASSUME NEW p \in Payments, NEW x \in Amounts,
             Transfer(p[1], p[2], x) \/ ForceTransfer(p[1], p[2], x)
      PROVE  TypeOK'
  <2>1. p[1] \in Addr /\ p[2] \in Addr /\ x \in Nat /\ x > 0 /\ -x \in Int
    <3>1. p \in Addr \X Addr /\ x \in Int
      OBVIOUS
    <3> QED BY <1>5, <3>1 DEF Transfer, TransferInternal, ForceTransfer
  <2>2. amount[p[1]] >= x /\ FitsI128(amount[p[2]] + x)
    <3>1. CASE Transfer(p[1], p[2], x)
      <4>1. Spendable(p[1]) >= x /\ FitsI128(amount[p[2]] + x)
        BY <3>1 DEF Transfer, TransferInternal
      <4> QED BY <4>1, <2>1, SpendableBound
    <3>2. CASE ForceTransfer(p[1], p[2], x)
      BY <3>2 DEF ForceTransfer
    <3> QED BY <1>5, <3>1, <3>2
  <2>3. amount' \in [Addr -> 0..MaxI128]
    <3>1. amount' = Moved(p[1], p[2], x)
      BY <1>5 DEF Transfer, TransferInternal, ForceTransfer
    <3> QED BY <3>1, <2>1, <2>2, MovedType
  <2> DEFINE debited == AdjustHolders(holders, p[1], -x)
  <2>4. debited \in [Addr -> 0..MaxI128]
    <3>1. holders \in [Addr -> 0..MaxI128] /\ amount[p[1]] \in 0..MaxI128
      BY <2>1 DEF TypeOK
    <3>2. FitsI128(holders[p[1]] + (-x))
      BY <3>1, <2>1, <2>2 DEF FitsI128
    <3> QED BY <2>1, <3>1, <3>2, AdjustHoldersType
  <2>5. FitsI128(debited[p[2]] + x) /\ holders' = AdjustHolders(debited, p[2], x)
    BY <1>5 DEF Transfer, ForceTransfer
  <2>6. holders' \in [Addr -> 0..MaxI128]
    <3> HIDE DEF debited
    <3> QED BY <2>1, <2>4, <2>5, AdjustHoldersType
  <2> QED BY <1>0, <1>5, <2>3, <2>6 DEF Transfer, TransferInternal, ForceTransfer, TypeOK
<1>6. ASSUME NEW o \in Addr, NEW s \in Spenders, NEW x \in Amounts \union {0}, Approve(o, s, x)
      PROVE  TypeOK'
  <2>1. allowances' \in [Addr \X Addr -> 0..MaxI128]
    BY <1>6 DEF Approve, TypeOK, FitsI128
  <2>2. locks' = [a \in Addr |-> locks'[a]] /\ \A a \in Addr : IsLockVec(locks'[a], now)
    BY <1>0, <1>6 DEF Approve, TypeOK
  <2> QED BY <1>6, <2>1, <2>2 DEF Approve, TypeOK
<1>7. ASSUME NEW s \in Spenders, NEW p \in Payments, NEW x \in Amounts,
             TransferFrom(s, p[1], p[2], x)
      PROVE  TypeOK'
  <2>1. p[1] \in Addr /\ p[2] \in Addr /\ s \in Addr /\ x \in Nat
    <3>1. p \in Addr \X Addr /\ x \in Int
      OBVIOUS
    <3> QED BY <1>7, <3>1 DEF TransferFrom
  <2>2. amount[p[1]] >= x /\ FitsI128(amount[p[2]] + x)
    <3>1. Spendable(p[1]) >= x /\ FitsI128(amount[p[2]] + x)
      BY <1>7 DEF TransferFrom, TransferInternal
    <3> QED BY <3>1, <2>1, SpendableBound
  <2>3. amount' \in [Addr -> 0..MaxI128]
    BY <1>7, <2>1, <2>2, MovedType DEF TransferFrom, TransferInternal
  <2>4. allowances' \in [Addr \X Addr -> 0..MaxI128]
    <3>1. allowances[<<p[1], s>>] >= x /\ allowances' = AllowanceSpent(p[1], s, x)
      BY <1>7 DEF TransferFrom
    <3>2. <<p[1], s>> \in Addr \X Addr /\ allowances[<<p[1], s>>] \in 0..MaxI128
      BY <2>1 DEF TypeOK
    <3>3. allowances[<<p[1], s>>] - x \in 0..MaxI128
      BY <2>1, <3>1, <3>2
    <3> QED BY <3>1, <3>2, <3>3 DEF AllowanceSpent, TypeOK
  <2> QED BY <1>0, <1>7, <2>3, <2>4 DEF TransferFrom, TransferInternal, TypeOK
<1>8. ASSUME NEW a \in Addr, NEW b \in Batches, BatchTransfer(a, b) PROVE TypeOK'
  <2>1. BatchTotal(b) \in Nat /\ \A c : PaidTo(b, c) \in Nat
    BY <1>8, BatchFacts DEF BatchTransfer
  <2>2. amount[a] - BatchTotal(b) \in 0..MaxI128
    <3>1. Spendable(a) >= BatchTotal(b)
      BY <1>8 DEF BatchTransfer
    <3> QED BY <3>1, <2>1, SpendableBound
  <2> DEFINE debited == [amount EXCEPT ![a] = @ - BatchTotal(b)]
  <2>3. debited \in [Addr -> 0..MaxI128]
    BY <2>2 DEF TypeOK
  <2>4. /\ \A c \in Addr : FitsI128(debited[c] + PaidTo(b, c))
        /\ amount' = [c \in Addr |-> debited[c] + PaidTo(b, c)]
    BY <1>8 DEF BatchTransfer
  <2>5. amount' \in [Addr -> 0..MaxI128]
    <3> HIDE DEF debited
    <3> QED BY <2>1, <2>3, <2>4 DEF FitsI128
  <2> QED BY <1>0, <1>8, <2>5 DEF BatchTransfer, TypeOK
<1>9. ASSUME NEW a \in Addr, NEW x \in Amounts, NEW d \in Periods, NEW v \in Vestings,
             LockTokens(a, x, d, v)
      PROVE  TypeOK'
  <2> DEFINE kept == Pruned(locks[a], now)
             slot == [amount |-> x, created_at |-> now, until |-> now + d, vesting_type |-> v]
  <2>1. IsLockVec(kept, now)
    BY PrunedType DEF TypeOK
  <2>2. x \in 0..MaxI128
    BY <1>9, LockedType DEF LockTokens, TypeOK
  <2>3. slot \in LockSlot /\ slot.created_at <= now
    BY <2>2 DEF LockSlot, TypeOK
  <2>4. NextSlot(kept) <= MaxSlots /\ locks' = [locks EXCEPT ![a] = Pruned(Pushed(kept, slot), now)]
    BY <1>9 DEF LockTokens
  <2> HIDE DEF kept, slot
  <2>5. IsLockVec(Pruned(Pushed(kept, slot), now), now)
    BY <2>1, <2>3, <2>4, PushedType, PrunedType
  <2>6. locks' = [c \in Addr |-> locks'[c]] /\ \A c \in Addr : IsLockVec(locks'[c], now)
    BY <2>4, <2>5 DEF TypeOK
  <2> QED BY <2>6, <1>9 DEF LockTokens, TypeOK
<1>10. ASSUME NEW a \in Addr, GetBalance(a) PROVE TypeOK'
  BY <1>0, <1>10 DEF GetBalance, TypeOK
<1>11. ASSUME NEW a \in Reviewed, RegistryChange(a) PROVE TypeOK'
  BY <1>11 DEF RegistryChange, TypeOK
<1>12. ASSUME NEW b \in Flags, SetPaused(b) \/ SetFrozen(b) PROVE TypeOK'
  BY <1>12 DEF SetPaused, SetFrozen, TypeOK
<1>13. CASE Tick
  <2>1. ASSUME NEW a \in Addr PROVE IsLockVec(locks[a], now + 1)
    <3>1. IsLockVec(locks[a], now) /\ now \in Nat
      BY DEF TypeOK
    <3>2. \A i \in DOMAIN locks[a] : locks[a][i].created_at \in Nat
      BY <3>1 DEF IsLockVec, LockSlot
    <3> QED BY <3>1, <3>2 DEF IsLockVec
  <2> QED BY <1>13, <2>1 DEF Tick, TypeOK
<1>14. CASE UNCHANGED vars
  BY <1>14 DEF vars, TypeOK
<1> QED BY <1>1, <1>2, <1>3, <1>4, <1>5, <1>6, <1>7, <1>8, <1>9, <1>10, <1>11, <1>12,
           <1>13, <1>14 DEF Next

\* In every reachable state balances, registry entries and allowances are
\* natural numbers within the i128 range, total_supply is within the range, and
\* every lock slot was created no later than now.
THEOREM TypeCorrect == Spec => []TypeOK
<1>1. Init => TypeOK
  BY InitTypeOK
<1>2. TypeOK /\ [Next]_vars => TypeOK'
  BY NextTypeOK
<1> QED BY <1>1, <1>2, PTL DEF Spec
-----------------------------------------------------------------------------
(* Balances and the supply.                                                *)

\* Changing one balance changes the sum of balances by as much.
LEMMA OneBalance ==
  ASSUME NEW m \in [Addr -> Int], NEW n \in [Addr -> Int], NEW a \in Addr,
         \A x \in Addr \ {a} : n[x] = m[x]
  PROVE  SumFunctionOnSet(n, Addr) = SumFunctionOnSet(m, Addr) - m[a] + n[a]
<1>1. IsFiniteSet(Addr) /\ \A x \in Addr : m[x] \in Int /\ n[x] \in Int
  BY TokenAssumption
<1> QED BY <1>1, SumUpdate

\* A payment between two accounts leaves the sum of balances as it was.
LEMMA MovedSum ==
  ASSUME TypeOK, NEW from \in Addr, NEW to \in Addr, from # to, NEW x \in Int
  PROVE  SumFunctionOnSet(Moved(from, to, x), Addr) = SumOfBalances
<1> DEFINE v == amount[from] - x
           w == amount[to] + x
           less == [amount EXCEPT ![from] = v]
<1>1. amount \in [Addr -> Int] /\ SumOfBalances \in Int
  <2>1. IsFiniteSet(Addr) /\ amount \in [Addr -> Int] /\ \A a \in Addr : amount[a] \in Int
    BY TokenAssumption DEF TypeOK
  <2> QED BY <2>1, SumType DEF SumOfBalances
<1>2. Moved(from, to, x) = [less EXCEPT ![to] = w]
  BY <1>1 DEF Moved
<1>3. /\ less \in [Addr -> Int] /\ less[from] = v /\ \A a \in Addr \ {from} : less[a] = amount[a]
      /\ less[to] = amount[to] /\ amount[to] \in Int /\ amount[from] \in Int
      /\ v \in Int /\ w \in Int /\ w = amount[to] + x /\ v = amount[from] - x
  BY <1>1
<1> HIDE DEF v, w
<1> HIDE DEF less
<1>4. SumFunctionOnSet(less, Addr) = SumOfBalances - amount[from] + v
  BY <1>1, <1>3, OneBalance DEF SumOfBalances
<1> DEFINE moved == Moved(from, to, x)
<1>5. /\ moved \in [Addr -> Int] /\ moved[to] = w
      /\ \A a \in Addr \ {to} : moved[a] = less[a]
  BY <1>2, <1>3
<1> HIDE DEF moved
<1>6. SumFunctionOnSet(moved, Addr) = SumFunctionOnSet(less, Addr) - less[to] + w
  BY <1>3, <1>5, OneBalance
<1> QED BY <1>1, <1>3, <1>4, <1>6 DEF moved

\* What a batch pays to each account adds up to its total, repeated recipients and
\* the sender among them included.
LEMMA BatchPaysItsTotal ==
  ASSUME NEW batch \in Batches, \A i \in DOMAIN batch : batch[i][2] > 0
  PROVE  SumFunctionOnSet([a \in Addr |-> PaidTo(batch, a)], Addr) = BatchTotal(batch)
<1> DEFINE f == [i \in DOMAIN batch |-> batch[i][2]]
           r == [i \in DOMAIN batch |-> batch[i][1]]
<1>1. IsFiniteSet(DOMAIN batch) /\ IsFiniteSet(Addr)
        /\ \A i \in DOMAIN batch : f[i] \in Int /\ r[i] \in Addr
  BY BatchFacts, TokenAssumption
<1>2. \A a : {i \in DOMAIN batch : r[i] = a} = {i \in DOMAIN batch : batch[i][1] = a}
  OBVIOUS
<1>3. [a \in Addr |-> SumFunctionOnSet(f, {i \in DOMAIN batch : r[i] = a})]
        = [a \in Addr |-> PaidTo(batch, a)]
  BY <1>2 DEF PaidTo
<1>4. BatchTotal(batch) = SumFunctionOnSet(f, DOMAIN batch)
  BY DEF BatchTotal
<1> HIDE DEF f, r
<1> QED BY <1>1, <1>3, <1>4, SumByClasses

\* A batch leaves the sum of balances as it was.
LEMMA BatchSum ==
  ASSUME TypeOK, NEW from \in Addr, NEW batch \in Batches, BatchTransfer(from, batch)
  PROVE  SumFunctionOnSet(amount', Addr) = SumOfBalances
<1> DEFINE total == BatchTotal(batch)
           debited == [amount EXCEPT ![from] = @ - total]
           paid == [a \in Addr |-> PaidTo(batch, a)]
<1>1. \A i \in DOMAIN batch : batch[i][2] > 0
  BY DEF BatchTransfer
<1>2. amount' = [a \in Addr |-> debited[a] + PaidTo(batch, a)]
  BY DEF BatchTransfer
<1>3. total \in Nat /\ \A a : PaidTo(batch, a) \in Nat
  BY <1>1, BatchFacts
<1>4. SumFunctionOnSet(paid, Addr) = total
  BY <1>1, BatchPaysItsTotal
<1> HIDE DEF total
<1>5. IsFiniteSet(Addr) /\ amount \in [Addr -> Int] /\ \A a \in Addr : amount[a] \in Int
  BY TokenAssumption DEF TypeOK
<1>6. SumOfBalances \in Int
  BY <1>5, SumType DEF SumOfBalances
<1>7. amount[from] - total \in Int
  BY <1>3, <1>5
<1>8. debited \in [Addr -> Int]
        /\ SumFunctionOnSet(debited, Addr) = SumOfBalances - amount[from] + (amount[from] - total)
  <2> DEFINE v == amount[from] - total
  <2>1. v \in Int /\ debited = [amount EXCEPT ![from] = v]
    BY <1>7
  <2> HIDE DEF v
  <2>2. debited \in [Addr -> Int] /\ debited[from] = v /\ \A a \in Addr \ {from} : debited[a] = amount[a]
    BY <1>5, <2>1
  <2> HIDE DEF debited
  <2>3. SumFunctionOnSet(debited, Addr) = SumOfBalances - amount[from] + v
    BY <1>5, <2>2, OneBalance DEF SumOfBalances
  <2> QED BY <2>2, <2>3 DEF v
<1>9. \A a \in Addr : debited[a] \in Int /\ paid[a] \in Int /\ amount'[a] = debited[a] + paid[a]
  BY <1>2, <1>3, <1>8
<1> HIDE DEF debited, paid
<1>10. SumFunctionOnSet(amount', Addr) = SumFunctionOnSet(debited, Addr) + SumFunctionOnSet(paid, Addr)
  BY <1>5, <1>9, SumPlus
<1> QED BY <1>3, <1>4, <1>5, <1>6, <1>8, <1>10

\* Every call of an initialized token but an account's payment to itself moves the
\* sum of balances by what it moves the supply.
LEMMA NextFollows ==
  ASSUME TypeOK, [Next]_vars
  PROVE  \/ ~initialized
         \/ \E a \in Addr : PaysItself(a)
         \/ SumOfBalances' - SumOfBalances = total_supply' - total_supply
<1> DEFINE Follows == SumOfBalances' - SumOfBalances = total_supply' - total_supply
<1>1. /\ amount \in [Addr -> Int] /\ IsFiniteSet(Addr) /\ \A a \in Addr : amount[a] \in Int
      /\ total_supply \in Int /\ Amounts \subseteq Int
  BY TokenAssumption DEF TypeOK
<1>2. SumOfBalances \in Int /\ SumOfBalances' = SumFunctionOnSet(amount', Addr)
  BY <1>1, SumType DEF SumOfBalances
<1>3. ASSUME UNCHANGED <<amount, total_supply>> PROVE Follows
  BY <1>1, <1>2, <1>3 DEF SumOfBalances
<1>4. ASSUME UNCHANGED total_supply, SumFunctionOnSet(amount', Addr) = SumOfBalances PROVE Follows
  BY <1>1, <1>2, <1>4
<1>5. ASSUME NEW a \in Addr, NEW x \in Amounts, Mint(a, x) PROVE Follows
  <2> DEFINE v == amount[a] + x
  <2>1. v \in Int /\ amount' = [amount EXCEPT ![a] = v] /\ total_supply' = total_supply + x /\ x \in Int
    BY <1>1, <1>5 DEF Mint
  <2>2. v = amount[a] + x
    OBVIOUS
  <2> HIDE DEF v
  <2>3. amount' \in [Addr -> Int] /\ amount'[a] = v /\ \A o \in Addr \ {a} : amount'[o] = amount[o]
    BY <1>1, <2>1
  <2>4. SumFunctionOnSet(amount', Addr) = SumOfBalances - amount[a] + v
    BY <1>1, <2>3, OneBalance DEF SumOfBalances
  <2> QED BY <1>1, <1>2, <2>1, <2>2, <2>4
<1>6. ASSUME NEW a \in Addr, NEW x \in Amounts, Burn(a, x) PROVE Follows
  <2> DEFINE v == amount[a] - x
  <2>1. v \in Int /\ amount' = [amount EXCEPT ![a] = v] /\ total_supply' = total_supply - x /\ x \in Int
    BY <1>1, <1>6 DEF Burn
  <2>2. v = amount[a] - x
    OBVIOUS
  <2> HIDE DEF v
  <2>3. amount' \in [Addr -> Int] /\ amount'[a] = v /\ \A o \in Addr \ {a} : amount'[o] = amount[o]
    BY <1>1, <2>1
  <2>4. SumFunctionOnSet(amount', Addr) = SumOfBalances - amount[a] + v
    BY <1>1, <2>3, OneBalance DEF SumOfBalances
  <2> QED BY <1>1, <1>2, <2>1, <2>2, <2>4
<1>7. ASSUME NEW from \in Addr, NEW to \in Addr, NEW x \in Amounts,
             amount' = Moved(from, to, x), UNCHANGED total_supply, from # to
      PROVE  Follows
  BY <1>1, <1>4, <1>7, MovedSum
<1>8. ASSUME NEW p \in Payments, NEW x \in Amounts,
             \/ Transfer(p[1], p[2], x)
             \/ ForceTransfer(p[1], p[2], x)
             \/ \E s \in Spenders : TransferFrom(s, p[1], p[2], x)
      PROVE  Follows \/ \E a \in Addr : PaysItself(a)
  <2>1. p[1] \in Addr /\ p[2] \in Addr
    BY TokenAssumption
  <2>2. amount' = Moved(p[1], p[2], x) /\ UNCHANGED total_supply
    BY <1>8 DEF Transfer, ForceTransfer, TransferFrom, TransferInternal
  <2>3. CASE p[1] # p[2]
    <3> HIDE DEF Follows
    <3> QED BY <1>7, <2>1, <2>2, <2>3
  <2>4. CASE p[1] = p[2]
    BY <1>8, <2>1, <2>4 DEF PaysItself
  <2> QED BY <2>3, <2>4
<1>9. ASSUME NEW a \in Addr, NEW b \in Batches, BatchTransfer(a, b) PROVE Follows
  <2>1. UNCHANGED total_supply
    BY <1>9 DEF BatchTransfer
  <2> HIDE DEF Follows
  <2> QED BY <1>4, <1>9, <2>1, BatchSum
<1>10. /\ \A s \in Supplies : Initialize(s) => ~initialized
       /\ \A a \in Addr, x \in Amounts : UnlockTokens(a, x) => UNCHANGED <<amount, total_supply>>
       /\ \A o \in Addr, s \in Spenders, x \in Amounts \union {0} :
             Approve(o, s, x) => UNCHANGED <<amount, total_supply>>
       /\ \A a \in Addr, x \in Amounts, d \in Periods, v \in Vestings :
             LockTokens(a, x, d, v) => UNCHANGED <<amount, total_supply>>
       /\ \A a \in Addr : GetBalance(a) \/ RegistryChange(a) => UNCHANGED <<amount, total_supply>>
       /\ \A b \in Flags : SetPaused(b) \/ SetFrozen(b) => UNCHANGED <<amount, total_supply>>
       /\ Tick \/ UNCHANGED vars => UNCHANGED <<amount, total_supply>>
  BY DEF Initialize, UnlockTokens, Approve, LockTokens, GetBalance, RegistryChange, SetPaused,
         SetFrozen, Tick, vars
<1>11. Reviewed \subseteq Addr
  BY TokenAssumption
<1> HIDE DEF Follows
<1>12. Follows \/ ~initialized \/ \E a \in Addr : PaysItself(a)
  BY <1>3, <1>5, <1>6, <1>8, <1>9, <1>10, <1>11 DEF Next
<1> QED BY <1>12 DEF Follows

\* Whichever path tokens take, batches with repeated recipients and the sender among
\* them included, the sum of all balances moves by what total_supply moves, unless
\* an account pays itself (transfer_internal, batch_transfer, mint and burn).
THEOREM SupplyAlwaysFollows == Spec => SupplyFollowsBalances
<1>1. TypeOK /\ [Next]_vars =>
        [\/ ~initialized
         \/ \E a \in Addr : PaysItself(a)
         \/ SumOfBalances' - SumOfBalances = total_supply' - total_supply]_vars
  BY NextFollows
<1> QED BY TypeCorrect, <1>1, PTL DEF Spec, SupplyFollowsBalances

-----------------------------------------------------------------------------
(* Who may change a balance.                                               *)

\* A batch touches the balances of its sender and its recipients only, and takes from
\* its sender only.
LEMMA BatchTouches ==
  ASSUME TypeOK, NEW from \in Addr, NEW batch \in Batches, BatchTransfer(from, batch)
  PROVE  /\ \E i \in DOMAIN batch : TRUE
         /\ \A a \in Addr \ {from} :
               /\ amount'[a] >= amount[a]
               /\ (\A i \in DOMAIN batch : batch[i][1] # a) => amount'[a] = amount[a]
<1>1. \A i \in DOMAIN batch : batch[i][2] > 0
  BY DEF BatchTransfer
<1>2. \A a \in Addr \ {from} : amount'[a] = amount[a] + PaidTo(batch, a)
  BY DEF BatchTransfer, TypeOK
<1>3. \A a : PaidTo(batch, a) \in Nat
  BY <1>1, BatchFacts
<1>4. ASSUME NEW a \in Addr, \A i \in DOMAIN batch : batch[i][1] # a PROVE PaidTo(batch, a) = 0
  <2>1. {i \in DOMAIN batch : batch[i][1] = a} = {}
    BY <1>4
  <2> QED BY <2>1, SumEmpty DEF PaidTo
<1>5. \A a \in Addr : amount[a] \in Int
  BY TokenAssumption DEF TypeOK
<1>6. Len(batch) >= 1 /\ batch \in Seq(Addr \X Int)
  BY TokenAssumption DEF BatchTransfer
<1>7. 1 \in DOMAIN batch
  BY <1>6
<1> QED BY <1>2, <1>3, <1>4, <1>5, <1>7

\* What a payment does to each balance.
LEMMA MovedTouches ==
  ASSUME TypeOK, NEW from \in Addr, NEW to \in Addr, NEW x \in Int, x > 0,
         amount' = Moved(from, to, x)
  PROVE  /\ \A a \in Addr \ {from, to} : amount'[a] = amount[a]
         /\ amount'[to] = amount[to] + x /\ amount'[to] >= amount[to]
         /\ from # to => amount[from] - amount'[from] = x
<1>1. \A a \in Addr : amount[a] \in Int
  BY TokenAssumption DEF TypeOK
<1>2. amount = [a \in Addr |-> amount[a]]
  BY DEF TypeOK
<1>3. \A a \in Addr : amount'[a] = IF a = to THEN amount[to] + x
                                   ELSE IF a = from THEN amount[from] - x ELSE amount[a]
  BY <1>1, <1>2 DEF Moved
<1> QED BY <1>1, <1>3

\* The calls that move no tokens.
LEMMA BalancesStay ==
  /\ \A a \in Addr, x \in Amounts : UnlockTokens(a, x) => UNCHANGED amount
  /\ \A o \in Addr, s \in Spenders, x \in Amounts \union {0} : Approve(o, s, x) => UNCHANGED amount
  /\ \A a \in Addr, x \in Amounts, d \in Periods, v \in Vestings :
        LockTokens(a, x, d, v) => UNCHANGED amount
  /\ \A a : GetBalance(a) \/ RegistryChange(a) => UNCHANGED amount
  /\ \A b \in Flags : SetPaused(b) \/ SetFrozen(b) => UNCHANGED amount
  /\ Tick \/ UNCHANGED vars => UNCHANGED amount
BY DEF UnlockTokens, Approve, LockTokens, GetBalance, RegistryChange, SetPaused, SetFrozen, Tick, vars

\* Without a mint, an initialization or a seizure no balance of an account that the
\* registry does not pass changes.
LEMMA NextRespects ==
  ASSUME TypeOK, [Next]_vars, NEW a \in Addr \ cleared, amount'[a] # amount[a]
  PROVE  \/ \E x \in Amounts : Mint(a, x)
         \/ \E s \in Supplies : Initialize(s)
         \/ \E p \in Payments, x \in Amounts : ForceTransfer(p[1], p[2], x)
<1> DEFINE Allowed == \/ \E x \in Amounts : Mint(a, x)
                      \/ \E s \in Supplies : Initialize(s)
                      \/ \E p \in Payments, x \in Amounts : ForceTransfer(p[1], p[2], x)
<1>1. amount = [o \in Addr |-> amount[o]] /\ Payments \subseteq Addr \X Addr /\ Amounts \subseteq Int
  BY TokenAssumption DEF TypeOK
<1>2. ASSUME NEW o \in Addr, NEW x \in Amounts, Mint(o, x) PROVE Allowed
  <2>1. CASE o = a
    BY <1>2, <2>1
  <2>2. CASE o # a
    BY <1>1, <1>2, <2>2 DEF Mint
  <2> QED BY <2>1, <2>2
<1>3. ASSUME NEW o \in Addr, NEW x \in Amounts, Burn(o, x) PROVE FALSE
  BY <1>1, <1>3 DEF Burn, Compliant
<1>4. ASSUME NEW from \in Addr, NEW to \in Addr, NEW x \in Amounts, TransferInternal(from, to, x)
      PROVE  FALSE
  <2>1. x \in Int /\ x > 0 /\ amount' = Moved(from, to, x) /\ from \in cleared /\ to \in cleared
    BY <1>1, <1>4 DEF TransferInternal, Compliant
  <2> QED BY <2>1, MovedTouches
<1>5. ASSUME NEW p \in Payments, NEW x \in Amounts,
             Transfer(p[1], p[2], x) \/ \E s \in Spenders : TransferFrom(s, p[1], p[2], x)
      PROVE  FALSE
  <2>1. p[1] \in Addr /\ p[2] \in Addr
    BY <1>1
  <2>2. TransferInternal(p[1], p[2], x)
    BY <1>5 DEF Transfer, TransferFrom
  <2> QED BY <1>4, <2>1, <2>2
<1>6. ASSUME NEW o \in Addr, NEW b \in Batches, BatchTransfer(o, b) PROVE FALSE
  <2>1. \A i \in DOMAIN b : o \in cleared /\ b[i][1] \in cleared
    BY <1>6 DEF BatchTransfer, Compliant
  <2>2. o \in cleared
    BY <1>6, <2>1, BatchTouches
  <2> QED BY <1>6, <2>1, <2>2, BatchTouches
<1> HIDE DEF Allowed
<1>7. Allowed
  <2>1. \A s \in Supplies : Initialize(s) => Allowed
    BY DEF Allowed
  <2>2. \A p \in Payments, x \in Amounts : ForceTransfer(p[1], p[2], x) => Allowed
    BY DEF Allowed
  <2> QED BY <1>2, <1>3, <1>5, <1>6, <2>1, <2>2, BalancesStay DEF Next
<1> QED BY <1>7 DEF Allowed

\* No transfer, delegated transfer, batch or burn gets around the registry's verdict
\* on either side, however the verdict changed before (check_transfer).
THEOREM VerdictAlwaysRespected == Spec => VerdictRespected
<1>1. TypeOK /\ [Next]_vars =>
        [\A a \in Addr \ cleared :
            amount'[a] # amount[a] =>
                \/ \E x \in Amounts : Mint(a, x)
                \/ \E s \in Supplies : Initialize(s)
                \/ \E p \in Payments, x \in Amounts : ForceTransfer(p[1], p[2], x)]_vars
  BY NextRespects
<1> QED BY TypeCorrect, <1>1, PTL DEF Spec, VerdictRespected

\* What a balance that falls goes into: a call by right, the allowance of one spender,
\* or out of the supply.
LEMMA NextPays ==
  ASSUME TypeOK, [Next]_vars, NEW a \in Addr, amount'[a] < amount[a], ~TakenByRight(a)
  PROVE  \/ \E s \in Spenders :
               allowances[<<a, s>>] - allowances'[<<a, s>>] = amount[a] - amount'[a]
         \/ /\ total_supply - total_supply' = amount[a] - amount'[a]
            /\ \A b \in Addr \ {a} : amount'[b] = amount[b]
<1> DEFINE Allowed == \E s \in Spenders :
                        allowances[<<a, s>>] - allowances'[<<a, s>>] = amount[a] - amount'[a]
           Burned == /\ total_supply - total_supply' = amount[a] - amount'[a]
                     /\ \A b \in Addr \ {a} : amount'[b] = amount[b]
           Paid == TakenByRight(a) \/ Allowed \/ Burned
<1>1. /\ amount \in [Addr -> Int] /\ \A o \in Addr : amount[o] \in Int
      /\ Payments \subseteq Addr \X Addr /\ Amounts \subseteq Int /\ Spenders \subseteq Addr
      /\ Supplies \subseteq Int /\ Admin \in Addr
  BY TokenAssumption DEF TypeOK
<1>2. ASSUME NEW s \in Supplies, Initialize(s) PROVE FALSE
  <2>1. s \in Int /\ s > 0 /\ amount' = [amount EXCEPT ![Admin] = @ + s]
    BY <1>1, <1>2 DEF Initialize
  <2> QED BY <1>1, <2>1
<1>3. ASSUME NEW o \in Addr, NEW x \in Amounts, Mint(o, x) PROVE FALSE
  <2>1. x \in Int /\ x > 0 /\ amount' = [amount EXCEPT ![o] = @ + x]
    BY <1>1, <1>3 DEF Mint
  <2> QED BY <1>1, <2>1
<1>4. ASSUME NEW o \in Addr, NEW x \in Amounts, Burn(o, x) PROVE Paid
  <2>1. o = a
    BY <1>1, <1>4 DEF Burn
  <2>2. x \in Int /\ total_supply \in Int
    BY <1>1, TokenAssumption DEF TypeOK
  <2>3. Burned
    BY <1>1, <1>4, <2>1, <2>2 DEF Burn
  <2> QED BY <2>3
<1>5. ASSUME NEW from \in Addr, NEW to \in Addr, NEW x \in Amounts, x > 0,
             amount' = Moved(from, to, x)
      PROVE  from = a /\ from # to /\ x = amount[a] - amount'[a]
  BY <1>1, <1>5, MovedTouches
<1>6. ASSUME NEW p \in Payments, NEW x \in Amounts, Transfer(p[1], p[2], x) PROVE Paid
  <2>1. p[1] \in Addr /\ p[2] \in Addr
    BY <1>1
  <2>2. p[1] = a
    BY <1>5, <1>6, <2>1 DEF Transfer, TransferInternal
  <2> QED BY <1>6, <2>1, <2>2 DEF TakenByRight
<1>7. ASSUME NEW p \in Payments, NEW x \in Amounts, ForceTransfer(p[1], p[2], x) PROVE Paid
  <2>1. p[1] \in Addr /\ p[2] \in Addr
    BY <1>1
  <2>2. p[1] = a
    BY <1>5, <1>7, <2>1 DEF ForceTransfer
  <2> QED BY <1>7, <2>1, <2>2 DEF Seized, TakenByRight
<1>8. ASSUME NEW s \in Spenders, NEW p \in Payments, NEW x \in Amounts, TransferFrom(s, p[1], p[2], x)
      PROVE  Paid
  <2>1. p[1] \in Addr /\ p[2] \in Addr
    BY <1>1
  <2>2. p[1] = a /\ x = amount[a] - amount'[a]
    BY <1>5, <1>8, <2>1 DEF TransferFrom, TransferInternal
  <2>3. <<a, s>> \in Addr \X Addr /\ x \in Int
    BY <1>1
  <2>4. allowances' = AllowanceSpent(a, s, x)
    BY <1>8, <2>2 DEF TransferFrom
  <2>5. allowances[<<a, s>>] \in Int /\ allowances'[<<a, s>>] = allowances[<<a, s>>] - x
    BY <2>3, <2>4, TokenAssumption DEF TypeOK, AllowanceSpent
  <2>6. allowances[<<a, s>>] - allowances'[<<a, s>>] = amount[a] - amount'[a]
    BY <2>2, <2>3, <2>5
  <2> QED BY <2>6
<1>9. ASSUME NEW o \in Addr, NEW b \in Batches, BatchTransfer(o, b) PROVE Paid
  <2>1. o = a
    <3> SUFFICES ASSUME o # a PROVE FALSE
      OBVIOUS
    <3>1. amount'[a] >= amount[a]
      BY <1>9, BatchTouches
    <3>2. amount'[a] \in Int
      <4>1. amount' \in [Addr -> 0..MaxI128]
        BY NextTypeOK DEF TypeOK
      <4> QED BY <4>1, TokenAssumption
    <3> QED BY <1>1, <3>1, <3>2
  <2> QED BY <1>9, <2>1 DEF TakenByRight
<1>10. ~UNCHANGED amount
  BY <1>1
<1> HIDE DEF Paid
<1>11. Paid
  BY <1>2, <1>3, <1>4, <1>6, <1>7, <1>8, <1>9, <1>10, BalancesStay DEF Next
<1> QED BY <1>11 DEF Paid

\* Tokens that leave an account by neither its owner's call nor a seizure either use up
\* as much of one spender's allowance (transfer_from) or leave the supply with as much,
\* and then no other balance changes (burn, which asks for nobody's authorization).
THEOREM AllowanceAlwaysPays == Spec => AllowancePaysForTransfer
<1>1. TypeOK /\ [Next]_vars =>
        [\A a \in Addr :
            amount'[a] < amount[a] /\ ~TakenByRight(a) =>
                \/ \E s \in Spenders :
                      allowances[<<a, s>>] - allowances'[<<a, s>>] = amount[a] - amount'[a]
                \/ /\ total_supply - total_supply' = amount[a] - amount'[a]
                   /\ \A b \in Addr \ {a} : amount'[b] = amount[b]]_vars
  BY NextPays
<1> QED BY TypeCorrect, <1>1, PTL DEF Spec, AllowancePaysForTransfer

-----------------------------------------------------------------------------
(* What accounts have locked.                                              *)

\* What a slot locks only falls as time passes.
LEMMA SlotFades ==
  ASSUME NEW slot, NEW t \in Nat, slot.amount \in Nat, slot.created_at \in Nat, slot.until \in Nat,
         slot.created_at <= t
  PROVE  SlotLocked(slot, t + 1) <= SlotLocked(slot, t)
<1>1. SlotLocked(slot, t) \in 0..slot.amount
  BY SlotLockedType
<1>2. CASE t + 1 >= slot.until \/ slot.vesting_type = "Cliff"
  BY <1>1, <1>2 DEF SlotLocked
<1>3. CASE ~(t + 1 >= slot.until \/ slot.vesting_type = "Cliff")
  <2> DEFINE d == slot.until - slot.created_at
             e == SaturatingMul(slot.amount, t - slot.created_at)
             f == SaturatingMul(slot.amount, t + 1 - slot.created_at)
  <2>1. e \in Nat /\ f \in Nat /\ e <= f
    <3>1. slot.amount * (t + 1 - slot.created_at) = slot.amount * (t - slot.created_at) + slot.amount
      OBVIOUS
    <3>2. t - slot.created_at \in Nat /\ t + 1 - slot.created_at \in Nat /\ MaxU128 \in Nat
      BY TokenAssumption DEF MaxU128
    <3> DEFINE m == slot.amount * (t - slot.created_at)
               k == slot.amount * (t + 1 - slot.created_at)
    <3>3. m \in Nat /\ k \in Nat /\ m <= k
      BY <3>1, <3>2
    <3>4. /\ e = IF m > MaxU128 THEN MaxU128 ELSE m
          /\ f = IF k > MaxU128 THEN MaxU128 ELSE k
      BY DEF SaturatingMul
    <3> HIDE DEF m, k, e, f
    <3> QED BY <3>2, <3>3, <3>4
  <2>2. d \in Nat /\ d > 0
    BY <1>3
  <2>3. SlotLocked(slot, t) = slot.amount - e \div d
    BY <1>3 DEF SlotLocked
  <2>4. SlotLocked(slot, t + 1) = slot.amount - f \div d
    BY <1>3 DEF SlotLocked
  <2> HIDE DEF d, e, f
  <2>5. e \div d <= f \div d /\ e \div d \in Int /\ f \div d \in Int
    BY <2>1, <2>2, DivisionKeepsOrder
  <2> QED BY <2>3, <2>4, <2>5
<1> QED BY <1>2, <1>3

\* As time passes a lock vector locks less, if anything changes.
LEMMA LocksFade ==
  ASSUME NEW slots, NEW t \in 0..MaxTime, t < MaxTime, IsLockVec(slots, t)
  PROVE  LockedIn(slots, t + 1) <= LockedIn(slots, t)
<1>0. t \in Nat /\ t + 1 \in 0..MaxTime /\ IsLockVec(slots, t + 1)
  <2>1. t \in Nat /\ t + 1 \in 0..MaxTime
    BY TokenAssumption
  <2>2. \A i \in DOMAIN slots : slots[i].created_at \in Int /\ slots[i].created_at <= t
    BY TokenAssumption DEF IsLockVec, LockSlot
  <2> QED BY <2>1, <2>2 DEF IsLockVec
<1>1. ASSUME NEW i \in DOMAIN slots
      PROVE  /\ LockedBy(slots, t + 1)[i] \in Int /\ LockedBy(slots, t)[i] \in Int
             /\ LockedBy(slots, t + 1)[i] <= LockedBy(slots, t)[i]
  <2>1. /\ slots[i].amount \in Nat /\ slots[i].created_at \in Nat
        /\ slots[i].until \in Nat /\ slots[i].created_at <= t
    BY TokenAssumption DEF IsLockVec, LockSlot
  <2>2. SlotLocked(slots[i], t + 1) <= SlotLocked(slots[i], t)
    BY <1>0, <2>1, SlotFades
  <2> QED BY <1>0, <2>2, SlotFacts
<1>2. IsFiniteSet(DOMAIN slots)
  BY SlotFacts
<1> QED BY <1>1, <1>2, SumMonotone DEF LockedIn

\* Dropping the slots that lock nothing leaves what is locked (refresh_balance).
LEMMA PruningKeepsLocked ==
  ASSUME NEW slots, NEW t \in 0..MaxTime, IsLockVec(slots, t)
  PROVE  LockedIn(Pruned(slots, t), t) = LockedIn(slots, t)
<1> DEFINE kept == Pruned(slots, t)
           R == {i \in DOMAIN slots : SlotLocked(slots[i], t) > 0}
           f == LockedBy(slots, t)
           g == LockedBy(kept, t)
<1>1. DOMAIN kept = R /\ \A i \in R : kept[i] = slots[i]
  BY DEF Pruned, Restrict
<1>2. IsFiniteSet(DOMAIN slots) /\ \A i \in DOMAIN slots : f[i] = SlotLocked(slots[i], t) /\ f[i] \in Nat
  BY SlotFacts
<1>3. \A i \in R : g[i] \in Int /\ f[i] = g[i]
  BY <1>1, <1>2 DEF LockedBy
<1>4. \A i \in DOMAIN slots \ R : f[i] = 0
  BY <1>2
<1>5. R \in SUBSET DOMAIN slots
  OBVIOUS
<1> HIDE DEF R, f, g, kept
<1>6. SumFunctionOnSet(f, DOMAIN slots) = SumFunctionOnSet(g, R)
  BY <1>2, <1>3, <1>4, <1>5, SumWithin
<1> QED BY <1>1, <1>6 DEF LockedIn, f, g, kept

\* Refreshing any accounts leaves what each has locked.
LEMMA RefreshKeepsLocked ==
  ASSUME TypeOK, NEW S, NEW a \in Addr
  PROVE  LockedIn(Refreshed(S)[a], now) = Locked(a)
<1>1. IsLockVec(locks[a], now) /\ now \in 0..MaxTime
  BY DEF TypeOK
<1>2. Refreshed(S)[a] = Pruned(locks[a], now) \/ Refreshed(S)[a] = locks[a]
  BY DEF Refreshed
<1> QED BY <1>1, <1>2, PruningKeepsLocked DEF Locked

\* The new slot adds what it locks.
LEMMA PushingAddsLocked ==
  ASSUME NEW slots, NEW t \in 0..MaxTime, IsLockVec(slots, t), NEW slot \in LockSlot,
         slot.created_at <= t, NextSlot(slots) <= MaxSlots
  PROVE  LockedIn(Pushed(slots, slot), t) = LockedIn(slots, t) + SlotLocked(slot, t)
<1> DEFINE new == Pushed(slots, slot)
           n == NextSlot(slots)
           f == LockedBy(new, t)
           g == LockedBy(slots, t)
<1>1. IsLockVec(new, t)
  BY PushedType
<1>2. n \in Nat /\ n \notin DOMAIN slots
  <2>1. DOMAIN slots \subseteq 1..MaxSlots
    BY DEF IsLockVec
  <2>2. n \in 1..MaxSlots + 1 /\ \A i \in DOMAIN slots : i < n
    BY <2>1, NextSlotType
  <2> HIDE DEF n
  <2> QED BY <2>2, TokenAssumption
<1>3. DOMAIN new = DOMAIN slots \union {n} /\ new[n] = slot /\ \A i \in DOMAIN slots : new[i] = slots[i]
  BY <1>2 DEF Pushed
<1>4. IsFiniteSet(DOMAIN new) /\ \A i \in DOMAIN new : f[i] \in Int /\ f[i] = SlotLocked(new[i], t)
  BY <1>1, SlotFacts
<1>5. IsFiniteSet(DOMAIN slots) /\ \A i \in DOMAIN slots : g[i] \in Int /\ g[i] = SlotLocked(slots[i], t)
  BY SlotFacts
<1> HIDE DEF new, n, f, g
<1>6. SumFunctionOnSet(f, DOMAIN new) = f[n] + SumFunctionOnSet(f, DOMAIN new \ {n})
  BY <1>3, <1>4, SumRemove
<1>7. DOMAIN new \ {n} = DOMAIN slots
  BY <1>2, <1>3
<1>8. SumFunctionOnSet(f, DOMAIN slots) = SumFunctionOnSet(g, DOMAIN slots)
  BY <1>3, <1>4, <1>5, SumSame
<1>9. SumFunctionOnSet(g, DOMAIN slots) \in Int /\ f[n] \in Int /\ f[n] = SlotLocked(slot, t)
  BY <1>3, <1>4, <1>5, SumType
<1> QED BY <1>6, <1>7, <1>8, <1>9 DEF LockedIn, f, g, new

-----------------------------------------------------------------------------
(* What an unlock releases.                                                *)

\* A slot cut by what is taken from it locks no more than before, and unless its product
\* saturates less by what is taken or more: the scaled amount is rounded down
\* (unlock_tokens).
LEMMA ShrunkReleases ==
  ASSUME NEW slot \in LockSlot, NEW t \in 0..MaxTime, slot.created_at <= t,
         NEW take \in Nat, take <= SlotLocked(slot, t),
         NEW cut, cut = [slot EXCEPT !.amount = ShrunkAmount(slot, take, t)]
  PROVE  /\ SlotLocked(cut, t) <= SlotLocked(slot, t)
         /\ ~Saturated(slot, t) => SlotLocked(cut, t) <= SlotLocked(slot, t) - take
<1> DEFINE locked == SlotLocked(slot, t)
           n == ShrunkAmount(slot, take, t)
<1>1. /\ slot.amount \in Nat /\ slot.created_at \in Nat /\ slot.until \in Nat /\ t \in Nat
      /\ slot.vesting_type \in {"Cliff", "Linear"}
  BY TokenAssumption DEF LockSlot
<1>2. locked \in 0..slot.amount
  BY <1>1, SlotLockedType
<1>3. n \in 0..slot.amount
  BY <1>1, ShrunkAmountType
<1>4. /\ cut.amount = n /\ cut.created_at = slot.created_at /\ cut.until = slot.until
      /\ cut.vesting_type = slot.vesting_type
  BY DEF LockSlot
<1>5. SlotLocked(cut, t) \in 0..n
  <2>1. /\ cut.amount \in Nat /\ cut.created_at \in Nat /\ cut.until \in Nat
        /\ cut.created_at <= t /\ cut.amount = n
    BY <1>1, <1>3, <1>4
  <2> HIDE DEF n
  <2> QED BY <1>1, <2>1, SlotLockedType
<1>6. CASE take = 0
  <2>1. n = slot.amount
    BY <1>6 DEF ShrunkAmount
  <2>2. SlotLocked(cut, t) = locked
    BY <1>4, <2>1 DEF SlotLocked
  <2> QED BY <1>2, <1>6, <2>2
<1>7. CASE take # 0 /\ take >= locked
  <2>1. n = 0
    BY <1>7 DEF ShrunkAmount
  <2> QED BY <1>2, <1>5, <1>7, <2>1
<1>8. CASE take # 0 /\ ~(take >= locked) /\ slot.vesting_type = "Cliff"
  <2>1. n = slot.amount - take
    BY <1>8 DEF ShrunkAmount
  <2>2. locked = slot.amount
    BY <1>1, <1>2, <1>8 DEF SlotLocked
  <2> QED BY <1>1, <1>2, <1>5, <2>1, <2>2
<1>9. CASE take # 0 /\ ~(take >= locked) /\ slot.vesting_type # "Cliff"
  <2> DEFINE d == slot.until - slot.created_at
             r == slot.until - t
             e == t - slot.created_at
             left == locked - take
             product == SaturatingMul(left, d)
             quotient == product \div r
             scaled == AsI128(quotient)
  <2>1. t < slot.until
    BY <1>1, <1>2, <1>9 DEF SlotLocked
  <2>2. d \in Nat /\ r \in Nat /\ e \in Nat /\ r > 0 /\ d = e + r /\ left \in Nat /\ left > 0
    BY <1>1, <1>2, <1>9, <2>1
  <2>3. n = IF scaled > locked THEN left ELSE scaled
    BY <1>9 DEF ShrunkAmount
  <2>4. SlotLocked(cut, t) = n - SaturatingMul(n, e) \div d
    BY <1>1, <1>4, <1>9, <2>1 DEF SlotLocked
  <2>5. n \in Nat
    BY <1>1, <1>3
  <2>10. SlotLocked(cut, t) <= locked
    <3>1. n <= locked
      BY <1>1, <1>9, ShrunkAmountType
    <3> HIDE DEF n, locked
    <3> QED BY <1>2, <1>3, <1>5, <3>1
  <2>11. SUFFICES ASSUME ~Saturated(slot, t) PROVE SlotLocked(cut, t) <= locked - take
    BY <2>10
  <2>12. SaturatingMul(n, e) = n * e
    <3>1. slot.amount * e <= MaxU128 /\ slot.amount * e \in Nat
      <4>1. slot.amount * e \in Nat /\ MaxU128 \in Nat
        <5>1. slot.amount \in Nat /\ e \in Nat
          BY <1>1, <2>2
        <5>2. MaxU128 \in Nat
          BY TokenAssumption DEF MaxU128
        <5> HIDE DEF e
        <5> QED BY <5>1, <5>2
      <4> QED BY <1>1, <1>9, <2>1, <2>11, <4>1 DEF Saturated
    <3>2. n <= slot.amount
      BY <1>1, <1>3
    <3> HIDE DEF n, e
    <3>3. n * e <= slot.amount * e /\ n * e \in Nat
      <4>1. (slot.amount - n) * e = slot.amount * e - n * e /\ (slot.amount - n) * e \in Nat
        BY <1>1, <2>2, <2>5, <3>2
      <4> QED BY <2>2, <2>5, <3>1, <4>1
    <3>4. ~(n * e > MaxU128)
      BY <3>1, <3>3, TokenAssumption DEF MaxU128
    <3> QED BY <2>2, <2>5, <3>4 DEF SaturatingMul
  <2> HIDE DEF n, locked
  <2>6. n * r <= left * d
    <3> HIDE DEF d, r, e, left
    <3>1. left * d \in Nat
      BY <2>2
    <3>2. scaled * r <= left * d
      <4>1. product \in Nat /\ product <= left * d
        BY <2>2, <3>1, SaturatingBound
      <4> HIDE DEF product
      <4>2. quotient \in Nat /\ quotient * r <= product
        BY <2>2, <4>1
      <4>3. scaled = 0 \/ scaled = quotient
        BY DEF AsI128
      <4> HIDE DEF quotient, scaled
      <4> QED BY <2>2, <3>1, <4>1, <4>2, <4>3
    <3>3. left * r <= left * d
      <4>1. left * d = left * e + left * r /\ left * e \in Nat /\ left * r \in Nat
        BY <2>2
      <4> QED BY <4>1
    <3> HIDE DEF scaled
    <3> QED BY <2>3, <3>2, <3>3
  <2> HIDE DEF d, r, e, left, product, quotient, scaled
  <2>7. n * e >= (n - left) * d
    <3>1. n * d = n * e + n * r /\ (n - left) * d = n * d - left * d
      BY <2>2, <2>5
    <3>2. n * d \in Int /\ n * e \in Int /\ n * r \in Int /\ left * d \in Int
      BY <2>2, <2>5
    <3> QED BY <2>6, <3>1, <3>2
  <2>8. (n * e) \div d >= n - left
    <3> DEFINE p == n * e
               q == p \div d
               w == n - left
    <3>1. n * e \in Nat /\ d > 0
      BY <2>2, <2>5
    <3>2. q \in Int /\ n * e < d * (q + 1)
      <4>1. p \in Nat
        BY <3>1
      <4> HIDE DEF p
      <4>2. q \in Int /\ p < d * (q + 1)
        BY <2>2, <3>1, <4>1
      <4> QED BY <4>2 DEF p
    <3>3. w \in Int /\ w * d <= n * e
      BY <2>2, <2>5, <2>7
    <3> HIDE DEF q, w
    <3>4. w * d < d * (q + 1)
      BY <2>2, <3>1, <3>2, <3>3
    <3>5. w < q + 1
      BY <2>2, <3>1, <3>2, <3>3, <3>4
    <3> QED BY <3>2, <3>3, <3>5 DEF q, w
  <2>9. (n * e) \div d \in Int
    BY <2>2, <2>5
  <2> QED BY <2>2, <2>4, <2>5, <2>8, <2>9, <2>12 DEF left, locked
<1> QED BY <1>6, <1>7, <1>8, <1>9

\* What an unlock takes from each slot.
TakenBy(slots, x, t) == [i \in DOMAIN slots |-> Taken(slots, x, t, i)]

\* The slots before the n-th together give what is asked for, or all they lock if that
\* is less: otherwise there would be a first n for which they do not.
LEMMA FirstSlotsGive ==
  ASSUME NEW slots, NEW t \in 0..MaxTime, IsLockVec(slots, t), NEW x \in Nat, NEW n \in Nat
  PROVE  LET before == {j \in DOMAIN slots : j < n}
             locked == SumFunctionOnSet(LockedBy(slots, t), before)
         IN  SumFunctionOnSet(TakenBy(slots, x, t), before) = IF x > locked THEN locked ELSE x
<1> DEFINE First(m) == {j \in DOMAIN slots : j < m}
           L == LockedBy(slots, t)
           T == TakenBy(slots, x, t)
           Holds(m) == SumFunctionOnSet(T, First(m))
                         = IF x > SumFunctionOnSet(L, First(m)) THEN SumFunctionOnSet(L, First(m)) ELSE x
           Bad == {m \in Nat : ~Holds(m)}
<1>1. SUFFICES ASSUME Bad # {} PROVE FALSE
  OBVIOUS
<1>2. PICK m \in Bad : \A k \in Bad : m <= k
  <2> Bad \in SUBSET Nat
    OBVIOUS
  <2> HIDE DEF Bad
  <2> QED BY <1>1, LeastNatural
<1>3. DOMAIN slots \subseteq Nat /\ IsFiniteSet(DOMAIN slots)
  BY SlotFacts, TokenAssumption DEF IsLockVec
<1>4. \A i \in DOMAIN slots : /\ L[i] = SlotLocked(slots[i], t) /\ L[i] \in Nat
                              /\ T[i] = Taken(slots, x, t, i) /\ T[i] \in 0..L[i] /\ T[i] \in Int
  <2>1. \A i \in DOMAIN slots : L[i] = SlotLocked(slots[i], t) /\ L[i] \in Nat
    BY SlotFacts
  <2>2. \A i \in DOMAIN slots : T[i] = Taken(slots, x, t, i)
    BY DEF TakenBy
  <2> HIDE DEF L, T
  <2>3. \A i \in DOMAIN slots : T[i] \in 0..L[i]
    BY <2>1, <2>2, TakenType
  <2> QED BY <2>1, <2>2, <2>3
<1>5. m # 0
  <2>1. First(0) = {}
    BY <1>3
  <2>2. SumFunctionOnSet(T, First(0)) = 0 /\ SumFunctionOnSet(L, First(0)) = 0
    BY <2>1, SumEmpty
  <2>3. Holds(0)
    BY <2>2
  <2> QED BY <1>2, <2>3
<1> DEFINE k == m - 1
<1>6. k \in Nat /\ m = k + 1 /\ k \notin Bad
  BY <1>2, <1>5
<1>7. Holds(k) /\ ~Holds(m)
  BY <1>2, <1>6
<1>8. \A i \in DOMAIN slots : i < m <=> i < k \/ i = k
  BY <1>3, <1>6
<1>9. CASE k \notin DOMAIN slots
  <2>1. First(m) = First(k)
    BY <1>8, <1>9
  <2> QED BY <1>7, <2>1
<1>10. CASE k \in DOMAIN slots
  <2>1. /\ k \in First(m) /\ First(m) \ {k} = First(k) /\ First(m) \subseteq DOMAIN slots
        /\ First(k) \subseteq DOMAIN slots
    BY <1>6, <1>8, <1>10
  <2>2. IsFiniteSet(First(m)) /\ IsFiniteSet(First(k))
    BY <1>3, <2>1, FS_Subset
  <2> DEFINE l == SumFunctionOnSet(L, First(k))
             s == SumFunctionOnSet(T, First(k))
  <2>3. Taken(slots, x, t, k) = LET want == IF x > l THEN x - l ELSE 0
                                IN  IF want < L[k] THEN want ELSE L[k]
    BY <1>4, <1>10 DEF Taken
  <2>4. \A i \in First(m) : L[i] \in Int /\ T[i] \in Int
    BY <1>4, <2>1
  <2> HIDE DEF L, T, First
  <2>5. SumFunctionOnSet(L, First(m)) = L[k] + l
    BY <2>1, <2>2, <2>4, SumRemove
  <2>6. SumFunctionOnSet(T, First(m)) = T[k] + s
    BY <2>1, <2>2, <2>4, SumRemove
  <2>7. l \in Nat /\ s \in Int /\ L[k] \in Nat /\ T[k] \in Int
    <3>1. \A i \in First(k) : L[i] \in Nat /\ T[i] \in Int
      BY <1>4, <2>1
    <3> QED BY <1>4, <1>10, <2>2, <3>1, SumType
  <2>8. s = IF x > l THEN l ELSE x
    BY <1>7
  <2>9. T[k] = LET want == IF x > l THEN x - l ELSE 0 IN IF want < L[k] THEN want ELSE L[k]
    BY <1>4, <1>10, <2>3
  <2> HIDE DEF l, s
  <2>10. T[k] + s = IF x > L[k] + l THEN L[k] + l ELSE x
    BY <2>7, <2>8, <2>9
  <2> QED BY <1>7, <2>5, <2>6, <2>10
<1> QED BY <1>9, <1>10

\* An unlock takes what it is asked for, when as much is locked.
LEMMA SlotsGive ==
  ASSUME NEW slots, NEW t \in 0..MaxTime, IsLockVec(slots, t), NEW x \in Nat,
         x <= LockedIn(slots, t)
  PROVE  SumFunctionOnSet(TakenBy(slots, x, t), DOMAIN slots) = x
<1> DEFINE n == MaxSlots + 1
           before == {j \in DOMAIN slots : j < n}
<1>1. n \in Nat /\ before = DOMAIN slots
  <2>1. \A j \in DOMAIN slots : j < n
    BY TokenAssumption DEF IsLockVec
  <2>2. before = DOMAIN slots
    <3> HIDE DEF n
    <3> QED BY <2>1
  <2> QED BY <2>2, TokenAssumption
<1> HIDE DEF n, before
<1>2. SumFunctionOnSet(TakenBy(slots, x, t), before)
        = IF x > SumFunctionOnSet(LockedBy(slots, t), before)
          THEN SumFunctionOnSet(LockedBy(slots, t), before) ELSE x
  BY <1>1, FirstSlotsGive DEF before
<1>3. LockedIn(slots, t) \in Nat
  BY LockedInType
<1> QED BY <1>1, <1>2, <1>3 DEF LockedIn

\* After an unlock the slots lock no more than before, and unless one of them saturates
\* less by at least what was asked for.
LEMMA ShrinkingReleases ==
  ASSUME NEW slots, NEW t \in 0..MaxTime, IsLockVec(slots, t), NEW x \in Nat,
         x <= LockedIn(slots, t)
  PROVE  /\ LockedIn(Shrunk(slots, x, t), t) <= LockedIn(slots, t)
         /\ (\A i \in DOMAIN slots : ~Saturated(slots[i], t))
              => LockedIn(Shrunk(slots, x, t), t) <= LockedIn(slots, t) - x
<1> DEFINE new == Shrunk(slots, x, t)
           f == LockedBy(new, t)
           L == LockedBy(slots, t)
           T == TakenBy(slots, x, t)
           g == [i \in DOMAIN slots |-> L[i] - T[i]]
<1>1. IsLockVec(new, t) /\ DOMAIN new = DOMAIN slots
  BY ShrunkType DEF Shrunk
<1>2. IsFiniteSet(DOMAIN slots)
        /\ \A i \in DOMAIN slots : L[i] \in Int /\ L[i] \in Nat /\ L[i] = SlotLocked(slots[i], t)
  BY SlotFacts
<1>3. \A i \in DOMAIN slots : f[i] \in Int /\ f[i] = SlotLocked(new[i], t)
  BY <1>1, SlotFacts
<1>4. \A i \in DOMAIN slots : T[i] = Taken(slots, x, t, i)
  BY DEF TakenBy
<1>5. \A i \in DOMAIN slots : T[i] \in 0..SlotLocked(slots[i], t)
  <2> HIDE DEF T
  <2> QED BY <1>4, TakenType
<1>6. \A i \in DOMAIN slots : T[i] \in Int /\ T[i] \in Nat /\ T[i] <= SlotLocked(slots[i], t)
  <2> HIDE DEF T, L
  <2> QED BY <1>2, <1>5
<1>7. ASSUME NEW i \in DOMAIN slots
      PROVE  f[i] <= L[i] /\ (~Saturated(slots[i], t) => f[i] <= g[i])
  <2>1. slots[i] \in LockSlot /\ slots[i].created_at <= t
    BY DEF IsLockVec
  <2>2. new[i] = [slots[i] EXCEPT !.amount = ShrunkAmount(slots[i], T[i], t)]
    BY <1>4 DEF Shrunk
  <2> DEFINE slot == slots[i]
             take == T[i]
             cut == new[i]
  <2>3. take \in Nat /\ take <= SlotLocked(slot, t)
    BY <1>6
  <2>4. slot \in LockSlot /\ slot.created_at <= t
    BY <2>1
  <2>5. cut = [slot EXCEPT !.amount = ShrunkAmount(slot, take, t)]
    BY <2>2
  <2> HIDE DEF slot, take, cut
  <2>6. /\ SlotLocked(cut, t) <= SlotLocked(slot, t)
        /\ ~Saturated(slot, t) => SlotLocked(cut, t) <= SlotLocked(slot, t) - take
    BY <2>3, <2>4, <2>5, ShrunkReleases
  <2> QED BY <1>2, <1>3, <2>6 DEF cut, slot, take
<1>8. \A i \in DOMAIN slots : g[i] \in Int /\ L[i] = g[i] + T[i]
  <2> HIDE DEF L, T
  <2> QED BY <1>2, <1>6
<1> HIDE DEF f, g, L, T, new
<1>9. SumFunctionOnSet(f, DOMAIN slots) <= SumFunctionOnSet(L, DOMAIN slots)
  BY <1>2, <1>3, <1>7, SumMonotone
<1>10. SumFunctionOnSet(L, DOMAIN slots)
         = SumFunctionOnSet(g, DOMAIN slots) + SumFunctionOnSet(T, DOMAIN slots)
  BY <1>2, <1>6, <1>8, SumPlus
<1>11. SumFunctionOnSet(T, DOMAIN slots) = x
  BY SlotsGive DEF T
<1>12. /\ SumFunctionOnSet(f, DOMAIN slots) \in Int /\ SumFunctionOnSet(g, DOMAIN slots) \in Int
       /\ SumFunctionOnSet(L, DOMAIN slots) \in Int
  BY <1>2, <1>3, <1>8, SumType
<1>13. ASSUME \A i \in DOMAIN slots : ~Saturated(slots[i], t)
       PROVE  SumFunctionOnSet(f, DOMAIN slots) <= SumFunctionOnSet(g, DOMAIN slots)
  BY <1>2, <1>3, <1>7, <1>8, <1>13, SumMonotone
<1> QED BY <1>1, <1>9, <1>10, <1>11, <1>12, <1>13 DEF LockedIn, f, L, new

\* unlock_tokens, with the refreshes before and after it.
LEMMA UnlockingReleases ==
  ASSUME TypeOK, NEW a \in Addr, NEW x \in Amounts, UnlockTokens(a, x)
  PROVE  /\ Locked(a)' <= Locked(a)
         /\ \/ Locked(a)' <= Locked(a) - x
            \/ \E i \in DOMAIN locks[a] : Saturated(locks[a][i], now)
         /\ \A o \in Addr \ {a} : Locked(o)' = Locked(o)
<1> DEFINE kept == Pruned(locks[a], now)
           cut == Shrunk(kept, x, now)
<1>1. /\ x \in Int /\ x > 0 /\ x <= Locked(a) /\ now' = now /\ now \in 0..MaxTime
      /\ IsLockVec(locks[a], now) /\ locks' = [locks EXCEPT ![a] = Pruned(cut, now)]
  <2>1. Locked(a) \in Nat
    BY LockedType
  <2> QED BY <2>1, TokenAssumption DEF UnlockTokens, TypeOK
<1>2. IsLockVec(kept, now) /\ LockedIn(kept, now) = Locked(a)
  BY <1>1, PrunedType, PruningKeepsLocked DEF Locked
<1>3. locks' = [o \in Addr |-> IF o = a THEN Pruned(cut, now) ELSE locks[o]]
  BY <1>1 DEF TypeOK
<1>4. x \in Nat
  BY <1>1
<1>10. \A i \in DOMAIN kept : i \in DOMAIN locks[a] /\ kept[i] = locks[a][i]
  BY DEF Pruned, Restrict
<1> HIDE DEF kept
<1>5. /\ LockedIn(cut, now) <= LockedIn(kept, now)
      /\ (\A i \in DOMAIN kept : ~Saturated(kept[i], now))
           => LockedIn(cut, now) <= LockedIn(kept, now) - x
  BY <1>1, <1>2, <1>4, ShrinkingReleases
<1>6. IsLockVec(cut, now)
  BY <1>1, <1>2, <1>4, ShrunkType
<1> HIDE DEF cut
<1>7. LockedIn(Pruned(cut, now), now) = LockedIn(cut, now)
  BY <1>1, <1>6, PruningKeepsLocked
<1>8. Locked(a)' = LockedIn(Pruned(cut, now), now)
  BY <1>1, <1>3 DEF Locked
<1>9. \A o \in Addr \ {a} : Locked(o)' = Locked(o)
  BY <1>1, <1>3 DEF Locked
<1> QED BY <1>2, <1>5, <1>7, <1>8, <1>9, <1>10

\* An unlock releases at least what it is asked for, over however many slots, cliff or
\* linear, unless the product of a linear one saturates (unlock_tokens).
THEOREM UnlockAlwaysReleases == Spec => UnlockReleasesEnough
<1>1. TypeOK /\ [Next]_vars =>
        [\A a \in Addr, x \in Amounts :
            UnlockTokens(a, x) =>
                \/ Locked(a)' <= Locked(a) - x
                \/ \E i \in DOMAIN locks[a] : Saturated(locks[a][i], now)]_vars
  BY UnlockingReleases
<1> QED BY TypeCorrect, <1>1, PTL DEF Spec, UnlockReleasesEnough
-----------------------------------------------------------------------------
(* Covered accounts.                                                       *)

\* The calls that change lock vectors by refreshing some, or not at all, leave what
\* each account has locked.
LEMMA LockedStays ==
  ASSUME TypeOK, UNCHANGED now, UNCHANGED locks \/ \E S \in SUBSET Addr : locks' = Refreshed(S),
         NEW a \in Addr
  PROVE  Locked(a)' = Locked(a)
<1>1. CASE UNCHANGED locks
  BY <1>1 DEF Locked
<1>2. CASE \E S \in SUBSET Addr : locks' = Refreshed(S)
  BY <1>2, RefreshKeepsLocked DEF Locked
<1> QED BY <1>1, <1>2

\* The calls that are neither a lock nor an unlock, and changes of flags and verdicts,
\* leave what each account has locked.
LEMMA OthersKeepLocked ==
  ASSUME TypeOK, NEW a \in Addr
  PROVE  /\ \A s \in Supplies : Initialize(s) => Locked(a)' = Locked(a)
         /\ \A o \in Addr, x \in Amounts : Mint(o, x) \/ Burn(o, x) => Locked(a)' = Locked(a)
         /\ \A o \in Addr, q \in Addr, x \in Amounts :
               (TransferInternal(o, q, x) /\ UNCHANGED now) \/ ForceTransfer(o, q, x)
                 => Locked(a)' = Locked(a)
         /\ \A o \in Addr, s \in Spenders, x \in Amounts \union {0} :
               Approve(o, s, x) => Locked(a)' = Locked(a)
         /\ \A o \in Addr, b \in Batches : BatchTransfer(o, b) => Locked(a)' = Locked(a)
         /\ \A o \in Addr : GetBalance(o) \/ RegistryChange(o) => Locked(a)' = Locked(a)
         /\ \A b \in Flags : SetPaused(b) \/ SetFrozen(b) => Locked(a)' = Locked(a)
         /\ UNCHANGED vars => Locked(a)' = Locked(a)
<1>1. ASSUME UNCHANGED now, NEW S \in SUBSET Addr, locks' = Refreshed(S) PROVE Locked(a)' = Locked(a)
  BY <1>1, LockedStays
<1>2. ASSUME UNCHANGED now, UNCHANGED locks PROVE Locked(a)' = Locked(a)
  BY <1>2, LockedStays
<1>3. ASSUME NEW s \in Supplies, Initialize(s) PROVE Locked(a)' = Locked(a)
  <2>1. {Admin} \in SUBSET Addr
    BY TokenAssumption
  <2> QED BY <1>1, <1>3, <2>1 DEF Initialize
<1>4. ASSUME NEW o \in Addr, NEW x \in Amounts, Mint(o, x) \/ Burn(o, x) PROVE Locked(a)' = Locked(a)
  <2>1. {o} \in SUBSET Addr
    OBVIOUS
  <2> QED BY <1>1, <1>4, <2>1 DEF Mint, Burn
<1>5. ASSUME NEW o \in Addr, NEW q \in Addr, NEW x \in Amounts,
             (TransferInternal(o, q, x) /\ UNCHANGED now) \/ ForceTransfer(o, q, x)
      PROVE  Locked(a)' = Locked(a)
  <2>1. {o, q} \in SUBSET Addr
    OBVIOUS
  <2>2. locks' = Refreshed({o, q}) /\ UNCHANGED now
    BY <1>5 DEF TransferInternal, ForceTransfer
  <2> QED BY <1>1, <2>1, <2>2
<1>6. ASSUME NEW o \in Addr, NEW s \in Spenders, NEW x \in Amounts \union {0}, Approve(o, s, x)
      PROVE  Locked(a)' = Locked(a)
  <2>1. {o} \in SUBSET Addr
    OBVIOUS
  <2>2. UNCHANGED now /\ (locks' = Refreshed({o}) \/ UNCHANGED locks)
    BY <1>6 DEF Approve
  <2> QED BY <1>1, <1>2, <2>1, <2>2
<1>7. ASSUME NEW o \in Addr, NEW b \in Batches, BatchTransfer(o, b) PROVE Locked(a)' = Locked(a)
  <2> DEFINE S == {o} \union {b[i][1] : i \in DOMAIN b}
  <2>1. \A i \in DOMAIN b : b[i][1] \in Addr
    BY <1>7, BatchFacts DEF BatchTransfer
  <2>2. S \in SUBSET Addr
    BY <2>1
  <2>3. locks' = Refreshed(S) /\ UNCHANGED now
    BY <1>7 DEF BatchTransfer
  <2> HIDE DEF S
  <2> QED BY <1>1, <2>2, <2>3
<1>8. ASSUME NEW o \in Addr, GetBalance(o) \/ RegistryChange(o) PROVE Locked(a)' = Locked(a)
  <2>1. {o} \in SUBSET Addr
    OBVIOUS
  <2>2. UNCHANGED now /\ (locks' = Refreshed({o}) \/ UNCHANGED locks)
    BY <1>8 DEF GetBalance, RegistryChange
  <2> QED BY <1>1, <1>2, <2>1, <2>2
<1>9. ASSUME NEW b \in Flags, SetPaused(b) \/ SetFrozen(b) PROVE Locked(a)' = Locked(a)
  BY <1>2, <1>9 DEF SetPaused, SetFrozen
<1>10. UNCHANGED vars => Locked(a)' = Locked(a)
  BY <1>2 DEF vars
<1> QED BY <1>3, <1>4, <1>5, <1>6, <1>7, <1>8, <1>9, <1>10

\* lock_tokens locks what it is asked for, or nothing when the period is nothing, and
\* asks for no more than can be spent.
LEMMA LockingAdds ==
  ASSUME TypeOK, NEW o \in Addr, NEW x \in Amounts, NEW d \in Periods, NEW v \in Vestings,
         LockTokens(o, x, d, v)
  PROVE  /\ x \in Nat /\ x > 0 /\ x <= Spendable(o)
         /\ Locked(o)' = Locked(o) + (IF d = 0 THEN 0 ELSE x)
         /\ \A a \in Addr \ {o} : Locked(a)' = Locked(a)
<1> DEFINE slot == [amount |-> x, created_at |-> now, until |-> now + d, vesting_type |-> v]
           kept == Pruned(locks[o], now)
           new == Pushed(kept, slot)
<1>1. x \in Int /\ x > 0 /\ Spendable(o) >= x /\ NextSlot(kept) <= MaxSlots /\ UNCHANGED now
  BY TokenAssumption DEF LockTokens
<1>2. locks' = [a \in Addr |-> IF a = o THEN Pruned(new, now) ELSE locks[a]]
  BY DEF LockTokens, TypeOK
<1>3. x \in Nat /\ x \in 0..MaxI128
  <2>1. amount[o] >= x /\ amount[o] \in 0..MaxI128
    BY <1>1, SpendableBound DEF TypeOK
  <2> QED BY <1>1, <2>1, TokenAssumption
<1>4. now \in 0..MaxTime /\ IsLockVec(locks[o], now)
  BY DEF TypeOK
<1>5. slot \in LockSlot /\ slot.created_at <= now
  <2>1. now + d \in Nat /\ v \in {"Cliff", "Linear"} /\ now <= now
    BY <1>4, TokenAssumption
  <2> QED BY <1>3, <1>4, <2>1 DEF LockSlot
<1>6. SlotLocked(slot, now) = IF d = 0 THEN 0 ELSE x
  <2>1. d \in Nat /\ now \in Nat
    BY <1>4, TokenAssumption
  <2>2. CASE d = 0
    BY <2>1, <2>2 DEF SlotLocked
  <2>3. CASE d # 0
    <3>1. x * (now - now) = 0 /\ 0 \div (now + d - now) = 0 /\ ~(now >= now + d)
      BY <1>3, <2>1, <2>3
    <3>2. SaturatingMul(x, now - now) = 0
      BY <3>1, TokenAssumption DEF SaturatingMul, MaxU128
    <3> QED BY <1>3, <2>1, <2>3, <3>1, <3>2 DEF SlotLocked
  <2> QED BY <2>2, <2>3
<1> HIDE DEF slot
<1>7. IsLockVec(kept, now) /\ LockedIn(kept, now) = Locked(o)
  BY <1>4, PrunedType, PruningKeepsLocked DEF Locked
<1> HIDE DEF kept
<1>8. IsLockVec(new, now) /\ LockedIn(new, now) = LockedIn(kept, now) + SlotLocked(slot, now)
  BY <1>1, <1>4, <1>5, <1>7, PushedType, PushingAddsLocked
<1> HIDE DEF new
<1>9. LockedIn(Pruned(new, now), now) = LockedIn(new, now)
  BY <1>4, <1>8, PruningKeepsLocked
<1>10. Locked(o)' = LockedIn(Pruned(new, now), now) /\ \A a \in Addr \ {o} : Locked(a)' = Locked(a)
  BY <1>1, <1>2 DEF Locked
<1> QED BY <1>1, <1>3, <1>6, <1>7, <1>8, <1>9, <1>10

\* As time passes no account has more locked.
LEMMA TickReleases ==
  ASSUME TypeOK, Tick, NEW a \in Addr
  PROVE  Locked(a)' <= Locked(a)
<1>1. locks' = locks /\ now' = now + 1 /\ now < MaxTime /\ now \in 0..MaxTime /\ IsLockVec(locks[a], now)
  BY DEF Tick, TypeOK
<1>2. LockedIn(locks[a], now + 1) <= LockedIn(locks[a], now)
  BY <1>1, LocksFade
<1> QED BY <1>1, <1>2 DEF Locked

\* What the calls that move tokens leave an account whose tokens cover its locks.
LEMMA StepCovers ==
  ASSUME TypeOK, [Next]_vars, NEW a \in Addr, Locked(a) <= amount[a]
  PROVE  Locked(a)' <= amount'[a] \/ Seized(a)
<1> DEFINE Covered == Locked(a)' <= amount'[a]
<1>1. /\ amount = [o \in Addr |-> amount[o]] /\ amount[a] \in Int /\ Locked(a) \in Int
      /\ Amounts \subseteq Int /\ Supplies \subseteq Int /\ Payments \subseteq Addr \X Addr /\ Admin \in Addr
  <2>1. amount \in [Addr -> 0..MaxI128] /\ Locked(a) \in Nat
    BY LockedType DEF TypeOK
  <2> QED BY <2>1, TokenAssumption
<1>2. ASSUME Locked(a)' = Locked(a), amount'[a] \in Int, amount'[a] >= amount[a] PROVE Covered
  BY <1>1, <1>2
<1>3. \A o \in Addr : amount'[o] \in Int
  BY NextTypeOK, TokenAssumption DEF TypeOK
<1>4. ASSUME NEW s \in Supplies, Initialize(s) PROVE Covered
  <2>1. s \in Int /\ s > 0 /\ amount' = [amount EXCEPT ![Admin] = @ + s]
    BY <1>1, <1>4 DEF Initialize
  <2>2. amount'[a] >= amount[a]
    BY <1>1, <2>1
  <2> QED BY <1>2, <1>3, <1>4, <2>2, OthersKeepLocked
<1>5. ASSUME NEW o \in Addr, NEW x \in Amounts, Mint(o, x) PROVE Covered
  <2>1. x \in Int /\ x > 0 /\ amount' = [amount EXCEPT ![o] = @ + x]
    BY <1>1, <1>5 DEF Mint
  <2>2. amount'[a] >= amount[a]
    BY <1>1, <2>1
  <2> QED BY <1>2, <1>3, <1>5, <2>2, OthersKeepLocked
<1>6. ASSUME NEW o \in Addr, NEW x \in Amounts, Burn(o, x) PROVE Covered
  <2>1. x \in Int /\ x > 0 /\ amount' = [amount EXCEPT ![o] = @ - x] /\ amount[o] - Locked(o) >= x
    BY <1>1, <1>6 DEF Burn, Spendable
  <2>2. Locked(a)' = Locked(a)
    BY <1>6, OthersKeepLocked
  <2>3. CASE o = a
    BY <1>1, <2>1, <2>2, <2>3
  <2>4. CASE o # a
    BY <1>1, <2>1, <2>2, <2>4
  <2> QED BY <2>3, <2>4
<1>7. ASSUME NEW o \in Addr, NEW x \in Amounts, UnlockTokens(o, x) PROVE Covered
  <2>1. Locked(a)' \in Int /\ Locked(o) \in Nat
    <3>1. TypeOK'
      BY NextTypeOK
    <3>2. IsLockVec(locks'[a], now') /\ now' \in 0..MaxTime
      BY <3>1 DEF TypeOK
    <3>3. Locked(a)' = LockedIn(locks'[a], now')
      BY DEF Locked
    <3> QED BY <3>2, <3>3, LockedInType, LockedType
  <2>2. x > 0 /\ x \in Int /\ amount' = amount
    BY <1>1, <1>7 DEF UnlockTokens
  <2>3. Locked(a)' <= Locked(a)
    <3>1. CASE o = a
      BY <1>7, <3>1, UnlockingReleases
    <3>2. CASE o # a
      <4>1. Locked(a)' = Locked(a)
        BY <1>7, <3>2, UnlockingReleases
      <4> QED BY <1>1, <2>1, <4>1
    <3> QED BY <3>1, <3>2
  <2> QED BY <1>1, <2>1, <2>2, <2>3
<1>8. ASSUME NEW from \in Addr, NEW to \in Addr, NEW x \in Amounts, TransferInternal(from, to, x),
             UNCHANGED now
      PROVE  Covered
  <2>1. x \in Int /\ x > 0 /\ amount' = Moved(from, to, x) /\ amount[from] - Locked(from) >= x
    BY <1>1, <1>8 DEF TransferInternal, Spendable
  <2>2. Locked(a)' = Locked(a)
    BY <1>8, OthersKeepLocked
  <2>3. CASE a = from /\ from # to
    <3>1. amount[from] - amount'[from] = x /\ amount'[from] \in Int
      BY <1>3, <2>1, <2>3, MovedTouches
    <3> QED BY <1>1, <2>1, <2>2, <2>3, <3>1
  <2>4. CASE a # from \/ from = to
    <3>1. amount'[a] >= amount[a]
      BY <1>1, <2>1, <2>4, MovedTouches
    <3> QED BY <1>2, <1>3, <2>2, <3>1
  <2> QED BY <2>3, <2>4
<1>9. ASSUME NEW p \in Payments, NEW x \in Amounts,
             Transfer(p[1], p[2], x) \/ \E s \in Spenders : TransferFrom(s, p[1], p[2], x)
      PROVE  Covered
  <2>1. p[1] \in Addr /\ p[2] \in Addr
    BY <1>1
  <2>2. TransferInternal(p[1], p[2], x) /\ UNCHANGED now
    BY <1>9 DEF Transfer, TransferFrom
  <2> HIDE DEF Covered
  <2> QED BY <1>8, <2>1, <2>2
<1>10. ASSUME NEW p \in Payments, NEW x \in Amounts, ForceTransfer(p[1], p[2], x)
       PROVE  Covered \/ Seized(a)
  <2>1. p[1] \in Addr /\ p[2] \in Addr /\ x \in Int /\ x > 0 /\ amount' = Moved(p[1], p[2], x)
    BY <1>1, <1>10 DEF ForceTransfer
  <2>2. CASE a = p[1]
    BY <1>10, <2>1, <2>2 DEF Seized
  <2>3. CASE a # p[1]
    <3>1. amount'[a] >= amount[a]
      BY <1>1, <2>1, <2>3, MovedTouches
    <3>2. Locked(a)' = Locked(a)
      BY <1>10, <2>1, OthersKeepLocked
    <3> HIDE DEF Covered
    <3> QED BY <1>2, <1>3, <3>1, <3>2
  <2> QED BY <2>2, <2>3
<1>11. ASSUME NEW o \in Addr, NEW b \in Batches, BatchTransfer(o, b) PROVE Covered
  <2>1. Locked(a)' = Locked(a)
    BY <1>11, OthersKeepLocked
  <2>2. CASE a = o
    <3> DEFINE total == BatchTotal(b)
               paid == PaidTo(b, a)
    <3>1. total \in Nat /\ paid \in Nat
      BY <1>11, BatchFacts DEF BatchTransfer
    <3>2. amount'[a] = amount[a] - total + paid /\ amount[a] - Locked(a) >= total
      BY <1>1, <1>11, <2>2 DEF BatchTransfer, Spendable
    <3> HIDE DEF total, paid
    <3> QED BY <1>1, <2>1, <3>1, <3>2
  <2>3. CASE a # o
    <3>1. amount'[a] >= amount[a]
      BY <1>11, <2>3, BatchTouches
    <3> HIDE DEF Covered
    <3> QED BY <1>2, <1>3, <2>1, <3>1
  <2> QED BY <2>2, <2>3
<1>12. ASSUME NEW o \in Addr, NEW x \in Amounts, NEW d \in Periods, NEW v \in Vestings,
              LockTokens(o, x, d, v)
       PROVE  Covered
  <2>1. amount' = amount /\ d \in Nat
    BY <1>12, TokenAssumption DEF LockTokens
  <2>2. CASE o = a
    <3>1. x \in Nat /\ x <= amount[a] - Locked(a) /\ Locked(a)' = Locked(a) + (IF d = 0 THEN 0 ELSE x)
      BY <1>12, <2>2, LockingAdds DEF Spendable
    <3> QED BY <1>1, <2>1, <3>1
  <2>3. CASE o # a
    <3>1. Locked(a)' = Locked(a)
      BY <1>12, <2>3, LockingAdds
    <3> QED BY <2>1, <3>1
  <2> QED BY <2>2, <2>3
<1>13. ASSUME Tick PROVE Covered
  <2>1. Locked(a)' <= Locked(a) /\ amount' = amount
    BY <1>13, TickReleases DEF Tick
  <2>2. Locked(a)' \in Int
    <3>1. IsLockVec(locks'[a], now') /\ now' \in 0..MaxTime
      BY NextTypeOK DEF TypeOK
    <3>2. Locked(a)' = LockedIn(locks'[a], now')
      BY DEF Locked
    <3> QED BY <3>1, <3>2, LockedInType
  <2> QED BY <1>1, <2>1, <2>2
<1>14. ASSUME Locked(a)' = Locked(a), UNCHANGED amount PROVE Covered
  BY <1>14
<1> HIDE DEF Covered
<1>15. /\ \A o \in Addr, s \in Spenders, x \in Amounts \union {0} : Approve(o, s, x) => Covered
       /\ \A o \in Addr : GetBalance(o) \/ RegistryChange(o) => Covered
       /\ \A b \in Flags : SetPaused(b) \/ SetFrozen(b) => Covered
       /\ UNCHANGED vars => Covered
  BY <1>14, OthersKeepLocked, BalancesStay
<1>16. Reviewed \subseteq Addr
  BY TokenAssumption
<1>17. Covered \/ Seized(a)
  BY <1>4, <1>5, <1>6, <1>7, <1>9, <1>10, <1>11, <1>12, <1>13, <1>15, <1>16 DEF Next
<1> QED BY <1>17 DEF Covered

\* Only a seizure can leave an account with fewer tokens than its slots lock: no
\* transfer, batch, burn, lock, unlock or passing of time does (refresh_balance,
\* get_spendable_balance).
THEOREM OnlySeizuresUncover == Spec => OnlySeizureUncovers
<1>1. TypeOK /\ [Next]_vars =>
        [\A a \in Addr : Locked(a) <= amount[a] => Locked(a)' <= amount'[a] \/ Seized(a)]_vars
  BY StepCovers
<1> QED BY TypeCorrect, <1>1, PTL DEF Spec, OnlySeizureUncovers
-----------------------------------------------------------------------------
(* The abstract ledger.                                                    *)

\* No account has more locked than i128 holds. Only a lock adds to what is locked, and
\* it leaves the account covered, so with at most i128::MAX locked; a seizure may
\* uncover the account and does not change what is locked.
LocksFit == \A a \in Addr : Locked(a) <= MaxI128

\* No supply is stored before the token is initialized.
SupplyIsInitialized == initialized \/ total_supply = 0

IInv == TypeOK /\ LocksFit /\ SupplyIsInitialized

\* No call adds to what an account has locked but a lock, which leaves the account
\* covered.
LEMMA OnlyLocksAdd ==
  ASSUME TypeOK, [Next]_vars, NEW a \in Addr
  PROVE  \/ Locked(a)' \in Nat /\ Locked(a)' <= Locked(a)
         \/ /\ Locked(a)' \in Nat /\ amount' = amount
            /\ Locked(a)' <= amount[a]
<1> DEFINE Less == Locked(a)' <= Locked(a)
           Fits == amount' = amount /\ Locked(a)' <= amount[a]
<1>1. /\ amount[a] \in Int /\ Locked(a) \in Int /\ Payments \subseteq Addr \X Addr /\ Reviewed \subseteq Addr
  <2>1. amount \in [Addr -> 0..MaxI128] /\ Locked(a) \in Nat
    BY LockedType DEF TypeOK
  <2> QED BY <2>1, TokenAssumption
<1>2. Locked(a)' \in Nat
  <2>1. IsLockVec(locks'[a], now') /\ now' \in 0..MaxTime
    BY NextTypeOK DEF TypeOK
  <2>2. Locked(a)' = LockedIn(locks'[a], now')
    BY DEF Locked
  <2> QED BY <2>1, <2>2, LockedInType
<1>3. ASSUME Locked(a)' = Locked(a) PROVE Less
  BY <1>1, <1>3
<1>4. ASSUME NEW o \in Addr, NEW x \in Amounts, UnlockTokens(o, x) PROVE Less
  <2>1. x > 0 /\ x \in Int
    BY <1>4, TokenAssumption DEF UnlockTokens
  <2>2. CASE o = a
    <3> QED BY <1>4, <2>2, UnlockingReleases
  <2>3. CASE o # a
    <3>1. Locked(a)' = Locked(a)
      BY <1>4, <2>3, UnlockingReleases
    <3> QED BY <1>3, <3>1
  <2> QED BY <2>2, <2>3
<1>5. ASSUME NEW p \in Payments, NEW x \in Amounts,
             Transfer(p[1], p[2], x) \/ ForceTransfer(p[1], p[2], x)
               \/ \E s \in Spenders : TransferFrom(s, p[1], p[2], x)
      PROVE  Less
  <2>1. p[1] \in Addr /\ p[2] \in Addr
    BY <1>1
  <2>2. (TransferInternal(p[1], p[2], x) /\ UNCHANGED now) \/ ForceTransfer(p[1], p[2], x)
    BY <1>5 DEF Transfer, TransferFrom
  <2>3. Locked(a)' = Locked(a)
    BY <2>1, <2>2, OthersKeepLocked
  <2> QED BY <1>3, <2>3
<1>6. ASSUME NEW o \in Addr, NEW x \in Amounts, NEW d \in Periods, NEW v \in Vestings,
             LockTokens(o, x, d, v)
      PROVE  Less \/ Fits
  <2>1. amount' = amount
    BY <1>6 DEF LockTokens
  <2>2. CASE o = a
    <3>1. x \in Nat /\ x <= amount[a] - Locked(a) /\ Locked(a)' = Locked(a) + (IF d = 0 THEN 0 ELSE x)
      BY <1>6, <2>2, LockingAdds DEF Spendable
    <3> QED BY <1>1, <2>1, <3>1
  <2>3. CASE o # a
    <3>1. Locked(a)' = Locked(a)
      BY <1>6, <2>3, LockingAdds
    <3> QED BY <1>3, <3>1
  <2> QED BY <2>2, <2>3
<1>7. Tick => Less
  BY TickReleases
<1> HIDE DEF Less, Fits
<1>8. Less \/ Fits
  BY <1>1, <1>3, <1>4, <1>5, <1>6, <1>7, OthersKeepLocked DEF Next
<1> QED BY <1>2, <1>8 DEF Less, Fits

\* Only initialize stores a supply where there was none, and it is not undone.
LEMMA InitializedFirst ==
  ASSUME SupplyIsInitialized, [Next]_vars PROVE SupplyIsInitialized'
<1>1. \A s \in Supplies : Initialize(s) => initialized'
  BY DEF Initialize
<1>2. \A a \in Addr, x \in Amounts :
         /\ Mint(a, x) \/ Burn(a, x) => initialized'
         /\ UnlockTokens(a, x) => UNCHANGED <<initialized, total_supply>>
  BY DEF Mint, Burn, UnlockTokens
<1>3. \A p \in Payments, x \in Amounts, s \in Spenders :
         Transfer(p[1], p[2], x) \/ ForceTransfer(p[1], p[2], x) \/ TransferFrom(s, p[1], p[2], x)
           => UNCHANGED <<initialized, total_supply>>
  BY DEF Transfer, ForceTransfer, TransferFrom
<1>4. \A p \in Payments, x \in Amounts :
         Transfer(p[1], p[2], x) \/ ForceTransfer(p[1], p[2], x)
           => UNCHANGED <<initialized, total_supply>>
  BY DEF Transfer, ForceTransfer
<1>5. /\ \A o \in Addr, s \in Spenders, x \in Amounts \union {0} :
            Approve(o, s, x) => UNCHANGED <<initialized, total_supply>>
      /\ \A a \in Addr, b \in Batches : BatchTransfer(a, b) => UNCHANGED <<initialized, total_supply>>
      /\ \A a \in Addr, x \in Amounts, d \in Periods, v \in Vestings :
            LockTokens(a, x, d, v) => UNCHANGED <<initialized, total_supply>>
  BY DEF Approve, BatchTransfer, LockTokens
<1>6. /\ \A a \in Addr : GetBalance(a) => UNCHANGED <<initialized, total_supply>>
      /\ \A a \in Reviewed : RegistryChange(a) => UNCHANGED <<initialized, total_supply>>
      /\ \A b \in Flags : SetPaused(b) \/ SetFrozen(b) => initialized'
      /\ Tick \/ UNCHANGED vars => UNCHANGED <<initialized, total_supply>>
  BY DEF GetBalance, RegistryChange, SetPaused, SetFrozen, Tick, vars
<1> QED BY <1>1, <1>2, <1>3, <1>4, <1>5, <1>6 DEF SupplyIsInitialized, Next

\* What is locked stays within i128, whatever was seized between.
THEOREM LocksAlwaysFit == Spec => []IInv
<1>1. Init => IInv
  <2> SUFFICES ASSUME Init PROVE IInv
    OBVIOUS
  <2>1. TypeOK
    BY InitTypeOK
  <2>2. \A a \in Addr : Locked(a) = 0
    <3>1. \A a \in Addr : DOMAIN locks[a] = {}
      BY DEF Init
    <3> QED BY <3>1, SumEmpty DEF Locked, LockedIn
  <2> QED BY <2>1, <2>2, TokenAssumption DEF IInv, LocksFit, SupplyIsInitialized, Init
<1>2. IInv /\ [Next]_vars => IInv'
  <2> SUFFICES ASSUME IInv, [Next]_vars PROVE IInv'
    OBVIOUS
  <2>1. TypeOK /\ TypeOK'
    BY NextTypeOK DEF IInv
  <2>2. ASSUME NEW a \in Addr PROVE Locked(a)' <= MaxI128
    <3>1. Locked(a) \in Nat /\ Locked(a) <= MaxI128 /\ amount[a] \in 0..MaxI128 /\ MaxI128 \in Nat
      BY <2>1, LockedType, TokenAssumption DEF TypeOK, IInv, LocksFit
    <3>2. /\ Locked(a)' \in Nat
          /\ Locked(a)' <= Locked(a) \/ Locked(a)' <= amount[a]
      BY <2>1, OnlyLocksAdd
    <3> QED BY <3>1, <3>2
  <2>3. SupplyIsInitialized'
    BY InitializedFirst DEF IInv
  <2> QED BY <2>1, <2>2, <2>3 DEF IInv, LocksFit
<1> QED BY <1>1, <1>2, PTL DEF Spec
\* What the abstract ledger sees as encumbered.
Encumbered == [a \in Addr |-> Locked(a)]

\* What is encumbered in the next state is what is locked in it.
LEMMA EncumberedNext == Encumbered' = [a \in Addr |-> Locked(a)']
BY DEF Encumbered

\* The abstract ledger's sums are the token's.
LEMMA SameSum == ASSUME NEW f, NEW S PROVE Ledger!SumFunctionOnSet(f, S) = SumFunctionOnSet(f, S)
BY Zenon DEF SumFunctionOnSet, Ledger!SumFunctionOnSet,
   FoldFunctionOnSet, Ledger!FoldFunctionOnSet, MapThenFoldSet, Ledger!MapThenFoldSet

\* What is free in the abstract ledger is what can be spent.
LEMMA FreeIsSpendable == \A a \in Addr : Ledger!Free(a) = Spendable(a)
BY DEF Ledger!Free, Spendable

\* A payment of free tokens, to one account or to many.
LEMMA PaysLedger ==
  ASSUME TypeOK, TypeOK', NEW a \in Addr, \A o \in Addr : Locked(o)' = Locked(o),
         amount[a] - amount'[a] \in 1..Spendable(a),
         \A o \in Addr \ {a} : amount'[o] >= amount[o],
         SumFunctionOnSet(amount', Addr) = SumOfBalances, UNCHANGED total_supply
  PROVE  Ledger!Pay(a)
<1>1. amount' \in [Addr -> 0..MaxI128]
  BY DEF TypeOK
<1>2. Ledger!Total' = Ledger!Total
  BY SameSum DEF SumOfBalances, Ledger!Total
<1>3. Encumbered' = Encumbered
  BY EncumberedNext DEF Encumbered
<1> QED BY <1>1, <1>2, <1>3, FreeIsSpendable DEF Ledger!Pay, Encumbered

\* A batch pays out of what can be spent, unless it pays its sender alone.
LEMMA BatchPaysLedger ==
  ASSUME TypeOK, TypeOK', NEW a \in Addr, NEW b \in Batches, BatchTransfer(a, b)
  PROVE  Ledger!Pay(a) \/ UNCHANGED <<amount, Encumbered, total_supply>>
<1> DEFINE total == BatchTotal(b)
           paid == [o \in Addr |-> PaidTo(b, o)]
<1>1. \A i \in DOMAIN b : b[i][2] > 0
  BY DEF BatchTransfer
<1>2. IsFiniteSet(Addr) /\ total \in Nat /\ \A o \in Addr : paid[o] \in Nat /\ paid[o] \in Int
  BY <1>1, BatchFacts, TokenAssumption
<1>3. SumFunctionOnSet(paid, Addr) = total
  BY <1>1, BatchPaysItsTotal
<1>4. \A o \in Addr : amount[o] \in Int
  BY TokenAssumption DEF TypeOK
<1>5. /\ amount'[a] = amount[a] - total + paid[a]
      /\ \A o \in Addr \ {a} : amount'[o] = amount[o] + paid[o]
      /\ Spendable(a) >= total
  BY <1>4 DEF BatchTransfer, TypeOK
<1> HIDE DEF total, paid
<1>6. total = paid[a] + SumFunctionOnSet(paid, Addr \ {a})
  BY <1>2, <1>3, SumRemove
<1>7. IsFiniteSet(Addr \ {a}) /\ SumFunctionOnSet(paid, Addr \ {a}) \in Nat
  <2>1. IsFiniteSet(Addr \ {a})
    BY <1>2, FS_Subset
  <2> QED BY <1>2, <2>1, SumType
<1>8. \A o \in Addr : Locked(o)' = Locked(o)
  BY OthersKeepLocked
<1>9. SumFunctionOnSet(amount', Addr) = SumOfBalances
  BY BatchSum
<1>10. Spendable(a) \in Int /\ UNCHANGED total_supply
  BY LockedType DEF BatchTransfer
<1>11. CASE SumFunctionOnSet(paid, Addr \ {a}) = 0
  <2>1. \A o \in Addr \ {a} : paid[o] = 0
    <3> SUFFICES ASSUME NEW o \in Addr \ {a} PROVE paid[o] = 0
      OBVIOUS
    <3>1. \A q \in Addr \ {a} : paid[q] \in Nat /\ paid[q] \in Int
      BY <1>2
    <3>2. SumFunctionOnSet(paid, Addr \ {a}) = paid[o] + SumFunctionOnSet(paid, (Addr \ {a}) \ {o})
      BY <1>7, <3>1, SumRemove
    <3>3. IsFiniteSet((Addr \ {a}) \ {o})
      BY <1>7, FS_Subset
    <3>4. SumFunctionOnSet(paid, (Addr \ {a}) \ {o}) \in Nat
      BY <3>1, <3>3, SumType
    <3> QED BY <1>11, <3>1, <3>2, <3>4
  <2>2. \A o \in Addr : amount'[o] = amount[o]
    BY <1>2, <1>4, <1>5, <1>6, <1>11, <2>1
  <2>3. amount' = amount
    BY <2>2 DEF TypeOK
  <2>4. Encumbered' = Encumbered
    BY <1>8, EncumberedNext DEF Encumbered
  <2> QED BY <1>10, <2>3, <2>4
<1>12. CASE SumFunctionOnSet(paid, Addr \ {a}) # 0
  <2>1. amount[a] - amount'[a] \in 1..Spendable(a)
    BY <1>2, <1>4, <1>5, <1>6, <1>7, <1>10, <1>12
  <2>2. \A o \in Addr \ {a} : amount'[o] >= amount[o]
    BY <1>2, <1>4, <1>5
  <2> QED BY <1>8, <1>9, <1>10, <2>1, <2>2, PaysLedger
<1> QED BY <1>11, <1>12

\* Each call of the token is a step of the abstract ledger or changes nothing it sees.
LEMMA StepsLedger ==
  ASSUME IInv, IInv', [Next]_vars
  PROVE  Ledger!Next \/ UNCHANGED <<amount, Encumbered, total_supply>>
<1> DEFINE Step == Ledger!Next \/ UNCHANGED <<amount, Encumbered, total_supply>>
<1>1. /\ TypeOK /\ TypeOK' /\ MaxI128 \in Nat
      /\ amount \in [Addr -> 0..MaxI128] /\ amount' \in [Addr -> 0..MaxI128]
      /\ Amounts \subseteq Int /\ Supplies \subseteq Int /\ Payments \subseteq Addr \X Addr /\ Admin \in Addr
      /\ Reviewed \subseteq Addr /\ Spenders \subseteq Addr
  BY TokenAssumption DEF IInv, TypeOK
<1>2. ASSUME \A a \in Addr : Locked(a)' = Locked(a) PROVE Encumbered' = Encumbered
  BY <1>2, EncumberedNext DEF Encumbered
<1>3. ASSUME NEW a \in Addr, NEW x \in Int, x > 0, amount' = [amount EXCEPT ![a] = @ + x],
             \A o \in Addr : Locked(o)' = Locked(o)
      PROVE  /\ x \in 1..MaxI128
             /\ total_supply = 0 /\ total_supply' = 2 * x => Ledger!Open(a, x)
             /\ total_supply' = total_supply + x => Ledger!Issue(a, x)
             /\ UNCHANGED total_supply /\ x <= amount[a] => Ledger!PayOneself(a, x)
  <2>1. amount'[a] = amount[a] + x /\ amount[a] \in 0..MaxI128 /\ amount'[a] \in 0..MaxI128
    BY <1>1, <1>3
  <2>2. x \in 1..MaxI128
    BY <1>1, <1>3, <2>1
  <2> QED BY <1>2, <1>3, <2>2 DEF Ledger!Open, Ledger!Issue, Ledger!PayOneself, Encumbered
<1>4. ASSUME NEW s \in Supplies, Initialize(s) PROVE Step
  <2>1. s \in Int /\ s > 0 /\ amount' = [amount EXCEPT ![Admin] = @ + s]
    BY <1>1, <1>4 DEF Initialize
  <2>2. \A o \in Addr : Locked(o)' = Locked(o)
    BY <1>1, <1>4, OthersKeepLocked
  <2>3. total_supply = 0 /\ total_supply' = 2 * s
    BY <1>4, <2>1 DEF Initialize, IInv, SupplyIsInitialized
  <2>4. Ledger!Open(Admin, s) /\ s \in 1..MaxI128
    BY <1>1, <1>3, <2>1, <2>2, <2>3
  <2> QED BY <1>1, <2>4 DEF Ledger!Next
<1>5. ASSUME NEW a \in Addr, NEW x \in Amounts, Mint(a, x) PROVE Step
  <2>1. x \in Int /\ x > 0 /\ amount' = [amount EXCEPT ![a] = @ + x]
    BY <1>1, <1>5 DEF Mint
  <2>2. \A o \in Addr : Locked(o)' = Locked(o)
    BY <1>1, <1>5, OthersKeepLocked
  <2>3. total_supply' = total_supply + x
    BY <1>5 DEF Mint
  <2>4. Ledger!Issue(a, x) /\ x \in 1..MaxI128
    BY <1>3, <2>1, <2>2, <2>3
  <2> QED BY <2>4 DEF Ledger!Next
<1>6. ASSUME NEW a \in Addr, NEW x \in Amounts, Burn(a, x) PROVE Step
  <2>1. x \in Int /\ x > 0 /\ amount' = [amount EXCEPT ![a] = @ - x] /\ Spendable(a) >= x
        /\ total_supply' = total_supply - x
    BY <1>1, <1>6 DEF Burn
  <2>2. \A o \in Addr : Locked(o)' = Locked(o)
    BY <1>1, <1>6, OthersKeepLocked
  <2>3. x \in 1..MaxI128
    <3>1. amount[a] >= x /\ amount[a] \in 0..MaxI128
      BY <1>1, <2>1, SpendableBound
    <3> QED BY <1>1, <2>1, <3>1
  <2>4. Ledger!Redeem(a, x)
    BY <1>2, <2>1, <2>2, FreeIsSpendable, LockedType, <1>1 DEF Ledger!Redeem, Encumbered
  <2> QED BY <2>3, <2>4 DEF Ledger!Next
<1>18. ASSUME NEW a \in Addr, NEW x \in Amounts, x > 0, amount' = Moved(a, a, x), x <= amount[a],
              \A o \in Addr : Locked(o)' = Locked(o), UNCHANGED total_supply
       PROVE  Step
  <2>1. amount' = [amount EXCEPT ![a] = @ + x]
    BY <1>1, <1>18 DEF Moved
  <2>2. Ledger!PayOneself(a, x) /\ x \in 1..MaxI128
    BY <1>1, <1>3, <1>18, <2>1
  <2> QED BY <2>2 DEF Ledger!Next
<1>7. ASSUME NEW from \in Addr, NEW to \in Addr, NEW x \in Amounts, from # to,
             TransferInternal(from, to, x), UNCHANGED <<now, total_supply>>
      PROVE  Step
  <2>1. x \in Int /\ x > 0 /\ amount' = Moved(from, to, x) /\ Spendable(from) >= x /\ Spendable(from) \in Int
    BY <1>1, <1>7, LockedType DEF TransferInternal
  <2>2. \A o \in Addr : Locked(o)' = Locked(o)
    BY <1>1, <1>7, OthersKeepLocked
  <2>3. amount[from] - amount'[from] \in 1..Spendable(from)
    BY <1>1, <1>7, <2>1, MovedTouches
  <2>4. \A o \in Addr \ {from} : amount'[o] >= amount[o]
    <3>1. \A o \in Addr : amount[o] \in Int
      BY <1>1
    <3> QED BY <1>1, <2>1, <3>1, MovedTouches
  <2>5. SumFunctionOnSet(amount', Addr) = SumOfBalances
    BY <1>1, <1>7, <2>1, MovedSum
  <2>6. Ledger!Pay(from)
    BY <1>1, <1>7, <2>2, <2>3, <2>4, <2>5, PaysLedger
  <2> QED BY <2>6 DEF Ledger!Next
<1>8. ASSUME NEW p \in Payments, NEW x \in Amounts,
             Transfer(p[1], p[2], x) \/ \E s \in Spenders : TransferFrom(s, p[1], p[2], x)
      PROVE  Step
  <2> DEFINE from == p[1]
             to == p[2]
  <2>1. from \in Addr /\ to \in Addr
    BY <1>1
  <2>2. TransferInternal(from, to, x) /\ UNCHANGED <<now, total_supply>>
    BY <1>8 DEF Transfer, TransferFrom
  <2> HIDE DEF Step, from, to
  <2>3. CASE from = to
    <3>1. x > 0 /\ amount' = Moved(from, from, x) /\ Spendable(from) >= x /\ x \in Int
      BY <1>1, <2>2, <2>3 DEF TransferInternal
    <3>2. x <= amount[from]
      BY <1>1, <2>1, <3>1, SpendableBound
    <3>3. \A o \in Addr : Locked(o)' = Locked(o)
      BY <1>1, <2>1, <2>2, OthersKeepLocked
    <3> QED BY <1>18, <2>1, <2>2, <3>1, <3>2, <3>3
  <2> QED BY <1>7, <2>1, <2>2, <2>3
<1>9. ASSUME NEW p \in Payments, NEW x \in Amounts, ForceTransfer(p[1], p[2], x) PROVE Step
  <2> DEFINE from == p[1]
             to == p[2]
  <2>1. from \in Addr /\ to \in Addr
    BY <1>1
  <2>2. /\ x \in Int /\ x > 0 /\ amount[from] >= x /\ amount' = Moved(from, to, x)
        /\ UNCHANGED total_supply
    BY <1>1, <1>9 DEF ForceTransfer
  <2>3. \A o \in Addr : Locked(o)' = Locked(o)
    BY <1>1, <1>9, <2>1, OthersKeepLocked
  <2>4. amount[from] \in 0..MaxI128 /\ x \in 1..MaxI128
    BY <1>1, <2>1, <2>2
  <2> HIDE DEF from, to, Step
  <2>7. CASE from = to
    BY <1>1, <1>18, <2>1, <2>2, <2>3, <2>7
  <2>8. CASE from # to
    <3>1. amount' = [amount EXCEPT ![from] = @ - x, ![to] = @ + x]
      BY <1>1, <2>1, <2>2, <2>8 DEF Moved
    <3>2. Ledger!Seize(from, to, x)
      BY <1>2, <2>1, <2>2, <2>3, <2>8, <3>1 DEF Ledger!Seize, Encumbered
    <3> QED BY <2>1, <2>4, <3>2 DEF Ledger!Next, Step
  <2> QED BY <2>7, <2>8
<1>10. ASSUME NEW a \in Addr, NEW b \in Batches, BatchTransfer(a, b) PROVE Step
  BY <1>1, <1>10, BatchPaysLedger DEF Ledger!Next
<1>11. ASSUME NEW o \in Addr, NEW x \in Amounts, NEW d \in Periods, NEW v \in Vestings,
              LockTokens(o, x, d, v)
       PROVE  Step
  <2>1. /\ x \in Nat /\ x > 0 /\ x <= Spendable(o)
        /\ Locked(o)' = Locked(o) + (IF d = 0 THEN 0 ELSE x)
        /\ \A a \in Addr \ {o} : Locked(a)' = Locked(a)
    BY <1>1, <1>11, LockingAdds
  <2>2. amount' = amount /\ Locked(o) \in Int /\ UNCHANGED total_supply
    BY <1>1, <1>11, LockedType DEF LockTokens
  <2>3. CASE d = 0
    <3>1. \A a \in Addr : Locked(a)' = Locked(a)
      BY <2>1, <2>2, <2>3
    <3> QED BY <1>2, <2>2, <3>1
  <2>4. CASE d # 0
    <3>1. x \in 1..MaxI128
      <4>1. amount[o] >= x /\ amount[o] \in 0..MaxI128
        BY <1>1, <2>1, SpendableBound, LockedType
      <4> QED BY <1>1, <2>1, <4>1
    <3>2. Encumbered' = [Encumbered EXCEPT ![o] = @ + x]
      BY <2>1, <2>4, EncumberedNext DEF Encumbered
    <3>3. Ledger!Encumber(o, x)
      BY <2>1, <2>2, <3>2, FreeIsSpendable DEF Ledger!Encumber, Encumbered
    <3> QED BY <3>1, <3>3 DEF Ledger!Next
  <2> QED BY <2>3, <2>4
<1>12. ASSUME amount' = amount, UNCHANGED total_supply, \A a \in Addr : Locked(a)' <= Locked(a) PROVE Step
  <2>1. \A a \in Addr : Locked(a)' \in 0..MaxI128
    <3>1. \A a \in Addr : Locked(a)' <= MaxI128
      BY DEF IInv, LocksFit
    <3>2. ASSUME NEW a \in Addr PROVE Locked(a)' \in Nat
      BY <1>1, OnlyLocksAdd
    <3> QED BY <1>1, <3>1, <3>2
  <2>2. Encumbered' \in [Addr -> 0..MaxI128] /\ \A a \in Addr : Encumbered'[a] <= Encumbered[a]
    BY <1>12, <2>1, EncumberedNext DEF Encumbered
  <2>3. Ledger!Release
    BY <1>12, <2>2 DEF Ledger!Release, Encumbered
  <2> QED BY <2>3 DEF Ledger!Next
<1>13. ASSUME NEW o \in Addr, NEW x \in Amounts, UnlockTokens(o, x) PROVE Step
  <2>1. x > 0 /\ x \in Int /\ amount' = amount /\ UNCHANGED total_supply
    BY <1>1, <1>13 DEF UnlockTokens
  <2>2. ASSUME NEW a \in Addr PROVE Locked(a)' <= Locked(a)
    <3>1. Locked(a) \in Int /\ Locked(a)' \in Int
      BY <1>1, LockedType, OnlyLocksAdd
    <3>2. CASE o = a
      <4> QED BY <1>1, <1>13, <3>2, UnlockingReleases
    <3>3. CASE o # a
      <4>1. Locked(a)' = Locked(a)
        BY <1>1, <1>13, <3>3, UnlockingReleases
      <4> QED BY <3>1, <4>1
    <3> QED BY <3>2, <3>3
  <2> HIDE DEF Step
  <2> QED BY <1>12, <2>1, <2>2
<1>14. ASSUME Tick PROVE Step
  <2>1. amount' = amount /\ UNCHANGED total_supply /\ \A a \in Addr : Locked(a)' <= Locked(a)
    BY <1>1, <1>14, TickReleases DEF Tick
  <2> HIDE DEF Step
  <2> QED BY <1>12, <2>1
<1>15. ASSUME UNCHANGED <<amount, total_supply>>, \A a \in Addr : Locked(a)' = Locked(a) PROVE Step
  BY <1>2, <1>15
<1>16. /\ \A o \in Addr, s \in Spenders, x \in Amounts \union {0} : Approve(o, s, x) => Step
       /\ \A o \in Addr : GetBalance(o) \/ RegistryChange(o) => Step
       /\ \A b \in Flags : SetPaused(b) \/ SetFrozen(b) => Step
       /\ UNCHANGED vars => Step
  <2> HIDE DEF Step
  <2>1. /\ \A o \in Addr, s \in Spenders, x \in Amounts \union {0} :
              Approve(o, s, x) => UNCHANGED total_supply
        /\ \A o \in Addr : GetBalance(o) \/ RegistryChange(o) => UNCHANGED total_supply
        /\ \A b \in Flags : SetPaused(b) \/ SetFrozen(b) => UNCHANGED total_supply
        /\ UNCHANGED vars => UNCHANGED total_supply
    BY DEF Approve, GetBalance, RegistryChange, SetPaused, SetFrozen, vars
  <2> QED BY <1>1, <1>15, <2>1, OthersKeepLocked, BalancesStay
<1> HIDE DEF Step
<1>17. Step
  BY <1>1, <1>4, <1>5, <1>6, <1>8, <1>9, <1>10, <1>11, <1>13, <1>14, <1>16 DEF Next
<1> QED BY <1>17 DEF Step

\* The token with its lock slots, vesting schedules, allowances and batches implements
\* the ledger of free and encumbered tokens, in which an account that pays itself comes
\* to hold more than was issued.
THEOREM TokenRefinesLedger == Spec => RefinesLedger
<1>1. Init => Ledger!Init
  <2> SUFFICES ASSUME Init PROVE Ledger!Init
    OBVIOUS
  <2>1. \A a \in Addr : Locked(a) = 0
    <3>1. \A a \in Addr : DOMAIN locks[a] = {}
      BY DEF Init
    <3> QED BY <3>1, SumEmpty DEF Locked, LockedIn
  <2> QED BY <2>1 DEF Init, Ledger!Init
<1>2. IInv /\ IInv' /\ [Next]_vars => [Ledger!Next]_(Ledger!ledger)
  BY StepsLedger DEF Ledger!ledger, Encumbered
<1> QED BY LocksAlwaysFit, <1>1, <1>2, PTL DEF Spec, RefinesLedger, Ledger!Spec
=============================================================================
