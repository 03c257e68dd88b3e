------------------------------ MODULE RWAToken ------------------------------
(***************************************************************************)
(* The regulated asset token (src/src/rwa_token.rs): balances, lock slots, *)
(* allowances, the holder registry, pausing and freezing.                  *)
(*                                                                         *)
(* A contract call is atomic: it either panics, which undoes every write   *)
(* it made, or commits them all.  Each entry point is therefore one        *)
(* action, a panic is a false guard, and calls of different accounts       *)
(* interleave with each other, with the ledger's clock and with the        *)
(* compliance registry changing its mind.                                  *)
(*                                                                         *)
(* An owner's Vec<LockSlot> is a function from slot numbers to slots: the  *)
(* order of the numbers is the order of the vector, and a pruned slot      *)
(* leaves the domain.  The cached fields locked_amount and voting_power    *)
(* are rewritten by refresh_balance before every use, with Locked(a, now)  *)
(* for both, so the model has the operator and not the fields.             *)
(***************************************************************************)
EXTENDS Integers, Sequences, FiniteSets, Functions

CONSTANTS
    Addr,           \* accounts
    Admin,          \* the account that initializes the token and administers it
    Supplies,       \* initial supplies asked for (inputs of initialize)
    Amounts,        \* amounts named in calls
    Payments,       \* <<from, to>> pairs named in calls that move tokens
    Spenders,       \* accounts that use allowances
    Batches,        \* batches of batch_transfer: sequences of <<to, amount>>
    Periods,        \* lock periods
    Vestings,       \* vesting types in use
    Flags,          \* values that pause/unpause and freeze/unfreeze set
    Reviewed,       \* accounts on which the registry may change its mind
    MaxBatchSize,   \* MAX_BATCH_SIZE
    MaxI128,        \* i128::MAX; amounts are bounded by it
    MaxSlots,       \* bound: slot numbers of one owner
    MaxTime         \* bound: ledger time

ASSUME TokenAssumption ==
    /\ IsFiniteSet(Addr)
    /\ Admin \in Addr
    /\ Supplies \subseteq Int
    /\ Amounts \subseteq Int
    /\ Payments \subseteq Addr \X Addr
    /\ Spenders \subseteq Addr
    /\ Batches \subseteq Seq(Addr \X Int)
    /\ Periods \subseteq Nat
    /\ Vestings \subseteq {"Cliff", "Linear"}
    /\ Flags \subseteq BOOLEAN
    /\ Reviewed \subseteq Addr
    /\ MaxBatchSize \in Nat
    /\ MaxI128 \in Nat
    /\ MaxSlots \in Nat
    /\ MaxTime \in Nat

VARIABLES
    initialized,    \* token_info, admin and the initialized flag are stored
    amount,         \* Balance.amount
    total_supply,   \* TokenInfo.total_supply
    locks,          \* locks[a]: a's lock slots
    holders,        \* the holder registry, 0 where it has no entry
    allowances,     \* allowances[<<owner, spender>>], 0 where there is none
    is_paused,
    is_frozen,
    cleared,        \* accounts the compliance registry passes
    now             \* ledger timestamp

vars == <<initialized, amount, total_supply, locks, holders, allowances,
          is_paused, is_frozen, cleared, now>>

\* A lock slot, and a vector of them.
LockSlot == [amount : 0..MaxI128, created_at : 0..MaxTime, until : Nat,
             vesting_type : {"Cliff", "Linear"}]

IsLockVec(slots, t) ==
    /\ DOMAIN slots \subseteq 1..MaxSlots
    /\ slots \in [DOMAIN slots -> LockSlot]
    /\ \A i \in DOMAIN slots : slots[i].created_at <= t

\* No balance, registry entry or allowance is negative or beyond i128, the supply is
\* within i128, and no lock slot is older than the ledger.
TypeOK ==
    /\ initialized \in BOOLEAN
    /\ amount \in [Addr -> 0..MaxI128]
    /\ total_supply \in -(MaxI128 + 1)..MaxI128
    /\ locks = [a \in Addr |-> locks[a]]
    /\ \A a \in Addr : IsLockVec(locks[a], now)
    /\ holders \in [Addr -> 0..MaxI128]
    /\ allowances \in [Addr \X Addr -> 0..MaxI128]
    /\ is_paused \in BOOLEAN
    /\ is_frozen \in BOOLEAN
    /\ cleared \in SUBSET Addr
    /\ now \in 0..MaxTime

-----------------------------------------------------------------------------
(* Lock accounting.                                                        *)

\* Amounts are multiplied in u128, whose products stick at u128::MAX.
MaxU128 == 2 * MaxI128 + 1
SaturatingMul(x, y) == IF x * y > MaxU128 THEN MaxU128 ELSE x * y

\* What a slot still locks at time t.  Of a linear slot whose product saturates less has
\* vested than its schedule says; min(amount) changes nothing, for elapsed < duration.
SlotLocked(slot, t) ==
    IF t >= slot.until THEN 0
    ELSE IF slot.vesting_type = "Cliff" THEN slot.amount
    ELSE slot.amount - SaturatingMul(slot.amount, t - slot.created_at)
                         \div (slot.until - slot.created_at)

\* The slot is linear, has not expired, and is so large that its product saturates.
Saturated(slot, t) ==
    /\ t < slot.until
    /\ slot.vesting_type = "Linear"
    /\ slot.amount * (t - slot.created_at) > MaxU128

LockedBy(slots, t) == [i \in DOMAIN slots |-> SlotLocked(slots[i], t)]

\* The locked amount, and the voting power, that refresh_balance computes.
LockedIn(slots, t) == SumFunctionOnSet(LockedBy(slots, t), DOMAIN slots)
Locked(a) == LockedIn(locks[a], now)

\* Mutant: locked tokens are spendable.
SpendableWithLocked(a) == amount[a]

Spendable(a) == amount[a] - Locked(a)

\* refresh_balance drops the slots that lock nothing any more.
Pruned(slots, t) ==
    Restrict(slots, {i \in DOMAIN slots : SlotLocked(slots[i], t) > 0})

\* The lock table after refresh_balance of every account in S.
Refreshed(S) == [a \in Addr |-> IF a \in S THEN Pruned(locks[a], now) ELSE locks[a]]

\* Vec::push_back: the new slot comes after the slots still there.
NextSlot(slots) ==
    CHOOSE n \in 1..MaxSlots + 1 :
        /\ \A i \in DOMAIN slots : i < n
        /\ \A m \in 1..MaxSlots + 1 : (\A i \in DOMAIN slots : i < m) => n <= m

Pushed(slots, slot) ==
    [i \in DOMAIN slots \union {NextSlot(slots)} |->
        IF i = NextSlot(slots) THEN slot ELSE slots[i]]

-----------------------------------------------------------------------------
(* Helpers of the entry points.                                            *)

\* Checked and plain i128 arithmetic both panic outside this range.
FitsI128(n) == n \in -(MaxI128 + 1)..MaxI128

\* adjust_holders: an entry is dropped once it is not positive.
AdjustHolders(registry, a, change) ==
    [registry EXCEPT ![a] = IF @ + change > 0 THEN @ + change ELSE 0]

\* Mutant: only the sender is checked.
CompliantSender(from, to) == from \in cleared

\* The verdict of the compliance registry on a payment.
Compliant(from, to) == from \in cleared /\ to \in cleared

Live == initialized /\ ~is_paused /\ ~is_frozen

\* Both balances are read before either is written, and the receiver's is
\* written last.
Moved(from, to, x) ==
    [amount EXCEPT ![from] = amount[from] - x, ![to] = amount[to] + x]

\* transfer_internal, without the frame.
TransferInternal(from, to, x) ==
    /\ x > 0
    /\ Live
    /\ Compliant(from, to)
    /\ Spendable(from) >= x
    /\ FitsI128(amount[to] + x)
    /\ amount' = Moved(from, to, x)
    /\ locks' = Refreshed({from, to})

-----------------------------------------------------------------------------
Init ==
    /\ initialized = FALSE
    /\ amount = [a \in Addr |-> 0]
    /\ total_supply = 0
    /\ locks = [a \in Addr |-> <<>>]
    /\ holders = [a \in Addr |-> 0]
    /\ allowances = [p \in Addr \X Addr |-> 0]
    /\ is_paused = FALSE
    /\ is_frozen = FALSE
    /\ cleared = Addr
    /\ now = 0

\* initialize stores the supply asked for and then mints it to the admin, which
\* adds it to the stored supply.
Initialize(supply) ==
    /\ ~initialized
    /\ supply > 0
    /\ FitsI128(supply + supply)
    /\ FitsI128(amount[Admin] + supply)
    /\ FitsI128(holders[Admin] + supply)
    /\ initialized' = TRUE
    /\ total_supply' = supply + supply
    /\ amount' = [amount EXCEPT ![Admin] = @ + supply]
    /\ holders' = AdjustHolders(holders, Admin, supply)
    /\ locks' = Refreshed({Admin})
    /\ UNCHANGED <<allowances, is_paused, is_frozen, cleared, now>>

Mint(to, x) ==
    /\ x > 0
    /\ initialized /\ ~is_paused
    /\ FitsI128(total_supply + x)
    /\ FitsI128(amount[to] + x)
    /\ FitsI128(holders[to] + x)
    /\ total_supply' = total_supply + x
    /\ amount' = [amount EXCEPT ![to] = @ + x]
    /\ holders' = AdjustHolders(holders, to, x)
    /\ locks' = Refreshed({to})
    /\ UNCHANGED <<initialized, allowances, is_paused, is_frozen, cleared, now>>

\* burn asks for nobody's authorization: the admin, the owner or anybody else may
\* call it, and an account's tokens are destroyed without its consent.
Burn(from, x) ==
    /\ x > 0
    /\ initialized /\ ~is_paused
    /\ Spendable(from) >= x
    /\ Compliant(from, from)
    /\ FitsI128(total_supply - x)
    /\ amount' = [amount EXCEPT ![from] = @ - x]
    /\ holders' = AdjustHolders(holders, from, -x)
    /\ total_supply' = total_supply - x
    /\ locks' = Refreshed({from})
    /\ UNCHANGED <<initialized, allowances, is_paused, is_frozen, cleared, now>>

Transfer(from, to, x) ==
    /\ TransferInternal(from, to, x)
    /\ LET debited == AdjustHolders(holders, from, -x)
       IN  /\ FitsI128(debited[to] + x)
           /\ holders' = AdjustHolders(debited, to, x)
    /\ UNCHANGED <<initialized, total_supply, allowances, is_paused, is_frozen, cleared, now>>

\* force_transfer: the seizure path, which asks neither the holder nor the
\* registry and compares with the whole balance, locked tokens included.
ForceTransfer(from, to, x) ==
    /\ x > 0
    /\ Live
    /\ amount[from] >= x
    /\ FitsI128(amount[to] + x)
    /\ amount' = Moved(from, to, x)
    /\ locks' = Refreshed({from, to})
    /\ LET debited == AdjustHolders(holders, from, -x)
       IN  /\ FitsI128(debited[to] + x)
           /\ holders' = AdjustHolders(debited, to, x)
    /\ UNCHANGED <<initialized, total_supply, allowances, is_paused, is_frozen, cleared, now>>

\* An allowance of zero is a removed entry.
Approve(owner, spender, x) ==
    /\ x >= 0
    /\ initialized
    /\ FitsI128(x)
    /\ x > 0 => x <= Spendable(owner)
    /\ allowances' = [allowances EXCEPT ![<<owner, spender>>] = x]
    /\ locks' = IF x > 0 THEN Refreshed({owner}) ELSE locks
    /\ UNCHANGED <<initialized, amount, total_supply, holders, is_paused, is_frozen, cleared, now>>

\* Mutant: the allowance is not spent.
AllowanceKept(owner, spender, x) == allowances

AllowanceSpent(owner, spender, x) == [allowances EXCEPT ![<<owner, spender>>] = @ - x]

\* transfer_from does not touch the holder registry.
TransferFrom(spender, from, to, x) ==
    /\ x > 0
    /\ allowances[<<from, spender>>] >= x
    /\ TransferInternal(from, to, x)
    /\ allowances' = AllowanceSpent(from, spender, x)
    /\ UNCHANGED <<initialized, total_supply, holders, is_paused, is_frozen, cleared, now>>

BatchTotal(batch) == SumFunctionOnSet([i \in DOMAIN batch |-> batch[i][2]], DOMAIN batch)

\* Mutant: balances are cached before the loop, so the last entry wins.
PaidToLast(batch, a) ==
    SumFunctionOnSet([i \in DOMAIN batch |-> batch[i][2]],
                     {i \in DOMAIN batch : /\ batch[i][1] = a
                                           /\ \A j \in DOMAIN batch : batch[j][1] = a => j <= i})

\* What the batch pays to a: every recipient's balance is re-read before its
\* entry is paid, so repeated recipients accumulate.
PaidTo(batch, a) ==
    SumFunctionOnSet([i \in DOMAIN batch |-> batch[i][2]],
                     {i \in DOMAIN batch : batch[i][1] = a})

BatchTransfer(from, batch) ==
    /\ Len(batch) \in 1..MaxBatchSize
    /\ Live
    /\ \A i \in DOMAIN batch : batch[i][2] > 0 /\ Compliant(from, batch[i][1])
    /\ Spendable(from) >= BatchTotal(batch)
    /\ LET debited == [amount EXCEPT ![from] = @ - BatchTotal(batch)]
       IN  /\ \A a \in Addr : FitsI128(debited[a] + PaidTo(batch, a))
           /\ amount' = [a \in Addr |-> debited[a] + PaidTo(batch, a)]
    /\ locks' = Refreshed({from} \union {batch[i][1] : i \in DOMAIN batch})
    /\ UNCHANGED <<initialized, total_supply, holders, allowances, is_paused, is_frozen, cleared, now>>

\* lock_tokens and lock_tokens_with_vesting; the second refresh drops a slot of
\* period 0 at once.
LockTokens(owner, x, period, vesting) ==
    LET slot == [amount |-> x, created_at |-> now, until |-> now + period,
                 vesting_type |-> vesting]
        kept == Pruned(locks[owner], now)
    IN  /\ x > 0
        /\ initialized
        /\ Spendable(owner) >= x
        /\ NextSlot(kept) <= MaxSlots
        /\ locks' = [locks EXCEPT ![owner] = Pruned(Pushed(kept, slot), now)]
        /\ UNCHANGED <<initialized, amount, total_supply, holders, allowances,
                       is_paused, is_frozen, cleared, now>>

\* Mutant: a linear slot is cut like a cliff.
ShrunkAmountUnscaled(slot, take, t) == slot.amount - take

\* `as i128` turns a u128 beyond i128::MAX into a negative amount.  A slot with such an
\* amount locks nothing and is dropped at once, as one with an amount of 0 is.
AsI128(n) == IF n > MaxI128 THEN 0 ELSE n

\* The slot's amount after `take` of what it locks at time t is released: a
\* linear slot is scaled up so that what remains locked sits on its schedule,
\* unless that would exceed what was locked.
ShrunkAmount(slot, take, t) ==
    LET locked == SlotLocked(slot, t)
        left   == locked - take
        scaled == AsI128(SaturatingMul(left, slot.until - slot.created_at)
                           \div (slot.until - t))
    IN  IF take = 0 THEN slot.amount
        ELSE IF take >= locked THEN 0
        ELSE IF slot.vesting_type = "Cliff" THEN slot.amount - take
        ELSE IF scaled > locked THEN left ELSE scaled

\* unlock_tokens takes x from the slots in order: slot i gives what the slots
\* before it left to take.
Taken(slots, x, t, i) ==
    LET before == SumFunctionOnSet(LockedBy(slots, t), {j \in DOMAIN slots : j < i})
        want   == IF x > before THEN x - before ELSE 0
        locked == SlotLocked(slots[i], t)
    IN  IF want < locked THEN want ELSE locked

Shrunk(slots, x, t) ==
    [i \in DOMAIN slots |->
        [slots[i] EXCEPT !.amount = ShrunkAmount(slots[i], Taken(slots, x, t, i), t)]]

UnlockTokens(owner, x) ==
    /\ x > 0
    /\ initialized
    /\ Locked(owner) >= x
    /\ locks' = [locks EXCEPT ![owner] = Pruned(Shrunk(Pruned(locks[owner], now), x, now), now)]
    /\ UNCHANGED <<initialized, amount, total_supply, holders, allowances,
                   is_paused, is_frozen, cleared, now>>

\* get_balance and get_spendable_balance write back what they prune.
GetBalance(a) ==
    /\ locks' = Refreshed({a})
    /\ UNCHANGED <<initialized, amount, total_supply, holders, allowances,
                   is_paused, is_frozen, cleared, now>>

\* pause and unpause.
SetPaused(b) ==
    /\ initialized
    /\ is_paused' = b
    /\ UNCHANGED <<initialized, amount, total_supply, locks, holders, allowances,
                   is_frozen, cleared, now>>

\* freeze and unfreeze.
SetFrozen(b) ==
    /\ initialized
    /\ is_frozen' = b
    /\ UNCHANGED <<initialized, amount, total_supply, locks, holders, allowances,
                   is_paused, cleared, now>>

\* The registry starts or stops passing an account.
RegistryChange(a) ==
    /\ cleared' = IF a \in cleared THEN cleared \ {a} ELSE cleared \union {a}
    /\ UNCHANGED <<initialized, amount, total_supply, locks, holders, allowances,
                   is_paused, is_frozen, now>>

Tick ==
    /\ now < MaxTime
    /\ now' = now + 1
    /\ UNCHANGED <<initialized, amount, total_supply, locks, holders, allowances,
                   is_paused, is_frozen, cleared>>

Next ==
    \/ \E s \in Supplies : Initialize(s)
    \/ \E a \in Addr, x \in Amounts : Mint(a, x) \/ Burn(a, x) \/ UnlockTokens(a, x)
    \/ \E p \in Payments, x \in Amounts :
          Transfer(p[1], p[2], x) \/ ForceTransfer(p[1], p[2], x)
    \/ \E o \in Addr, s \in Spenders, x \in Amounts \union {0} : Approve(o, s, x)
    \/ \E s \in Spenders, p \in Payments, x \in Amounts : TransferFrom(s, p[1], p[2], x)
    \/ \E a \in Addr, b \in Batches : BatchTransfer(a, b)
    \/ \E a \in Addr, x \in Amounts, d \in Periods, v \in Vestings : LockTokens(a, x, d, v)
    \/ \E a \in Addr : GetBalance(a)
    \/ \E a \in Reviewed : RegistryChange(a)
    \/ \E b \in Flags : SetPaused(b) \/ SetFrozen(b)
    \/ Tick

Spec == Init /\ [][Next]_vars

-----------------------------------------------------------------------------
(* Properties.                                                             *)

SumOfBalances == SumFunctionOnSet(amount, Addr)

\* An account that pays itself: the known way in which balances change without
\* the supply (transfer_internal and force_transfer write the
\* receiver's balance over the sender's).
PaysItself(a) ==
    \E x \in Amounts :
        \/ Transfer(a, a, x)
        \/ ForceTransfer(a, a, x)
        \/ \E s \in Spenders : TransferFrom(s, a, a, x)

Seized(a) == \E to \in Addr, x \in Amounts : ForceTransfer(a, to, x)

\* Once the token is initialized, every call moves the sum of all balances by
\* exactly what it moves total_supply, whichever path the tokens take, batches
\* with repeated recipients and the sender among them included; the one
\* exception is an account that pays itself.
SupplyFollowsBalances ==
    [][\/ ~initialized
       \/ \E a \in Addr : PaysItself(a)
       \/ SumOfBalances' - SumOfBalances = total_supply' - total_supply]_vars

\* Only a seizure can leave an account with fewer tokens than its slots lock:
\* every other call, and the passing of time, keeps a covered account covered.
OnlySeizureUncovers ==
    [][\A a \in Addr :
          Locked(a) <= amount[a] => Locked(a)' <= amount'[a] \/ Seized(a)]_vars

\* unlock_tokens releases at least what it was asked to release, over however
\* many slots, cliff or linear, the amount is taken from, unless one of them is so
\* large that its product saturates.
UnlockReleasesEnough ==
    [][\A a \in Addr, x \in Amounts :
          UnlockTokens(a, x) =>
              \/ Locked(a)' <= Locked(a) - x
              \/ \E i \in DOMAIN locks[a] : Saturated(locks[a][i], now)]_vars

\* The balance of an account the registry does not pass changes only when the
\* admin mints to it or seizes: no transfer, delegated transfer or batch gets
\* around the verdict on either side.
VerdictRespected ==
    [][\A a \in Addr \ cleared :
          amount'[a] # amount[a] =>
              \/ \E x \in Amounts : Mint(a, x)
              \/ \E s \in Supplies : Initialize(s)
              \/ \E p \in Payments, x \in Amounts : ForceTransfer(p[1], p[2], x)]_vars

\* The calls that take tokens with the consent of their owner, who authorizes them
\* (transfer, batch_transfer), or by the admin's power (force_transfer).
TakenByRight(a) ==
    \/ Seized(a)
    \/ \E to \in Addr, x \in Amounts : Transfer(a, to, x)
    \/ \E b \in Batches : BatchTransfer(a, b)

\* Tokens taken from an account by anybody else either go to another account, and then
\* the allowance of one spender falls by as much as the balance; or they go to
\* nobody, and then the supply falls by as much: they were burned.
AllowancePaysForTransfer ==
    [][\A a \in Addr :
          amount'[a] < amount[a] /\ ~TakenByRight(a) =>
              \/ \E s \in Spenders :
                    allowances[<<a, s>>] - allowances'[<<a, s>>] = amount[a] - amount'[a]
              \/ /\ total_supply - total_supply' = amount[a] - amount'[a]
                 /\ \A b \in Addr \ {a} : amount'[b] = amount[b]]_vars

\* The token implements the ledger of TokenLedger: slots, vesting, pruning,
\* allowances and batches come down to free and encumbered tokens, and the payment
\* of an account to itself to tokens out of nothing.
Ledger == INSTANCE TokenLedger
            WITH Account <- Addr, MaxHolding <- MaxI128,
                 holding <- amount, encumbered <- [a \in Addr |-> Locked(a)], supply <- total_supply

\* Every call is a step of the abstract ledger or changes nothing it sees.
RefinesLedger == Ledger!Spec

-----------------------------------------------------------------------------
(* What the repository's words say and the code does not do.  Each was      *)
(* refuted by TLC; the README tells the shortest behaviour that does it.    *)

\* The holder registry mirrors the balances, so that a holder view need not read
\* every balance.
HoldersMirrorBalances == holders = amount

\* total_supply is the sum of the balances.
SupplyIsBacked == total_supply = SumOfBalances

\* A seizure moves tokens and never creates them.
SeizureNeverMints ==
    [][(\E p \in Payments, x \in Amounts : ForceTransfer(p[1], p[2], x))
          => SumOfBalances' = SumOfBalances]_vars

\* The locked amount is a portion of the holdings.
LockedIsPartOfHoldings == \A a \in Addr : Locked(a) <= amount[a]

\* unlock_tokens releases the amount it is asked to release, or more where a scaled
\* amount was rounded down, of slots of any size.
UnlockNeverFallsShort ==
    [][\A a \in Addr, x \in Amounts :
          UnlockTokens(a, x) => Locked(a)' <= Locked(a) - x]_vars

\* Tokens are destroyed on nobody's account without an authorization: a balance falls
\* by its owner's call, by a seizure, or by an allowance.
NothingTakenUnasked ==
    [][\A a \in Addr :
          amount'[a] < amount[a] =>
              \/ TakenByRight(a)
              \/ \E s \in Spenders : allowances'[<<a, s>>] < allowances[<<a, s>>]]_vars
=============================================================================
