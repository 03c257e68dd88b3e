# A TLA+ model of the asset tokenization suite

Specifications of the Soroban contracts in `src/src/`, of the TypeScript SDK, the deployment script
and the stateful parts of the UI around them, the TLC instances that check them, and theorems proved
with TLAPS. Source paths below are relative to the repository; `rwa_token.rs:463`
stands for `src/src/rwa_token.rs`, line 463.

The sources do not compile as they stand: some are damaged merges (a function body under another
function's name at `rwa_token.rs:566`, a stray line at `dividend_distributor.rs:829`, error variants
that are used and not declared). Where that is so the models follow the statements that are there,
in the evident order, and nothing is modelled that would need inventing.

## 1. How the system runs, and what that means for the models

### Contracts

A Soroban ledger executes contract calls one after the other. A call is atomic: it returns, and all
its writes, events and calls to other contracts are committed together, or it panics and nothing
happened. So each entry point is one action, its guard says that no check panics, and what
interleaves is whole calls: of different accounts, of the admin, of the ledger closing with a later
timestamp, and of other contracts changing what this one reads. Inside one call, the order of steps
still matters where the code reads, calls out and writes (a settlement that triggers conditional
orders in the middle of a sweep); `SecondaryMarket` and `DividendPool` therefore compute a call as a
sequence of functions on a working copy, `Commit` it when it is still `ok`, and drop it on a panic.

Arithmetic is `i128` with overflow checks on (`profile.release`), so an overflow is a panic; the
token and the delegation model say where. Vesting alone multiplies in a `u128` that saturates, which the
token's model does too. Rounding is by truncation of non-negative quotients, which
is TLA+'s `\div`. Fixed-point constants (10^18, 10^6, 10 000) are constants of the models where an
instance needs to scale them down.

### SDK, script and UI

The TypeScript side runs on one thread. A stretch of code between two `await`s, a handler or a timer's
callback runs without interruption; between two stretches anything else may run. So the actions of
`EventStream`, `SdkCalls`, `CustodyMonitoring`, `GasEstimator`, `BatchBuilder`,
`MarketScreen` and `Panels` are such stretches, a call under way is a record of where it waits and of
what it remembers, and what it reads again after an `await` is read again in the model. Several calls
of one object may be under way, because nothing in the code forbids it. The network answers in any
order, late, or never; listeners that a handler calls in its middle run there, and may call the object
back (`EventStream`); a server may do what it was asked and the answer be lost. `DeployScript` adds a
kill between any two steps. `Cli`, `TypeGenerator` and `HistoryPages` are sequential: what is hard
there is what is done to data, and the sequences of a user's actions.

A React component's state is the variables of its model; an effect is an action that its dependencies
enable; a handler keeps the values of the render it was made in, so the retry a toast offers carries
what the form held then.

## 2. Inventory

| Component | State | Operations | What makes it hard | What makes it correct |
|---|---|---|---|---|
| `rwa_token.rs` | balances, lock slots, supply, allowances, holder registry, paused, frozen | initialize, mint, burn, transfer, transfer_from, approve, force_transfer, batch_transfer, lock, unlock, pause, freeze, metadata, migrate | three kinds of records (balance, slots, registry) kept consistent by hand on eight paths; linear vesting by integer division; a seizure ignores locks | supply follows balances; locked tokens stay covered; the verdict of the registry and the allowance bound every payment |
| `shared_governance.rs`, proposals | proposals, owners, council, stake parameters | create (normal, emergency), approve, veto, can_execute, execute_mark, update_council, parameters | votes, vetoes, time and changes of council race; two kinds with different rules | an executed proposal was approved, never vetoed and in time; its terms never change |
| `shared_governance.rs`, delegation | four maps: delegate, amount, power received, number received | delegate_votes, undelegate_votes | switching a delegate touches both delegates; powers change with time | totals equal the sum of the parts; no chains |
| `secondary_market.rs` | orders (temporary storage), conditional orders, price levels, last price, vwap, breaker, oracle, fee tiers | place, fill, market, TWAP, cancel, prune, conditional orders, breaker, oracle, tiers | escrow is taken once and returned in parts by nine paths; a fill triggers conditional orders; records vanish when their TTL ends; one failing refund reverts a whole cleanup | the contract holds what it owes; makers trade at their price; price-time priority |
| `dividend_distributor.rs` | distributions, claims, snapshots, boosts, accrual, reinvestment, recurring schedules, frozen | create (alone, batch, cadence), five kinds of claim, accrual, freeze and unfreeze by proposal | one pool for everything; claims pay by the balance of the moment; shares are rounded four times; several records under one key | no distribution is overpaid; nobody is paid twice; a freeze outlasts a minority |
| `compliance_registry.rs` | KYC, lists, rules, limits, delegates, log | update_kyc, lists, check_compliance, rules, limits, delegates | checks consume limits; statuses decay with time; calendar resets | a refused transfer is refused for a reason in force; limits are never exceeded |
| `custody_validator.rs` | custodians and bonds, oracles, attestations, disputes, satellite proofs, claims, audit trail | register, attest, dispute, resolve, slash, validate | several disputes draw on one bond; reputations decay with time | a bond is slashed at most once per dispute and never below nothing |
| `asset_factory.rs`, `lib.rs` | deployed assets, templates | deploy, update | deploy is several calls | every deployed asset is registered once |
| asset classes (`real_estate.rs`, ...) | parameter records | store, read | little | - |
| SDK: `eventStream.ts` | current socket, status, subscriptions, five timers, attempts | connect, close, subscribe, unsubscribe, socket and timer handlers | the handlers of an old socket write the fields of its successor; timers race with closing; listeners run in the middle of a handler | never waits for nothing; closing stops reconnecting; every subscription is registered |
| SDK: clients, `errors.ts`, `validation.ts` | - (calls under way) | 75 methods of six clients; withRetry | a lost answer leaves the fate of a transaction open; concurrent calls take the same sequence number; errors are classified by code, status and words | what was done is never done again unless in doubt; what is reported as done is done; every call ends |
| SDK: `index.ts` | a batch's queue; configuration, portfolio cache | add, clear, submit; updateConfig, getUserPortfolio, getPlatformStats | the queue is read again after awaits | a report is of what was sent |
| SDK: `gasEstimator.ts` | cache | estimate, clearCache | drift within tolerance keeps the old entry; concurrent writers | an answer is within tolerance of a fresh one |
| SDK: `custodyMonitoring.ts` | the interval's handle | start, stop, update; cycles | the handle is written after an await | status tells whether an interval runs |
| SDK: `cli.ts`, `typeGenerator.ts` | options; schemas, declarations | guided and flag mode of three commands; load, fetch, generate | answers are parsed twice; pairs are reordered; references through nested types | what was confirmed is run; a generated module is closed |
| `scripts/deploy.ts` | the output file | a run over all contracts | the file is written at the end | no contract is deployed twice unless a run was cut short |
| UI: panels, trading screen, history | forms, busy flags, toasts, fetched data, page | submit, retry, poll, filter | answers out of order; handlers of an old render; page and filters kept apart | a retry repeats what failed; the newest book is shown; a page that exists is shown |
| Other: `secondaryMarket.ts` (legacy client), logger, telemetry, types, theme, `deploy.sh` | - | - | - | - |

How they interact: the token asks the compliance registry before it moves (`rwa_token.rs:1101`) and
so does the market (`secondary_market.rs:1701`); the market moves both the token and the base currency,
and reports the vwap to the distributor; the distributor reads balances and supply from the token,
mints to it when a claim is reinvested and asks its own governance before it lifts a freeze; the
governance reads stakes from the token, and delegated power is power locked there. Each module takes
what it reads from a component outside it as an input that may change at any time between calls
(`RegistryChange`, `StandingChange`, `StakeChange`, `VotingPowerChange`, `TokenMove`, `MarketMove`).

The SDK's clients call the contracts through an RPC server (`SdkCalls`: `Receive`, `Close`, `Lose`), the
custody client through Horizon; the event stream talks to a relay (`Publish`); the command line and the
monitor use the custody client, the UI whatever callbacks it is given. The models of the TypeScript
parts take what a contract answers as an input, because any answer may come.

`PROJECT.json` lists every component with its status, and under `hazards` what in this code is hard to
test, at its line, with the property that looks at it.

## 3. Modules

| Module | Code | State and actions |
|---|---|---|
| `RWAToken` | `rwa_token.rs` | `amount`, `locks`, `total_supply`, `allowances`, `holders` and the two flags; an action per entry point. `locks[a]` is the `Vec<LockSlot>` of an owner as a function from slot numbers; the cached `locked_amount` and `voting_power` are recomputed by `refresh_balance` before every use, so they are the operator `Locked`. `initialize` is an action, because it counts the initial supply twice, once by itself and once in the mint it makes. Slots vest and are rescaled in `u128`, whose products stick at `MaxU128`; nobody authorizes `Burn`. |
| `TokenLedger` | - | What the token promises: tokens are issued, redeemed, paid from what is free, seized, encumbered, released, and the supply with them. What the code does beside that is an action too, so that everything else is bound to the rest: the first tokens count twice (`Open`), and an account that pays itself gets tokens the supply never hears of (`PayOneself`). |
| `Governance` | `shared_governance.rs:40-691` | `proposals` by id, council, parameters, stakes; `Approve`, `Veto`, `Execute`, ... Payload hashes and keys are one value, the call. |
| `ProposalLifecycle` | - | What governance promises of a proposal: opened once, ended at most once, executed only with enough supporters of that very proposal. |
| `DistributionFreeze` | `dividend_distributor.rs:1641-1729` | `frozen` on top of `Governance`, of which the distributor exposes emergency proposals and approvals. |
| `VoteDelegation` | `shared_governance.rs:745-943` | The four maps, and the own powers of accounts, which change. |
| `ComplianceRegistry` | `compliance_registry.rs` but delegates and the log | `kyc`, both lists, `compliance_rules`, `xfer_lim` per user and period, `moment`; an action per check and per change by the admin. Amounts and limits are of either sign, as the entry points take them; they are integers, while the code's `i128` traps on overflow. `Civil` is the contract's calendar; `account` keeps, for each running period by the dates themselves, which come with the moments, what the row granted when it began (`base`), what was charged since, whether any of it in the week before the record expires (`cut`), and how much from then on (`since`). Charged is what was taken off, for a transfer that was refused afterwards too. |
| `SecondaryMarket` | `secondary_market.rs` but the levels | `orders`, `conditionals`, `live`, balances in both currencies, price state, configuration. `SettleFill` is `settle_fill`, with the conditional orders it evaluates; `Sweep` the loop of market and TWAP orders; `Prune` the cleanup that place and fill run too. |
| `OrderBook` | `secondary_market.rs:1388-1565` | `prices` and `level` of one side, with the binary search. `SecondaryMarket` picks the best order from the orders; `BestHasPriority` is why it may. |
| `DividendPool` | `dividend_distributor.rs` | `distributions`, `claimed`, `clm_tot`, `pool`, the token's balances, accrual; one token and one currency. `ClaimedAll` folds `Claimed` over the distributions. |
| `EventStream` | `eventStream.ts` | `ws` is the socket the stream believes in, `sockets` are all there are, with what the relay's end has registered and sent; an action per call, per handler of each socket and per timer. A handler is a sequence of functions on a copy of the fields (`Fields`, `Becomes`), with the listeners it calls between them: at each `emit` a listener may call `connect()` or `close()`, once in an event. Callbacks of subscriptions come last in a handler, so what they call is a call of its own. A connect timeout whose handle was overwritten is one of `strayTimers`. |
| `SdkMethods` | the methods of the clients | Data: what each method of the six clients (75), the batch builder and the deployment workflow validates, asks and calls, and where a helper of it throws. |
| `SdkCalls` | `errors.ts`, the clients' submit and error paths | `call[c]` is a method under way under `withRetry`; `wire`, `queue`, `ledger`, `seq` are the network. A step is the stretch from one await to the next. |
| `GasEstimator`, `BatchBuilder`, `CustodyMonitoring` | `gasEstimator.ts`, `index.ts`, `custodyMonitoring.ts` | One object each, with the calls of it that are under way. |
| `Cli` | `cli.ts` | `typed` is what the user gave, `args` the argument vector, `options` what was parsed from it, `sent` the transaction. `Dashed` are the reasons that begin with dashes and the option each one names. |
| `TypeGenerator` | `typeGenerator.ts` | Schemas are loaded, fetched ones normalized, and `module` is the list of declarations with what each mentions. The network's client may show an entry as XDR unions, as plain objects or by accessors (`Shapes`): of the parts of a plain object's types the normalizer sees nothing, so a `vec` becomes one of `void` and a name `Unknown` (`Outermost`), accessors make the fetch throw, and an entry of an unknown kind is skipped. Types are finite trees over the constant `Type`, which the instance computes from its schemas. |
| `DeployScript` | `scripts/deploy.ts` | `results` in memory, the file, and `onChain`, what was really deployed. |
| `MarketScreen`, `Panels`, `HistoryPages` | the components of `src/ui` | Fetches under way and the book shown; a handler's runs and toasts, the ten handlers as data; filters and page. |
| `RWATokenProofs`, `GovernanceProofs`, `SecondaryMarketProofs`, `DividendPoolProofs`, `EventStreamProofs`, `SdkCallsProofs`, `ProgramsProofs`, `SumLemmas` | - | Proofs, see section 6. |
| `MC...` | - | Small values for constants. `MCGovernance` hosts the shared governance or the distributor; `MCCli` and `MCComplianceRegistry` give values; `MCPrograms` runs one of the twelve self-contained parts, chosen at the start, so that each is explored by itself. |

Definitions named `<Definition><Defect>` and marked `Mutant` are the plausible bugs each property is
tested against: with the definition replaced by its mutant, the run named in `PROJECT.json` must fail.

## 4. Runs

| Run | Instance | Shows |
|---|---|---|
| `token_ledger` | two accounts, one of them admin, amounts 1 and 2, i128 scaled to 3, one spender, batches with a repeated recipient, with the sender, and too long | Every call moves the sum of balances by what it moves the supply except an account paying itself (`SupplyFollowsBalances`); no path gets around the registry's verdict (`VerdictRespected`) or an allowance: tokens taken by somebody else are paid for by an allowance, or burned (`AllowancePaysForTransfer`; that the burn asks nobody is section 5); and the token implements `TokenLedger` with its supply (`RefinesLedger`). Self-payment needs one account, a payment two, a repeated recipient a batch of two; overflow is met at 3. |
| `token_locks` | initial balance 4, amounts 1 and 3, periods 0 and 2, cliff and linear, two slots, time 0..2 | Only a seizure leaves fewer tokens than locked (`OnlySeizureUncovers`); an unlock releases at least what was asked unless a slot's product saturates (`UnlockReleasesEnough`); and the token implements `TokenLedger` (`RefinesLedger`). The middle of a period of 2 is where linear vesting rounds, and an unlock can span both slots. |
| `governance` | three owners, threshold 2; either one proposal under every operation, councils of one and two members, delay 1 or 2, time 0..3; or two emergency proposals of the distributor, time 0..4; emergency life 2 | `ExecutedWasApproved`, `TermsAreFixed`, `FreezeOutlastsMinority`; `Governance` implements `ProposalLifecycle` (`RefinesLifecycle`). Parameter changes are reviewed longer than other calls; the life of an emergency proposal ends within the bound; four in five of three owners is all three, after rounding in basis points. Proposals share nothing but the counter, and two compete where it matters, for the freeze. |
| `market_escrow` | two traders, both sides, prices and amounts 1 and 2, two orders and a conditional order each, a flat fee or rebate of half, or tiers of half for both sides, expiry after 1, the first order may be archived | What the market holds beyond what it owes moves only by what was due on an archived order, to the unit, and by rebates (`EscrowAccountedFor`): without both it always holds exactly what it owes. Makers trade at their price less fee (`MakersTradeAtTheirPrice`). Orders of amount 2 are filled in parts, and 2 orders can cross. |
| `market_turmoil` | three sell orders, one of which the ledger may archive; breaker, pause, oracle and standing change | Open orders can always be refunded (`EscrowCoversOrders`); no trade during the cooldown (`CooldownStopsTrading`). |
| `dividend_pool` | two holders of 1 and 2 tokens, distributions of 4 and 5, window 2, half fee, boost of 2, reinvestment at price 2 | No distribution is paid beyond its amount unless tokens move, are boosted or reinvested (`DistributionsStayCovered`); only yield can leave the pool short (`OnlyYieldDrainsPool`); a holder is paid once (`PaidOnce`). 4 and 5 do not divide by 3, so every share is rounded. Time reaches the deadline and not what lies after it: a distribution closes by deactivation. |
| `event_stream` | one type, one token, two sockets alive at once, one attempt to reconnect, two subscriptions, two calls of connect and close, by the application or by a listener, one event | A stream that waits has under way what ends the wait (`NeverStranded`); subscriptions are registered on the socket in use (`RegisteredWhenOpen`); a closed stream connects only where a listener of that very attempt closed it (`ClosedOpensNothingElse`); attempts end (`AttemptsEnd`). Two sockets are what it takes for one's handlers to write the other's fields, two subscriptions to share a type, two calls to close and connect again. A socket is reused once it has closed, so the number of reconnections is not bounded by the sockets. `AttemptsEnd` is about a finite maximum of attempts; with the default, `Infinity` (`eventStream.ts:38`), a stream may try for ever. The bounds end the run, so deadlock is not checked. |
| `sdk_calls` | one caller with any of the 77 methods and one retry, beside a transfer from the same account | What was done is done once more than there were doubts at most (`DoneOncePerDoubt`); what the factory and the custody client report as done is done (`ConfirmedMeansDone`); a call that learnt the fate of its transaction is tried again only when that transaction is in no ledger and on no way there, which is what makes the result codes that are retried safe (`RepeatedOnlyWhenSafe`); every call ends (`CallsEnd`). The other transfer takes the sequence number, before or between the first caller's attempts. Calls end, so deadlock is not checked. |
| `programs` | book: four orders at three prices; monitor: three starts, two cycles at once; script: three contracts, four runs; estimator: two calls, costs 10, 11 and 20, tolerance 10 %; batch: two submissions, three operations; command line: four assets, nine reasons with dashes; generator: three schemas, two of which refer to each other, from files or fetched in each of the three shapes; screen: five fetches, two at once, three versions; panels: two items, two values, four presses; history: two filters, two ranges, up to seven pages; delegation: four accounts, powers 0..2; registry: two users, one of whom sends, amounts 2 and -1, six moments, two records, two changes by the admin | `BookIsSound` of the order book (`LevelsMatchOrders` and `BestHasPriority`); `StatusIsTrue`; `DeployedOnceUnlessCutShort`; `AnswersAreCurrent`; `ReportsWhatItSent`; `GuidedAnswersArrive` (`ConfirmedIsRun` and `PoolGetsWhatWasTyped`); `ModuleIsClosed`; `BackOnlyByOverlap`; `RetryRepeatsWhatFailed`; `EmptyPageNeedsCause`; `TotalsMatch` and `DepthIsOne` of the delegations; `CapacityIsExact` and `HighestPriorityDecides` of the registry. A switch has an owner and two delegates, a chain a fourth account. The registry's moments are about a leap day, the end of a February without one, a new year, and a record's last week; limits of 3, 4 and 5 are met by amounts of 2 and halved, one granted limit is negative, and an amount of -1 gives back at most `MaxReturned`; two rules are in place in half of the behaviours, so that two changes bring three rules with two of them equal. Two calls suffice for one to see the other's write between its awaits, three starts to overlap two cycles and follow them, 10 and 11 are within the tolerance and 20 is not. Most of the parts come to their end, so deadlock is not checked. |
| `token_burned_unasked`, `event_stream_listener`, `dividend_frozen` | small | Expected violations, section 5. |

Bounds are constants: `MaxTime`, `MaxCalls`, `MaxReturned`, `MaxSlots`, `MaxOrders`, `MaxProposals`, `MaxDistributions`. The clock
is an action that may run at any time and stops at `MaxTime`.

**Fairness.** Nothing in the contracts runs by itself: every step is somebody's call, so safety is
checked under `[][Next]_vars` alone. Two specifications state fairness:

- `EventStream`: an armed timer fires, and a socket that was told to close reports that it has. Both are
  what the runtime and the WebSocket interface give. Nothing is assumed of the relay: a socket may stay
  connecting for ever, and the connect timeout is what ends that.
- `SdkCalls`: a caller that can go on does. A request that is never answered fails by its transport's
  timeout, which is the action `Fails`; a delay of `withRetry` ends. Nothing is assumed of the server or
  the ledger: `Receive`, `Close` and `Lose` have no fairness.

## 5. Where the code and its words differ

With a run (see `findings` in `PROJECT.json`):

- **Anybody burns anybody's tokens.** `burn(from, amount)` asks for the authorization of nobody, neither of
  the admin nor of `from` (`rwa_token.rs:395`); `docs/security/threat-model.md:109` says `require_admin()` is
  enforced on mint and burn, `docs/security/audit-checklist.md:43` that both are admin-only.
- **A closed stream connects.** `scheduleReconnect` calls the listeners of `reconnecting` (`eventStream.ts:384`)
  before it arms the timer (`:388`). A listener that calls `close()` clears a timer that is not armed yet;
  then it is armed, and `openSocket` (`:217`) does not look at `manuallyClosed`. The comment at `:200` says
  `close()` stops reconnecting. `ClosedOpensNothingElse` bounds the damage: one attempt by each such call.
- **Yield is paid during a freeze.** `claim_accrued_yield` never looks at the freeze
  (`dividend_distributor.rs:1525`); the comment at `:1639` says a freeze stops all claims.

Stated at the end of the modules, refuted by TLC, and kept out of the runs (the modules have a section
for them):

- `SeizureNeverMints`: `force_transfer(a, a, x)` reads both balances before it writes either, and the
  second write wins (`rwa_token.rs:533`); the comment at `rwa_token.rs:509` says a seizure can never mint.
  `TokenLedger` has the step as `PayOneself`.
- `UnlockNeverFallsShort`: vesting and unlocking multiply in `u128` and let the product stick at its maximum
  (`rwa_token.rs:304`, `:889`). Of a linear slot whose amount times its period is beyond that, the amount a
  partial unlock writes and what it then locks no longer belong together, and less is released than was
  asked for. TLC meets it with the width scaled down to 10, and one slot of 9 over 6 ticks.
- `RefusalIsFree`: `check_compliance` takes the amount off the sender's limits (`compliance_registry.rs:676`)
  before it asks whether the receiver has the capacity and what the rules say;
  `docs/api/soroban-compliance-registry.md:218` calls it read-only. The token panics on a refusal, which undoes
  it; whoever calls the check by itself has spent the limit. The shortest behaviour asks about a holder and
  itself, as `burn` does (`rwa_token.rs:414`): the amount must fit the limits twice, so a burn of more than
  half of what is left is refused.
- `SettingsAreKept` (`Cli`; `cli.ts:548` asks for confirmation of the settings): they are written to an argument
  vector and parsed again (`cli.ts:559`, `:231`). A reason such as `--secret` or `--network` is read as a flag and
  takes the place of the setting of that name where that came before it, or is lost to it where it comes after.
- `SupplyIsBacked`: `initialize` stores the supply and then mints it, so `total_supply` starts at twice
  the sum of balances (`rwa_token.rs:149`).
- `HoldersMirrorBalances`: `transfer_from` and `batch_transfer` do not maintain the holder registry
  (`rwa_token.rs:642`, `:1122`), whose comment at `:689` says it mirrors balances.
- `LockedIsPartOfHoldings`: a seizure takes locked tokens and leaves the slots.
- `CouncilDecides`: a smaller threshold set by `update_council` does not count the votes already cast; a
  veto needs one more vote, by somebody who has not voted.
- `ProposersAreStaked`: `create_emergency_proposal` does not ask for the minimum balance that
  `create_proposal_with_model` asks for.
- `DelegateHoldsTheirPower`: delegated power is the power at the time of delegating.
- `TrippedRejectsOrders`: conditional orders can be placed while the breaker is tripped.
- `MinFillRespected`: the sweep of a market order ignores `min_fill`.
- `TradesAtSanePrice`: the oracle is asked when an order is placed, and not when it trades.
- `ExpiredIsRefunded` (under `FairSpec`): `auto_prune_expired_orders` refunds in one call
  (`secondary_market.rs:963`). When the token refuses one refund, to a maker who lost its standing, the
  call panics, and so do `place_order` and `fill_order`, which prune too;
  `docs/api/soroban-secondary-market.md:354` calls an expired order one that is cleaned up automatically.
- `HeardOnce` (`EventStream`; `eventStream.ts:3` says a single connection carries all subscriptions):
  `connect()` while a retry is armed leaves it armed, and the retry opens a second socket beside the one
  that is open by then. Both are registered, and every event is heard twice. The same comes of a close event
  that arrives after `close()` and `connect()`: it clears `ws`, which is the new socket, and opens another.
- `SentSigned` (`SdkCalls`; `index.ts:237` says that `source` is the account that signs): `submit()` of the
  batch builder sends a transaction nobody has signed (`index.ts:294`), which no server accepts.
- `ContractIsAccepted` (`Cli`; `cli.ts:204`): `--asset-id` is described as a contract's address, and the
  address check of `triggerInsuranceClaim` takes accounts alone (`validation.ts:3`): liquidating by a
  contract's address is refused.
- `BackedIsNotLiquidated` (`Cli`; `cli.ts:196`): without `--force` the command first checks whether the
  position is undercollateralized; when the check throws it goes on as if it were (`cli.ts:815`).
- `FetchedKeepsItsForm` (`TypeGenerator`; `typeGenerator.ts:11`): whatever has cases passes the test for
  unions first (`typeGenerator.ts:461`), so an enum or an error fetched from the network is declared as a
  union, and as an enum when its schema is read from a file.
- `FilterShowsFirstPage` (`HistoryPages`; the comment at `TransactionHistory.tsx:165`): the date inputs set
  their dates without `handleFilterChange` and leave the page where it was.

Seen while reading, outside the models: `get_claim_info` after `claim_dividend` reads a record of another
type under the same key; `get_distribution_history` reads a map as a vector; nothing fires a recurring
schedule or moves its `last_fired_at`; the escrow of an order whose temporary entry is archived can no
longer be claimed; an unlock releases more than was asked for where a rescaled amount is rounded down, or
is more than was locked (`rwa_token.rs:895`); `update_config` stores a negative fee, which `initialize` refuses
(`secondary_market.rs:333`, `:262`), and the market then pays its takers out of the escrow of all
(`EscrowAccountedFor` says by how much at most).

Of the registry: the whitelist spares nobody the verification unless both parties are on it
(`compliance_registry.rs:632`), while `test_compliance_registry.rs:409` asserts that a listed address passes
with a stranger; `update_compliance_rule` ignores a rule whose id is not there, and
`docs/api/soroban-compliance-registry.md` says it inserts it; the three seeded rules name no jurisdiction, so
they never apply; a transfer made in the last week of a record costs the user what half a limit leaves out,
for the rest of the month and the year, even when the record is renewed the next day (`CapacityIsExact`
allows it); `require_aml_clearance_above` is never read.

On the TypeScript side:

- The value of the toast context is made anew on each render of its provider, so each toast that comes or
  goes runs again the effects that fetch the market's and the compliance data; a failed fetch shows a toast.
  During an outage the two feed each other (`MarketScreen`: `FetchFails`, `ToastLeaves`).
- `DividendPanel` filters its active distributions into a new array on each render. With `onEstimateGas`
  given, its effect sets state and so runs again for ever, and the hourly interval of the automatic claims
  starts anew with each render.
- A guided reason `-h` prints the help.
- Every portfolio is empty: `getUserPortfolio` takes an asset's address from `token_address` or `address`
  (`index.ts:655`), and `getAllAssets` gives it as `tokenAddress` (`assetFactory.ts:475`).
- Of the types fetched from the network the generator understands what is made of what only when the client
  shows them as XDR unions; of plain objects it writes `void` and `Unknown` (`typeGenerator.ts:491`).
- The Retry of an order's first failure does nothing: it reads `lastOrderParams` of a render before that
  was set (`Panels`: `PlaceOrder`).
- The pager is hidden when there is one page at most, also while the page shown is a later one.
- The UI calls methods the SDK does not have (`placeLimitOrder`, `getVWAP`, `deployRWAToken`).
- `contractErrorToCode` maps the codes 1 to 7 to errors of the token whatever the contract, though each
  contract numbers its errors from 1 (`errors.ts:470`).
- `estimateGas` makes a new estimator for each call, so the cache that `index.ts:840` mentions is never hit
  through it; a hit of the cache reports the old total with the new multiplier.
- Types of one name in two schemas are declared twice, without a warning.


## 6. Proofs

Eight modules hold the theorems, listed with what each establishes under `theorems` in `PROJECT.json`.
Between them they state all but three of the 39 properties the passing runs check; the three are named at the
end of this section. A theorem holds for every value of the constants that satisfies the component's
`...Assumption`, which says what inputs are, and under the hypotheses it names; where there is one, it is
explained below.

**Sums, folds and loops (`SumLemmas`).** The models add up balances, locks, escrow and shares with
`SumFunctionOnSet` of the community module `Functions`, and write the contracts' loops as folds. Both are
defined by recursion on sets or sequences. The module proves what is needed of them from the definitions,
by least counterexamples instead of induction: if a fact failed for a subset it would fail for a minimal
one, and the element taken first gives a smaller one. It shows that the recursive functions exist and are
unique, that sums of naturals are naturals and monotone, what changing one term does (`SumUpdate`), that
two functions may be summed apart (`SumPlus`), or one function over two parts of a set (`SumApart`), that
summing the classes of a partition and then their sums gives the whole (`SumByClasses`), that sums within
bounds stay within them (`SumWithin`). Of folds it shows that what every round keeps the loop keeps
(`FoldWithin`, `FoldStays`), and that a loop over a sequence has a trace, the value after each round, in
which the facts about the rounds can be chained (`FoldTrace`, `UpTo`); and that any
rounds on values of a set have one (`TraceExists`), which is how what a recursive function builds from the
parts of a sequence is shown to exist (`Flattened`, `FlattenSeq`).

**The token (`RWATokenProofs`).** `TypeOK` is inductive as it stands because it carries what the arithmetic
needs: a slot was created no later than now, so a linear slot vests a share between nothing and all
(`ShareBound`, `SlotLockedType`); so what an unlock leaves in a slot is between nothing and its amount
(`ShrunkAmountType`), and the locked total is a natural (`LockedInType`); so what can be spent is at most
the balance (`SpendableBound`), and no balance goes below nothing. The step has a case per entry point.
From `TypeOK` follow the action properties:

- `SupplyFollowsBalances`: a mint, burn or payment changes one or two terms of the sum, and what a batch
  pays to each account adds up to its total however often it repeats a recipient or names its sender
  (`BatchPaysItsTotal`). `VerdictRespected`: a batch's verdict on its sender comes from there being at least
  one payment in it (`BatchTouches`). `AllowancePaysForTransfer`, where a burn is the second case: it takes from
  the supply what it takes from the account, and no other balance changes.
- `UnlockReleasesEnough`: before any slot, the slots ahead of it have given what was asked or all that they
  had locked (`FirstSlotsGive`, by the least slot for which it fails); and a slot from which x is taken
  releases x at least, since rescaling a linear slot rounds down what stays (`ShrunkReleases`), unless its
  product saturates, which is the exception the property names.
- `OnlySeizureUncovers`: what is locked fades with time (`LocksFade`), and is not changed by the cleanup that
  drops empty slots (`PruningKeepsLocked`). Every payment asks for what is spendable, and `StepCovers` goes
  through all calls but the seizure.

That the token implements `TokenLedger` needs more than types: the abstract ledger compares what is locked
with the balance, the code computes both in `i128`. `IInv == TypeOK /\ LocksFit` says that what is
locked stays within `i128` even when a seizure has taken the balance it was locked in: only a lock adds to
it, and leaves the account covered (`OnlyLocksAdd`). A batch is one step of the ledger however its payments
are ordered (`BatchPaysLedger`). `TokenRefinesLedger` has no hypothesis: an account that pays itself is the
ledger's `PayOneself`, and the initialization, which counts its supply twice, its `Open`.

**The governance and the freeze (`GovernanceProofs`).** `TypeOK`, `ExecutedWasApproved` and `TermsAreFixed` for
any owner list, threshold, councils, periods and calls. The inductive invariant `IInv` adds
`ApproversAreOwners`. `can_execute` counts in basis points of the *length* of the owner list, which the
code lets name an owner twice, while approvals are of distinct owners; `OwnersCounted` (the list is a
surjection onto the owners) and `FourInFive` show that 8000 basis points of the list are still four in
five of the owners, in spite of the rounding down. Most of the argument is about one proposal (`Sound`,
`SameTerms`): each call creates or rewrites one (`StoredWell`, `RewrittenWell`), and the parameter
changes touch none. `GovernanceRefines` uses the same invariant for `Spec => RefinesLifecycle`: a stored
proposal is an `Open`, an approval a `Support`, an execution an `Execute` (four in five rounded up is what
`Needed` asks), the veto vote that reaches the threshold a `Veto`, and everything else a stutter.
`FreezeIInv` carries the invariant over to the distributor, whose steps are steps of its governance or
leave it alone, and adds that its proposals are all emergency ones: `FreezeOutlastsMinority`.

**The event stream (`EventStreamProofs`).** `NeverStranded`, `RegisteredWhenOpen` and `ClosedOpensNothingElse` for
any number of sockets, subscriptions, attempts, calls and events, and whatever listeners call. The handlers
work on copies of the stream's fields, so the lemmas about `close()`, `scheduleReconnect` and `openSocket`
(`ClosedLeaves`, `ScheduledLeaves`, `OpenedLeaves`, `ListenersLeave`) are about copies, from whatever copy a
listener left; each action then says which copy it ends with (`FieldsAre`). The inductive invariant is
`IInv == TypeOK /\ Waits(Fields) /\ RegisteredWhenOpen`. `Waits` is `NeverStranded` with what has to be added: a
stream that is connecting also has a socket that its connect timeout can give up, or is closed and has a
socket whose close event is to come. The second case is the listener's: the retry it could not stop connects,
the connect timeout of a closed stream does nothing, but closing has closed the socket. `NeverStranded`
survives an old socket's handler clearing the new one's connect timeout only because that handler also
changes the status, which is the case that each of the handler lemmas turns on. `ClosedOpensNothingElse` is
`ClosedStep` between the copies before and after a handler: a retry is armed only together with a new
attempt, and a socket starts only by using one up. `RegisteredWhenOpen` needs the case of an old socket
opening while the new one is still connecting: the status becomes open, `ws` is not, and nothing need be
registered until it is, when its own `onopen` comes.

**The SDK's calls (`SdkCallsProofs`).** `DoneOncePerDoubt`, `ConfirmedMeansDone` and `RepeatedOnlyWhenSafe` for any
callers, accounts, methods and numbers of retries. `IInv` says where transactions are: each
in one place (`InOnePlace`), at most one of an attempt (`OnePerAttempt`), and of a caller's transactions that
took effect or may (`Possible`) all but the one it waits for or was told to have succeeded were left in
doubt (`Sound`, by `Cardinality(Past(c, k)) <= k.doubts`). The core is that an error which lets `withRetry`
go on either says that nothing was sent, or leaves a doubt, or says that the transaction was refused or failed,
and then it is no longer possible (`ThrowingKeeps`, `TellingKeeps`). The result codes that are declared safe to
retry (`RetryableResults`) are codes of refusals, after which the transaction is in no ledger, on no wire and in
no queue (`NowhereIsImpossible`); what failed in a ledger is never gone on with (`FailureIsFinal`).

**The market (`SecondaryMarketProofs`).** A call of the market nests loops: placing an order prunes what has
expired, a fill evaluates the conditional orders, whose orders trade in turn, a market order sweeps the
book. So the proofs are not about the actions but about the working copy a call makes of the market's
state. `Keeps(s, r, u)` says what may come of a call that began with copy s and has reached r, with u the
one who takes: the types hold, what the market has beyond what it owes (`BaseSlack`, `RwaSlack`) is
unchanged in both currencies, or less in base currency while a rebate is in force, and all others were treated fairly (`FairToOthers`). It is shown once for each thing a
round of `Prune`, `Evaluate` and `Sweep` does, it is transitive (`KeepsOn`), and so the loops and
the calls have it too. Then

- `MarketTypes`, the types.
- `EscrowIsAccountedFor` (`EscrowAccountedFor`): the slacks are what the market has to spare (`SpareIsSlack`). A
  call keeps both, but for a taker's rebate; the archiving of an order leaves exactly what was due on it
  (`ArchivedDue`, `EvictFacts`). Fees may be negative and orders archived. A corollary, `EscrowCovers`, gets
  `EscrowCoversOrders` from it for behaviours in which no rebate is ever in force.
- `MakersAreSafe` (`MakersTradeAtTheirPrice`), whatever the fees and whatever is archived. A fill rounds the
  fee down on its own part, and the property sums up to the whole; `FeesAdd` is why a maker filled in parts
  pays no more than one filled at once, and `SumApart` lets the makers of one trader be summed by sides. A
  maker's wealth falls by the archiving of an order by what was due to it on that order.
- `BreakerStopsTrading` (`CooldownStopsTrading`): the housekeeping loops trade nothing and
  an order that comes to rest there spends a conditional one (`Rests`, `Halted`), and whatever could trade
  asks the breaker and panics.

None of the four has a hypothesis.

**The distributor (`DividendPoolProofs`).** No theorem has a hypothesis. The types (`PoolTypes`) contain that the supply covers
the balances and that a share is at most the amount. Each call is one of three kinds (`StepKinds`):
`OnceOnly` says that records of claims are only added, one for whatever was paid; `Within` that no
distribution is committed to more than before, and that the pool has no less to spare; `Begun` that new
distributions are within their amount and paid for. What a distribution is committed to is what was paid and
what the holders without a record could still claim with what they hold; a claim moves one share from
the second to the first, by `SumRemove`. Claims of several distributions at once are loops over that step.
`AlwaysPaidOnce`, `AlwaysCovered` and `OnlyYieldEverDrains` follow, the last because `Slack` grows with every
step that is not a claim of accrued yield and by which nobody's share grows.

**The self-contained parts (`ProgramsProofs`).** Each has an invariant of its own, stated before its proof.

- Delegation: neither `TotalsMatch` nor `DepthIsOne` is inductive alone; with the types they are
  (`DelegationInv`). The code forbids a chain by looking at the *count* of an owner's delegators, so
  `DepthIsOne` needs the counts to be right (`NoneReceived`); the code cuts a total off at zero when it
  subtracts, so the totals are right only because the cut never happens, which needs the total to contain
  what the owner delegated (`Withdrawn`, from `SumRemove`). A switch is a withdrawal followed by an addition at
  the new delegate, which may be the old one.
- Monitor: until two starts overlap at most one cycle of a start is under way and no interval lives
  (`MonitorInv`), so the handle never loses one: `StatusIsTrue`.
- Deployment script: `DeployedOnceUnlessCutShort` when the script is idempotent, as its configuration says, and
  `CONTRACTS` lists each contract once (`ListedOnce`), as it does.
- Gas estimator: the entry is within tolerance of the total computed last, however many drifts were
  ignored before (`GasInv`); so `AnswersAreCurrent`. Batch builder: what was read before an
  await is still so unless the call was marked (`BatchInv`).
- Screen, panels, history: `ScreenInv`, `PanelInv` and `HistoryInv`; for the last, that the pager has no button beyond
  the pages there are (`NumberedWithin`).
- Registry, `CapacityIsExact`: in the period in which a row was last counted, what is left is what the period began with
  less what was charged, and in a later one nothing has been charged. This needs that no period comes back, so it
  contains a proof that the contract's `civil_from_days` gives the right year and month for every timestamp and
  any ticks per day. Limits and amounts are of either sign, and a row may be set with any rest. Its one hypothesis is
  `InstantsDated`, that each moment's timestamp and its date, given side by side, denote the same day.
- Registry, `HighestPriorityDecides`: the contract sorts with two nested loops of exchanges. A rule that leads (it
  has the highest priority, and is the first listed with it) still leads after an exchange of neighbours, one place
  further to the front if it was the second of them (`ExchangeMoves`), is first after a pass from behind it
  (`PassMoves`), and so after the sort (`SortMoves`). That there is a leader is `SomeLeads`.
- Order book, `BookIsSound`: `BookInv` adds to the types that levels are in order, and what is listed has
  arrived. The binary search is a recursive function on pairs: that it exists is shown by the least range for
  which it would not (`SearchExists`), and that it finds the border between the levels that are better and those that are
  not, the same way (`SearchSplits`). So `InsertAt` keeps the order (`WithLevelIs`). The removal loop keeps all others, in
  their order (`WithoutIs`). That the first order of the first level with one has priority is then
  `BestIs`; this is why `SecondaryMarket` may pick the best order without levels.
- Command line, `GuidedAnswersArrive`: options go through an argument vector and are parsed again (`RoundTrip`). The
  vector is written from its beginning (`FlattenedRuns`) and read from its end (`ParsedRuns`), so the proof goes down
  from the last key: what is read from where a key's part begins is what is read behind it, with that key
  (`PartIsRead`), whether the part is empty, a flag, a word, or a value that begins with dashes and is read as the
  key it names. Two keys must not be one (`SameKeys`), and only the reason may hold such a value
  (`OnlyReasonIsFree`); hence the two options the property leaves out, the reason and the one it names. `CliInv`
  adds to the property what holds in between: answers pass their validators and are given in the order of the
  questions, the vector is the flattened answers while a runner has it, and the runner that works is the one
  of the command. No hypothesis beyond `AssetAssumption`, that assets have a class, a code and an issuer and one can
  be typed, and `DashedAssumption`, that no other text tried begins with dashes.
- Type generator, `ModuleIsClosed`: whatever name is written stands for a name that is mentioned (`WrittenIsMentioned`),
  in a type however deep: a smallest type for which it failed would have a part for which it failed. That there
  is a smallest is what `TypeAssumption` says, types are finite trees. The same two functions on types exist
  because the least relation that such a function needs is one (`NamingExists`). What the schemas declare is
  then found in the flattened module (`SchemaDeclares`, `FlattenHas`), fetched or read from a file.

**Only model-checked.** `AttemptsEnd` and `CallsEnd`, which are liveness under fairness, out of TLAPS's
reach like `ENABLED` (so is `ExpiredIsRefunded` of section 5). `EscrowCoversOrders`, in an instance without rebates:
it fails with them, and what holds for every value is `EscrowAccountedFor`. The disagreements of section 5 are
TLC's counterexamples.

## 7. Not modelled

- Metadata of the token, its history, and the storage migrations of every contract: records copied from
  one place to another.
- Events, logs and audit entries.
- `update_config` changing the base currency while orders are open, fee ladders of several tiers and the
  30-day volume that picks one (`SecondaryMarket`).
- Currency registration and several currencies (`DividendPool`): pools of different currencies are
  independent. Recurring schedules, which nothing fires.
- The registry's delegates and external checks, which no check reads.
- The custody validator and the factory contract. One hazard there deserves a model of its own: several
  upheld disputes that slash one bond (`custody_validator.rs:1043`).
- Portfolios and their cache: every portfolio is empty (section 5), so the cache holds nothing that could be stale.
- What the SDK's methods return on success, the legacy market client (`secondaryMarket.ts`), logging and
  telemetry, number formatting, platform statistics.
- The UI's drawing, sorting, exports, fee previews, and the fetches panels make when they are shown.
- The shell script, the theme, configuration and examples; asset-class parameter records.

## 8. What would come next

1. `CustodyValidator`: attestations, disputes, bonds and reputation; bonds are slashed at most once per
   dispute, a custodian below the threshold no longer attests.
2. `AssetFactory`: deployment, registration, and fractional ownership.
3. Composition: the token with the registry's limits in one model.
4. Wider instances: expiry of distributions, fee ladders, base currency changes.

Theorems, in order: `CapacityIsExact` with `Instants` any increasing sequence, dates derived; and whatever the
custody validator needs, on `SumUpdate`.
