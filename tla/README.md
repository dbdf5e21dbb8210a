# Vitreus power plant: a TLA+ verification project

The repository is a Substrate chain: `node/`, `cli/` and `rpc/` set up Polkadot and Frontier services,
`runtime/` composes pallets, and the program's own logic lives in `pallets/` and `precompiles/`. Two ideas run
through it. Validators and cooperators stake VTRS and are paid in **energy** (VNRG); and every fee on the chain
is paid in energy, which users hold or buy from a broker. Around them are membership (NAC and VIPP tokens, VIP
years and rewards), claims, vesting, a bridge, and the node that upgrades its database when it starts.

This project models that logic in TLA+, checks it with TLC on small instances, and proves a part of it with
TLAPS for all values of the constants. Paths below are relative to the repository's root; `eg/` stands for
`pallets/energy-generation/src/`.

* [1. Inventory](#1-inventory)
* [2. Modules and how they correspond to the code](#2-modules-and-how-they-correspond-to-the-code)
* [3. Runs](#3-runs)
* [4. Proofs](#4-proofs)
* [5. What disagrees with the code's own words](#5-what-disagrees-with-the-codes-own-words)
* [6. What is not modelled](#6-what-is-not-modelled)
* [7. Plan](#7-plan)

## 1. Inventory

| component | state | operations | interacts with |
|---|---|---|---|
| **sessions and eras** (`eg/pallet/impls.rs` 455-660, 1100-1200) | `CurrentEra`, `ActiveEra`, `CurrentPlannedSession`, `ErasStartSessionIndex`, `BondedEras`, `ForceEra` | `new_session`, `start_session`, `end_session`, `force_*` | driven by pallet-session; everything else that counts in eras reads it |
| **deferred slashes** (`impls.rs` 838-870, 1100-1230; `mod.rs` 1490-1530) | `UnappliedSlashes` | `on_offence`, `apply_unapplied_slashes`, `cancel_deferred_slash` | called by the offences pallet; enacted by an era start; hits ledger, reputation |
| **staking ledger** (`eg/lib.rs` 320-520) | one `StakingLedger` | `consolidate_unlocked`, `rebond`, `slash` | used by bonding and by slashing |
| **bonding** (`mod.rs` 830-1130, 1530-1620; `impls.rs` 200-260, 410-450) | `Bonded`, `Ledger`, lock on the balance | `bond`, `bond_extra`, `unbond`, `withdraw_unbonded`, `rebond`, `reap_stash`, `force_unstake`, VIP tax | calls privileges (`OnVipMembershipHandler`), reads `CurrentEra` |
| **slashing spans** (`eg/slashing.rs`) | `SlashingSpans`, `SpanSlash`, `ValidatorSlashInEra`, `CooperatorSlashInEra` | `compute_slash`, `clear_stash_metadata`, `clear_era_metadata` | between an offence and the queue |
| **roles and cooperation** (`impls.rs` 60-200, 420-450, 660-760; `mod.rs` 1130-1420) | `Validators`, `Cooperators`, `Collaborations` | `validate`, `cooperate`, `chill`, `kick`, `chill_other`, elections | reads reputation; tells privileges of stake that changed |
| **payouts** (`impls.rs` 262-400) | `claimed_rewards`, `ErasStakersClipped`, `ErasEnergyPerStakeCurrency` | `payout_stakers`, era planning and cleaning | reads the eras, writes the ledger |
| **reputation** (`pallets/reputation`) | `AccountReputation` | accrual for time, `slash`, `increase`, `force_set_points`, `update_points`, `OnKilledAccount` | written by energy-generation and nac-managing; read by elections |
| **energy windows** (`pallets/dynamic-energy`, `energy-broker` 630-660) | `SessionEnergyBurn`, `EnergyBurn`, `TotalEnergyBurn`, `EnergyGeneration` | `on_energy_burn`, `on_new_session`, `calculate` | told by energy-fee and `start_session`; asked by `end_era` |
| **energy market** (`pallets/energy-fee`, `energy-broker`, `treasury-extension`, `runtime/common/src/exchange.rs`) | balances of VTRS and three energies, `EnergyCapacity`, `BurnedEnergy`, `BurnedEnergyThreshold`, `FeeRecyclingRate` | `withdraw_fee`, `correct_and_deposit_fee`, EVM fees, swaps, `on_new_session`, `spend_funds` | every transaction; the session hooks |
| **disabled offenders** (`eg/pallet/impls.rs` 520-600, 1150-1180; `mod.rs`) | `DisabledValidators`, and that of pallet-session | `add_offending_validator`, `start_session`, `end_era` | between offences and the rotation of pallet-session |
| **nac-managing** | NACs and VIPPs (pallet-nfts), `UsersNft` | minting, levels, `mint_vipp_nft`, `burn_vipp_nft`, the hooks of fees, births and claims | reputation at account creation, privileges, claiming |
| **privileges** | `VipMembers`, `VippMembers`, `VipPoints`, `VippPoints`, `Rewards`, `CurrentDate` | joining, leaving, `update_quarter_info`, `update_time`, `set_rewards`, `claim_rewards` | told of eras, stake and VIPPs; asked for the tax percent |
| **claiming** (two instances) | `Claims`, `ClaimsData`, `Vesting`, one pot | `claim`, `mint_claim`, `mint_tokens_to_claim` | pays into balances and vesting, tells nac-managing or mints a collectible |
| **simple-vesting** | `Vesting`, a named reserve | `vest`, `force_vested_transfer`, `force_remove_vesting` | balances |
| **faucet**, **manual-bridge** | `Requests`; none | one call; `transfer`, `payout` | balances |
| **ERC20 precompile** | allowances, permit nonces | `approve`, `transfer`, `transfer_from`, `permit` | balances |
| **parachains database** (`node/service/src/parachains_db`) | columns, approval data, version file on disk | `try_upgrade_db` at every start, migrations, opening | the database libraries; the process may die anywhere |
| democracy-extension | a parameter | `set_electorate` | pallet-democracy |
| runtime composition (`runtime/vitreus`) | constants, hook lists | none of its own | decides what calls what |
| reward curve, inflation; migrations, weights, RPC; node, service, command line | - | - | - |

The runtime's constants that matter: `SessionsPerEra` 4, `BondingDuration` 42, `SlashDeferDuration` 36,
`HistoryDepth` 84, `MaxUnlockingChunks` 64, `MaxCooperations` 256, `BurnedEnergySessionsCount` 84 * 4, swap fee
1 %, treasury recycling base 12 %, scaling 2 %. Hooks: `SessionChangeListeners` = (EnergyBroker, DynamicEnergy,
TreasuryExtension), `OnEnergyBurn` = (EnergyBroker, DynamicEnergy), `OnVipMembershipHandler` = Privileges,
`Slash` = Treasury, `OnNewAccount` = NacManaging, `OnKilledAccount` = Reputation.

**What is hard.** A block's calls run one after the other, so there are no threads. What is hard is the order of
calls over hundreds of sessions, by actors who do not wait for each other: users, root, the offences pallet, and
the session hooks. Specifically:

* *Windows that are nearly the same.* `BondedEras` and `ErasStartSessionIndex` are pruned by different rules at
  different moments; claims, rates, exposures, slashes, unlocking chunks, energy per session all have their own
  edge, each with its own off-by-one.
* *Deferred work.* A slash is enacted eras after it was decided. Meanwhile its victim may leave, the council may
  cancel it, and a report may be too late.
* *Hooks that do not roll back.* Extrinsics are storage transactions, `on_initialize` is not: what was written
  before an error stays written. This applies to era starts and to the treasury's sales.
* *The same fact kept twice.* Lock, ledger and balance; the cooperator's targets and the validator's
  collaborations; the VIP member's copy of its stake; the total of the sessions' burns.
* *History-dependent rules.* Reputation tiers with hysteresis, slashing spans, the burnt-energy threshold that
  is checked before a call and charged after it, VIPPs that stand for what was claimed and not yet lost.
* *Crashes.* A node may die between a database migration and the version file that tells of it.

`PROJECT.json` lists 40 such hazards, each at its line with the properties that would catch it.

**What makes each part correct**, in a sentence:

* sessions and eras: no session is skipped, a planned era starts in the next session, and every lookup agrees
  with what really happened;
* deferred slashes: each is enacted once, when it is due, and could have been cancelled before;
* ledger: sums hold, a slash takes what it was asked for from the right chunks, releases are on time;
* bonding: stake is always backed by locked balance and cannot leave before the slashes for it;
* spans: a span is charged for its worst offence, not for the sum, and pays reporters within their share;
* cooperation: nobody exposes a stake twice, nobody has two roles;
* payouts: every era is paid at most once to each stash, and can be claimed while it is history;
* reputation: a tier never falls short of the points, no block is paid for twice;
* windows: what is burnt and generated is counted once, in its session and in its era;
* market: energy comes from nowhere and goes nowhere unseen, quotes are kept, bounds hold;
* disabled offenders: who offends is out until the era ends, and nobody else is;
* membership: claims are paid once, VIPPs stand for claims and are backed by balances, points and rewards belong
  to their year;
* tokens: no call makes or loses any, approvals and permits are spent once, nothing vests early;
* database: a node never runs on a database of another version, and upgrades end.

## 2. Modules and how they correspond to the code

| module | extends | models |
|---|---|---|
| `Eras` | - | sessions and eras |
| `SlashQueue` | `Eras` | deferred slashes, announcement of sessions |
| `StakingLedger` | - | pure arithmetic of one ledger |
| `Bonding` | `Eras`, `StakingLedger` | the life of one stash between eras, slashes and taxes |
| `SlashingSpans` | - | `slashing.rs` for one stash |
| `Cooperation` | - | roles, promises of stake, the VIP copy |
| `Payout` | `Eras` | which era is paid to whom |
| `Reputation` | - | points, ranks, tiers |
| `EnergyWindows` | `Eras` | energy per session and era |
| `EnergyMarket` | - | fees, swaps, the treasury's sales |
| `SlashPromise` | - | abstract: what the deferral of slashes promises; `SlashQueue` implements it |
| `Disabling` | `Eras` | offenders that are disabled for the rest of the era |
| `LedgerCalls` | `StakingLedger` | the arithmetic over every small ledger, as behaviours |
| `Maps` | - | storage maps as functions: put an entry, drop it |
| `Nac` | `Maps` | NACs and VIPPs of an account, as operators on a record |
| `Membership` | `Nac` | accounts, claims, VIPs: births, deaths, fees and claims in any order |
| `Privileges` | `Maps` | years of points and rewards |
| `Tokens` | - | ERC20 precompile, bridge, vesting, faucet |
| `ParachainsDb` | - | migrations of the node's database, with crashes |
| `ErasProofs`, `EnergyMarketProofs` | their module, TLAPS | theorems |
| `BondingProofs` | `Bonding`, `ErasProofs`, `LedgerCalls`, `RecursionTheorems` | theorems of `Bonding` and `LedgerCalls`, lemmas of `StakingLedger` |
| `CooperationProofs` | `Cooperation`, `ParachainsDb`, `SlashingSpans`, `RecursionTheorems` | theorems of the three |
| `RewardProofs` | `Payout`, `EnergyWindows`, TLAPS | theorems of both |
| `PartsProofs` | `SlashQueue`, `Reputation`, `Disabling`, `Tokens`, `ErasProofs` | theorems of the four |
| `MembershipProofs` | `Membership`, `Privileges`, `RecursionTheorems` | theorems of both, lemmas of `Nac` |
| `RecursionTheorems` | TLAPS | lemmas: induction over natural numbers and finite sets, folds, sums, products and quotients, the greatest and the least |
| `MC*` | their module | values for TLC |

`MCParts` runs five parts that share no variable (reputation, disabling, ledger, spans, tokens), and `MCMembers`
two (membership or years): a behaviour chooses one at the start and the others stay as they are, so that the
state space is the sum of theirs and not the product. Nothing is lost, since the parts do not interact in these
modules.

`PROJECT.json` maps every definition to its lines. Definitions keep the names of the source (`on_new_session` is
`OnNewSession`). An operator that ends a comment with *Mutant:* is a plausible bug next to the definition it
would replace; no specification uses it.

**`Eras`.** pallet-session's `on_initialize` ends session *i*, starts *i + 1* and plans *i + 2*. The variable
`phase` says which of these calls is next, and everything else that happens (extrinsics, reports) is guarded by
`phase = "idle"`, since nothing can come between the three calls. `eraOfSession` is a history variable: it
records what was active when, and the lookup properties compare the pruned maps with it. The election appears
only as its outcome: enough validators (`PlanEra`) or not (`PlanSession`). pallet-session always calls
`new_session` for two sessions at genesis, and the model starts after the first.

**`SlashQueue`** adds the victims. A slash names its victims in the order in which `apply_slash` visits them,
and the only thing about a victim that matters is whether it is still bonded, since `do_slash` fails on one that
is not. `UnappliedSlashes` is a set of slashes with their due era and a number for the order they were pushed
in. `StartSessionS` is `start_session` with everything an era start does: the queue is taken, slashes are
enacted up to the first failure, and then the session is announced or, after a failure, not.

An era start takes at once what the code takes from storage at once, so `SlashPromise` has no queue and no
sessions: cases are opened, dropped, and closed on their day. `SlashQueue` instantiates it (`Promise`) with the
queued slashes as open cases and what was enacted as punishments; a case is never closed early, twice or for
somebody else. What the promise leaves open is what the code leaves undone: who is spared when a slash fails,
and reports that come after their day.

**`Disabling`** adds pallet-session, as far as it matters: validators, those queued for the next session,
whether they were queued as changed, and its own list of disabled places. That list is cleared when changed
validators take over, while the pallet's list lives until its era ends. The model is that of eras longer than
one session which are not forced at genesis (the runtime's `prod_or_fast!(4, 1)` gives 4; its fast build has 1,
where the first era would start with validators that nobody queued as changed).

**`StakingLedger`** is pure: `Consolidate`, `Rebond` and `SlashStake` take a ledger and return one. Ratios in
parts of 10^18 become ratios in parts of `Accuracy` = 1000. Being a power of ten as well, it represents the same
ratios exactly and rounds the others to the same side; what is lost is how near the rounding is, which for the
small numbers used has no effect on the result.

**`Bonding`** puts one ledger in time. The slash that an era start enacts is any part of what was at stake in
the era of the offence (`owed`, a history variable), so the module does not need the queue. What is at stake is
the active stake: the multiplier of exposures is one here. With a bonus a slash may ask for more than was ever
staked; the properties speak of the stake itself.

**`SlashingSpans`** keeps both components of a slash (reputation and stake), because the comparison of
`slashing.rs` wants both of them to be larger.

**`Cooperation`** has the three maps and the copy in one record, and the code's helpers as operators from a
record to the next, since one call writes up to four of them in an order that matters. A validator is exposed
with more than it has: its active stake with a bonus for its reputation (`WithBonus`; `BonusPart` is the
runtime's table, in percent, for any level). The multiplier of cooperators is one in the runtime.

**`Payout`** leaves out amounts. `claimed_rewards` is a sorted vector searched by bisection; it is modelled as
the set of its eras, which is what it is as long as it stays sorted and within its bound, and `BoundIsMet`
checks the bound.

**`Reputation`** takes any increasing thresholds for the code's `from_rank`, as only the order matters.
`entitled`, `peak` and `unseen` are history.

**`EnergyWindows`** has the counters of both pallets. `sessionBurn` stands for the `SessionEnergyBurn` of
either, as they are told the same. A session is announced or, when a slash at an era start fails, not.

**`EnergyMarket`** splits a transaction in three steps: it is charged, its call runs, its fee is settled. Hooks
and other transactions never come in between, and no guard lets them. Market rates are fractions `<<energy,
native>>`, where the code keeps a `FixedU128` and its reciprocal. One user stands for all, because fees and
swaps only touch the account that pays and the three accounts of the system.

**`Nac`** and **`Membership`.** An item id is a hash of block and owner, so among the items of one account it is
the block; which item is "first" is the order of the hashes, and the run takes one where the youngest comes
first. `Nac` has the helpers of nac-managing as operators on a record (`book`), since one call runs through
several of them in an order that matters. A transaction is two steps, its fee with the hook that burns VIPPs and
then its call. `known` is the set of accounts with a reputation record. Balances are what makes an account live,
die and be born again.

**`Privileges`.** A date is a number of days, a year has `DaysPerYear`. Thresholds appear as their sum; which of
them goes when a VIPP is burnt is `Membership`'s. The end of an era is `UpdateQuarterInfo`, and no more than
`MaxGap` days apart. Root's `update_time` sets no date of the future.

**`Tokens`.** Four ways in which VTRS moves, over the balances of one pallet. An approval carries its history
(what it was for, what was spent since), permits are messages that anybody may submit at any time, as often as
they like. `grants` keeps a vesting schedule after a last vest has taken it off storage, so that what that vest
released is still judged by it.

**`ParachainsDb`.** A directory has columns, a format of the approval data and a version file. A start goes
through `Check`, `Migrate` and `WriteVersion` until the version is the current one, then `Open`. `Crash` may
come between any two, and within the write of the version file (`Torn`) and the two-step migration of RocksDB.
How the libraries answer to a database with other columns is external and nondeterministic where they differ.

## 3. Runs

| run | states | asks |
|---|---|---|
| `energy_windows` | 885 000 | `Eras` with `EnergyWindows`: do eras stay in step and lookups agree, is energy counted once |
| `slash_queue` | 963 000 | does the queue keep the promise |
| `bonding` | 1 022 000 | backing, order of chunks, room to unbond, no escape from slashes |
| `cooperation` | 119 000 | exposure, roles, the VIP copy |
| `payout` | 307 000 | paid once, bound, claimable |
| `energy_market` | 1 700 000 | conservation, capacity, quotes, threshold |
| `members` | 1 928 000 | claims, NACs, VIPPs; years and rewards |
| `database` | 582 | upgrades with crashes |
| `parts` | 545 000 | reputation, disabling, ledger, spans, tokens |
| `aborted`, `time_in_network`, `vipp_threshold` | - | the three disagreements of section 5 |

**`energy_windows`.** *`LookupsAgree`* has four parts: the arm of `start_session` that "should never happen" is
dead; an offence is charged to the era its session belonged to, whichever of the two sources `on_offence` uses;
`era_for_session` and `session_range_for_era` agree with history. *`ErasInv`* is the invariant of the proof.
*`BurnsAddUp`*: `TotalEnergyBurn` is the sum of `EnergyBurn`, and what was burnt is filed under its session.
*`EraEnergyIsDue`*: an ended era is credited with what its announced sessions generated, as far as
`EnergyGeneration` reaches. *`PlannedEraStarts`* is liveness.

**`slash_queue`.** *`QueueInv`* is the invariant of the proof; part of it is that a timely slash is still ahead
of the era start that takes it, another what boundary a slash is enacted with: the era after the offence when it
was deferred, the era of the offence when it was not. *`KeepsPromise`*: every behaviour is one of
`SlashPromise`. A slash is enacted once, on its day, and was on file before, where `cancel_deferred_slash` could
reach it.

**`bonding`.** *`StakeIsBacked`*: ledger total = lock ≤ balance, chunks sorted, sums right, and with one chunk
more than `BondingDuration` a full queue gets room by a withdrawal. *`StakeAwaitsSlash`*: what a timely slash
may still take has not left the ledger. *`OnlyDustEscapes`*: a stash that is let go leaves only dust unpaid.

**`cooperation`.** *`NobodyOverexposed`*: with others, a stash has no more exposed than its active stake, and
with itself included no more than that stake with one bonus. *`RolesAreBonded`*, *`CopyNeverShort`*.

**`payout`.** *`PaidOnce`*, *`BoundIsMet`* (`claimed_rewards` never overflows), *`EarnedCanBeClaimed`*.

**`energy_market`.** *`NothingMinted`*: energy in all accounts, paid, burnt and left is constant.
*`StockWithinCapacity`*: a swap that adds to the broker's stock leaves it within the capacity. *`QuoteHolds`*:
`calculate_fee_parts` says what `withdraw_fee` will do. *`BurnIsBounded`*: a block burns no more than the
threshold, plus tips and Ethereum calls in batches, which are not checked.

**`members`.** *`ClaimsAddUp`*: what was assigned is paid or open, the shared pot has what was minted and not
paid. *`MembersHaveNacs`*: who has money has a NAC unless reputation knew it before, and its level is that of
its item. *`VippsAreClaimed`*: VIPPs are never for more than the NACs record. *`VippsAreBacked`*: who pays a fee
keeps VIPPs only for what its balance covers by 95 %. *`YearsAreFiled`*: points are filed once under the year
whose days they were earned in. *`RewardsAreShared`*: a year costs what was allocated for it, up to rounding.

**`database`.** *`RunsOnCurrent`*, and *`UpgradeEnds`* (liveness).

**`parts`.** Reputation: *`TierCoversRank`* (a tier is never below the rank of the points), *`ZeroRankWasHeld`*
(rank zero of a tier is only kept by those who fell from it), *`AccruedOnce`* (no block is paid for twice).
Disabling: *`OffendersAreOut`*, at both places, up to the limit, and nobody else. Ledger: *`SlashIsExact`* (a
slash takes what was asked for or all there is, too much by less than one minimum, and chunks that were
unbonding before the offence are the last to go), *`UnlockingIsExact`* (rebond takes the newest first, chunks
leave in their era). Spans: *`SpansHold`* (the spans cover the window, in each component a span is charged no
more than its worst slash, rewards stay within their share), *`ClosedSpansStay`*. Tokens: *`TokensConserved`*,
*`ApprovalsHold`*, *`NothingVestsEarly`* (no faster than granted, in part or in full), *`FaucetIsBounded`*
(twice the limit in any window: see section 5).

### Bounds

Every bound is a constant whose name starts with `Max`, or is a finite set of amounts; all are in the cfg.

* *Time.* Eras of one or two sessions and five to seven sessions give every pruned window (depth 2 to 4) time to
  fill, to move at least twice, and to be met by a forced era, a failed election and an unannounced session in
  any order. Eras longer than planned happen by failing elections and `ForceNone`; eras shorter than planned by
  `ForceNew` and `ForceAlways`.
* *Slashes.* `SlashDeferDuration` 1 with `BondingDuration` 3 has reports that are timely, late and too late; two
  filed slashes with one and two victims have every order of success and failure. Deferral 0 (immediate
  slashing) is covered by the proofs.
* *Ledger.* Three chunks are the least where one is spared, one is emptied and one is split; active stake up to
  4 and amounts beyond the total cross every minimum balance of 1 to 3.
* *Bonding.* `MaxUnlockingChunks` = 4 = `BondingDuration` + 1, the least that `RoomToUnbond` needs.
* *Spans.* Three offences in a window of two eras open, close, prune and reuse spans.
* *Cooperation.* Two validators and a cooperator of both; the validators are symmetric (they have the same
  constants and no definition names one of them), so symmetry is sound; the run checks invariants only. A bonus
  of 50 % a level gives whole units on stakes of 1 and 2; the runtime's, 2 to 20 %, would be rounded away.
* *Reputation.* Two points to a rank, so that points can be on, below and above a threshold; ranks up to 10
  reach past the first rank of the third tier.
* *Disabling.* Elections choose a set of four or a set of three that has two of them at other places;
  `DisablingLimitFactor` 1 (the code has 3) leaves places for all but one, so that lists hold up to three; the
  proof is for every factor.
* *Members.* One account, three blocks and so up to three NACs and VIPPs, claims of 2 and 3 up to 7 in all,
  transfers of 2, fees at any moment. `Byte` = 2 makes the order of encoded amounts differ from that of the
  amounts. Two members of the years (symmetric), years of two days, one turn of the year and one day after;
  `MaxGap` 1: an era ends every day.
* *Tokens.* Two users in different roles, three units and one, two blocks; a schedule that ends after the run
  and one whose product overflows.
* *Database.* Both libraries, an empty directory, and a database of every version with its version file; without
  the file only for ParityDB, whose nodes wrote none before version 1. No version of the node leaves a RocksDB
  with data and without its file, which `upgrade.rs` 116-117 would stamp as current. Two crashes meet any two of
  up to five migrations.
* *Market.* A broker with 2 VTRS and 3 VNRG runs dry on either side in two swaps; rates are 2 and 0 (no rate);
  three transactions and two rounds of hooks meet in every order.

`CHECK_DEADLOCK FALSE` is used where a bound can end everything: in `parts` (eras, reports and blocks are
bounded), in `members` (days and claims are), in the two violation runs of the same modules, and in `database`,
which stops when the node is up and no crash is left. Everywhere else something can always happen.

### Fairness

`EraFairness` and `WindowFairness` are weak fairness of the three calls of pallet-session, with planning as one
action so that nothing is promised about elections. Sessions are rotated by the BABE clock in `on_initialize`,
whatever users do, and the calls cannot be refused. Under it, `PlannedEraStarts` says that an era that was
planned becomes active. `FairDatabaseSpec` is weak fairness of `Advance`: a start that has begun goes on, since
it is one synchronous function, and whoever runs a node starts it again when it is down. Crashes are bounded,
and nothing is promised about them. `UpgradeEnds` says that the node runs in the end, unless the database is of
the future or a crash came between a migration and its version file. All other runs use specifications without
fairness, since they only check safety.

## 4. Proofs

All values of the constants that satisfy the named assumptions of each module. The sets are arbitrary, and
`MaxSession` and the like, bounds for TLC, are arbitrary numbers. TLC evaluates the assumptions in every run
whose module extends theirs.

| module | theorem | says |
|---|---|---|
| `ErasProofs` | `ErasInvariant` | `ErasInv` holds |
| | `LookupsCorrect` | `LookupsAgree`, from the next four |
| | `SessionsNotSkipped` | the arm that "should never happen" is dead |
| | `ReportsChargeTheirEra` | an offence is charged to the era of its session |
| | `SessionLookupCorrect`, `SessionRangeCorrect` | the lookups agree with history |
| | `PlanningOneAhead` | planning is never more than one era ahead, and that era starts in the next session |
| | `ReportsWithinWindow` | exactly the offences of the active era and the `BondingDuration` eras before are reportable |
| `PartsProofs` | `TypeCorrect`, `QueueInvariant` | types, `QueueInv` |
| | `TimelyNeverStranded` | a timely slash is ahead of the era start that takes it |
| | `SlashedAtMostOnce`, `SlashedWhenDue` | a slash is enacted once, and on its day |
| | `PromiseKept` | `Spec => Promise!Spec`: the queue implements `SlashPromise` |
| `RewardProofs` | `TypeCorrect`, `PaidInvariant` | types, `PaidInv` |
| | `NeverPaidTwice` | `PaidOnce` |
| | `HistoryInvariant`, `ClaimsInvariant` | `HistoryKept`; `ClaimsPaid` and `ClaimsBounded` |
| | `BoundNeverHit`, `EarnedNeverLost` | `BoundIsMet`, `EarnedCanBeClaimed` |
| | `BurnsAlwaysAddUp` | `BurnsAddUp`: total and sessions on file are what burnt |
| | `ErasGetTheirEnergy` | `EraEnergyIsDue`: an era is credited with what its sessions generated |
| `CooperationProofs` | `RolesBondedAlways` | `RolesAreBonded` |
| | `NobodyIsOverexposed` | `NobodyOverexposed`: with others no more than the active stake is exposed, in all no more than it with one bonus |
| | `CopiesAreNeverShort` | `CopyNeverShort`: a VIP's copy of its stake is never less than the stake |
| | `NodeRunsOnCurrent` | `RunsOnCurrent`: the database of a running node |
| | `SpansInvariant` | `SpansIInv` of that module |
| | `SpansAlwaysHold` | `SpansHold` |
| | `ClosedSpansNeverMove` | the action property `ClosedSpansStay` |
| `BondingProofs` | `BondingInvariant` | `BondInv` of that module |
| | `StakeIsAlwaysBacked` | `StakeIsBacked` |
| | `StakeAlwaysAwaitsSlash` | `StakeAwaitsSlash`: nobody unbonds past a slash |
| | `OnlyDustEverEscapes` | the action property `OnlyDustEscapes` |
| | `CallInvariant` | `CallInv` of that module |
| | `SlashesAreExact` | `SlashIsExact`: a slash takes what it was to take and less than a minimum more, the older chunks last |
| | `UnlockingsAreExact` | `UnlockingIsExact`: rebond takes the newest, a chunk leaves in its era |
| | `OffendersStayOut` | `OffendersAreOut` |
| | `ReputationInvariant` | `ReputationInv` of that module |
| | `TierNeverBelowRank`, `ZeroRankIsKept` | `TierCoversRank`, `ZeroRankWasHeld` |
| | `NoBlockPaidTwice` | `AccruedOnce` |
| | `ApprovalsSpentOnce` | `ApprovalsHold` |
| | `VestsOnTime` | `NothingVestsEarly`: neither a part nor all of a grant is released early |
| | `NoTokenMadeOrLost` | `TokensConserved`: free and reserved together are what was issued |
| | `FaucetGivesTwoLimits` | `FaucetIsBounded` |
| `MembershipProofs` | `MembershipInvariant` | `MembershipInv` of that module |
| | `ClaimsAlwaysAddUp` | `ClaimsAddUp`: assigned is paid or open, and the pot has the rest |
| | `MembersAlwaysHaveNacs` | `MembersHaveNacs` |
| | `VippsAlwaysClaimed`, `VippsAlwaysBacked` | `VippsAreClaimed`, `VippsAreBacked` |
| | `YearsInvariant` | `YearsInv` of that module |
| | `RewardsAlwaysShared` | `RewardsAreShared` |
| | `YearsAlwaysFiled` | `YearsAreFiled`, if an era ends at least once a day and a year has more than one day |
| `EnergyMarketProofs` | `MarketInvariant` | `MarketInv` of that module |
| | `BlockBurnIsBounded` | `BurnIsBounded` |
| | `StockStaysWithinCapacity` | the action property `StockWithinCapacity` |
| | `SupplyInvariant`, `NoEnergyFromNowhere` | `SupplyInv` of that module, `NothingMinted` |
| | `FeesCostWhatWasQuoted` | `QuoteHolds`: a fee costs what was quoted |

**Eras.** That no session is skipped is not inductive: whether a planned era is skipped depends on how far ahead
planning is. `ErasInv` says what is needed. `Counters`: what is planned, started and active differs by what
`phase` says. `Planning`: the planned era is the active one or the next one, and in the second case it starts in
the next session and is not planned twice. `Windows`: each of the two maps has exactly the eras of its window,
and for each era in it and each session that was started, the era starts no later than the session exactly if
the session's era is not older. The last part is what makes the maps and history agree and it gives the lookup
theorems. It has one case per call of pallet-session, and forcing changes nothing it speaks of, which is why
forced eras cannot break it.

**Slashes.** "Enacted once" is not inductive either. `QueueInv` adds that numbers are unique and below the
counter, that what is enacted is no longer queued, and that `due` is the slash era plus the deferral plus one;
the boundary follows from it, as an era start subtracts the deferral from the era that is due. It takes from
`ErasInv` that reports are of the window, and that era starts take each era once and in order, which is what
makes "timely" and "ahead" the same. The refinement needs nothing more: with `QueueInv` and `ErasInv`, a report
is `File`, a cancellation `Drop`, an era start `NextEra` with those as punished that came before the first
failure, and every other step leaves the promise as it is.

**Bonding.** That the ledger holds what an era is owed is not inductive: what the next withdrawal takes is still
in the ledger now. `BondInv` speaks of what a withdrawal cannot reach. `StakeSince(ledger, b)` is the active
stake and the chunks that wait for era *b* or later; the stash covers its debts when `StakeSince` of each era
owed plus `BondingDuration` is at least the debt (`Covered`). The eras owed are at most `SlashDeferDuration`
behind the active era, and the planned era is at most one ahead of it (`ErasInv`), so a due chunk is never one
of those: this is where the assumption of two eras between the two durations is used, and at one era less it
fails (section 5). Unbonding moves stake from active to a chunk that still counts; a slash or a tax of any
amount takes no more from what counts than from the total, which is what every debt is settled by (`SlashSound`,
`LossCovered`). When a stash is let go, debts are compared with what is left, which is less than a minimum
balance; and a stash that is bonded anew brings at least that much.

Under it are lemmas on queues of any length. `Keep` (the `filter` and `retain` of the code) keeps order and
worth (`KeepShape`, `HeldKeep`); `Rebond` and the steps of `slash_stake` lower chunks where they are
(`Trimmed`), so that no group of chunks loses more than all together (`TrimmedHeld`). `slash_stake` is a fold
over an order of the chunks; that the order visits no place outside of the queue (`PriorityIsOfChunks`) and that
each step keeps the account of what was taken (`SlashStepKeeps`) give `SlashEnds`, by induction over the length
of the queue (`FoldLeftSteps`). `RoomToUnbond` is a pigeonhole: chunks that wait for different eras of the next
`BondingDuration` (`ShapeLeavesRoom`).

**Ledger.** The theorems of `LedgerCalls` hold for queues of any length and values of any size. `CallInv` says
that a ledger adds up, that its chunks are few, not empty and in order (`Fit`), and which call made it. For a
slash, `Bites` relates each step of the fold to the set *P* of chunks that were gone through: nothing remains to
be taken, or what was taken is in the proportion of the slash to the active stake and the chunks in *P*; and
chunks outside of *P* are untouched. It is kept because a cut that is not limited by what remains is at least
that proportion, as both the ratio and the share are rounded up (`CutBites`, `CeilDivIs`), and a cut that leaves
less than the minimum takes all. `Priority` goes through the affected chunks first (`PriorityIs`); the
proportion over them amounts to the slash (`ProportionIs`), so once they are through nothing remains
(`BitesThrough`), and from then on nothing changes (`SlashStops`). `Within` is the other bound: as long as
something remains, it and what was taken are the amount, and only the cut after which nothing remains can go
over it, by what would be dust (`CutOver`). For `rebond`, `RebondSplits` finds the one
chunk before which all stay and after which none does; a filter keeps the former in place (`NotEmptyPrefix`).

**Disabled offenders.** `OffendersAreOut` speaks of the rest points of a rotation. `DisablingInv` adds what
makes them agree: while an era is ahead, the validators of the next session are queued as changed, so that
pallet-session clears its list in the same rotation in which `end_era` clears the pallet's; otherwise the queued
validators are those of now, so that places mean the same before and after; and pallet-session never disables
more than the pallet.

**Payouts.** A stash that is killed loses its claims with its ledger. `PaidInv` says that what was paid is an
ended era and, as long as the stash is bonded, is claimed in the ledger or out of the history; and that rates
exist for ended eras only. A ledger that is born anew claims all the eras of the history before the current one,
and by the second part nothing younger can have been paid: that closes the case.

That the rest can be claimed needs what is stored to be there: `HistoryKept` says that clearing only ever takes
the era that leaves the history, that the exposures of an era stay those it was planned with, and that an ended
era has its rate, also in the call between its end and the start of the next. `ClaimsPaid` says that a claim
which is no payment is older than the ledger or of an era that did not expose the stash. All claims are of ended
eras, so those a payout retains lie among the `HistoryDepth` eras before the current one, and without the era
it pays for they are fewer: there is always room.

**Reputation.** `RecordOK` says of each record that it is dated in the past, that its tier covers the rank of
its points and that the highest rank it ever had is beyond rank zero of its tier; `Accrued`, that points and
time to come are among what was given. The step that matters is `RelativeRank`: `with_rank_relative_to` keeps
all of this, by the ranks of tiers one and two and those beyond them. `Rank` is the largest rank whose threshold
is reached, and that thresholds increase over any distance, and not only from one rank to the next, is an
induction, done with the least counterexample (`LeastNatural`).

**Market.** `BurnIsBounded` is not inductive, since the burning comes after the check. `BurnInv` adds what is on
its way: the fee that was charged, and the fee of an Ethereum call that was checked and not yet burnt. It also
needs the threshold in force to be at most the highest of the block. Both only speak of numbers when the books
hold numbers, and most of the proof is that every swap leaves them so (`DoSwapOK`, which also says that
`BurnSurplus` leaves no more than the capacity or the last unit). `StockWithinCapacity` follows from one lemma
per step of a transaction.

`NothingMinted` needs more than numbers: that nobody owes. `SupplyInv` says so, and that the rules are in their
ranges, without which more than a fee could be recycled. `Gains(m, n, native, energy)` is what a step adds to
what there is; credits have gains, gains add up (`GainsAdd`), and those of a swap are nil, whether it is done,
refused, or fails half way and is undone by nobody (`DoSwapGains`). They are so because the amounts of the
broker are `Fair`: a fee is part of what goes in, whatever the rate, and static or liquid energy becomes VNRG
one for one. `Ensured` says what a fee costs whoever pays it, and `QuoteHolds` follows in every market without
debts.

**Database.** `UpgradeInv` says that the version file never promises more than was done: once it names the
current version, or the step that writes it is next, the approval data is converted; and a database that exists
without a file is one of ParityDB. The columns need no such promise, as every opening checks them.

**Sums and folds.** `SumFunctionOnSet` is a fold, and a fold is the function that a recursive definition by
`CHOOSE` names. That such a function exists is proved once, for any finite set, by induction over its size
(`FoldExists`); the induction theorems of the library take an operator, so `NatSetInduction` and
`SubsetInduction` say the same of a *set* of numbers or of subsets. From the existence follow the laws the
other proofs cite: a sum is that of its elements in any order (`SumRemove`, `SumAdd`), moves by what one or two
elements move (`SumUpdate`, `SumTransfer`), grows with its elements and with its set, splits, and is zero over
zeros. `FoldKeeps` does the same for a fold that is no sum.

**Cooperation.** None of the three properties is inductive. `Safe` says that the maps are sound (nobody has two
roles, and nobody promises or is credited more than there can be), that every role is bonded, that every stash
is backed (the targets of its cooperation add up to at most its active stake) and that a VIP's copy holds at
least that stake. Each call rewrites one stash, or, for a slash or a withdrawal, one stash and its promises in
step: `Shrinks` and `Reduces` are what these do to the sum of the targets, and `Copies` says when the copy
follows.

**Spans.** The record of spans keeps the start of the ongoing one and the lengths of those before it, so where a
span starts is a sum over a prefix of the list (`StartIs`). `Follows(s, t, d)` says that the spans of *t* are
those of *s*, *d* places further back, as many as are left: `end_span` gives *d* = 1 (`EndedIs`), `prune` gives
*d* = 0 (`PrunedIs`), whichever spans it drops, and `ClosedSpansStay` is a consequence of it. `SpansIInv` has
two parts. `Reaches`: the spans end in the era after the active one at the latest and reach back to the start of
the window, so that an era of the window is in one span, since starts fall strictly (`StartsFall`,
`CoveringIs`). `Settled`: records are of spans that are kept, a span's record agrees with what was taken
(`Agrees`), and a kept span without a record was not slashed, which is what lets a later offence start its
record at nothing.

**Energy windows.** The total is a running one and its subtraction saturates; that the subtraction never bites
is the lemma `WindowMoves`, by which the sum over a window changes when a session enters and another leaves.
What a session on file holds is a sum over history from the announcement before it, and `BurnsInv` says this
also of the counter that runs now, in every phase. For the energy of an era, `EnergyInv` adds `Credited` (the
active era is due the sum of what is on file from its first session on, while none of its sessions has left the
record) and `Ended` (an era's energy is stored in the last session before the next era). It takes from `ErasInv`
that an era starts in the very session that was planned for it: a later start would leave sessions out.

**Tokens.** `ApprovalInv` adds that every used permit has a nonce below that of its owner, so that another use
of the nonce is a new permit, and that the used permits are finite, so that they can be counted. `VestingInv`
says that a schedule in storage is the one that was granted, and of each grant that its reserve covers it now
(`ScheduleCovered`). This is kept by time (`CoveredLater`), by the grant itself (`CoveredInFull`) and by vesting
(`CoveredAsLocked`), also when that releases all: a grant is a balance, so a product that is too large for a
balance is more than was granted. `BalanceInv` adds
that free and reserved balances are numbers and add up to what was issued; a transfer to oneself, where debit
and credit meet in one account, is a case of its own. `FaucetInv` says that the gifts since a period began are
in its sum, and that the gifts of any window that ends before it are within the limit: a window of one period
meets at most two of the faucet's.

**Membership.** The four properties lean on one another, and `MembershipInv` has them in a form that single
calls keep. VIPPs are covered by the claims of their own account (`Covered`), the claims of all accounts
together by what was paid (`ClaimSum`); the record in `UsersNft` names an item that is there and its level
(`Recorded`); and an account that never died has one NAC and, with it, a reputation record (`Lives`), which is
why it is never given a second one. The lemmas say of each operator of `Nac` which entries of a book it writes.
The two loops that burn VIPPs are recursive functions of the round (`LoopExists`); of a loop whose rounds burn
one VIPP or stop, `LoopBurns` says that it only leaves VIPPs that were there before, and that it leaves none, or
an account that covers them. The theorems assume that accounts are finitely many and that a balance above zero
is possible (`NacAssumption`, `MembershipAssumption`).

**Years.** A day of privileges is an operator on a record of books, and `update_time` a recursive function of
the days it catches up (`DaysExist`, `DaysAreTyped`), so that what one day keeps, any number of them keeps.
`YearsTyped` says that nothing is filed under the year of the date or a later one (`SameBefore`: a day writes
nothing under the years before it), which is why a year whose rewards are set gets no more points.
`YearsShared` then balances each such year: with *w* points in all, *s* to share, *p* paid, *left* points
unclaimed and *n* members paid, *w p + s left <= s w + w n* (`Balanced`). A claim moves a member's points from
*left* to *p* and rounds by one unit at most (`ShareIs`, `BalanceStep`); nobody is paid twice, since a claim
drops the points and no call brings them back. `YearsFiled` adds that the date is at most a day behind the
clock, that the points of a member are what was earned in the year of the date, and that who was a member at
the turn of a year has points filed or was paid; without its hypotheses an era could miss the first day of a
year, which is the hazard. The theorems assume that members are finitely many and that the first year fits
under the bound on the clock (`PrivilegesAssumption`).

**Only model-checked.** *Liveness* (`PlannedEraStarts`, `UpgradeEnds`): temporal reasoning with fairness needs
`ENABLED`, which TLAPS does not support. Every invariant and action property of a run that passes is a theorem.

## 5. What disagrees with the code's own words

1. **A failed slash drops those behind it** (run `aborted`). `apply_unapplied_slashes` takes the queue of the
   era and leaves at the first error, in a hook that does not roll back. One victim that has left saves all
   others.
2. **An account rewarded before it is known is paid for all time since genesis** (run `time_in_network`).
   `increase_creating` makes a record with `updated` = 0.
3. **A VIPP's threshold outlives the VIPP** (run `vipp_threshold`). `mint_vipp_nft` mints under the id of the
   block, then shadows `item_id` by the id of the account's NAC and hands that to privileges, which never finds
   it again when the VIPP is burnt (`pallets/nac-managing/src/lib.rs` 491-498).

Observed while modelling, without a run of their own:

* *Eras and slashes.* With `SlashDeferDuration` = `BondingDuration` - 1, which the integrity test admits
  (`mod.rs` 174-178), a chunk can be withdrawn after the era it waits for is planned and before it starts, which
  is when the slash is enacted: `StakeAwaitsSlash` fails. The runtime has 36 and 42. A report of an era whose
  queue was taken already is filed and never enacted. A deferred slash is handed the era after the offence as
  its boundary (`QueueInv`), where `slash_stake` expects that of the offence (`lib.rs` 408). When a slash fails,
  the session is never announced, and an entry of `EnergyBurn` stays in `TotalEnergyBurn` for good.
* *Ledger and spans.* "This will never slash more than the given amount", says `slash_stake`
  (`pallets/energy-generation/src/lib.rs` 404). It may, by less than one minimum balance: what is left of the
  stake or chunk it reaches last is taken as well if it would be dust (491-497). An active stake of 3 that is
  slashed by 2 with a minimum of 2 loses 3; `SlashIsExact` is the bound that holds. A span is slashed only if
  both components are larger than before, where the module's text speaks of the maximum. `slash_vip_account`
  looks the ledger up by the account, and `unbond` the spans by the controller, which are the stash only if it
  controls itself.
* *Cooperation.* A validator with a reputation is exposed with more than it has, by up to a fifth and more
  (`runtime/vitreus/src/lib.rs` 744-764). Collaborations keep entries of cooperators that have chosen other
  targets. A validator that chills leaves the VIP cooperator's copy of its stake as it was (too large, never too
  small: `CopyNeverShort`). A stash may cooperate with itself.
* *Reputation.* The zero threshold of the third tier is that of rank 3, not of its own first rank less one. The
  rank that an account lands on is not computed from its points, and an increase can lower a tier.
* *Energy.* A sale of the treasury at a session can leave the broker above its `EnergyCapacity`: `do_swap` hands
  the energy over before it takes the price (`pallets/energy-broker/src/lib.rs` 486), and
  `pallets/treasury-extension/src/lib.rs` 143 calls it outside of a storage layer and ignores its error.
  `StockWithinCapacity` speaks of transactions only. Eras longer than `SessionsPerEra` + 1 lose what their first
  sessions generated. Quotes are given though the broker lacks liquidity. The capacity is not updated when it
  would be zero. A refund does not undo the purchase of energy. In a batch of Ethereum calls the fee is charged
  with the batch and again for each call, and the latter, like tips, is not checked against the threshold.
  `get_amount_in` rounds in the buyer's favour.
* *NACs and VIPPs.* An account that had a reputation record before its birth gets no NAC, and its claims fail.
  One that dies keeps its tokens, and when born again gets a second NAC; if that comes first, its VIPPs are not
  checked any more. A second VIPP in the same block overwrites the amount of the first. The "lowest" VIPP is
  found by comparing encoded, that is little-endian, amounts. Becoming a VIP overwrites the thresholds an
  account has.
* *Claims.* Both instances have the same `PALLET_ID` and so share one pot. A second `mint_claim` replaces the
  data of the first, also by nothing.
* *Years.* `update_quarter_info` gives the points of one day however many have passed, and files a year only if
  it sees its successor's first day: if no era ends on that day, the year is not saved. With a total of zero
  points every holder of an entry gets the whole allocation (`pallets/privileges/src/contribution_info.rs` 144).
  Rewards of VIPP points can only be claimed by who has an entry of VIP points.
* *Tokens.* The faucet gives up to twice its `MaxAmount` in a window of one period (its text,
  `pallets/faucet/src/lib.rs` 106-109, can be read both ways). A genesis schedule floors its rate and lasts
  longer than asked for. If the product of a schedule overflows, all is unlocked.
* *Database.* Adding and removing a column cannot be repeated: after a crash between such a migration and the
  version file, the database is refused until somebody intervenes, and an empty version file is taken for a
  corrupt one. The migration of ParityDB from no version can be repeated.

## 6. What is not modelled

* *Reward curve, inflation, exchange-rate smoothing, capacity multiplier*: numeric analysis of constants. The
  models take any rate or capacity of a small set.
* *Amounts of payouts*: one product of stored numbers per stash.
* *The order of the election* (battery slots, Poisson sampling): its outcome is any set that the candidates and
  their reputation allow.
* *`set_controller`, `set_payee`, `change_penalty_type`*: a stash is its own controller, a tax is any rate.
* *`pay_reporters`* (`eg/slashing.rs` 843-878): one division of a reward whose size `SpansHold` bounds.
* *Widths of integers*: balances are u128 and far below it, and the code saturates where it subtracts, as do the
  models. Where the width matters (vesting), it is a constant.
* *Transfers of NFTs* go through pallet-nfts. *`NacRunner`* (`runtime/vitreus/src/helpers/runner.rs`) is used
  nowhere.
* *Signatures, encodings, weights, migrations of storage, RPC, chain specifications, services, XCM
  configuration*: I/O, tables or third-party code.
* *democracy-extension*: one stored parameter and wrappers of pallet-democracy.

The definitions are mapped to 18 % of the repository's lines of implementation. The other lines of the modelled
pallets are declarations of events, errors, storage and configuration traits, documentation, and dispatch
boilerplate; whole files are weights, benchmarks, mocks, chain specifications, service set-up and the runtime's
tables, which have no behaviour of their own. Mapping them would say nothing.

## 7. Plan

The core comes first: whoever stakes is slashed and paid by eras, so `Eras` is at the bottom, then what is built
on it, then energy, then who takes part. Done in this order: `Eras`, `SlashQueue`, their proofs,
`StakingLedger`, `Bonding`, `SlashingSpans`, `Cooperation`, `Payout` and its proofs, `Reputation`,
`EnergyMarket`, `EnergyWindows`, the proofs of reputation and market; then `SlashPromise` and its refinement,
`ParachainsDb`, `Disabling`, `Nac` with `Membership`, `Privileges`, `Tokens`, and the proofs of most of them;
then `RecursionTheorems`, and on it the proofs about sums of tokens, roles, energy burnt and traded, of
bonding, of the ledger's arithmetic, of membership and of the years of privileges.
Runs were joined where modules share a specification or nothing at all. What is left:

1. **Composition** of `SlashQueue` with `Bonding`, so that the slashes that reach a ledger are those of the
   queue; of `Membership` with `Privileges`, so that thresholds are followed through a year; `set_controller`.
2. **An abstract specification of payouts**, a set of (stash, era) pairs, with `Payout` as its implementation.
3. **Elections** in the order of the code.
4. **Proofs** of the refinements that 1 and 2 would add; those of the safety properties above are done.
