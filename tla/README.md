# Taper: formal models

TLA+ models of the Taper AMM client and core library (`taper-amm-sdk`), with
TLC configurations that check them on small instances and TLAPS proofs of the
properties that matter most.

Taper is a bin-based AMM: liquidity sits in consecutive price bins, a bin trades
at one fixed price, and the price moves by walking from bin to bin. The
repository holds the shared arithmetic and account layouts (`taper-core`, Rust),
a Rust quoting library and its Jupiter adapter, and a TypeScript SDK that plans
and encodes transactions. The on-chain program's instruction handlers are *not*
in the repository. Where a model needs one, it is written from the operations
`taper-core` gives it and from the contract the SDK relies on, and `PROJECT.json`
marks it external. The same goes for the runner that sends the transactions of a
plan, the network under it, and the router above the adapter.

Paths below: `core` is `src/crates/taper-core/src`, `rq` is
`src/jupiter/taper-amm-sdk/src`, `sdk` is `src/sdk/src`.

## Inventory

| Component | State | Operations | Interacts with | Hard because | Correct when |
|---|---|---|---|---|---|
| Position account (`core/state/position.rs`) | header with the band's edges, one record per slot (share, fee checkpoints, pending fees), account length | open, add/remove shares, sync and take fees, resize with an in-place rebase, close | bins (fee growth), resize and liquidity handlers, rebalance plan | slots are renumbered when the lower edge moves; records are copied over one another; stale bytes are reused | every bin keeps its shares and every fee is paid or still owed, whatever moves the band made |
| Bin (`core/state/bin_array.rs`, `core/math/liquidity.rs`, `core/math/fee.rs`) | token amounts, share supply, fee growth per share | deposit, withdraw, accrue fee | positions, swaps, the pool's vault | every division rounds; many holders; fees and inventory share one vault | the vault covers all claims at once; nobody's share loses value to others |
| Bin arrays and bitmap (`core/state/bin_array.rs`, `core/state/pool.rs`, `sdk/accounts.ts`) | slots with a cached price and step, words of bits | touch a bin, mark an array | ladder, walk, clients | ids on both sides of zero; two readers of one bitmap | a flat book of prices and a set of arrays |
| Swap in one bin (`core/math/swap.rs`) | none | exact-in fill, fee on input or on output | bin, walk | three roundings meet at the drain boundary; u64 saturation | no unit leaves below the bin's price |
| Pool (`core/state/pool.rs`, `config.rs`) | active bin, volatility references and accumulator, protocol fees, status | update references, update accumulator, rate per bin | walk | time windows, carry-over between swaps | one burst sees one fee per bin |
| Walk (`rq/quote.rs`, mirrored by `sdk/quote.ts`) | copies of pool and bins, amount left, visits | step over, fill, stop | pool, bins, arrays | five ways to end; gaps between arrays; quotes are advice | it never passes liquidity, never pays out too much; its advice fills |
| Jupiter adapter (`src/jupiter/taper-jupiter/src/lib.rs`) | cached pool, config, mints, arrays | update, quote, list accounts | walk, caller's account feed | partial updates, errors half way; the chain moves between quote and swap | a quote walks no further than its transaction may, and an undisturbed swap settles for exactly the quote |
| Transfer fees (`rq/token.rs`) | two fee schedules in a mint's extension list | fee, inverse fee, fee at an epoch, parsing | quotes | inverse of a rounded, capped function; data cut short | the smallest input that delivers; no misread fee |
| Rebalance and exit plans (`sdk/plan.ts`, `instructions.ts`, `position.ts`) | a list of steps; the runner's position in it | plan, send, skip, retry, stop, plan again | position account, network | lost and late confirmations, a growth cap per transaction, fixed withdrawals over bins that keep earning | every step is accepted, nothing kept is withdrawn, it ends at what was asked for |
| Deposit plan (`sdk/plan.ts`, `shapes.ts`) | a list of steps with ids, witnesses and bounds on the active bin | plan, check, send, skip, stop, plan again | position account, pool, network | ambiguous timeouts of deposits, a moving active bin, two splits and a flooring | nothing is deposited twice; what was asked is deposited up to rounding |
| Reshape plan (`sdk/plan.ts`) | same | one withdraw-and-redeposit per span | same | same | – (not modelled) |
| Wide integers (`core/math/u256.rs`) | the registers of a restoring division | multiply, divide, round | everything | carries and bits that fall out of a word | the exact quotient or an error |
| Ladder and prices (`core/math/ladder.rs`, `fixed.rs`, `core/state/config.rs`) | none | price, width and step of a bin, array of a bin, validation | everything | fixed-point exponentials; a band is judged by its ends | every bin derives, prices in order, steps within caps |
| Encoding, decoding, addresses, wallet and network helpers | none | pure functions | – | byte layouts | – |

Calls run from the plans (SDK) to the on-chain handlers, which call `taper-core`;
quotes run the same `taper-core` arithmetic on fetched copies. Shared state is
on chain only: positions share bins, bins share the pool's two reserves and its
volatility state. A transaction is atomic, so interleavings happen between
transactions, and within a transaction only as the order of the calls. What
makes the system hard is therefore arithmetic over long histories, in-place
layout changes, stale copies (a quote, a plan, a cached array) used after the
chain moved on, and confirmations that do not arrive.

`PROJECT.json` lists the components with their status and every hazard at its
line.

## Modules

| Module | Models | Extends or refines |
|---|---|---|
| `PositionBand` | what a position promises, with no storage: a band, shares per bin, fees unclaimed and paid | – |
| `PositionSlots` | the account: header, slots, capacity, `rebase` one copied record per step | refines `PositionBand` |
| `BinMath` | liquidity, share, fee and swap formulas with their roundings | – |
| `BinLedger` | one bin, two positions, traders, the protocol's cut and the vault | `BinMath` |
| `FeeSchedule` | the base and variable fee rate, the volatility references | `BinMath` |
| `LadderWalk` | `walk_ladder` as a function of a market, arrays and a budget | `FeeSchedule` |
| `SwapWalk` | the walk bin by bin, quotes, swaps and strict swaps, the clock | `LadderWalk` |
| `TransferFee` | Token-2022's fee, its inverse, the fee in force | `BinMath` |
| `MintTlv` | the walk over a mint's extension list | – |
| `QuoteHop` | a quote, its accounts and the swap built from it, with the chain moving in between | `LadderWalk`, `TransferFee` |
| `JupiterAmm` | the adapter's cache between `update` and `quote`, and the router's feed | – |
| `RebalanceRun` | `resizeSteps`, `planRebalance`, `planExit`, and a runner executing the plan over a lossy network | – |
| `DepositShape` | weights, blending, basis points, the program's flooring | – |
| `DepositRun` | `planDeposit` and a runner executing it while the pool trades | `DepositShape` |
| `WideInt` | `u256.rs`, the division one bit per step | – |
| `FixedPoint` | `exp2`, `pow_q64` and the series of `2^w - 1` | – |
| `Ladder` | widths, prices, steps, validation, array indexes | `FixedPoint` |
| `LadderBand` | a config judged, its band derived bin by bin | `Ladder` |
| `PriceBook` | what arrays and bitmap promise: prices in order, a set of arrays | – |
| `BinGrid` | bin arrays and bitmap | `LadderBand`; refines `PriceBook` |
| `SwapWalkMC`, `JupiterAmmMC`, `QuoteHopMC`, `DepositRunMC`, `BinGridMC` | the data of the runs | their component |
| `*Proofs` | the theorems of the module they are named after (`PositionSlotsProofs` holds the refinement too, `QuoteHopProofs` the theorems of `JupiterAmm` and `MintTlv`, `WideIntProofs` those of `BinGrid`; those of `BinLedger`, `SwapWalk` and `QuoteHop` build on `LadderWalkProofs`) | the module, `TLAPS` |

### PositionSlots

`lower`, `upper` are the header, `capacity` the account's length in bins, `mem`
the records. `Open`, `AddShares`, `RemoveShares`, `ClaimFees`, `Close` are one
transaction each; a resize is `BeginResize` (the handler's guards, growing the
account), then `MoveSlot` per record copied by `move_slots` in the direction it
chooses, `ZeroVacated`, and `Anchor` (declaring the band, cutting the account).
The steps inside a resize are separate so that the refinement has to explain
each of them: `RecordOf` says where bin *b*'s record is at every point of the
copy loop, and `ImplementsBand` says that the record there never shows anything
`PositionBand` does not allow. `Earn` is trading in the pool. Fees are one
token's and growth is in units that make share × growth exact; rounding is
`BinLedger`'s subject. `MaxShare`, `MaxGrowth` bound the state space in the
guards of `AddShares` and `Earn`.

Run `position_slots`: a ladder of a few bins with an inline block smaller than
the widest band, so that slides in both directions, overlaps, disjoint moves,
widenings past the inline block and narrowings back into it all occur.

### BinLedger

`amount`, `supply`, `growth` are the bin, `share`, `checkpoint`, `pending` the
two positions' slots, `protocol` the pool's cut, `reserve` the token accounts.
Every operation carries its calls in the code's order: `Deposit` and `Withdraw`
sync first, `Swap` fills and accrues in the token the collect mode picks,
`ClaimFee` skips a slot without shares as `earns_at` does. One price, so the
bin's whole life is at one Q64 price as in the code. `MaxReserve` bounds the
inventory. `GrowthScale` is small, so that growth rounds to something visible;
`U128Max` models the overflow that refuses a swap. `QuoteOnly = TRUE` takes fees
on both sides (output when X is sold, input when Y is), which covers the two
branches of `swap_in_bin_exact_in`; two positions are enough for one to act
while the other only waits.

Run `bin_ledger` checks the vault's solvency, the supply's backing, the value of
a share and that unclaimed fees only grow or are paid out in full. The
composition fee is left out because nothing in the repository calls it.

### SwapWalk

A walk is `Begin` (copies, `update_references`), one of `SkipEmptyBin`,
`FillFromBin`, `StopAtDust` per iteration of `walk_ladder`, and `Commit` or
`Discard`. A quote discards its copies, a swap writes them back, a strict swap
writes back only when the whole input was filled. `arrays` is a fixed set, so a
missing array is a gap. `Wait` moves the clock up to `DecayPeriod`, past which
all waiting is the same. `opening` and `charged` are history variables.
`Init` starts from every deposit the program's rules allow (X above the active
bin, Y below, both in it): deposits and withdrawals during the walks are not
modelled. `MaxTotal` bounds the inventory traders may build up in one token.

Run `swap_walk`: three bins with different prices and steps in two arrays, at
most two bins per swap, so that the bin limit, both band edges and gaps all
end walks. `EndsAsWalked` shows that this walk, taken a bin at a time, ends
where the function `WalkLadder`, which the other modules use, says.

### QuoteHop and MintTlv

`Quote` is `TaperAmm::quote` with `quote_exact_in`: the transfer fee off the
offer, the walk over the arrays fetched, the input rebuilt by the inverse fee
and capped by the offer. `Swap` is the external program over the accounts
`swap_account_metas` lists; it takes its mints and its arrays *from the list*,
so an account out of order or an array left out shows. In between, `Trade`,
`Wait`, `EpochTurns` and `SetStatus` may happen, and `since` records which did.

Run `quote_hop`: three bins, one per array, `REACH` of two, three pairs of mints:
without a fee, with a capped one at the maximum rate, and with ones that an
epoch turns over. One trade by others, one epoch and three seconds' worth of
clock are enough to disturb a quote in every way it can be. `QuoteHonoured` is about
a quote nothing came before, `SettledWaitIsFree` about one that only waited; what a
trade or an epoch in between costs is bounded by the trader's minimum alone, of which
the code says no more.

`MintTlv` is `transfer_fee_config` an entry at a time, at the real offsets. A
body is a length, and the lengths sit on both sides of the 108 bytes read; the
cuts put the end of the data before, inside and after each part of the last
entry. Run `mint_tlv`: every list of up to three entries, cut at every one of
them; the loop ends on each.

### RebalanceRun

On chain: `band`, `capacity`, `open`, and per bin only whether it is funded
(`shares`), has a checkpointed fee (`pending`) or has earned since (`earned`),
because that is what decides whether a resize or a close is refused. `task` is
what the caller asked for: a band, a withdrawal from a range, or an exit in full
or in part, with or without closing. The plan is built as the code builds it:
`Chunks` over the bins, with reductions fixed at plan time, the close on the
last one, then `ResizeSteps` with the length witness where a step lengthens the
account. `NextBand` is one turn of `resizeSteps`' loop. The runner (`Plan`,
`Skip`, `Send`, `Confirm`, `Timeout`, `Finish`) keeps the contract written at
the head of `plan.ts`. `Timeout` covers a lost transaction and a lost
confirmation; with `LateCopies` a transaction given up on may land at any later
time, which `intruded` records. `Earn` may happen between any two steps.

Run `rebalance`: five bins, an inline block of two and growth of one bin per
transaction give plans of up to four resizes, two exit chunks, accounts with
storage to spare, and steps with and without a witness; every pair of bands is
tried. One lost confirmation meets every step and leaves one late copy.
`MaxPending` bounds the fees pending at the start, `RangeWidths` the ranges
withdrawn from.

### DepositRun

`PlanDeposit` is `planDeposit` in the code's order: `SplitRange` over the range,
`Allocate` of each token among the positions, `PositionFor` of what the owner
holds, `Distribute` of each slice into basis points, `Chunks` of the tables with
their `Trim`, and per step its id, its witness and `ActiveBinBounds`. A step
executes as the program's flooring of its table (`Preview`). The runner checks
`StepIsLegal` before it sends, looks up the witness of an opening step, and
stops on the lost confirmation of any other. The pool trades at any time; a
late copy may land; `Replan` plans the deposit again from the chain as it is.
`NothingTwice`, `PlacesThePlan` and `OnlyDustStays` are about a plan that was
not replaced: replanning part way is a new deposit of the whole amount, which
the code leaves to the caller to size.

Weights are integers (`DepositShape`) instead of doubles, and `One` = 12 stands
for 10,000 basis points, `Scale` = 1000 for 1e9: what is left of the numbers is
that they do not divide evenly. The runs use five of seven bins, tables of two
entries for an opening step and three for a fill, so that a position takes up
to two steps, every shape, one-sided and two-sided amounts, blending, one
position or three, packed or aligned to arrays, and an owner who holds nothing,
the range and a wider band, or a part of it.

Runs: `deposit`, and `deposit_packet`, a violation (below).

### WideInt

`Half` is the weight of half a word: 2^64 in the code, 4 in the run, where every
operand of every function is tried. `MulDiv` and its relatives are one action
each up to the division; `BringDown` is one turn of the loop, with the doubling
in a word and the bit that falls out of it.

### FixedPoint, Ladder, LadderBand, BinGrid

Fixed point with ten fractional bits instead of 64 and a table of ten roots,
which `IsRootTable` requires to be the integer square roots the code says they
are. A result that may be an error is a set: `{}` is the error. `Accept` and
`Reject` are `Config::validate` on an asked-for config, `Climb` derives the band
bin by bin, as a price that climbs through it would. For the configs in `Grids`,
`MakeArray`, `BinMut` and `SetBinArrayOccupied` fill arrays and bitmap in any
order instead, and `IsABook` shows them, as a client reads them, to implement
`PriceBook`; `ReadersAgree` compares the client's reading with the program's.

Run `ladder`: 3584 configs, from a wide uniform ladder to a strong taper, with
bands on both sides of the anchor, some past the bitmap; of those that are
accepted every bin is derived. Three bands, across and below bin zero, get
arrays of six bins and a bitmap of four words of eight bits, up to three arrays
and two touched bins (two are what an order needs).

### JupiterAmm

On chain: the active bin's array (`home`), the bitmap (`occupied`) and a version
per array. `pool`, `hasConfig`, `arrays` are `TaperAmm`'s fields. An update asks
for what `get_accounts_to_update` names *from the pool it last saw*, and applies
what arrived in `update`'s order: the pool, the config, then the rebuilt map. With
`ParseMayFail`, `UpdateFailsOnPool`, `UpdateFailsOnConfig` and `UpdateFailsOnArray`
are its three early returns, with everything already assigned or moved out of the
old map at that point. A trade may walk as many arrays as `MAX_BINS_PER_SWAP` bins
can touch (200 bins over arrays of 70: four), and may leave the active bin inside a
missing array. `Walked` is what a quote's walk can reach in the cache, `Named` what the
transaction lists. The router is external: it delivers, in one consistent
snapshot, what was asked for and changed since it last delivered it ("Jupiter
only sends what changed"), and treats an array it was not asked for last time as
new. If it did not, an array that left reach and came back unchanged would stay
missing from the cache, since `update` has dropped it. `failed` records that an
update has failed: after one, a kept array may be older than what the router
thinks it delivered, so `FreshAfterUpdate` and `CatchesUp` speak of histories
without a failure, and `ReachRestored` of all.

Runs: `jupiter_cache`, and `jupiter_stale`, a violation (below). Five arrays with
`REACH = 2` let the active bin leave the cached range entirely; two transactions
between updates are enough to move it and to change an array behind it.

## Fairness

* `RebalanceRun`: weak fairness of `Progress` (a runner that is running keeps
  going, and a transaction that is neither lost nor timed out lands) and of
  `Replan` (a caller who was stopped plans again, which is what `plan.ts` tells
  him to do). Nothing is assumed about timeouts, except that there are at most
  `MaxTimeouts` of them.
* `DepositRun`: weak fairness of `Progress` only. A deposit may wait for ever for
  a pool that stays away from where it was planned; `EndsWhereItWasPlanned`
  claims an end only for one that comes to rest there.
* `JupiterAmm`: the router keeps updating; the pool changes at most `MaxChanges`
  times.
* `MintTlv`: the loop runs.

The other components are reactive, with no scheduler in the code, and only
safety is claimed of them.

## What is proved

All theorems are checked by `tlapm` for every value of the constants under the
named assumptions of the modules: `ScaleAssumption` (`BinMath`),
`LedgerAssumption` (`BinLedger`), `FeeAssumption` (`FeeSchedule`),
`LadderAssumption` (`LadderWalk`: a band of bins, each with a positive price),
`WalkAssumption` (`SwapWalk`), `BasisPointsAssumption` (`TransferFee`),
`HopAssumption` (`QuoteHop`), `SlotsAssumption` (`PositionSlots`),
`RunAssumption` (`RebalanceRun`), `DepositAssumption` and `SplitAssumption`
(`DepositRun`: there are fewer bins than the scale a split is counted in,
71,680 ids against 1e9 in the code), `ShapeAssumption` (`DepositShape`), `AmmAssumption` (`JupiterAmm`), `LayoutAssumption` (`MintTlv`),
`WidthAssumption` and `HalfIsPower` (`WideInt`), `LadderAssumption` (`Ladder`),
`AskedAssumption` (`LadderBand`) and `GridAssumption` (`BinGrid`: a whole number of
words). Type invariants are proved
where a proof needs them, and not model-checked again.

**The position account** (`PositionSlotsProofs`): `TypeCorrect`,
`WidthWithinCapacity`, `SlotsImplementBand`. The invariant adds to `TypeOK` that
the band under way fits the storage and that the copy counter never passes the
number of kept records, without which a `MoveSlot` could write outside the
account. The refinement needs one thing more, `CheckpointsNeverAhead`: no
record's checkpoint is ahead of its bin's growth, or banking a fee would not
show as a stutter. One lemma per action says what it does to `RecordOf`, one per
action what that is in `PositionBand`.

**A bin** (`BinLedgerProofs`): `AmountsNatural`, `Solvency`, `SupplyBacked`,
`ShareValue`, `FeesAreKept`. `VaultSolvent` is not inductive: it sums fees
rounded per holder, and a deposit or a withdrawal changes where the rounding
falls. The invariant keeps the *unrounded* sum (`GrowthScale` × what is banked,
plus share × growth not yet synced) within `GrowthScale` × what the vault holds
beyond the inventory and the protocol's cut; the rounded claim follows.
`FeesAreKept` uses the same invariant: banking a fee and then looking at it
shows what looking at it before showed, so only a claim lowers it.

**The swap arithmetic and the walk as a function** (`LadderWalkProofs`, which
the next two extend). `SwapIsFair`: the net input entering a bin is worth at
least what leaves it at the bin's price, and the fee is what is left of the
gross. `ShorterWalkFills`: a walk given just what another one used is replayed
turn by turn with the smaller budget, and ends with the same inventory, output
and fee and nothing left. `WalkIsAccounted`: per turn, and so in all, what a walk
takes and gives is how the pool's inventory changes, the fee on the side the
collection mode puts it. `WaitingBuysNoLess`: a walk whose volatility starts no
higher pays no higher fee at any bin, so it leads the dearer one turn by turn, at
the same bin with more input left or at a later bin, and buys no less.

**Swaps** (`SwapWalkProofs`), for every ladder, fee schedule and history:

* `WalkTyped`, `SidesAreKept`. Need that budgets stay below `U64Max`, the bound
  under which "input left over" does imply "bin drained" in spite of the
  saturation in `max_net_in`.
* `BurstIsFlat` (`SameFeeWithinBurst`): within a burst the references of every
  copy are those of its first swap, and the rate of a bin is a function of the
  references and the bin.
* `WalkEndsAsWalked` (`EndsAsWalked`): the invariant `WalkInv` says that after
  every turn the walk bin by bin stands where the function stands after as many
  turns (`InStep`).
* `AdviceIsGood` (`AdviceFills`), from `ShorterWalkFills`; the part of `WalkInv`
  about advice is there because the pool stays as it is while an advice is held.
* `LunchIsNotFree` (`NoFreeLunch`): a fill never lowers what a bin is worth at its
  own price (`SwapIsFair`), so since the opening every bin that lost of one token
  gained of the other. Totals could still fall in both tokens, one bin losing X
  and another Y. They do not, because X only ever sits at or above the active bin
  and Y at or below it (`SidesAreKept`): wherever the active bin has moved, one of
  the two tokens grew in every bin or stayed (`OneSideGrows`), and if its total is
  no more than at the opening it stayed in every bin, and so the other cannot have
  shrunk.

**A quote and the swap built from it** (`QuoteHopProofs`):

* `ToSendDelivers`: the inverse of the capped, rounded transfer fee delivers the
  amount asked for, and no smaller amount does, in each of its branches.
  `QuotedInputDelivers`: on a partial fill it never overflows and never exceeds
  the offer, so the cap in `quote_exact_in` never binds (the comment at
  `rq/quote.rs:226`, that it "can name one lamport more", describes a case that
  does not arise). `QuoteAsksTheLeast` (`LeastSent`) states both of every quote
  held.
* `QuoteIsHonoured` (`QuoteHonoured`). The invariant `Honest` says that the quote
  held is what the adapter would answer now, for as long as nothing but time has
  passed since; the arrays the transaction names are all the ones the walk can tell apart
  (`WalkTellsNotApart`), and for a strict swap `ShorterWalkFills` fills what was used.
* `FeeIsAccounted` (`FeeAccounted`), from `WalkIsAccounted`.
* `WaitingIsFree` (`SettledWaitIsFree`), from `WaitingBuysNoLess`: once the filter
  period has passed for the quote too, a later swap only finds the volatility
  decayed further.

**Moves and exits** (`RebalanceRunProofs`), through any loss, repetition, new plan
and late transaction: `PlansAreAccepted` (`NeverRefused`), `FinishMeansReached`
(`FinishedAtGoal`), `OverlapIsKept` (`KeepsTheOverlap`). None of them is inductive.
The invariant `RunInv` relates the account to *what is left of the plan*:

* `Housed`: the band fits the storage, shares and fees are inside the band, and a
  closed account holds none;
* `Meant`: every step of the plan, and every transaction given up on that may still
  land, was planned for this task, so a late copy withdraws nothing the task keeps;
* `Withdrawing`: whatever is left of what a withdrawal is to burn is burnt by a
  chunk still to do, a pending fee waits for the first, and only the last closes;
* `Attended`: an account found closed was closed by the last step, or by an earlier
  sending of it;
* `Moving`: what a move leaves behind is burnt by an exit still to do, the exits come
  first, each resize leads on from the one before it, the first of those left from
  where the account is (unless it is there already), and the last one to the goal.

`intruded`, set when a transaction given up on lands, excuses the last two. That
`resizeSteps` has a list at all is a lemma: it is a recursive function over a gap
between the bands that each turn makes smaller (`StepFitsAndKeeps`,
`StepMakesProgress`), so well-founded induction on the gap defines it. That the
chunks cover the bins withdrawn (`ChunksCover`) is the division of a range by the
chunk width.

**A deposit** (`DepositRunProofs`): `LegalStepsAreAccepted` (`LegalIsAccepted`),
`NothingIsDepositedTwice` (`NothingTwice`), `DoneHasPlacedThePlan` (`PlacesThePlan`),
`OnlyDustIsLeft` (`OnlyDustStays`). The proof of the first three has two halves.

*What `planDeposit` returns* (`PlanIsGood`), whatever the weights come to. The specs
of `SplitRange` are disjoint and lie in the range; a position's band holds its spec;
the steps of one position have disjoint tables, lie in its spec and have ids of
their own; only the first of a new position opens it; and the tables of a
position's steps place, bin by bin, what one call with the whole of its table would
(`GoodRows`), although trimming leaves bins out and pieces that place nothing are
dropped. A step's bounds are tight enough that a pool within them leaves each token
on its side. Both lists are recursive functions over the bins (a range, a cursor),
and the induction is over what is left of them, stated of sets of naturals.

*What the runner keeps of it.* `RunnerInv` says that the plan held is such a plan,
made from positions that are still there; that whatever is remembered or may still
land is a step of it, or of an earlier plan and so for an earlier plan's account;
that a remembered opening has opened; and that an account at an address of this
plan was opened by one of its steps. Of a first plan `FirstInv` says besides that a
bin holds nothing until the step that covers it has run, and then exactly its row.
An opening step runs once, because its account can be opened only once; a fill
once, because a lost confirmation stops the run at it. So what may still land is
an opening, refused if the account is there, or the fill the run stopped at.

*That only dust stays* (`OnlyDustIsLeft`) is about the numbers. A finished run has
placed what one call per position would, so it is enough that planning leaves only
dust. Basis points given to a table sum to `One` exactly: flooring leaves over fewer
than there are bins with a weight, and one goes to each of those with the largest
remainders (`ToBpsIsWhole`, from `LeadersCount`, which counts the leaders of an order
with no ties). Shares given to the positions sum to the whole amount, because with no
more positions than the scale has units some position is sure of a unit, so the
heaviest, which takes the remainder, is one with a bin on that side
(`AllocateIsWhole`; `SplitAssumption` is used here). Then each position floors its
own share over bins that have all of `One` between them, and loses less than a unit
for each (`PartDust`); the parts cover the range without overlapping, so the losses
add up (`SpreadDust`). Every shape leaves some weight on a side that is to take
anything (`SideHasWeight`). The invariant `MadePlan`, that the plan held is one
`planDeposit` returned for the request, brings this to the runner.

**The adapter's cache** (`JupiterAmm`, in `QuoteHopProofs`): `ReachIsRestored`, from the invariant
that a successful update leaves nothing out of the new pool's reach;
`UpdatesAreFresh`, from the invariant `HeldAsSent` that, until an update fails,
every cached array is in the version the router last delivered and will be asked
for again.

**A mint's extension list** (`MintTlv`, in `QuoteHopProofs`): `ReadsInBounds`,
`FeeIsNotMissed`. The cursor is always at the head of an entry or at the end, and
nothing behind it is a fee configuration (`AtHead`). Where entry *k* starts is a
recursive function; induction gives that entries start one after another, at least
a header apart, so that only one can be at the cursor.

**Wide integers** (`WideIntProofs`): `RemainderStaysBelow`, `LoopDividesExactly`,
`QuotientsAreExact`. The invariant `IInv` adds to `PartlyDivided` that the
remainder is below the divisor, without which the one subtraction of a turn, in
a word, would not be the true one, and that the loop divides what its job was
called for. Powers of two are a recursive function; the facts about them rest on
an induction lemma stated of a set of naturals.

**Where bins are kept** (`BinGrid`, in `WideIntProofs`), for every size of array,
bitmap and word, and every order of making, touching and marking:

* `BitmapReadAlike` (`ReadersAgree`): the index of an array and its word and bit
  determine each other (`PositionOfArray`, `ArrayAtPosition`).
* `CachesTheLadder` (`CacheIsLadder`): an id and its array and slot determine each
  other on both sides of zero (`SlotIsBin`, `BinAndSlot`), so touching a bin fills
  one slot that no other bin has. `GridInv` adds that arrays and words are whole
  and that only bins of an accepted band are touched.
* `GridImplementsBook` (`IsABook`), under the hypothesis `SoundLadder`: every bin of an
  accepted band derives, and from one bin to the next the price does not fall.
  That is what `EveryBinDerives` and `PricesNeverFall` check of the bands asked for.
  `PricesRise` carries it from neighbours to any two bins, which is what a book
  filled in any order needs.

Only model-checked:

* `MoveCompletes`, `CatchesUp`, `EndsWhereItWasPlanned`, `Ends`: liveness, outside
  the prover's reach.
* `EveryBinDerives`, `PricesNeverFall`, `EndsBoundSteps`, `UnitOctave` of `LadderBand`:
  they rest on products of table entries, again over data, and on how their
  roundings happen to fall. `GridImplementsBook` takes the first two as its
  hypothesis.

## Disagreements between the code and its comments

Two are runs that show them:

* `deposit_packet` (`StepFitsPacket`): `planDeposit` cuts a table by the number
  of its entries, but `distributeFromWeights` leaves bins of no weight out and
  `addLiquidityIx` fills the gaps again, so a chunk over a gap is sent longer
  than the packet it was measured for.
* `jupiter_stale` (`WalksWithinNamed`): after an update that failed, old arrays stay
  beside the new pool and a quote may walk three arrays where its transaction
  names two.

The models also show these, which no run records:

* A short quote's `amountIn` is described as the largest input the pool would
  fill (`sdk/quote.ts:176`). If the walk stopped at dust, a larger input can buy
  a whole unit and fill completely. (That the advised size itself fills does
  hold: `AdviceFills`.)
* "A trader never loses dust to a bin that yields nothing" (`core/math/swap.rs:46`):
  with the fee on the output, the no-op test precedes the fee, and a one-unit
  output is rounded up into the fee.
* An input of exactly u64::MAX meets the saturated `max_net_in`
  (`core/math/swap.rs:71`) and drains a bin that is worth more.
* "By the time it lands the volatility reference has decayed" as a reason that
  waiting lowers the fee (`lib.rs:113`): once the filter period passes, the references
  move to the active bin, and a swap back towards the old reference pays more
  than it was quoted and may revert. After that, waiting is free
  (`SettledWaitIsFree`), except for a strict swap, which a lower fee can leave
  with input over.
* `screenMint` (`sdk/mint.ts:71`) reports the newer fee whatever the epoch.
* "Re-sending is a no-op" (`sdk/instructions.ts:212`) holds of a resize only while
  its step is the last that ran: a first copy that lands after a later step
  moves the band back, and nothing looks again. `FinishedAtGoal` excepts it.
* `allocatedX` (`sdk/plan.ts:555`) is summed before the bins are floored and is
  more than the steps place.
* Step ids are called stable across re-plans (`sdk/plan.ts:262`); once the opening
  step has landed, a new plan cuts other chunks under the same ids, and the bins its
  first chunk reaches further are taken for done. `NothingTwice`, `PlacesThePlan`
  and `OnlyDustStays` are about one plan.
* "Testing both ends is a proof for the whole band" (`core/math/ladder.rs:175`):
  it is for the things `EveryBinDerives` and `EndsBoundSteps` state, but near the
  bottom of the number range two adjacent bins in the middle of an accepted band
  can have one price, and with a taper a few units short of one the stored steps
  are half the distances of the prices. `PricesNeverFall` says what does hold.
* A walk may leave the active bin inside a missing array (it emptied the last bin
  before the gap). From there no swap in either direction fills until the array
  is created.

## Not modelled

* `planReshape`: one `rebalance_liquidity` per span withdraws and redeposits in a
  single instruction whose handler is not in the repository.
* The floating-point copies in `sdk/ladder.ts`, and doubles in general: weights
  and rates are integers here.
* Price impact and `minOutFor`: figures for display and a caller's choice.
* The checks of `Config::validate` on the fee fields: bounds on constants.
* `composition_excess` and `composition_fee`: they have no caller.
* Byte layouts, discriminators, address hashing, RPC and wallet helpers, error
  texts: no state and no order of events.

The instances are small in their numbers: ten fractional bits, two-bit half
words, prices of a few units, five bins. The proofs lift `PositionSlots`,
`BinMath`, `BinLedger`, `LadderWalk`, `SwapWalk`, `TransferFee`, `QuoteHop`,
`MintTlv`, `RebalanceRun`, `DepositRun`, `JupiterAmm`, `WideInt` and `BinGrid` from that; the ladder's
rounding is checked at ten bits only.

## Plan

1. Done: position account and its refinement; bin ledger; swap walk; rebalance
   and exit runs; Jupiter cache; quote hop with transfer fees; mint parsing; wide
   integers; ladder, band and grid; deposit run.
2. Left to model: `planReshape`, once the handler it relies on can be read.
3. Proved: the safety properties of the account, the ledger, the walks, the
   quote hop, the moves and exits, the deposit run, the cache, the mint's list, the
   wide integers and the bin arrays with their bitmap.
4. Left to TLC: the liveness properties, and how the roundings of the ladder fall
   (`EveryBinDerives`, `PricesNeverFall`, `EndsBoundSteps`, `UnitOctave`).
