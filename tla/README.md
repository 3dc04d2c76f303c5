# A verification project for jit-proxy

jit-proxy lets a market maker fill the auctioned orders of Drift protocol users
("takers") just in time. It consists of an on-chain program that a maker calls
to fill one order within limits it sets, and of bots ("jitters", in TypeScript,
Python and Rust) that watch takers' accounts and call the program. This
directory holds TLA+ models of both, TLC configurations that check them on
small instances, and TLAPS proofs of the main properties of the program for all
values of its constants. Paths below are relative to the repository's root.

## Inventory

| Component | State | Operations | Hard because |
|---|---|---|---|
| `jit`, `jit_signed_msg` (programs/jit-proxy/src/instructions/jit.rs) | none of its own: Drift's accounts (taker's order, signed-message account, maker's position) | one atomic instruction: look up, price, limit, CPI into Drift, check that it filled | everything the caller looked at is stale; the fill is another program's; sizes and prices at their limits |
| `check_order_constraints` (check_order_constraints.rs) | none: the maker's positions and open orders | one check at the end of a transaction that rests orders | orders fill later, in any order, together with jit fills |
| `arb_perp` (arb_perp.rs) | none: the caller's position and quote balance | two immediate orders, profit check | two dependent orders, either filled in part; an amount cut to the collateral and then raised to a minimum |
| BaseJitter (ts/sdk/src/jitter/baseJitter.ts) | `perpParams`, `spotParams`, `seenOrders`, `onGoingAuctions` | account-update handler, swift-message handler, parameter updates | handlers run between the awaits of tries; two sources for one order |
| JitterShotgun (jitterShotgun.ts) | the locals of each running try | a try: load stats, send, classify the error, retry or sleep and forget | timeouts of transactions that were executed, closing orders, leaked entries |
| JitterSniper (jitterSniper.ts) | as above, plus slot listeners and timers | a try that first waits for the slot at which the order should cross | the wait is not awaited; slots, timers and account updates interleave |
| Python jitters (python/sdk/jit_proxy/jitter/) | `ongoing_auctions`, parameter maps | a handler task per update, shotgun and sniper tries | updates queue up and are handled late; nothing remembers an order whose try is over; uncaught exceptions |
| Rust jitter (rust/src/jitter.rs) | `ongoing_auctions`, parameter maps (DashMap) | handlers as tokio tasks, shotgun tries | check and insert are separated by awaits; real threads |
| Clients (jitProxyClient.ts, jit_proxy_client.py) | none | assemble instructions | - |

How they interact: a subscriber delivers a taker's account or a signed message
to a jitter; the jitter decides which orders to try and runs one asynchronous
try for each; a try sends `jit` or `jit_signed_msg` through a client; the
program reads Drift's accounts, places the maker's order by CPI and checks the
outcome; its error codes travel back as text and decide whether the try goes
on. The shared state is Drift's accounts on chain and, inside a bot, the two
registries.

What makes each part correct:

- **program**: an order never passes the limits of its call whatever moved the
  position before; the limits and the prices add up over many calls with
  changing parameters; no order below the minimum; the price beats the AMM
  without passing the worst price; Ok means progress.
- **arb_perp**: the position between its orders stays within what the account
  bears, whatever fills; an arbitrage that is there is taken.
- **constraints**: the check at placing time bounds all later fills.
- **registries**: one try at a time per order, no entry without a try, no order
  starved by another, no duplicate through the second source.
- **tries**: end, do not go on after the order is gone, do not fill twice.

## Modules

| Module | Models |
|---|---|
| `JitOrder` | the pure part of jit.rs: `get_worst_price`, `process_order`, `check_position_limits` as operators on a market snapshot |
| `JitProxy` | the two instructions as atomic steps among takers, other makers, price changes and the maker's other trades |
| `MakerMandate` | what the program promises a maker, abstractly: purchases and sales within position limits and worst prices |
| `ArbPerp` | the whole program: the account of `JitProxy` also sends `arb_perp` |
| `MakerAccount` | one maker account with resting orders under `check_order_constraints` and jit fills |
| `BaseJitter` | the TypeScript registries and the two handlers, with the environment that feeds them |
| `JitterShotgun` | BaseJitter plus the tries of the shotgun |
| `ShotgunOnChain` | a shotgun jitter and `JitProxy` together |
| `JitterSniper` | BaseJitter plus the tries of the sniper |
| `PyJitter` | the Python jitters: handler tasks, the registry, the tries of both classes |
| `RustJitter` | the Rust jitter: both handlers, the registry and the tries |
| `MC*` | constants for TLC |
| `JitOrderProofs`, `ProgramProofs`, `MakerAccountProofs` | theorems about the program: the pure part, `JitProxy` with `MakerMandate` and `ArbPerp`, `MakerAccount` |
| `JitterShotgunProofs`, `JitterSniperProofs`, `PyJitterProofs`, `RustJitterProofs` | theorems about the jitters |
| `ShotgunOnChainProofs` | theorems about a jitter and the program together |

`JitProxy` and `MakerAccount` extend `JitOrder`, `ArbPerp` and `ShotgunOnChain`
extend `JitProxy`, `JitterShotgun` and `JitterSniper` extend `BaseJitter`. There
are two refinements: `JitProxy` has an instance of `MakerMandate` (the variables
have the same names), and `ShotgunOnChain` one of `JitterShotgun`, whose `book`
is the state of the program's orders as the jitter sees them. Operators called
"slip" in the comments are mutated forms of the definition that follows them;
each makes one run fail and shows that the property there depends on the code it
mutates.

### JitOrder and JitProxy

A Solana transaction is atomic and serialised with the others that touch the
same accounts, so an instruction is one action. `orders` are the taker's orders
by id with the open (unfilled) amount, `signed` the uuid-to-id map of its
signed-message account, `position` the maker's position; `bought`, `sold` and
`cash` are a ledger of the maker's fills, and `receipt` records what the last
instruction computed and returned, for the properties. Prices enter with each
instruction as a snapshot (`Quotes`), because the instruction reads them once;
the maker's parameters likewise (`Params`), because each call carries its own.

`Verdict` has the early returns in the code's order, `MakerOrder` the
OrderParams that go to Drift, and `PlaceAndMake` what Drift may do with them:
the maker's immediate-or-cancel order fills any part of its size (Drift may also
refuse it), the AMM may take some of the rest, and the taker's order may leave
the list with something open. That is all jit.rs relies on; nothing else of
Drift is modelled. `LooksUnfilled` is the check after the CPI, with the taker's
amount raised to the minimum order size as in the code. i64 overflow of
`safe_add` and `safe_sub` is an error (`MathError`). Loading an account can fail
before or after any look-up (`LoadError`), and Drift's errors come before the
verdict (the oracle is read as soon as the order is found) or after it.

Left out: the auction's price as a function of the slot (the snapshot holds the
resulting limit price), `slots_left` (only logged, but its overflow checks could
fail), casts of the spot token amount, margin and post-only rules of Drift (all
of them `DriftError`).

### ArbPerp

`arb_perp` is one more action of the same account, so jit fills and its orders
work on one position. `Books` are the best bid and the best ask found among the
makers passed to it, `Oracles` the oracle price, `Balances` the account's quote
tokens, all read once by the instruction. `ArbVerdict` has the early returns in
the code's order, `ArbSize` the amount: the smaller side of the book, cut to
what the collateral bears (`MaxBase`) and then raised to the minimum order size.
`get_token_amount` drops the sign of a balance, and so does `MaxBase`.

`Legs` are the two orders with their sides and prices, in the order they are
sent (arb_perp.rs:118-128). `PlaceAndTake` is what follows the two CPIs. Each
immediate-or-cancel order fills any part of its size and moves the position to
the side it was sent on (`After`). The instruction keeps the trades if the
position is where it was and the quote amount is higher, and reverts otherwise.
The quote amount moves by what the two fills bring (`Brings`: the order's own
price, the highest fee) plus `extra`: better prices and lower fees add to it,
and a position that was open before can add its funding or lose it, because
Drift settles funding in the same CPIs. `arb` records what the last arb_perp
did, for the properties. Its field `between` is the position after the first
order, from the side that order had, and not the `intermediate_base` that the
code computes for the margin ratio. `ProgramSpec` is the program with both kinds
of instructions.

### MakerAccount

`position`, `bids` (open_bids, >= 0) and `asks` (open_asks, <= 0) per market.
`Quote` is a transaction that rests orders and ends with the constraint check;
`Cancel`, `BidFills` and `AskFills` are Drift's; `JitFill` is a jit instruction
as far as the position goes (`LimitCheck` and `OrderSize` of `JitOrder`). A
failing check undoes its transaction, so only passing ones are steps.

### BaseJitter and JitterShotgun

`book` is the taker's account on chain, `update` the account data on its way to
the handler (a later one replaces it). JavaScript runs to completion between
awaits; `OnAccountUpdate` is one step. `Reached` are the orders its loop gets to
before a `return`, `Noted` those put in `seenOrders`, `Started` those a try
begins for. A swift message is handled in one step after its awaits; one below
the minimum order size is noted and not tried (`SwiftStarts`). A try is a
record in `tasks` with the await it is in; a signature has two slots so that a
second try of the same order could be seen. The steps of a try are those between
awaits: `StatsLoaded`/`StatsFailed`, the transaction (`Refused`, `Lands`),
`Resumes` with the error classification and the loop head, `Wakes` after the
sleep. An error of Drift's own may carry the code of any error the jitter knows
(both start at 0x1770), so a refused call may be answered with any of them,
except that an order that is gone is found to be so before Drift is called
(`Refusals`). `late` and `landed` count calls for closed orders and executed
transactions; `passedOver` counts how often an order was not reached. They are
observations and decide nothing.

### ShotgunOnChain

The composition of the two halves. `Executes` runs the instruction of `JitProxy`
for the parameters of a call on the accounts as they are at that moment, and
`AnswersTo` translates its result the way the jitter reads it. A call may time
out; its transaction is then lost or joins `late` and may be executed any time
later (`LateLands`) or expire. Late transactions have ids, so that two of the
same signature and parameters are two; `Unconfirmed` bounds their number. A swift order that is not on chain is placed by
the transaction that fills it, or not at all when the fill is refused
(`RefusedUnplaced`). The maker changes its parameters at any time.
`outstanding` and `outdated` are a history: transactions under way at the last
change, and fills with other parameters than the jitter's since then.
`ImplementsShotgun` says that every behaviour is one of `JitterShotgun`, so its
free answers and free outcomes are no tighter than the program's.

### PyJitter

`changed` says that the account has changed since it was last reported;
`updates` are the reported accounts whose handler tasks have not run yet
(asyncio runs them in order, and later than the report). `over` are the orders
whose auction's last slot has come (`LastSlot`): a wait expires in that slot,
while the order has an auction price until the next one (`AuctionEnds`).
`strategy` is the class that runs. The
handler has no await, so `OnAccountUpdate` is one step. It returns, like the
TypeScript one, at a filtered order, one without parameters and one below the
minimum, but there is no `seenOrders`: such an order hides those after it for as
long as it is in its auction. A try whose code raises (no stats, an auction of
one slot divided by its duration less one, a market without a position for the
sniper) is `died`, and its entry stays. The sniper's wait ends at the auction's
end only: its slot listener's value goes nowhere. Lines after that wait that are
reached by no behaviour are not in the model. `wasted` counts calls made for
orders that are gone.

### RustJitter

Every account event spawns a task, so several handlers of one account run at
the same time; each is in `handlers` with the account data it was given
(`view`), the order it is at and how far it has come. Swift messages are
taken one after the other (`stream`). The look at `ongoing_auctions` (`Looks`)
and the look-up of the parameters (`TakesParams`) are steps of their own, as
other threads run in between. `StatsArrive` is what follows the await: spawn the
try, insert the entry, go to the next order. `ongoing` only grows, as in the code. While a handler awaits it holds a
DashMap guard, so `UpdateParams` of that market is disabled; that an update
blocks a worker thread meanwhile is not modelled. `started` and `landed` count
tries and executed transactions; they stop one above the bounds of the
properties. Perp and spot parameters are two maps in the code and two keys of
`Markets` here. `MakerInit` is main.rs, which gives each market parameters with
both limits 0 before it subscribes: with those a try ends before its first
call, until they are updated.

### JitterSniper

`BaseJitter` plus the sniper's tries, each a record in `tasks` with the signature
it is for. The number of tries is not bounded by the registries here, since the
entry is deleted as soon as the wait begins; the model lets a handler start one
only while a member of `Tries` is free. `look` is what `getAuctionAndOrderDetails`
last found, chosen freely at every call (prices move), `target` the slot waited
for, `listening` and `timer` the once-listener and the interval.
`AtLimit` is the test of jitterSniper.ts:104-129 on the maker's position, which a
try finds at its short limit, at its long limit or within (`Holdings`).
`StatsLoaded` is the code from the stats to the end of the function; a wait ends
in `NewSlot` (listener), `TickEnds` (interval) or at once. What follows a
resolved promise without an await is part of the same step. The registry entry
of a spot order without perp parameters is made after it was deleted (`Dropped`).
`Rounds` is 2 in the runs and 10 in the code.

## Runs

| Run | Instance | Shows |
|---|---|---|
| JitPerp | 2 orders of up to 4 (minimum 2), 1 uuid, 3 parameter sets, 3 snapshots, 4-bit integers | all safety properties of jit and the refinement of `MakerMandate` |
| JitEdges | jit and arb_perp in one account: limits and positions from -8 to 7, moved by other trades, orders of up to 4 (minimum 2), 7 books, 2 oracle prices, 3 balances | limits through overflow and when inverted; amount, collateral and profit check of arb_perp |
| Account | 2 markets, orders of 1, 2 and 5, limits 4/-2 and 2/-1 | how far resting orders and jit fills together can go |
| ShotgunOrders | a perp and a spot order of the same market index, auctions of two slots | registries and tries under repeated updates |
| ShotgunOnChain | one swift order that the account shows too, 2 parameter sets of which one crosses, 1 late transaction, fairness | the refinement of `JitterShotgun`; no double try through the second source; old parameters run out; every try ends |
| Sniper | one order in the account and as a swift message, two tries at once, slots 0 to 2, a maker within or at its long limit | waits and registries with overlapping tries |
| SniperLive | one spot order, slots 0 to 3, fairness | every try and its interval end; spot parameters |
| RustRace | one order, also as a swift message, two handlers at the same time, auctions of two slots | how often an order can be tried and filled, and with which parameters |
| PyJitter | a perp order with an auction of one slot and a spot order behind it, both classes, one update waiting, fairness | registry, order of the loop, late updates; orders come up and tries end |

The bounds: the minimum order size is 2, so that an order with 1 left (dust)
exists; orders of 4 exceed the room of every limit at some reachable position,
so both sides of `min(room, unfilled)` occur; limits of one parameter set lie
inside those of another, so a maker is outside its limits after a change; the
snapshots put the taker's price below, above and between the AMM's and the
maker's. The books of arb_perp cross by more and by less than the fees, touch,
do not cross or lack a side, with sizes below the minimum and beyond an i64; the
balances give amounts below the minimum, between, and beyond a u64; one is
negative. Two orders are the fewest with one before the other in the account,
two slots of an auction the fewest with a retry, and two slots for tries of one
signature the fewest in which a second try could be seen. In `ShotgunOnChain`
one late transaction and one call can be under way at a change of the
parameters, so that `OldParamsRunOut` bounds two fills; for any number of late
transactions, equal ones among them, it is proved. In `JitEdges` the room left
to a limit is at times 3, less than an order of 4, so both sides of the minimum
occur there too. Spot takers are in no
run of the program (their order types and missing AMM are covered by the proofs,
which hold for both kinds of market).

Three runs are expected to fail. Each shows something the repository says and the
code does not do:

- `ShotgunSpot`: spot orders are sent with the perp parameters of the same
  index. The sniper reads the right map after its wait (`TypeOK` of
  `JitterSniper`), and so does the Python shotgun (`TypeOK` of `PyJitter`).
- `SniperUncrossed`: an order that never crosses is sent after its auction; the
  tests at jitterSniper.ts:526 and 529 are disjunctions with the direction.
- `PySniper`: the Python sniper's wait returns nothing but "expired", so an order
  that it found to cross is not sent (jitter_sniper.py:330).

Met while modelling, in the models but the question of no run:

- for an order with less than the minimum size left, `jit` returns Ok when it
  filled nothing (jit.rs:94 compares with an amount raised at jit.rs:353); what
  does hold is `OkMeansProgress`, for orders of at least the minimum size;
- an order at which the account handler returns hides the eligible orders after
  it until another update arrives, and in Python for as long as it is in its
  auction; what does hold is `OverlookedOncePerOrder`, and `OrdersComeUp` for
  orders in sight;
- the shotgun tries once per slot of the auction and the sniper ten times, where
  the Readmes say "up to 10 times" and "up to 3 times";
- the Rust `main.rs` sets both limits to 0, with which a try ends before its
  first attempt;
- an oracle offset larger than the oracle price becomes a positive price through
  `unsigned_abs` (jit.rs:477 and 480);
- "don't increase risk if we're past max positions" (jitterSniper.ts:99 and 286)
  is tested with the direction of the taker's order, while the maker trades the
  other way: at its short limit a maker gives up on sellers, against whom it
  would buy back, and goes on against buyers, which the program refuses;
- the sniper can run several tries of one order at once, and each may fill;
  `OneFillPerTry` is per try, and what bounds them together is the program;
- some ways out leave an entry behind, so that its order is not tried again: a
  stats account that cannot be loaded (jitterShotgun.ts:55; the same in Python),
  a spot order without perp parameters in the sniper (jitterSniper.ts:79), an
  auction of one slot in Python. `EntriesAreTries` counts such a try as one, and
  `EntriesAwaitStats` leaves spot orders out: they say that nothing else does;
- funding owed on an older position can turn an arbitrage down (arb_perp.rs:140);
  `CrossedBookPays` speaks of no funding owed;
- the error `UnprofitableArb` is returned nowhere.

Fairness is assumed in `ShotgunOnChain`, `SniperLive` and `PyJitter`: each step of
a try that can happen eventually does, because a request is answered or times
out, a timer fires and the event loop runs what is ready. In `PyJitter` also
that a changed account is reported and that a task that was created runs, as
asyncio runs its ready tasks in turn. For the two snipers also that slots pass
(and that the interval fires), as they do on chain; the Python shotgun's orders
may stay in their auctions. Nothing is assumed about takers, parameter
updates, or the TypeScript subscriber.

Deadlock is not checked in `Sniper` and `SniperLive`: when the order is closed,
the last slot has come and all tries are over, the system may stop.

## Proofs

Every safety property that a passing run checks, and both refinements, are also
theorems. They hold for every value of the constants that satisfies the named
assumptions of the modules: integer width, minimum order size, parameter sets
and quotes of the right types, the mandate being at least as wide as every
parameter set, books and balances of the right types, a margin ratio that does
not fall as the position grows; for the jitters any number of orders, markets,
auction lengths, swift orders and (Rust) handlers, with perp and spot parameter
sets told apart. `Slots = 1..2` and `Backlog` are bounds of the models. The
first is no restriction where a theorem says that the second slot stays free;
the second enters the bound that is proved.

- `JitOrderProofs`: lemmas on the pure part. When the verdict is Ok, the size is
  at least the minimum and fits the room left (`SizeFits`), and the price lies
  between the taker's and the worst price (`PriceFits`).
- `ProgramProofs`, on the jit instructions: `Steps` reduces every step to a quiet
  one or a fill; `TypeOK` is inductive as it stands. `NoDustOrder`,
  `PricedToFill` and `OkMeansProgress` speak of the last receipt, so each follows
  from what a fill establishes. `NeverPastLimit` follows from `SizeFits` at the
  unprimed position. `WithinMandate` is inductive with `TypeOK`. The bound on the
  ledger is proved of `MakerMandate`, where it is inductive together with
  `bought = position + sold`. `ImplementsMandate` maps every fill with something
  made to `Buy` or `Sell` and everything else to a stutter, for a maker without
  other trades; `LedgerIsFair` and `NeverLosesWhenFlat` carry the bound over.
- `ProgramProofs`, on arb_perp: `ProgramRunsJit` shows that a behaviour with
  arb_perp is one of `JitProxy`, so everything proved there holds of the whole
  program. `ArbSteps` singles out the steps that placed orders; `Placed` is what
  such a step establishes of its record, and `AllPlaced` carries it along.
  `LeansBack` needs `FirstLeg`: the order sent first sells for an account that is
  long or flat and buys for one that is short, so what fills of it moves the
  position as `intermediate_base` has it; with the orders swapped it is false.
  `CrossedBookPays` follows from `GainOfPair`, what equal fills of the two orders
  bring. `CollateralBears` follows from `Bears`, which undoes the two rounding
  divisions of `calculate_max_base_asset_amount`, and from `Outwards`: the
  position between the orders is not further out than the one whose margin ratio
  was used.
- `MakerAccountProofs`: neither `RestingIsSafe` nor `ExcessIsBounded` is
  inductive. `Bounded` is the strengthening: per market, position with all bids
  (asks) is within the limit widened by the width where jit is used, and the
  position itself is within the limits plus what old orders can still add. The
  theorems follow from `IInv`, which adds `TypeOK`.
- `JitterShotgunProofs`: `StepOfTry` lists what one step can make of a try, and
  the invariants use nothing else of the steps. `Entries` (an entry is exactly
  one slot in use, and is noted in `seenOrders`) is needed for
  `OneTryPerSignature`, because a handler only looks at the entry and not at the
  tries. `History` relates what a try has landed and how often it called for a
  closed order to where it is: before its next call both are 0, since only
  answers without effect are retried. `OneFillPerTry` and `OneCallAfterClose`
  follow. `SwiftOnlyBySwift` (with the swift orders left to the swift subscriber,
  the account handler never enters one) gives `OneTryPerOrder`.
  `OverlookedOncePerOrder` needs `OverlookedByReturns`: how often order o was
  overlooked is at most the number of the orders before it that were noted
  and so made the handler return once.
- `JitterSniperProofs`: `Good` says of one try what its wait and its loop keep
  (parameters of the right map, listener and interval set exactly while they
  should be, nothing landed while it may still send, the target slot reached
  when it sends). It is stated at a time, because slots pass and parameters
  change under a waiting try. `NeverEarly`, `WaitIsWatched` and
  `OneFillPerTry` are parts of it. `EntriesAwaitStats` is inductive with it.
- `PyJitterProofs`: `Core` adds to the types that entries and tries correspond,
  and that an order with an entry has parameters (they are replaced, never
  removed). `FewWastedCalls` needs `Wasting`: a closed order can be tried again
  as long as an update still in the queue shows it in its auction, so the calls
  made, the position of the last such update, and a call that a running try may
  still make together never exceed the length of the queue plus one.
- `RustJitterProofs`: `StartCounts` adds the tries started for an order to the
  handlers that found no entry for it and still await the stats; each of them
  starts one more, and no handler joins them once there is an entry, so the sum
  is at most the number of handlers. `FillCounts` adds executed transactions to
  the tries that may still send. `CheckedParams` says that the parameters a
  handler has checked are still those of the map when it starts the try, because
  it holds a guard of the map across the await. `RustTypeCorrect` takes from it
  that no try runs without parameters (`Supplied`).
- `ShotgunOnChainProofs`: `Accounts` says that an order is known under its own
  uuid only and rests only when it was placed. With it, whatever an instruction,
  another maker or an auction's end does to the taker's orders is a move of one
  order as `JitterShotgun` has it (`Touches`), and every result of the program,
  the error codes of Drift included, is answered by something that
  `JitterShotgun` expects of such an order (`Effect`, `ErrorsRefuse`).
  `SystemImplementsShotgun` is the refinement. `SystemTriesOncePerOrder` takes
  the theorem about `JitterShotgun` over by it; the facts are taken from an
  instance of `JitterShotgunProofs`. `OldParamsRunOut` needs `RunningOut`: fills
  with old parameters so far, calls under way with old parameters and late
  transactions with old parameters are together no more than the transactions
  that were under way at the last change. A call that times out moves from the
  second to the third, one that is executed moves to the first.

Only model-checked: liveness (`TriesEnd` of three modules and `OrdersComeUp`),
which the prover does not reach, and the violations behind the findings. The
refinement of `MakerMandate` is proved only for makers without other trades,
where it is true; `NeverPastLimit` is proved with them. `WithinMandate` is only
proved: in the runs `KeepsMandate` implies it.

## Not modelled

Clients and examples (no state), deploy scripts and generated types; Drift
itself beyond the interface above; several takers at once in the jitters (a
handler looks at one account, and signatures contain the taker's key, so
accounts do not interact); the number of worker threads of the Rust runtime,
which an update of parameters blocks while a handler holds a guard of the map;
the lines of the Python sniper after its wait, which nothing reaches; the
confidence intervals and prices the snipers compute (a look finds that the order
crosses, will cross or does not, in any order).

## Plan

Every safety property of the runs is proved. Left:

1. The program as the environment of the other jitters: a composition like
   `ShotgunOnChain` for `JitterSniper`, whose late transactions meet a second try
   of the same order, and for `RustJitter`.
2. Several tries at once by the sniper: how many calls can be under way for one
   order, as `StartsPerSignature` says for Rust.
3. How often one try fills behind the program: `landed` of `JitterShotgun` does
   not count a transaction that lands late, so `OneFillPerTry` is not restated in
   `ShotgunOnChain`. A history of late fills per try would say it.
