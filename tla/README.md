# A TLA+ model of Mango Markets v3

This directory holds a formal model of the Solana program in `program/src`: TLA+
modules, TLC configurations and TLAPS proofs. `PROJECT.json` lists the
components, the runs, the source lines every definition stands for, the hazards
the properties are aimed at, and the theorems.

To check a run: `tlc -config PerpTrade.cfg MCPerpMarket`. To check a proof:
`tlapm StructureProofs.tla`.

## 1. The system

Mango v3 is a cross-margined exchange. All of its state is in Solana accounts;
an instruction is a handler of `processor.rs` that loads the accounts it is
given, checks them and changes them. An instruction is atomic: a failed
`check!`, an `unwrap` of an error or a panic discards everything it did. So the
concurrency of this program is not between threads but between instructions of
different parties (traders, keepers, liquidators, the admin) in any order, and
the hard part is state that one instruction leaves half done for another to
finish.

| Part | State | Operations | Interacts with |
|---|---|---|---|
| Event queue (`queue.rs`) | ring buffer: head, count, seq_num, buf | push_back, pop_front, revert_pushes | written by matching, read by cranks and by reduce-only orders |
| Book side (`matching.rs`) | crit-bit tree in an array of nodes, free list, expiry caches | insert_leaf, remove_by_key, remove_min/max, remove_one_expired | used by matching and cancelling |
| Matching (`matching.rs`) | two book sides of a market | new_bid, new_ask, cancel_order, four cancel-all walks | event queue, the taker's account, the market's fees |
| Perp orders of an account (`state.rs`) | 64 order slots, bids_quantity, asks_quantity, taker_base, taker_quote | add_order, remove_order, execute_maker, execute_taker | changed by the owner's instructions and by cranks |
| Perp positions (`state.rs`) | base and quote position, settled funding; market: open_interest, fees_accrued, funding | change_base_position, settle_funding, apply_fees, settle_pnl, settle_fees, socialize_loss | cranks, liquidation |
| Keepers (`processor.rs`) | caches with a validity window | consume_events, update_funding, cache_* , update_root_bank | everything that values an account |
| Lending (`state.rs`) | root bank indexes, node bank totals, deposits and borrows of accounts | deposit, withdraw, checked net changes, update_index, socialize_loss | vaults, health |
| Health (`state.rs`) | none, computed | UserActiveAssets, HealthCache | guards trading, withdrawing and liquidation |
| Liquidation and bankruptcy (`processor.rs`) | being_liquidated, is_bankrupt | force_cancel_*, liquidate_*, resolve_*_bankruptcy | lending, positions, insurance fund |
| Spot trading (`processor.rs`, `state.rs`) | Serum OpenOrders accounts, margin basket | init, place, cancel, settle, close, update_basket | the external serum_dex program, lending, health |
| Trigger orders (`processor.rs`) | AdvancedOrders account with orders and fees in lamports | add, remove, execute | matching, by way of a simulation |
| Market administration | market modes, parameters | set_market_mode, swap_spot_market, force_settle, remove_* | open orders and positions |
| Liquidity mining (`state.rs`) | mngo_accrued of accounts; the market's period, rate, mngo_left | apply_*_incentives, convert_points, redeem_mngo | cancels, cranks |
| Account lifecycle (`processor.rs`) | existence, version, owner, delegate; the group's counter | init, create, upgrade, close, set_delegate, resolve_dust | everything an account may still hold |
| Referral (`processor.rs`) | referrer memories and ids | set, register | fees of matching |
| Recovery and dispatch | – | the Recovery instructions | withdrawals |

What makes them correct, in short: the queue loses, repeats and invents nothing;
the tree is the set of orders it should be and never loses a node; orders fill
by price and time and only while valid; a slot of the order table belongs to one
order until that order's last event is consumed; the amounts of an account are
what its orders, fills and events imply; trading neither creates nor destroys
base or quote; a reduce-only order reduces; a keeper's crank can always go on;
what waits for a crank or a liquidator gets done; funds that went through Serum
come back to the account they belong to and are counted all the time; a period
pays out its MNGO once; and an account that is closed leaves nothing behind.

The `process` function of this commit rejects nearly all instructions ("v3.6.3
Disable all instructions") and leaves WithdrawMsrm and the Recovery
instructions. The handlers are the program that was deployed before, they are
complete and tested, and they are what is modelled.

## 2. Modules

```
EventFifo   <--implemented by-- EventQueue                  (TLC and TLAPS)
OrderLedger <--implemented by-- PerpMarket, extending Book  (TLC and TLAPS)
AdvancedOrders, extending PerpMarket                        (TLC and TLAPS)
BookSide                                                    (TLC and TLAPS)
Margin, SpotMarket, Accounts, each extending Bank           (TLC and TLAPS)
Sums <- BankProofs <- MarginProofs, SpotMarketProofs, AccountsProofs   (TLAPS)
Sums <- PerpMarketProofs <- OrderFlowProofs,
        about PerpMarket and AdvancedOrders                            (TLAPS)
Sums <- StructureProofs, about EventQueue, OrderLedger and BookSide    (TLAPS)
```

* **EventFifo, EventQueue.** `EventFifo` is the promise: a
  bounded sequence with push, pop, truncate and a wrapping event counter.
  `EventQueue` is `queue.rs`: `head`, `count`, `seq_num` and `buf` are the
  header fields and the buffer; `push_back`, `pop_front` and `revert_pushes` are
  the methods of the same names. The refinement mapping is the queue's own
  iterator. Unwritten slots hold `Zero`, the zeroed account data.
* **BookSide.** The tree of `matching.rs`, node by node: `side` is the account
  with `root_node`, `leaf_count`, `bump_index`, the free list threaded through
  the node array and `child_earliest_expiry` in inner nodes. Operators keep the
  names of the methods; where a method has three cases each is an operator
  (`InsertRoot`, `Clobber`, `Split`). `OperationsExact` compares every operation
  in every reachable tree with what it should do to a set of orders, which is
  what the next module works with.
* **Book.** The pure part of the matching engine on sets of orders: iteration
  order, validity, the events, the loop shared by `new_bid` and `new_ask`
  (`MatchOne` is one iteration), the price an order type trades at, and the
  merge walk of cancel-all (`CancelList`, which folds `WalkOne`, one turn of the
  loop). `new_bid` and `new_ask` are mirror
  images in the source; here they are one operator with a side.
* **PerpMarket.** The instructions, one action each: `place_perp_order`,
  `place_perp_order2`, `cancel_perp_order`, `cancel_perp_order_by_client_id`,
  `cancel_all_perp_orders`, `cancel_perp_orders_side`,
  `force_cancel_perp_orders` (a second action for the branch in which the
  account has recovered), `consume_events`, `update_funding`,
  `cache_perp_markets`, `set_market_mode`; and `Tick`, the clock. A handler that
  makes many changes in a loop folds them over a record of the state (`Work`)
  whose `ok` turns false where the code returns an error or panics; `Commit`
  is a step only if it has not.
* **OrderLedger.** What the order table of an account relies
  on, with prices, quantities, sides and time abstracted away: orders rest, leave
  by cancel (slot freed at once) or by match, expiry or booting (slot freed when
  the event is consumed). `Ledger` in `PerpMarket` gives the mapping.
* **Bank.** Lending in fixed-point integers: interest, the conversion between
  native and indexed amounts with the rounding of I80F48 (products down,
  quotients to zero), the `checked_*_net` helpers and a socialized loss. An
  operator takes and returns a record of the state; `ok` turns false where the
  code fails.
* **Margin.** Accounts with two tokens and a perp position: `deposit`, `withdraw`,
  the keepers' `update_root_bank`, `cache_root_banks`, `cache_prices` and
  `cache_perp_markets`, `settle_pnl`, `settle_fees`,
  `force_settle_perp_position`, the liquidations, `resolve_perp_bankruptcy` and
  `resolve_token_bankruptcy`. `liquidate_token_and_perp` is two actions, one for
  each direction, and `liquidate_recovered` is the early return of the token
  liquidations for an account that has recovered.
* **AdvancedOrders.** Trigger orders on top of PerpMarket: `advanced` is an
  account's AdvancedOrders account, its order table and its lamports. Executing
  one goes through the matching of PerpMarket and is refused unless the outcome
  is what `SimNewOrder` (`sim_new_bid`, `sim_new_ask`; `SimOne` is one iteration)
  foresaw: the taker's amounts and the health that follows from them.
  `cancel_all_advanced_orders` is the early return for an account that is bankrupt
  or being liquidated.
* **SpotMarket.** One account, its OpenOrders accounts at Serum and its margin
  basket. Serum is external and modelled from what the handlers rely on:
  `AfterNewOrder`, `Cancelled` and `SettleFunds` are its part of an instruction,
  and `serum_match`, `serum_fill_event` and `serum_out_event` happen between any
  two. An order slot is held until the crank releases it, filled lots move
  from locked to free when the crank comes by, and takers may get a rebate. The
  actions are the instructions; `place_spot_order` stands for both forms, which
  differ in how OpenOrders accounts are passed, and `force_cancel_recovered` is
  the branch in which the account has recovered.
* **Accounts.** The life of a MangoAccount and the MNGO it earns. `account` has
  the fields that closing looks at or clears, `exists` is whether the address has
  data. `EndOfTransaction` is the runtime, which drops the data of an account
  without lamports after the transaction and not before. Rewards are computed as
  the code does, in fixed point, for cancels (`cancel_perp_order`) and for queued
  fills (`consume_events`), for both versions of a market.
* **MCPerpMarket**, **MCAdvancedOrders**, **MCMargin**, **MCSpotMarket** and
  **MCAccounts** give TLC model values, starting states and symmetry.
* **Sums, BankProofs.** Lemmas the proofs of several modules share: sums over finite
  sets, and what the operators of Bank do to the books. **MarginProofs**,
  **SpotMarketProofs** and **AccountsProofs** hold the theorems of the module in
  their name; **PerpMarketProofs** those of PerpMarket and AdvancedOrders that rest
  on accounts, queue and settlement, **OrderFlowProofs** the ones that follow an
  order through both modules, and **StructureProofs** those of EventQueue,
  OrderLedger and BookSide; see section 4.

Names follow the source. In every module an operator that carries the comment
"A faulty form" is a wrong version of the operator after it, of the kind a slip
in the code would give; it is used nowhere in the model. Each states what one
property protects against: with it in place of the right one TLC finds that
property violated.

### Abstractions

Lot sizes are 1, so a price is in native quote per base lot. Fee rates are
native quote per quote lot. A key of the book is the pair of price and sequence
number; `BookSide` has the bits. The health checks of `place_perp_order` and
`force_cancel_perp_orders` are left to the environment: the action is possible
with either outcome, which allows more behaviours than the code. Funding for
longs and shorts is one number: they differ only after a socialized loss, which
is in Margin; the cached funding equals the market's because
`update_funding` writes both. `update_funding` chooses the sign the book allows
and one unit per unit of time; it does not ask for a valid price cache, which
adds behaviours only (where fairness makes the keepers run, it also stands for
prices being cached in time). `RefVars` lets `determine_ref_vars` return each
of its outcomes: no fee, a tier's surcharge, or a share for any other account
not being liquidated. Liquidity mining rewards are left to Accounts: nothing in
these instructions reads them. Liquidate events carry a record only and consuming one
does nothing, and none appears in PerpMarket. An instruction that returns Ok without doing anything, or that fails, is a
stuttering step.

In Margin one unit has 64 ulps instead of 2^48, so that every rounding is large
against the amounts and still below them; rates are per tick of the clock, so the
division by the seconds of a year is left out. There is one base token with its
spot and its perp market, and the quote token. Accounts have no open orders: what
orders add to `get_val` and `get_spot_val` and the `has_no_open_orders` checks are
not there, and the LiquidateEvent of `liquidate_perp_market`, a log entry, is not
put on a queue. Positions and profits come from trades, so a run starts with
them. `update_funding` is in PerpMarket; here funding moves by socialized losses.

In AdvancedOrders the health of the account before and after is left to the
environment, as in PerpMarket: an executed order is placed or dropped, and
`cancel_all_advanced_orders` may happen to an account being liquidated. Referrers
are left out of trigger orders, as the handler passes none.

In SpotMarket there are no lots, interest or expired caches, and no bankruptcy. A
taken lot trades at the limit price of the order. `LowPrice` is the constant 10
below which bids of a closing market may rest. Owners' signatures are left out:
an instruction the owner must sign is one the owner may send. A new mode, price or
order is a move of the environment and bounded.

In Accounts one unit has 4 ulps and there is one token and one perp market. The
book is a set of resting orders whose `best_initial` is an input, and so is the
`best_final` a cancel finds; takers have no account. The cap of 864 000 seconds on
the time of an order is never reached. Spot open orders, positions and trigger
orders, which closing also asks for, are in other modules and absent here.

## 3. Runs

| Run | Checks | Instance |
|---|---|---|
| event_queue | `NoUnwrittenEvent`, refinement `ImplementsFifo` | 3 slots, 2 events, seq_num modulo 5: head wraps, the counter wraps, both in every phase |
| order_ledger | `SlotDiscipline` | 2 accounts, 2 markets, 2 slots each, queues of 2 |
| perp_trade | stuck queues, quantities, pending amounts, positions, quote, crossed books | 2 accounts, one market, all order types, 2 slots, a queue and books of 2, quantities 1 and 2, maker rebate -1, taker fee 2, referral share and surcharge |
| perp_two_markets | refinement `ImplementsLedger`; `FeesEscrowed` | 2 markets that share the slots, books of 1, so that an executed trigger order boots a resting one at a worse price; the short account has up to 2 trigger orders; no fees, which the properties do not depend on |
| perp_close_only | `CloseOnlyShrinks`, `QuoteConserved`, `SlotOwnership`, `PriceTimePriority`, `SimulationExact` | version 0, three accounts with positions 1, 1 and -2, up to 3 reduce-only orders that may expire, three instants, so that expired orders are dropped by matching (one per instruction) and by posting, funding that moves; `SimulationExact` looks in each of these states at every order of any type that could come, with one or two fills |
| perp_live | `QueuedSlotFreed`, `LiquidationClears` | the legacy Default mode and its successors up to ForceCloseOnly, caches that are stale after one tick, cranks of one event, a cancel limit of one slot |
| book_side | free list, expiry caches, capacity, `OperationsExact` (an ordered set) | keys 0, 1, 2, 4 of 3 bits (splits at every depth), 8 nodes, so full at 4 orders |
| margin | bank totals, cached indexes, cover of lenders, exact liquidation, perp claims, open interest, bankruptcy only without assets and not for ever | a dust threshold of 4 ulps, 3 accounts in five starting states: collateral to borrow against (spot market open or closing), an unsettled profit, a long position (perp market open or closing); two prices, two deposits, withdrawals or price changes, one tick with caches valid for the current second only, an insurance fund of 1 |
| spot | margin basket, vaults, health under fills, closing orders, closing down | 2 markets: one in CloseOnly that the account is short in, one open that may be swapped or closed; a basket of one market; 2 order slots; orders of 2 lots filled whole or in part; 2 prices; rebates; a cancel limit of one; 2 moves |
| accounts | periods, emission, balances and the counter of accounts, makers, fresh accounts | a legacy account with a fraction of a unit borrowed, a derived address, the DustAccount, a lender; 2 orders, one of which may expire, 3 instants; one deposit, delegate or new set of parameters (by size or by price, with and without depth); a MNGO vault that runs out; limits of 1 or 2 accounts |

`SlotOwnership` is the central property: the events that free a slot carry the
owner and the slot number and nothing else. `NeverStuck` says the same of the
crank: one event it cannot apply would block the market for good.

Bounds. `MaxSeq` bounds the orders placed per market, `MaxTime` the clock, and
the input sets of a cfg the arguments. Three orders are enough for a maker with
two resting orders and a taker, or an order that fills, is cancelled and has its
slot used again with the first event still queued; a queue of two is full after
one trade with two fills, so refused instructions and partial cranks occur.
`Unbounded` stands for i64::MAX and is larger than any product of a run; `MaxFills`
stands for u8::MAX, the fills of an order that comes without a limit, and is small enough
to be reached: two orders rest where the program has 512 a side and stops at 255.
`NoExpiry` is later than the last tick. Accounts are symmetric except where a
run gives them different positions or checks liveness.

`SimulationExact` compares in every state `SimNewOrder` with the matching of a real
order for all types, sides, prices and quantities of the run, and not only for the
trigger orders that happen to be there. It covers the whole check of
`execute_perp_trigger_order`: base and quote taken, lots left to rest, and the health
before and after (`sim_post_health`, `post_health`; the parts of health that come from
other markets are the same in both, and so are prices and funding). Matching stops at
its limit on fills and the simulation has none, so the property is an equivalence: the
check fails exactly when an order runs out of fills with something left to take.

In `spot` a basket of one makes every order compete for it; two orders are enough
for a partly filled one whose fills are not cranked next to a new one. Quantities
of 2 at prices 1 and 2 make both cases of `get_spot_val` the worse one. Rebates,
funds that stay at Serum after a cancel, and slots that wait for the crank all
occur while an order, a settlement or a delisting goes on. In `accounts` two orders
let one account's cancel end a period while another's fill is still queued; a deposit
at index 5/4 leaves a fraction when it is withdrawn in whole units, so that only
`resolve_dust` empties the account. `accounts` may stop: when all bounds are used up
and nothing is left to withdraw or crank there is nothing to do, so deadlock is not
an error there.

In `margin` the price falls to a quarter, which makes a borrower or a long
liquidatable by a little, by a lot or insolvent, depending on what was withdrawn;
the insurance fund covers part of each loss and then the rest is socialized.
`moves` counts deposits, withdrawals and new prices; everything else, so all
settlement, liquidation and resolution, is unbounded. States with a position
start with one move used. Amounts stay in integers that TLC handles exactly.
Rounding is allowed for explicitly: `Rounding` is what one instruction may lose
of a bank's cover, `Ulps` what one liquidation may lose of health, `Lot` the
health of the lot that is not divided.

What these runs also showed, without being violations: rounding can leave the
borrows of a bank a few ulps above its deposits, so that writing all of them off
makes `deposit_index` zero or negative (the TODO at state.rs:551), after which
deposits of that token fail; and an insurance payment rounded up leaves the
bankrupt account with dust to its credit.

### Fairness

`FairSpec` assumes that keepers crank every queue with all the accounts
concerned and refresh the cache, and that liquidators go on calling
ForceCancelPerpOrders for an account whose liquidation has begun. These are the
off-chain services the program is built around, each paid for or run by the
operator; anyone may send these instructions, so no single party can withhold
them. Weak fairness is enough. It is written with the enabling condition of each
action spelled out (`CanCrank`, `CanForceCancel`). Traders owe nobody a step:
no fairness for placing, cancelling, recovering or the clock. In Margin the
assumption is that keepers refresh the caches and that bankruptcies which can be
resolved are (`Resolvable`); resolving pays the liquidator from the insurance
fund. In SpotMarket it is that Serum's crank applies fills and releases slots, and
that somebody cancels, settles and closes in a market that no longer allows new
orders: neither needs the owner's signature then, and the operator who delists the
market does it. The trader and the admin owe nobody a step, so `CloseDownEnds`
allows for a liquidation in progress and for a market that is opened again. A
market is swapped at most once in a run, and the market that is swapped is not put into
ForceCloseOnly afterwards with OpenOrders of the old market left: the comment at
processor.rs:6743 makes it the admin's duty that none are. `CloseDownEnds` rests on that.

### Where the code and its comments differ

Two runs are expected to end in a counterexample; each states what a comment
says.

* `ask_crosses`: an ask with a quote limit that ends by using it up is posted
  with the remaining quote at its own lower price, below a bid that still rests
  (`new_ask`, the `done` exit of the loop). With bids the remainder is always
  less than one lot at a price not below the ask's, so they do not do this.
* `cancel_all_panics`: in version 0 markets cancel-all unwraps the best price of
  a side that can be empty.

Seen while modelling, and in the model as the code has it:

* The check at the end of `execute_perp_trigger_order` is marked "unnecessary"
  (processor.rs:5743), but it is what stops an order that runs out of fills: it
  would be placed in part, with health checked for the whole. Matching has a
  limit of 255 fills (matching.rs:1269), the simulation has none
  (matching.rs:1071). So a trigger order that crosses 256 orders, half of what a
  side holds, with an event queue that has room for 255 fills, fails with
  MathError each time it is executed. `SimulationExact` says that this is the
  one way in which the check fails, and that then it always does. The run
  reaches it with one fill and two asks within reach of a bid of two lots.
* In reduce-only modes `new_bid` lifts the price limit of bids for every oracle
  price of at least one lot, although the comment at matching.rs:1212 speaks of
  prices below 1 only (`WithinPriceLimit`).
* `has_no_open_orders` (state.rs:2132) adds up a taker's pending amounts, which can
  cancel out while fills are queued, although the comment above it says there are
  no unprocessed fills. So `close_mango_account` can succeed for such a taker.
  Makers are safe from this (`MakersExist`): what they have on orders only adds up.
* A reduce-only trigger order is cut down to the position alone
  (processor.rs:5653), where `place_perp_order2` also deducts the reduce-only orders
  that rest; together with those it can flip a position in a CloseOnly market.
* `swap_spot_market` does not check that OpenOrders of the old market are closed. An
  account with one is left with an OpenOrders account that no instruction
  accepts until the old market is back (`Usable`).
* A fill that is cranked after a cancel has begun a new period of liquidity
  mining has `time_final` before `period_start` (state.rs:1891). The difference of the
  two u64 wraps in a release build, so the rate is adjusted by the maximum factor
  and `period_start` moves back (`RateAdj`). The budget of a period is kept all
  the same.
* `upgrade_mango_account_v0_v1` and `create_mango_account` count an account,
  `init_mango_account` only looks at the limit; accounts of version 0 are therefore not
  limited, and not counted when they are closed because they cannot be
  (`NothingStranded`).

## 4. Proofs

All theorems hold for every value of the constants.

**The queue** (`StructureProofs`). `QueueTypeCorrect`: head stays below the
capacity, count within it. `QueueNoUnwrittenEvent`: every event the iterator
yields has been pushed; inductive together with the type invariant, since a pop
moves the window and a revert shrinks it. `QueueImplementsFifo`: every step of
the ring maps to a step of the FIFO. The argument is modular arithmetic:
`SlotAtCases` turns `(head + i) % Cap` into two linear cases, `SlotsDistinct`
says two offsets below the capacity never meet, so a push overwrites no event in
the window (`IterPush`), and a pop moves every offset by one (`IterPop`).
Assumptions: the capacity and the counter's modulus are positive.

**The order ledger** (`StructureProofs`). `LedgerSlotDiscipline`: every
occupied slot has one owner. The inductive invariant `IInv` is the type
invariant and the five parts of `SlotDiscipline`, and each needs the others:

* `RestingHeld`: a resting order is what its slot says; therefore two resting
  orders have two slots (`RestingDistinct`), and so the events of one trade free
  different slots.
* `LeavingHeld`: a queued event finds its slot occupied, by an order of its own
  market. Without the market two queues could hold events for one slot.
* `LeavingOnce` and `LeavingLeft`: it is the only event for the slot, and the
  order has left the book. Otherwise consuming it would free the slot under a
  resting order or under another event.
* `NoLeak`: an occupied slot has an order or an event to free it; this is where
  a lost OutEvent would show.

There is one lemma per action (`TakeStep`, `PostStep`, `CancelStep`,
`ConsumeStep`), and under it a step per part. Assumptions: `Free` is not an
order; the bounds are natural numbers. That `PerpMarket` implements the ledger is
`LedgerImplemented`, below.

**The tree of a book side** (`StructureProofs`). `NodesNeverLost`,
`ExpiriesNeverOverlooked` and `FullWhenItMustBe` follow from one inductive invariant,
`Sound` (`SideSound`): there are a set `T` of nodes, a sequence `fl` and a rank of every
node such that

* the nodes handed out so far, those below `bump_index`, are `T` and the members of
  `fl`, and no node is both (`Alloc`); `fl` is the free list from its head on, without
  repetition, with the tags the assertions of `insert` look for (`Chain`);
* `T` is a tree below `root_node` (`Tree`): ranks fall from a parent to its children,
  every node but the root has a parent, and no two edges lead to the same node. The
  ranks make the recursion of `Below` and of the walks well-founded, so that both can be
  shown to satisfy their equations (`BelowStep`, `PathStep`) and `Below(root_node)` to be `T`;
* `T` has 2n - 1 nodes for n leaves. This is what makes `is_full` exact: with one
  node more or less an insert could fail on a side that is not full;
* every cached expiry is the earliest of the child's own (`Cached`), a local condition
  from which the one over all leaves below follows by induction on ranks.

`insert_leaf` and `remove_by_key` move the contents of a node to another place, so the
proofs say how the edges change and which node inherits which parent. In between, the
caches on the path above the changed node are out of date:
`update_parent_earliest_expiry` is a fold up the stack with the invariant that all caches
but the one for the current node are right (`CachedBut`), and that this one holds the
value the node had before the change. When the loop stops early, because a cache does
not show the outdated value, the minimum above has not changed. Nothing is used about keys, bits and
prefixes: wherever a key leads, the operation keeps the side sound. Assumptions: `NodesAssumption`
(at least four nodes, an even number) and `ExpiriesAssumption` (expiries are integers).

**Perp markets** (`PerpMarketProofs`, `OrderFlowProofs`). Of the instructions of `PerpMarket`, with and
without the trigger orders of `AdvancedOrders`, these are proved for any number of
accounts, markets, slots and orders, any capacity, fee, referral share, price,
quantity and limit: `SlotsOwned`, `CrankNeverStuck`, `OnOrdersCounted`,
`DrainSettles`, `PositionsBalanced`, `QuoteNeverCreated`, `FeesStayEscrowed`, the
action property `FillsKeepPriority`, and the three results described below it. The first
seven follow from one inductive invariant, `Inv`
(`MarketsInv`; with the escrow of trigger orders `AdvancedInv`, `AdvancedInvariant`).
It says of every market, in `State`:

* `Desk`: book, queue and order slots agree. A resting order is the one its slot
  describes (`Listed`) and is numbered below the market's counter (`Numbered`); an
  event that frees a slot finds it held for its own market and side (`Waiting`), is
  the only one for it (`Once`), and its order has left the book (`Gone`); an occupied
  slot has an order or an event (`Found`).
* `Counts`: what an account has on orders on each side is the sum of its resting
  lots, its queued maker fills and the lots of its queued OutEvents.
* `Pending`: `taker_base` and `taker_quote` are sums over the queued fills. This,
  and not the weaker property that nothing is pending once the queue is empty, is what
  an event consumed in the middle of a queue preserves.
* Positions add up to zero, their sizes to `open_interest`, and quote, less funding
  not yet settled, plus fees to the maker fees of the fills still queued. The
  maker's fee is booked into the market when an order is matched and charged to the
  maker when the event is consumed, which is why the turnover of the queue is part
  of the equation.

The invariant is written for the working copy of an instruction and not only for the
state between instructions, because the code changes the book, the queue and two
accounts one after the other. Each turn of a loop has its lemma: an event consumed, an
expired order dropped, an order matched, an order posted with or without another booted,
an order cancelled. `RunChain` gives the intermediate results of a fold, and
an invariant of the turns is one of the fold. Cancel-all cancels a list which the
merge walk computes; the lemma on it says only that the list is of orders of the
account, which is enough, as cancelling an order that is gone changes nothing.

Price-time priority compares the book before an instruction with the events after it.
`Prior` follows the matching loop along the sorted side `v`: each fill so far is
of some `v[j]` and nothing is left of the valid orders in front of it (`FillsInTurn`), nothing
is left of the valid orders passed as long as the loop goes on (`InFront`), and the
orders not reached are untouched (`Behind`). It needs from `Inv` that orders on a side
have different numbers (`Keyed`): only then does sorting list each once and in order
(`SortedOrder`).

`LedgerImplemented`: every step of PerpMarket, and of AdvancedOrders, is a step of
OrderLedger or a stutter, so what is proved of the ledger holds of the full model. The
mapping (`Ledger`) keeps of an order its owner and slot and of an event the place
it frees (`Freeing`). `Moves` names what a step can do to orders: match and post one,
cancel some of an account's, consume events, or nothing; `NextMoves` and
`AdvancedMoves` sort the instructions into these, and each is mapped once. The proof
needs from `Inv` that no place is held twice, by orders and events together.

`SimulationForesees`: what `sim_new_bid` and `sim_new_ask` predict is what `new_bid` and
`new_ask` do, in every reachable book, for every order type, price, quantity and limit on
fills, unless the limit is reached; then the simulation has taken more. The two loops
differ: the simulation iterates over valid orders and returns at the first one a post-only
order would take, the real one steps over expired orders, removes some of them and counts
its fills. `Along` relates the two turn by turn: they are together and what is left of the
other side is what comes later (`Paired`, `Ahead`), or both have ended with nothing left
to take, or the real one wants fills (`Wanting`) and the simulation is ahead (`Outrun`).
When the amounts agree the healths do (`HealthSame`): one account has paid its fees
before it is valued, the other after. Orders without a quote limit have `Unbounded`; that
it never binds rests on `AmountsBounded` (the quantity times a tick above the price of any
order is at most `Unbounded`, i64::MAX in the program), and on `AlwaysPriced`: an order
rests at a price somebody sent or, after sliding, one tick above one. Nothing is assumed
of `MaxFills` but that it is not 0.

`BooksNeverCross`: no valid bid is at or above a valid ask, as long as no quote limit
binds (`QuotesCover`, a condition on the inputs that `perp_trade` meets). An order that
goes on to rest has met everything in its reach: the loop ends with its base used up, with
posting forbidden, or with all that is left out of reach (`Halted`), because orders come
best first (`StaysOut`). The condition is needed: `ask_crosses` is the counterexample
without it. Time only takes orders out of consideration (`UncrossedLater`).

Assumptions: `PerpAssumption` (finitely many accounts, none of them called `Nobody`;
`Free` is no order; a book has room for at least one order; starting positions add up
to zero), `InputAssumption` and `BookAssumption` (numbers of the types the
instructions carry), `AdvancedAssumption` (trigger orders are orders) and, for the
last two results, `AmountsBounded`.

**Sums and folds** (`Sums`). The totals of a bank, the open interest and the claims
are sums over all accounts, `SumFunctionOnSet` of the community modules, which is a
fold in an order that `CHOOSE` picks. The lemmas say that the order is irrelevant:
a term may be added, removed or changed, all terms may be shifted or scaled. They
need an induction over the subsets of a finite set. The library states it with a
predicate as a parameter, which the provers cannot instantiate; here the property is
a set (`SubsetInduction`, from the well-foundedness of strict inclusion), and the
existence of the fold is a member of such a set too (`IterExists`).

**The bank** (`BankProofs`). `Books` says that a working record has integers where it
should (`Shape`) and that the totals of every bank are the sums over the accounts
(`Totals`). Every operator of Bank keeps the books and changes no account but those
it is given (`Rebooked`), whatever the amounts, their signs, the indexes and the
rounding, and also where `ok` turns false. `RateAssumption`: a unit has at least
one ulp, the rates of the admin are not negative and the optimal utilisation is
strictly between 0 and 1, as its division requires.

**Accounts** (`AccountsProofs`). `AccountsInvariant` is the inductive invariant, and
`BudgetTheorem`, `EmissionTheorem`, `StrandedTheorem`, `MakersTheorem` and
`FreshStartTheorem` the five properties of the run. The properties speak of open
accounts; the invariant adds up over all addresses and says that an address without an
open account is as good as new (`IdleInv`): that is what closing must achieve and what
`init_mango_account` relies on. `MakersExist` needs that what an account has open
is what it has on the book and in the queue (`OpenInv`). `PeriodBudget` needs points that
are not negative, so a clock that does not run back (`TimeInv`), and one lemma on
rounding, `EarnedWithinRest`: points below `mngo_left / rate` earn at most
`mngo_left`. Assumptions: indexes of at least 1, borrowing not cheaper than lending,
and parameters the instruction accepts (`ValidParams`).

**Margin** (`MarginProofs`). `MarginInv` has the books of both banks, the cached
indexes and funding, the sums of positions and open interest, and what a bankrupt
account may still own. An instruction is a chain of operators on a working record;
`Moved` says what a piece of it leaves in order and by how much it shifts the sum of all
positions and of all claims, each operator has such a lemma, and they compose. Hence
`BanksTheorem`, `CacheTheorem`, `PositionsTheorem`, and two action properties:
`ClaimsTheorem` (a loss that is shared per contract is rounded by less than an ulp per
contract, `SharedLoss`) and `DustTheorem`. The last was a state invariant before
the proof was tried, namely that a bankrupt account has deposits of at most
`DustThreshold`. That is no invariant: the insurance fund pays in whole units, rounded
up, so the account may keep up to a unit's worth more than the threshold, and how many
indexed units that is depends on the index at that moment. `BankruptOnlyDust` now says
that the deposits are dust or have just grown by less than a unit's worth.
Assumptions: starting states in order (`InOrder`), prices above 0, quantities an
instruction can carry, and `FeeAssumption`: the liquidation fee of the spot
market is at least 0 and below 1. The code does not check that parameter of the
admin; with a fee of 1 a liquidator would get a liability for nothing.

**SpotMarket** (`SpotMarketProofs`). `SpotVaultsTheorem`: `Gap` is what a vault holds
beyond what its bank owes. A deal with Serum opens a gap in the base and in the quote
token (`DealGap`) and a booking closes it (`ChangeNetShift`, `BookBack`), for amounts
measured on the vaults, as in `place_spot_order`, and on the OpenOrders account, as
in `settle_funds`. `SpotBasketTheorem`: `update_basket` makes one market right and
touches no other, and a step of Serum always works on an order whose slot keeps its
market in the basket (`UsedInBasket`). The instructions fold operators over sets of
markets and of orders; the recursion of these folds is derived from their
definition (`FoldExists`). Assumptions: types of the inputs; indexes are 1, as in
the model.

**Only model-checked**: liveness (`QueuedSlotFreed`, `LiquidationClears`,
`BankruptcyEnds`, `CloseDownEnds`), which the prover does not handle; `OperationsExact`,
that the tree seen through its iterator is an ordered set of orders, which takes
arithmetic with powers of two and an induction on the sequence the iterator yields
that the provers do not find. `CloseOnlyShrinks` holds of
a market that is in CloseOnly from the start, as in its run; orders that rest when the
mode changes may exceed a position. `LendersCovered`, `LiquidationExact` and `FillsNeverHurt` compare health before and after with allowances for
rounding, and `ClosingShrinks` follows the position of a closing spot market through
orders, fills and settlements: no proof has been tried.

## 5. Not modelled, and the plan

Done: the queue, the tree, matching and its simulation, the perp instructions of
traders and keepers, trigger orders, lending, settlement, liquidation and
bankruptcy, spot trading, liquidity mining and the life of accounts, all checked;
the two abstract specifications; the proofs of section 4. What would come
next, in order:

1. **The end of delisting**: liquidate_delisting_token, remove_perp_market and
   remove_spot_market, which close the banks.
2. Proofs of the action properties about health.

Not modelled, and why:

* Recovery instructions and dispatch: the recovery instructions cancel and settle
  orders at Serum and sweep the vaults to a fixed authority, deliberately without
  crediting any account: they end the ledger the properties are about.
* Adding tokens, oracles and markets, rate and leverage parameters, the group's
  admin: straight-line checks and assignments of configuration.
* Referrer memories and ids, and the text label of an account: written once, and
  only looked up; what matching makes of a referrer is in PerpMarket (`RefVars`).
* Instruction encoding, logging, error codes and macros: no state.
* Reading oracles: I/O, any of a set of prices. The Serum program: external, see
  SpotMarket.
