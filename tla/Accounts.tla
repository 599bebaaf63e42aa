------------------------------ MODULE Accounts ------------------------------
(***************************************************************************)
(* The life of a MangoAccount and the MNGO it earns for making markets: an *)
(* account is created, upgraded, given a delegate, deposited into, earns   *)
(* MNGO while its orders rest, redeems it, is emptied down to the dust and *)
(* closed.  Instructions of users, keepers and the admin interleave.       *)
(*                                                                         *)
(* There is one perp market and one token, MNGO, both open for trading,    *)
(* with constant indexes (module Margin has interest and markets that      *)
(* close).  Of the book only what incentives depend on is kept: who rests  *)
(* what since when, and how good the order was.  An account is a maker     *)
(* here; module PerpMarket has the matching and takers.                    *)
(* Keys that sign are left out: an instruction that the owner (or the      *)
(* delegate) must sign happens when the account exists.                    *)
(***************************************************************************)
EXTENDS Bank, Sequences, FiniteSets, FiniteSetsExt

CONSTANTS
  Keys,           \* addresses of MangoAccounts
  Dust,           \* the address of the DustAccount, one of Keys
  Legacy,         \* a key pair's account from before v1, one of Keys
  lender,         \* an account outside Keys that only lends
  Mngo,           \* the token
  Users, NoKey,   \* Pubkey::default()
  DepositIndex, BorrowIndex,
  Bps,            \* 10_000
  \* inputs and bounds of a run
  Offers,         \* [market version -> orders that may be placed]
  Finals,         \* [market version -> what the book may look like at a cancel]
  Makers,         \* accounts that place orders
  Params,         \* LiquidityMiningInfo and version the admin may set
  InitParams,
  LegacyBorrows, Lent,
  MngoVault,      \* MNGO the market has to pay out
  MaxAccounts,    \* values of max_mango_accounts
  MaxOrders,      \* orders placed
  MaxMoves,       \* deposits, delegates and parameters set
  MaxTime

ASSUME AccountsAssumption ==
  /\ IsFiniteSet(Keys)
  /\ {Dust, Legacy} \cup Makers \subseteq Keys /\ Dust # Legacy /\ lender \notin Keys
  /\ Users # {} /\ NoKey \notin Users
  /\ DepositIndex \in Nat /\ BorrowIndex \in Nat
  /\ DepositIndex >= One /\ BorrowIndex >= DepositIndex
  /\ LegacyBorrows \in Nat /\ Lent \in Nat /\ MngoVault \in Nat
  /\ Bps \in Nat

(* What the instructions take: integers of the source's types, and only    *)
(* orders with a price and a quantity.                                     *)
ParamSet ==
  [version : Nat, rate : Int, max_depth : Int, target_period_length : Nat,
   mngo_per_period : Nat, exp : Nat, lm_size_shift : Nat]
OfferSet ==
  [side : {"bid", "ask"}, price : Nat \ {0}, best_initial : Int, quantity : Nat \ {0},
   time_in_force : Nat]

ValidParams(p) ==
  /\ \/ p.version = 0 /\ p.exp \in 1..8
     \/ p.version = 1 /\ p.exp \in 1..4 /\ p.max_depth % One = 0
  /\ p.max_depth >= 0 /\ p.rate >= 0 /\ p.target_period_length > 0

ASSUME InputAssumption ==
  /\ InitParams \in ParamSet /\ ValidParams(InitParams)
  /\ Params \subseteq ParamSet
  /\ \A p \in Params \cup {InitParams} : 2 ^ p.lm_size_shift \in Nat \ {0}
  /\ \A v \in {0, 1} : Offers[v] \subseteq OfferSet /\ Finals[v] \subseteq Int

VARIABLES
  account,   \* [key -> MangoAccount without its balances, see Blank]
  ma, bank,  \* balances, module Bank
  lmi,       \* LiquidityMiningInfo of the market, and the market's version
  orders,    \* resting orders
  events,    \* fills in the event queue
  group,     \* [num_mango_accounts, max_mango_accounts]
  vault,     \* [msrm, mngo: paid out of the market's MNGO vault]
  allotted,  \* MNGO that periods have made available (history)
  now, placed, moves

balances == <<ma, bank>>
mining == <<lmi, orders, events, allotted>>
bounds == <<now, placed, moves>>
vars == <<account, balances, mining, group, vault, bounds>>

(* An address without data.  exists: the program owns it and it has data. *)
Blank ==
  [exists |-> FALSE, is_initialized |-> FALSE, version |-> 0, not_upgradable |-> FALSE,
   owner |-> NoKey, delegate |-> NoKey, msrm_amount |-> 0, mngo_accrued |-> 0,
   open |-> 0]     \* bids_quantity + asks_quantity

Active == {a \in Keys : account[a].is_initialized}

(* The LiquidityMiningInfo when its parameters are set. *)
Reset(p, t) ==
  [version |-> p.version, rate |-> p.rate, max_depth |-> p.max_depth,
   target_period_length |-> p.target_period_length, mngo_per_period |-> p.mngo_per_period,
   exp |-> p.exp, lm_size_shift |-> p.lm_size_shift,
   mngo_left |-> p.mngo_per_period, period_start |-> t]

Init ==
  /\ account = [a \in Keys |->
       IF a # Legacy THEN Blank
       ELSE [Blank EXCEPT !.exists = TRUE, !.is_initialized = TRUE, !.owner = CHOOSE u \in Users : TRUE]]
  /\ ma = [a \in Keys \cup {lender} |->
             [deposits |-> [t \in {Mngo} |-> IF a = lender THEN Lent ELSE 0],
              borrows |-> [t \in {Mngo} |-> IF a = Legacy THEN LegacyBorrows ELSE 0]]]
  /\ bank = [t \in {Mngo} |-> [deposits |-> Lent, borrows |-> LegacyBorrows, vault |-> Floor(Lent)]]
  /\ lmi = Reset(InitParams, 0)
  /\ orders = {}
  /\ events = <<>>
  /\ group = [num_mango_accounts |-> 0, max_mango_accounts |-> Min(MaxAccounts)]
  /\ vault = [msrm |-> 0, mngo |-> 0]
  /\ allotted = InitParams.mngo_per_period
  /\ now = 0
  /\ placed = 0
  /\ moves = 0

Work == [ma |-> ma, bank |-> bank, ok |-> TRUE,
         cache |-> [bank |-> [t \in {Mngo} |-> [deposit_index |-> DepositIndex,
                                                borrow_index |-> BorrowIndex]]]]
Commit(w) == w.ok /\ ma' = w.ma /\ bank' = w.bank

(* What the environment chooses to do is bounded. *)
Move == moves < MaxMoves /\ moves' = moves + 1

-----------------------------------------------------------------------------
(* Creating and closing *)

HasRoom == group.num_mango_accounts < group.max_mango_accounts
Count(n) == group' = [group EXCEPT !.num_mango_accounts = @ + n]

(* Deprecated: any account of the program with room for a MangoAccount that *)
(* is not initialised, and its data as it is.  It is not counted.           *)
init_mango_account(a, owner) ==
  /\ account[a].exists /\ ~account[a].is_initialized
  /\ HasRoom
  /\ account' = [account EXCEPT ![a].is_initialized = TRUE, ![a].owner = owner,
                                ![a].version = 0, ![a].not_upgradable = TRUE]
  /\ UNCHANGED <<balances, mining, group, vault, bounds>>

(* The address is derived from the owner; the system program gives it data. *)
create_mango_account(a, owner) ==
  /\ a \notin {Dust, Legacy} /\ ~account[a].exists
  /\ HasRoom
  /\ account' = [account EXCEPT ![a] = [Blank EXCEPT !.exists = TRUE, !.is_initialized = TRUE,
                                                     !.version = 1, !.owner = owner]]
  /\ Count(1)
  /\ UNCHANGED <<balances, mining, vault, bounds>>

create_dust_account ==
  /\ ~account[Dust].exists
  /\ account' = [account EXCEPT ![Dust] = [Blank EXCEPT !.exists = TRUE, !.is_initialized = TRUE,
                                                        !.owner = CHOOSE u \in Users : TRUE,
                                                        !.not_upgradable = TRUE]]
  /\ UNCHANGED <<balances, mining, group, vault, bounds>>

upgrade_mango_account_v0_v1(a) ==
  /\ a \in Active
  /\ account[a].version = 0 /\ ~account[a].not_upgradable
  /\ HasRoom
  /\ account' = [account EXCEPT ![a].version = 1]
  /\ Count(1)
  /\ UNCHANGED <<balances, mining, vault, bounds>>

change_max_mango_accounts(n) ==
  /\ n # group.max_mango_accounts
  /\ Move
  /\ group' = [group EXCEPT !.max_mango_accounts = n]
  /\ UNCHANGED <<account, balances, mining, vault, now, placed>>

HasNoFunds(a) ==
  /\ ma[a].deposits[Mngo] = 0 /\ ma[a].borrows[Mngo] = 0
  /\ account[a].mngo_accrued = 0
  /\ account[a].msrm_amount = 0
has_no_open_orders(a) == account[a].open = 0

(* Faulty forms: balances that are worth less than one native unit are      *)
(* ignored; only the book is searched.                                      *)
Closable_WithDust(a) ==
  /\ account[a].version > 0
  /\ Floor(native_deposit(Work, a, Mngo)) = 0 /\ ma[a].borrows[Mngo] = 0
  /\ account[a].mngo_accrued = 0 /\ account[a].msrm_amount = 0
  /\ has_no_open_orders(a)
Closable_Unsettled(a) ==
  /\ account[a].version > 0 /\ HasNoFunds(a)
  /\ \A o \in orders : o.owner # a

Closable(a) == account[a].version > 0 /\ HasNoFunds(a) /\ has_no_open_orders(a)

(* A faulty form: the delegate stays in the data. *)
Closed_KeepsDelegate(acc) == [acc EXCEPT !.is_initialized = FALSE, !.owner = NoKey]

Closed(acc) == [acc EXCEPT !.is_initialized = FALSE, !.owner = NoKey, !.delegate = NoKey]

close_mango_account(a) ==
  /\ a \in Active
  /\ Closable(a)
  /\ group.num_mango_accounts >= 1
  /\ account' = [account EXCEPT ![a] = Closed(@)]
  /\ Count(-1)
  /\ UNCHANGED <<balances, mining, vault, bounds>>

(* The runtime drops the data of a closed account, which has no lamports,   *)
(* but only after the transaction, which may go on with other instructions. *)
EndOfTransaction(a) ==
  /\ account[a].exists /\ ~account[a].is_initialized
  /\ account' = [account EXCEPT ![a] = Blank]
  /\ UNCHANGED <<balances, mining, group, vault, bounds>>

set_delegate(a, delegate) ==
  /\ a \in Active
  /\ delegate # account[a].delegate
  /\ Move
  /\ account' = [account EXCEPT ![a].delegate = delegate]
  /\ UNCHANGED <<balances, mining, group, vault, now, placed>>

-----------------------------------------------------------------------------
(* Funds *)

deposit(a, q) ==
  /\ a \in Active
  /\ Move
  /\ Commit(checked_change_net(VaultTransfer(Work, Mngo, q), a, Mngo, q * One))
  /\ UNCHANGED <<account, mining, group, vault, now, placed>>

(* All that is worth whole native units. *)
withdraw(a) ==
  LET q == Floor(native_deposit(Work, a, Mngo))
  IN  /\ a \in Active
      /\ q > 0
      /\ Commit(VaultTransfer(checked_change_net(Work, a, Mngo, -(q * One)), Mngo, -q))
      /\ UNCHANGED <<account, mining, group, vault, bounds>>

(* Less than one native unit goes to or comes from the DustAccount, which   *)
(* must stay healthy if it takes over a borrow: it holds no other token.    *)
resolve_dust(a) ==
  LET borrow == native_borrow(Work, a, Mngo)
      held == native_deposit(Work, a, Mngo)
      repaid == transfer_token_internal(Work, Dust, a, Mngo, borrow)
  IN  /\ a \in Active \ {Dust} /\ Dust \in Active
      /\ \/ /\ borrow \in 1 .. One - 1
            /\ Commit([repaid EXCEPT !.ok = @ /\ repaid.ma[Dust].borrows[Mngo] = 0])
         \/ /\ borrow \notin 1 .. One - 1 /\ held \in 1 .. One - 1
            /\ Commit(transfer_token_internal(Work, a, Dust, Mngo, held))
      /\ UNCHANGED <<account, mining, group, vault, bounds>>

deposit_msrm(a, q) ==
  /\ a \in Active
  /\ Move
  /\ account' = [account EXCEPT ![a].msrm_amount = @ + q]
  /\ vault' = [vault EXCEPT !.msrm = @ + q]
  /\ UNCHANGED <<balances, mining, group, now, placed>>

withdraw_msrm(a, q) ==
  /\ a \in Active
  /\ q > 0
  /\ account[a].msrm_amount >= q /\ vault.msrm >= q
  /\ account' = [account EXCEPT ![a].msrm_amount = @ - q]
  /\ vault' = [vault EXCEPT !.msrm = @ - q]
  /\ UNCHANGED <<balances, mining, group, bounds>>

(* What the market's MNGO vault can pay becomes a deposit of the account. *)
redeem_mngo(a) ==
  LET mngo == Smaller(account[a].mngo_accrued, MngoVault - vault.mngo)
  IN  /\ a \in Active
      /\ mngo > 0
      /\ account' = [account EXCEPT ![a].mngo_accrued = @ - mngo]
      /\ vault' = [vault EXCEPT !.mngo = @ + mngo]
      /\ Commit(checked_change_net(VaultTransfer(Work, Mngo, mngo), a, Mngo, mngo * One))
      /\ UNCHANGED <<mining, group, bounds>>

-----------------------------------------------------------------------------
(* Liquidity mining *)

MIN_RATE_ADJ == One \div 4
MAX_RATE_ADJ == 4 * One

(* The difference of the times is a u64: a fill that is consumed after the  *)
(* period has begun anew counts as a very long period.                      *)
RateAdj(l, time_final) ==
  IF time_final < l.period_start THEN MAX_RATE_ADJ
  ELSE Larger(MIN_RATE_ADJ, Smaller(MAX_RATE_ADJ,
         Div((time_final - l.period_start) * One, l.target_period_length * One)))

NextPeriod(l, time_final) ==
  [l EXCEPT !.rate = Mul(@, RateAdj(l, time_final)),
            !.period_start = time_final,
            !.mngo_left = l.mngo_per_period]

(* Faulty forms: the payout is not limited to the new period; what was left *)
(* of the old period is not paid.                                           *)
convert_points_NoLimit(l, time_final, points) ==
  LET points_in_period == Div(l.mngo_left * One, l.rate)
      over == points >= points_in_period
      p == IF over THEN NextPeriod(l, time_final) ELSE l
      earned == Floor(Mul(IF over THEN points - points_in_period ELSE points, p.rate))
  IN  [lmi |-> [p EXCEPT !.mngo_left = @ - earned], over |-> over,
       mngo |-> earned + IF over THEN l.mngo_left ELSE 0]

convert_points_RestLost(l, time_final, points) ==
  LET points_in_period == Div(l.mngo_left * One, l.rate)
      over == points >= points_in_period
      p == IF over THEN NextPeriod(l, time_final) ELSE l
      earned == Smaller(Floor(Mul(IF over THEN points - points_in_period ELSE points, p.rate)),
                        p.mngo_per_period)
  IN  [lmi |-> [p EXCEPT !.mngo_left = @ - earned], over |-> over, mngo |-> earned]

(* Points beyond the rest of the period end it: the rest is paid, the rate  *)
(* is adjusted to the time the period took, and the other points are paid   *)
(* at the new rate from the new period, which is paid out at most once.     *)
convert_points(l, time_final, points) ==
  LET points_in_period == Div(l.mngo_left * One, l.rate)
      over == points >= points_in_period
      p == IF over THEN NextPeriod(l, time_final) ELSE l
      earned == Smaller(Floor(Mul(IF over THEN points - points_in_period ELSE points, p.rate)),
                        p.mngo_per_period)
  IN  [lmi |-> [p EXCEPT !.mngo_left = @ - earned], over |-> over,
       mngo |-> earned + IF over THEN l.mngo_left ELSE 0]

(* By squaring, which rounds at each step; exp is at most 8, four bits. *)
pow_i80f48(base, exp) ==
  LET base2 == Mul(base, base)
      base4 == Mul(base2, base2)
      base8 == Mul(base4, base4)
      Times(result, power, bit) == IF (exp \div bit) % 2 = 1 THEN Mul(result, power) ELSE result
  IN  Times(Times(Times(Times(One, base, 1), base2, 2), base4, 4), base8, 8)

(* How far the order was from the end of the rewarded depth, and the best   *)
(* price while it rested.                                                   *)
DepthLeft(o, best_final) == lmi.max_depth - Larger(o.best_initial, best_final) * One

BestPrice(o, best_final) ==
  IF o.side = "bid" THEN Larger(o.best_initial, best_final) ELSE Smaller(o.best_initial, best_final)

(* The returns of both functions before any points are converted: an order  *)
(* behind the rewarded depth; one away from the best price where only that  *)
(* is rewarded.                                                             *)
Unrewarded(o, best_final) ==
  IF lmi.version = 0 THEN lmi.max_depth = 0 /\ BestPrice(o, best_final) # o.price
                     ELSE DepthLeft(o, best_final) <= 0

(* Points by the contracts that were ahead of the order. *)
apply_size_incentives(o, best_final, time_final, quantity) ==
  LET factor == DepthLeft(o, best_final)
  IN  Mul(pow_i80f48(factor \div 2 ^ lmi.lm_size_shift, lmi.exp) * (time_final - o.timestamp),
          Smaller(quantity * One, factor))

(* Points by the distance to the best price. *)
apply_price_incentives(o, best_final, time_final, quantity) ==
  LET best == BestPrice(o, best_final)
      dist_bps == Div(Magnitude(best - o.price) * Bps * One, best * One)
      weight == IF lmi.max_depth = 0 THEN One
                ELSE pow_i80f48(Larger(lmi.max_depth - dist_bps, 0), lmi.exp)
  IN  weight * (time_final - o.timestamp) * quantity

(* An order earns for a quantity that leaves the book at time_final.  Orders *)
(* of another version of the market earn nothing.                           *)
Points(o, best_final, time_final, quantity) ==
  IF lmi.version = 0 THEN apply_price_incentives(o, best_final, time_final, quantity)
                     ELSE apply_size_incentives(o, best_final, time_final, quantity)

NothingEarned == [lmi |-> lmi, over |-> FALSE, mngo |-> 0]

Reward(o, best_final, time_final, quantity) ==
  IF o.version # lmi.version \/ lmi.rate = 0 \/ lmi.mngo_per_period = 0 \/ Unrewarded(o, best_final)
  THEN NothingEarned
  ELSE convert_points(lmi, time_final, Points(o, best_final, time_final, quantity))

(* The owner's account after the reward and with so much less on the book. *)
Pay(reward, a, quantity) ==
  /\ account' = [account EXCEPT ![a].mngo_accrued = @ + reward.mngo, ![a].open = @ - quantity]
  /\ lmi' = reward.lmi
  /\ allotted' = allotted + IF reward.over THEN lmi.mngo_per_period ELSE 0

Order(a, offer) ==
  [owner |-> a, timestamp |-> now, version |-> lmi.version,
   side |-> offer.side, price |-> offer.price, best_initial |-> offer.best_initial,
   quantity |-> offer.quantity, time_in_force |-> offer.time_in_force]

(* An order comes to rest; an account has one at a time. *)
place_perp_order(a, offer) ==
  /\ a \in Active
  /\ account[a].open = 0
  /\ placed < MaxOrders /\ placed' = placed + 1
  /\ orders' = orders \cup {Order(a, offer)}
  /\ account' = [account EXCEPT ![a].open = @ + offer.quantity]
  /\ UNCHANGED <<balances, lmi, events, allotted, group, vault, now, moves>>

(* Orders whose time in force is over earn nothing. *)
cancel_perp_order(o, best_final) ==
  /\ orders' = orders \ {o}
  /\ Pay(IF o.time_in_force # 0 /\ now >= o.timestamp + o.time_in_force THEN NothingEarned
         ELSE Reward(o, best_final, now, o.quantity), o.owner, o.quantity)
  /\ UNCHANGED <<balances, events, group, vault, bounds>>

(* A taker takes part or all of a resting order. *)
Fill(o, quantity) ==
  /\ o.time_in_force = 0 \/ now < o.timestamp + o.time_in_force
  /\ events' = Append(events, [maker |-> o, timestamp |-> now, quantity |-> quantity])
  /\ orders' = (orders \ {o}) \cup
                 IF quantity = o.quantity THEN {} ELSE {[o EXCEPT !.quantity = @ - quantity]}
  /\ UNCHANGED <<account, balances, lmi, allotted, group, vault, bounds>>

(* The maker's part of one event.  Its account must load. *)
consume_events ==
  LET fill == Head(events)
      best_final == IF lmi.version = 0 THEN fill.maker.price ELSE 0
  IN  /\ events # <<>>
      /\ fill.maker.owner \in Active
      /\ Pay(Reward(fill.maker, best_final, fill.timestamp, fill.quantity),
             fill.maker.owner, fill.quantity)
      /\ events' = Tail(events)
      /\ UNCHANGED <<balances, orders, group, vault, bounds>>

(* Setting any parameter of liquidity mining begins a period with all of    *)
(* its MNGO; what was left of the old one is not paid to anyone.            *)
change_perp_market_params2(p) ==
  /\ ValidParams(p)
  /\ Move
  /\ lmi' = Reset(p, now)
  /\ allotted' = (allotted - lmi.mngo_left) + p.mngo_per_period
  /\ UNCHANGED <<account, balances, orders, events, group, vault, now, placed>>

Tick ==
  /\ now < MaxTime
  /\ now' = now + 1
  /\ UNCHANGED <<account, balances, mining, group, vault, placed, moves>>

-----------------------------------------------------------------------------
Lifecycle(a) ==
  \/ \E u \in Users : init_mango_account(a, u) \/ create_mango_account(a, u)
  \/ upgrade_mango_account_v0_v1(a)
  \/ close_mango_account(a)
  \/ EndOfTransaction(a)
  \/ \E u \in Users \cup {NoKey} : set_delegate(a, u)

Funds(a) ==
  \/ deposit(a, 1)
  \/ withdraw(a)
  \/ resolve_dust(a)
  \/ deposit_msrm(a, 1)
  \/ withdraw_msrm(a, 1)
  \/ redeem_mngo(a)

Next ==
  \/ \E a \in Keys : Lifecycle(a) \/ Funds(a)
  \/ create_dust_account
  \/ \E n \in MaxAccounts : change_max_mango_accounts(n)
  \/ \E a \in Makers, offer \in Offers[lmi.version] : place_perp_order(a, offer)
  \/ \E o \in orders, best_final \in Finals[lmi.version] : cancel_perp_order(o, best_final)
  \/ \E o \in orders : \E q \in 1 .. o.quantity : Fill(o, q)
  \/ consume_events
  \/ \E p \in Params : change_perp_market_params2(p)
  \/ Tick

Spec == Init /\ [][Next]_vars

-----------------------------------------------------------------------------
(* mngo_left, a u64, is never taken below zero and never above the MNGO of  *)
(* one period, whatever the points, the rate and the order of rewards: what *)
(* points < mngo_left / rate earn is at most mngo_left.                     *)
PeriodBudget == lmi.mngo_left \in 0 .. lmi.mngo_per_period

(* Every MNGO that periods made available is accrued by an account that is  *)
(* open, was redeemed, or is left in the period: none is paid twice by      *)
(* convert_points and none is lost with a closed account.                   *)
EmissionExact ==
  SumFunction([a \in Active |-> account[a].mngo_accrued]) + vault.mngo + lmi.mngo_left = allotted

(* The group's books are about the accounts that are open.  The bank's      *)
(* totals and the MSRM vault are what these (and the lender) hold: closing  *)
(* leaves no balance behind, not even a fraction of a native unit, which is *)
(* what resolve_dust is for.  And num_mango_accounts is the number of       *)
(* version 1 accounts, though init_mango_account and create_dust_account    *)
(* count nothing: were it too small, the checked_sub(1).unwrap() of         *)
(* close_mango_account would panic.                                         *)
NothingStranded ==
  /\ bank[Mngo].deposits = SumFunction([a \in Active \cup {lender} |-> ma[a].deposits[Mngo]])
  /\ bank[Mngo].borrows = SumFunction([a \in Active \cup {lender} |-> ma[a].borrows[Mngo]])
  /\ vault.msrm = SumFunction([a \in Active |-> account[a].msrm_amount])
  /\ group.num_mango_accounts = Cardinality({a \in Active : account[a].version = 1})

(* The maker of every queued fill and of every resting order can be loaded, *)
(* so consume_events is never stuck on a maker whose account was closed in  *)
(* the meantime: what is on the book or in the queue counts as open.        *)
MakersExist ==
  /\ \A o \in orders : o.owner \in Active
  /\ \A i \in 1 .. Len(events) : events[i].maker.owner \in Active

(* An account that an instruction initialises holds nothing and obeys no    *)
(* delegate, though init_mango_account does not clear the data: another     *)
(* instruction of the same transaction may have closed the account before.  *)
FreshStart ==
  [][\A a \in Keys : ~account[a].is_initialized /\ account'[a].is_initialized =>
       /\ account'[a].delegate = NoKey
       /\ account'[a].msrm_amount = 0 /\ account'[a].mngo_accrued = 0 /\ account'[a].open = 0
       /\ ma'[a].deposits[Mngo] = 0 /\ ma'[a].borrows[Mngo] = 0]_vars
=============================================================================
