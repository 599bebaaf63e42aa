------------------------------- MODULE Margin -------------------------------
(***************************************************************************)
(* Cross-margined accounts: deposits and borrows of two tokens, a position *)
(* in one perp market, health, settlement, liquidation and bankruptcy.     *)
(* One action is one instruction.                                          *)
(*                                                                         *)
(* Base is the token, the spot market and the perp market of one oracle;   *)
(* Quote is the quote currency, whose price is one.  Accounts have no open *)
(* orders here, on Serum or on the perp book: liquidation requires that    *)
(* perp orders are gone, and module PerpMarket has those.  Positions are   *)
(* opened by trades, so a run starts with some.                            *)
(***************************************************************************)
EXTENDS Bank, FiniteSets, Functions

CONSTANTS
  Accounts, Base, Quote,
  Spot, Perp,       \* SpotMarketInfo and PerpMarketInfo: init and maint weights, fee
  DustThreshold,    \* DUST_THRESHOLD, in indexed units
  ValidInterval,    \* twice the valid_interval of the group
  All,              \* u64::MAX as the quantity of a withdrawal
  \* inputs and bounds of a run
  Starts,           \* states of the program to start from
  Prices,           \* what the oracle may say
  DepositQuantities, WithdrawQuantities, AllowBorrow,
  LiabTransfers, BaseTransfers,
  MaxMoves,         \* deposits, withdrawals and new prices
  MaxTime

VARIABLES
  ma,         \* [account -> MangoAccount]
  bank,       \* [token -> RootBank, NodeBank and vault]
  market,     \* PerpMarket
  cache,      \* MangoCache: bank, price and perp
  funds,      \* token accounts outside the banks: wallets, insurance, fees
  mode,       \* market modes of Base: spot and perp
  moves,      \* counts towards MaxMoves
  now

vars == <<ma, bank, market, cache, funds, mode, moves, now>>

Tokens == {Base, Quote}

(* What a start has in common with every state in which the program is used: *)
(* its records, and books that are in order.                                 *)
MarketWeights ==
  [init : [asset : Int, liab : Int], maint : [asset : Int, liab : Int], fee : Int]

StartSet ==
  [ma : [Accounts ->
     [deposits : [Tokens -> Int], borrows : [Tokens -> Int],
      base_position : Int, quote_position : Int,
      long_settled_funding : Int, short_settled_funding : Int,
      being_liquidated : BOOLEAN, is_bankrupt : {FALSE}]],
   bank : [Tokens ->
     [deposits : Int, borrows : Int, deposit_index : Int, borrow_index : Nat,
      last_updated : Int, vault : Int]],
   market : [open_interest : Int, fees_accrued : Nat, long_funding : Int, short_funding : Int],
   price : Nat \ {0},
   funds : [wallet : [Accounts -> [Tokens -> Int]], insurance : Nat, fees : Int],
   mode : [spot : STRING, perp : STRING],
   moves : Nat, now : Int]

InOrder(s) ==
  /\ \A t \in Tokens :
       /\ s.bank[t].deposits = SumFunction([a \in Accounts |-> s.ma[a].deposits[t]])
       /\ s.bank[t].borrows = SumFunction([a \in Accounts |-> s.ma[a].borrows[t]])
  /\ SumFunction([a \in Accounts |-> s.ma[a].base_position]) = 0
  /\ SumFunction([a \in Accounts |-> Magnitude(s.ma[a].base_position)]) = s.market.open_interest

ASSUME MarginAssumption ==
  /\ IsFiniteSet(Accounts) /\ Base # Quote
  /\ Spot \in MarketWeights /\ Perp \in MarketWeights
  /\ \A s \in Starts : s \in StartSet /\ InOrder(s)

(* The admin sets the fees; a liquidator never gets a liability for nothing. *)
ASSUME FeeAssumption == Spot.fee \in 0 .. One - 1

ASSUME InputAssumption ==
  /\ Prices \subseteq Nat \ {0}
  /\ DepositQuantities \subseteq Nat /\ WithdrawQuantities \ {All} \subseteq Nat
  /\ LiabTransfers \subseteq Nat /\ BaseTransfers \subseteq Int

is_reduce_only(m) == m \in {"CloseOnly", "ForceCloseOnly"}

PerpMarketCache(m, t) ==
  [long_funding |-> m.long_funding, short_funding |-> m.short_funding, last_update |-> t]

Init ==
  \E s \in Starts :
    /\ ma = s.ma
    /\ bank = s.bank
    /\ market = s.market
    /\ cache = [bank |-> [t \in Tokens |-> RootBankCache(s.bank[t], s.now)],
                price |-> [price |-> s.price, last_update |-> s.now],
                perp |-> PerpMarketCache(s.market, s.now)]
    /\ funds = s.funds
    /\ mode = s.mode
    /\ moves = s.moves
    /\ now = s.now

(* What an instruction works on, and its end: all of it or nothing. *)
Work == [ma |-> ma, bank |-> bank, market |-> market, cache |-> cache, funds |-> funds,
         ok |-> TRUE]

CommitAfter(w, n) ==
  /\ w.ok
  /\ ma' = w.ma
  /\ bank' = w.bank
  /\ market' = w.market
  /\ cache' = w.cache
  /\ funds' = w.funds
  /\ moves + n <= MaxMoves
  /\ moves' = moves + n
  /\ UNCHANGED <<mode, now>>

Commit(w) == CommitAfter(w, 0)

Require(w, condition) == [w EXCEPT !.ok = @ /\ condition]

-----------------------------------------------------------------------------
(* Health *)

get_price(w, t) == IF t = Quote THEN One ELSE w.cache.price.price

get_net(w, a, t) ==
  CASE w.ma[a].deposits[t] > 0 -> native_deposit(w, a, t)
    [] w.ma[a].borrows[t] > 0 -> -native_borrow(w, a, t)
    [] OTHER -> 0

(* The funding a position owes since it was last settled. *)
Funding(acc, c) ==
  CASE acc.base_position > 0 -> (c.long_funding - acc.long_settled_funding) * acc.base_position
    [] acc.base_position < 0 -> (c.short_funding - acc.short_settled_funding) * acc.base_position
    [] OTHER -> 0

get_quote_position(acc, c) == acc.quote_position - Funding(acc, c)

Settled(acc, c) ==
  [acc EXCEPT !.quote_position = get_quote_position(acc, c),
              !.long_settled_funding = c.long_funding,
              !.short_settled_funding = c.short_funding]

settle_funding(w, a) == [w EXCEPT !.ma[a] = Settled(@, w.cache.perp)]

Weighted(value, weight) == Mul(value, IF value < 0 THEN weight.liab ELSE weight.asset)

(* Without open orders the two simulations of get_val are the same. *)
get_spot_val(w, a) == Mul(get_net(w, a, Base), get_price(w, Base))
get_val(w, a) == w.ma[a].base_position * get_price(w, Base)

(* type is "init" or "maint" *)
get_health(w, a, type) ==
  get_net(w, a, Quote)
  + Weighted(get_spot_val(w, a), Spot[type])
  + Weighted(get_val(w, a), Perp[type]) + get_quote_position(w.ma[a], w.cache.perp)

-----------------------------------------------------------------------------
(* Validity of the cache for the assets the accounts hold or will hold *)

Fresh(entry) == entry.last_update >= now - ValidInterval

ActiveSpot(a) == ma[a].deposits[Base] # 0 \/ ma[a].borrows[Base] # 0
ActivePerp(a) == ma[a].base_position # 0 \/ ma[a].quote_position # 0

check_valid(accounts, spot, perp) ==
  LET s == spot \/ \E a \in accounts : ActiveSpot(a)
      p == perp \/ \E a \in accounts : ActivePerp(a)
  IN  /\ s \/ p => Fresh(cache.price)
      /\ s => Fresh(cache.bank[Base])
      /\ p => Fresh(cache.perp)
      /\ Fresh(cache.bank[Quote])

-----------------------------------------------------------------------------
(* Deposits and withdrawals *)

(* New indexes of a bank are cached as well. *)
Reindexed(w, t, b) == [w EXCEPT !.bank[t] = b, !.cache.bank[t] = RootBankCache(b, now)]

(* The indexes are brought up to date before the deposit. *)
deposit(a, t, q) ==
  LET w0 == Reindexed(Work, t, update_index(bank[t], now))
      n == IF t = Base /\ is_reduce_only(mode.spot)
             THEN Smaller(q, Floor(native_borrow(w0, a, t)))
             ELSE q
      w1 == [w0 EXCEPT !.funds.wallet[a][t] = @ - n, !.ok = @ /\ funds.wallet[a][t] >= n]
  IN  /\ ~ma[a].is_bankrupt
      /\ CommitAfter(checked_change_net(VaultTransfer(w1, t, n), a, t, n * One), 1)

(* What a withdrawal of n units leaves; withdraw2 is the same with the open *)
(* orders accounts packed.                                                  *)
withdraw2(a, t, n) ==
  LET w == checked_change_net(Work, a, t, -(n * One))
  IN  Require([VaultTransfer(w, t, -n) EXCEPT !.funds.wallet[a][t] = @ + n,
                                              !.ma[a].being_liquidated = FALSE],
              get_health(w, a, "init") >= 0)

(* Unlike a deposit, a withdrawal uses the indexes as they are cached. *)
withdraw(a, t, q, allow_borrow) ==
  LET held == native_deposit(Work, a, t)
      n == IF q = All THEN Floor(held) ELSE q
  IN  /\ ~ma[a].is_bankrupt
      /\ ~(t = Base /\ is_reduce_only(mode.spot) /\ allow_borrow)
      /\ q = All => ~allow_borrow
      /\ check_valid({a}, t = Base, FALSE)
      /\ held >= n * One \/ allow_borrow
      /\ CommitAfter(withdraw2(a, t, n), 1)

-----------------------------------------------------------------------------
(* Keepers *)

update_root_bank(t) == Commit(Reindexed(Work, t, update_index(bank[t], now)))

cache_root_banks(ts) ==
  Commit([Work EXCEPT !.cache.bank =
            [t \in Tokens |-> IF t \in ts THEN RootBankCache(bank[t], now) ELSE @[t]]])

cache_prices(p) ==
  CommitAfter([Work EXCEPT !.cache.price = [price |-> p, last_update |-> now]],
              IF p = cache.price.price THEN 0 ELSE 1)

cache_perp_markets ==
  Commit([Work EXCEPT !.cache.perp = PerpMarketCache(market, now)])

-----------------------------------------------------------------------------
(* Settlement of perp profits, losses and fees *)

AddQuote(w, a, q) == [w EXCEPT !.ma[a].quote_position = @ + q]

transfer_quote_position(w, a, b, q) == AddQuote(AddQuote(w, a, -q), b, q)

SettleValid ==
  Fresh(cache.bank[Quote]) /\ Fresh(cache.price) /\ Fresh(cache.perp)

Pnl(w, a) == w.ma[a].quote_position + w.ma[a].base_position * w.cache.price.price

(* Without opposite results nothing is settled but the funding. *)
settle_pnl(a, b) ==
  LET w == settle_funding(settle_funding(Work, a), b)
      a_pnl == Pnl(w, a)
      b_pnl == Pnl(w, b)
      settlement == Smaller(Magnitude(a_pnl), Magnitude(b_pnl))
      a_settle == IF a_pnl > 0 THEN settlement ELSE -settlement
  IN  /\ ~ma[a].is_bankrupt /\ ~ma[b].is_bankrupt
      /\ SettleValid
      /\ IF a_pnl * b_pnl < 0
           THEN Commit(transfer_token_internal(transfer_quote_position(w, a, b, a_settle),
                                               b, a, Quote, a_settle))
           ELSE Commit(w)

settle_fees(a) ==
  LET w == settle_funding(Work, a)
      pnl == Pnl(w, a)
      fees == market.fees_accrued
      settlement == Floor(Smaller(Magnitude(pnl), fees)) * One
      left == fees - settlement
      dust == IF mode.perp = "ForceCloseOnly" /\ left < One
                THEN Smaller(Magnitude(pnl + settlement), left)
                ELSE 0
      paid == [AddQuote(w, a, settlement + dust) EXCEPT !.market.fees_accrued = left - dust,
                                                        !.funds.fees = @ + Floor(settlement)]
  IN  /\ ~ma[a].is_bankrupt
      /\ SettleValid
      /\ IF pnl < 0 /\ fees > 0
           THEN Commit(checked_change_net(VaultTransfer(paid, Quote, -Floor(settlement)),
                                          a, Quote, -settlement))
           ELSE Commit(w)

(* A faulty form: open interest counts what is bought and not what is sold. *)
change_base_position_Signed(w, a, change) ==
  LET start == w.ma[a].base_position
  IN  [w EXCEPT !.ma[a].base_position = start + change,
                !.market.open_interest = @ + change]

change_base_position(w, a, change) ==
  LET start == w.ma[a].base_position
  IN  [w EXCEPT !.ma[a].base_position = start + change,
                !.market.open_interest = @ + Magnitude(start + change) - Magnitude(start)]

(* Close two opposite positions against each other at the oracle price. *)
force_settle_perp_position(a, b) ==
  LET w == settle_funding(settle_funding(Work, a), b)
      n == Smaller(Magnitude(ma[a].base_position), Magnitude(ma[b].base_position))
      base_settle == IF ma[a].base_position > 0 THEN n ELSE -n
  IN  /\ ~ma[a].is_bankrupt /\ ~ma[b].is_bankrupt
      /\ mode.perp = "ForceCloseOnly"
      /\ ma[a].base_position * ma[b].base_position < 0
      /\ Fresh(cache.price) /\ Fresh(cache.perp)
      /\ Commit(transfer_quote_position(
                  change_base_position(change_base_position(w, a, -base_settle), b, base_settle),
                  a, b, -(base_settle * cache.price.price)))

-----------------------------------------------------------------------------
(* Liquidation *)

(* A faulty form: deposits are not looked at. *)
check_enter_bankruptcy_PerpOnly(acc) ==
  acc.quote_position <= 0 /\ acc.base_position = 0

check_enter_bankruptcy(acc) ==
  /\ \A t \in Tokens : acc.deposits[t] <= DustThreshold
  /\ acc.quote_position <= 0
  /\ acc.base_position = 0

check_exit_bankruptcy(acc) ==
  /\ \A t \in Tokens : acc.borrows[t] <= DustThreshold
  /\ acc.quote_position >= 0
  /\ acc.base_position = 0

(* The test every liquidation starts with, on the state it works on. *)
Liquidatable(w, a) ==
  IF w.ma[a].being_liquidated THEN get_health(w, a, "init") <= 0 ELSE get_health(w, a, "maint") < 0

Recovered(w, a) == w.ma[a].being_liquidated /\ get_health(w, a, "init") > 0

Parties(liqee, liqor) == liqee # liqor /\ ~ma[liqee].is_bankrupt /\ ~ma[liqor].is_bankrupt

(* The end of every liquidation: the liquidator must stay healthy, and the *)
(* account is bankrupt, free again or liquidated further.                  *)
Conclude(w, liqee, liqor) ==
  LET maint == get_health(w, liqee, "maint")
      bankrupt == maint < 0 /\ check_enter_bankruptcy(w.ma[liqee])
      going_on == maint < 0 \/ get_health(w, liqee, "init") < -One
  IN  Require([w EXCEPT !.ma[liqee] = [@ EXCEPT !.is_bankrupt = bankrupt,
                                                !.being_liquidated = going_on]],
              get_health(w, liqor, "init") >= 0)

(* Found healthy again: the instruction ends with the flag cleared. *)
Release(w, liqee) == Commit([w EXCEPT !.ma[liqee].being_liquidated = FALSE])

AssetFee(t) == IF t = Quote THEN One ELSE One + Spot.fee
LiabFee(t) == IF t = Quote THEN One ELSE One - Spot.fee
InitAssetWeight(t) == IF t = Quote THEN One ELSE Spot.init.asset
InitLiabWeight(t) == IF t = Quote THEN One ELSE Spot.init.liab

(* A faulty form: no limit at what brings init health to zero. *)
LiabTransfer_Unlimited(health, max, price, liab, asset, fee) ==
  Smaller(Smaller(liab, max), Div(Mul(Mul(asset, price.asset), fee.liab), Mul(price.liab, fee.asset)))

(* How much of a liability moves: to reach init health zero, all of it,    *)
(* what the liquidator wants, or what the collateral pays for.             *)
LiabTransfer(health, max, price, liab, asset, fee) ==
  LET deficit == Div(-health, Mul(price.liab, fee.liab_weight - Div(Mul(fee.asset_weight, fee.asset), fee.liab)))
      implied == Div(Mul(Mul(asset, price.asset), fee.liab), Mul(price.liab, fee.asset))
  IN  Smaller(Smaller(Smaller(deficit, liab), max), implied)

AssetTransfer(transfer, price, fee) ==
  Div(Mul(Mul(transfer, price.liab), fee.asset), Mul(fee.liab, price.asset))

liquidate_token_and_token(liqee, liqor, asset, liab, max) ==
  LET price == [asset |-> get_price(Work, asset), liab |-> get_price(Work, liab)]
      fee == [asset |-> AssetFee(asset), liab |-> LiabFee(liab),
              asset_weight |-> InitAssetWeight(asset), liab_weight |-> InitLiabWeight(liab)]
      liab_transfer == LiabTransfer(get_health(Work, liqee, "init"), max, price,
                                    native_borrow(Work, liqee, liab),
                                    native_deposit(Work, liqee, asset), fee)
      asset_transfer == AssetTransfer(liab_transfer, price, fee)
      w1 == checked_change_net(Work, liqee, liab, liab_transfer)
      w2 == checked_change_net(w1, liqor, liab, -liab_transfer)
      w3 == checked_change_net(w2, liqor, asset, asset_transfer)
      w4 == checked_change_net(w3, liqee, asset, -asset_transfer)
  IN  /\ Parties(liqee, liqor)
      /\ asset # liab
      /\ check_valid({liqee, liqor}, TRUE, FALSE)
      /\ Liquidatable(Work, liqee)
      /\ ma[liqee].deposits[asset] > 0
      /\ ma[liqee].borrows[liab] > 0
      /\ Commit(Conclude(w4, liqee, liqor))

(* A token deposit pays for a negative quote position. *)
liquidate_token_for_perp(liqee, liqor, asset, max) ==
  LET price == [asset |-> get_price(Work, asset), liab |-> One]
      fee == [asset |-> AssetFee(asset), liab |-> One,
              asset_weight |-> InitAssetWeight(asset), liab_weight |-> One]
      owed == -ma[liqee].quote_position
      held == native_deposit(Work, liqee, asset)
      \* with quote as the asset the health does not change
      liab_transfer == IF asset = Quote
                         THEN Smaller(Smaller(held, owed), max)
                         ELSE LiabTransfer(get_health(Work, liqee, "init"), max, price, owed, held, fee)
      w == transfer_quote_position(Work, liqee, liqor, -liab_transfer)
  IN  /\ Parties(liqee, liqor)
      /\ check_valid({liqee, liqor}, asset = Base, TRUE)
      /\ Liquidatable(Work, liqee)
      /\ ma[liqee].deposits[asset] > 0
      /\ ma[liqee].base_position = 0
      /\ owed > 0
      /\ Commit(Conclude(transfer_token_internal(w, liqee, liqor, asset,
                                                 AssetTransfer(liab_transfer, price, fee)),
                         liqee, liqor))

(* A positive quote position pays for a token borrow. *)
liquidate_perp_for_token(liqee, liqor, liab, max) ==
  LET price == [asset |-> One, liab |-> get_price(Work, liab)]
      fee == [asset |-> One, liab |-> LiabFee(liab),
              asset_weight |-> One, liab_weight |-> InitLiabWeight(liab)]
      owed == native_borrow(Work, liqee, liab)
      held == ma[liqee].quote_position
      liab_transfer == IF liab = Quote
                         THEN Smaller(Smaller(held, owed), max)
                         ELSE LiabTransfer(get_health(Work, liqee, "init"), max, price, owed, held, fee)
      w == transfer_token_internal(Work, liqor, liqee, liab, liab_transfer)
  IN  /\ Parties(liqee, liqor)
      /\ check_valid({liqee, liqor}, liab = Base, TRUE)
      /\ Liquidatable(Work, liqee)
      /\ ma[liqee].borrows[liab] > 0
      /\ ma[liqee].base_position = 0
      /\ held > 0
      /\ Commit(Conclude(transfer_quote_position(w, liqee, liqor,
                                                 AssetTransfer(liab_transfer, price, fee)),
                         liqee, liqor))

(* Part of the position moves at the oracle price less the fee.  The funding *)
(* of both is settled first, also when the account turns out to be healthy.  *)
liquidate_perp_market(liqee, liqor, request) ==
  LET w == settle_funding(settle_funding(Work, liqee), liqor)
      position == ma[liqee].base_position
      price == cache.price.price
      init_health == get_health(w, liqee, "init")
      base_transfer ==
        IF position > 0
          THEN Smaller(Smaller(Ceil(Div(-init_health, Mul(price, One - Perp.init.asset - Perp.fee))),
                               request), position)
          ELSE Larger(Larger(Floor(Div(-init_health, Mul(price, One - Perp.init.liab + Perp.fee))),
                             request), position)
      quote_transfer == Mul(-(base_transfer * price),
                            IF position > 0 THEN One - Perp.fee ELSE One + Perp.fee)
      moved == change_base_position(change_base_position(w, liqee, -base_transfer),
                                    liqor, base_transfer)
  IN  /\ Parties(liqee, liqor)
      /\ check_valid({liqee, liqor}, FALSE, TRUE)
      /\ \/ Recovered(w, liqee) /\ Release(w, liqee)
         \/ /\ Liquidatable(w, liqee)
            /\ IF position > 0 THEN request > 0 ELSE request < 0
            /\ Commit(Conclude(transfer_quote_position(moved, liqee, liqor, quote_transfer),
                               liqee, liqor))

(* liquidate_token_and_token and liquidate_token_and_perp on an account     *)
(* that has recovered                                                       *)
liquidate_recovered(liqee, liqor) ==
  /\ Parties(liqee, liqor)
  /\ \E token \in BOOLEAN : check_valid({liqee, liqor}, token, ~token)
  /\ Recovered(Work, liqee)
  /\ Release(Work, liqee)

-----------------------------------------------------------------------------
(* Bankruptcy *)

(* A faulty form: a loss with nobody to pay it divides by zero. *)
PerpSocialize_NoOpenInterest(w, a) ==
  LET loss == Div(w.ma[a].quote_position, w.market.open_interest * One)
      m == [w.market EXCEPT !.long_funding = @ - loss, !.short_funding = @ + loss]
  IN  Nonzero([w EXCEPT !.ma[a].quote_position = 0,
                        !.market = m,
                        !.cache.perp.long_funding = m.long_funding,
                        !.cache.perp.short_funding = m.short_funding],
              w.market.open_interest)

(* A faulty form: only longs pay. *)
PerpSocialize_LongsOnly(w, a) ==
  LET loss == IF w.market.open_interest = 0 THEN 0
                ELSE Div(w.ma[a].quote_position, w.market.open_interest * One)
      m == [w.market EXCEPT !.long_funding = @ - loss]
  IN  [w EXCEPT !.ma[a].quote_position = 0,
                !.market = m,
                !.cache.perp = [@ EXCEPT !.long_funding = m.long_funding,
                                         !.short_funding = m.short_funding]]

(* PerpMarket::socialize_loss: both sides pay through funding.  With no open *)
(* interest nobody does, and the loss falls on whoever settles last.         *)
PerpSocialize(w, a) ==
  LET loss == IF w.market.open_interest = 0 THEN 0
                ELSE Div(w.ma[a].quote_position, w.market.open_interest * One)
      m == [w.market EXCEPT !.long_funding = @ - loss, !.short_funding = @ + loss]
  IN  [w EXCEPT !.ma[a].quote_position = 0,
                !.market = m,
                !.cache.perp = [@ EXCEPT !.long_funding = m.long_funding,
                                         !.short_funding = m.short_funding]]

(* Whole native units, rounded up, as far as the insurance fund goes *)
InsuranceTransfer(q) == Smaller(Ceil(q), funds.insurance)

FromInsurance(w, q) ==
  VaultTransfer([w EXCEPT !.funds.insurance = @ - q], Quote, q)

ExitBankruptcy(w, a) ==
  [w EXCEPT !.ma[a].is_bankrupt = ~check_exit_bankruptcy(w.ma[a])]

(* The liquidator takes over part of a negative quote position and is paid *)
(* from the insurance fund; once that is empty the rest is socialized.     *)
PerpBankruptcy(liqee, liqor, max) ==
  LET q == InsuranceTransfer(Smaller(max, -ma[liqee].quote_position))
      paid == checked_change_net(
                transfer_quote_position(FromInsurance(Work, q), liqee, liqor, -(q * One)),
                liqor, Quote, q * One)
      insured == IF q = 0 THEN Work ELSE Require(paid, get_health(paid, liqor, "init") >= 0)
      w == IF q = funds.insurance /\ insured.ma[liqee].quote_position < 0
             THEN PerpSocialize(insured, liqee) ELSE insured
  IN  ExitBankruptcy(w, liqee)

(* The same for a borrow, which the liquidator pays off in its own token. *)
TokenBankruptcy(liqee, liqor, liab, max) ==
  LET price == get_price(Work, liab)
      fee == LiabFee(liab)
      insured_liabs == Div(Mul(funds.insurance * One, fee), price)
      wanted == Smaller(Smaller(max, native_borrow(Work, liqee, liab)), insured_liabs)
      q == InsuranceTransfer(Div(Mul(wanted, price), fee))
      liab_transfer == Div(Mul(q * One, fee), price)
      paid == transfer_token_internal(
                checked_change_net(FromInsurance(Work, q), liqor, Quote, q * One),
                liqor, liqee, liab, liab_transfer)
      insured == IF q = 0 THEN Work ELSE Require(paid, get_health(paid, liqor, "init") >= 0)
      w == IF q = funds.insurance /\ insured.ma[liqee].borrows[liab] > 0
             THEN socialize_loss(insured, liqee, liab) ELSE insured
  IN  ExitBankruptcy(w, liqee)

Resolver(liqee, liqor) == liqee # liqor /\ ma[liqee].is_bankrupt /\ ~ma[liqor].is_bankrupt

CanResolvePerp(liqee, liqor) ==
  Resolver(liqee, liqor) /\ check_valid({liqor}, FALSE, TRUE) /\ ma[liqee].quote_position < 0

CanResolveToken(liqee, liqor, liab) ==
  Resolver(liqee, liqor) /\ check_valid({liqor}, liab = Base, FALSE) /\ ma[liqee].borrows[liab] > 0

resolve_perp_bankruptcy(liqee, liqor, max) ==
  CanResolvePerp(liqee, liqor) /\ Commit(PerpBankruptcy(liqee, liqor, max))

resolve_token_bankruptcy(liqee, liqor, liab, max) ==
  CanResolveToken(liqee, liqor, liab) /\ Commit(TokenBankruptcy(liqee, liqor, liab, max))

(* Some resolution of the bankruptcy would succeed. *)
Resolvable(liqee) ==
  \E liqor \in Accounts, max \in LiabTransfers :
    \/ CanResolvePerp(liqee, liqor) /\ PerpBankruptcy(liqee, liqor, max).ok
    \/ \E t \in Tokens :
         CanResolveToken(liqee, liqor, t) /\ TokenBankruptcy(liqee, liqor, t, max).ok

-----------------------------------------------------------------------------
Tick ==
  /\ now < MaxTime
  /\ now' = now + 1
  /\ UNCHANGED <<ma, bank, market, cache, funds, mode, moves>>

Resolve(liqee, liqor) ==
  \E max \in LiabTransfers :
    \/ resolve_perp_bankruptcy(liqee, liqor, max)
    \/ \E t \in Tokens : resolve_token_bankruptcy(liqee, liqor, t, max)

Liquidate(liqee, liqor) ==
  \/ \E max \in LiabTransfers, t \in Tokens :
       \/ \E u \in Tokens : liquidate_token_and_token(liqee, liqor, t, u, max)
       \/ liquidate_token_for_perp(liqee, liqor, t, max)
       \/ liquidate_perp_for_token(liqee, liqor, t, max)
  \/ \E request \in BaseTransfers : liquidate_perp_market(liqee, liqor, request)

Next ==
  \/ \E a \in Accounts, t \in Tokens :
       \/ \E q \in DepositQuantities : deposit(a, t, q)
       \/ \E q \in WithdrawQuantities, b \in AllowBorrow : withdraw(a, t, q, b)
  \/ \E t \in Tokens : update_root_bank(t)
  \/ \E ts \in SUBSET Tokens : cache_root_banks(ts)
  \/ \E p \in Prices : cache_prices(p)
  \/ cache_perp_markets
  \/ \E a, b \in Accounts : a # b /\ (settle_pnl(a, b) \/ force_settle_perp_position(a, b))
  \/ \E a \in Accounts : settle_fees(a)
  \/ \E a, b \in Accounts : Liquidate(a, b) \/ liquidate_recovered(a, b) \/ Resolve(a, b)
  \/ Tick

Spec == Init /\ [][Next]_vars

Refresh ==
  \/ cache_root_banks(Tokens)
  \/ \E p \in Prices : cache_prices(p)
  \/ cache_perp_markets

(* Keepers refresh the cache, and liquidators resolve the bankruptcies they *)
(* can: weak fairness of Resolve, with its enabling condition written out.  *)
FairSpec ==
  /\ Spec
  /\ WF_vars(Refresh)
  /\ \/ []<>(\A a \in Accounts : ~Resolvable(a))
     \/ []<><<\E a, b \in Accounts : Resolve(a, b)>>_vars

-----------------------------------------------------------------------------
(* The totals a node bank keeps are the sums over all accounts, whatever   *)
(* mixture of deposits, settlements, liquidations and write-offs came      *)
(* before: interest and losses are computed from these totals alone.       *)
BanksBalance ==
  \A t \in Tokens :
    /\ bank[t].deposits = SumFunction([a \in Accounts |-> ma[a].deposits[t]])
    /\ bank[t].borrows = SumFunction([a \in Accounts |-> ma[a].borrows[t]])

(* The cached indexes never differ from those of the root bank: only their *)
(* time stamp can be stale.  Every instruction that changes an index also  *)
(* changes the cache, so that no balance is converted with an index from   *)
(* before a socialized loss.                                               *)
CacheCurrent ==
  \A t \in Tokens :
    /\ cache.bank[t].deposit_index = bank[t].deposit_index
    /\ cache.bank[t].borrow_index = bank[t].borrow_index

(* What the vault and the borrowers have over what the lenders are owed,   *)
(* in square ulps, and what one instruction may lose of it by rounding.    *)
Surplus(b) == b.vault * One * One + b.borrows * b.borrow_index - b.deposits * b.deposit_index

Rounding(b) ==
  b.deposits + b.borrows + Mul(b.deposits, Magnitude(b.deposit_index))
    + 2 * (Magnitude(b.deposit_index) + b.borrow_index + One)

(* Lenders stay covered: no instruction creates a claim on a bank without  *)
(* tokens or borrows behind it, but for rounding.  Interest is earned only *)
(* on what is lent out, and a written-off borrow is taken off the lenders. *)
LendersCovered == [][\A t \in Tokens : Surplus(bank'[t]) >= Surplus(bank[t]) - Rounding(bank[t])]_vars

(* Only an account with nothing left to take is bankrupt, from the         *)
(* liquidation that declares it to the instruction that ends it: no        *)
(* position, less than a unit of quote to its credit, and deposits of      *)
(* dust.  A resolution pays in whole units of quote, rounded up: what it   *)
(* pays beyond the borrow is worth less than one unit.                     *)
BankruptOnlyDust ==
  [][\A a \in Accounts : ma'[a].is_bankrupt =>
       /\ ma'[a].base_position = 0
       /\ ma'[a].quote_position < One
       /\ \A t \in Tokens :
            \/ ma'[a].deposits[t] <= DustThreshold
            \/ /\ ma[a].is_bankrupt
               /\ LET gain == ma'[a].deposits[t] - ma[a].deposits[t]
                  IN  gain * cache.bank[t].deposit_index * get_price(Work, t) < One * One * One]_vars

InitHealth(a) == get_health(Work, a, "init")

(* The rounding of a liquidation, in ulps, and the init health one lot of  *)
(* a position, which is not divided, can bring above zero.                 *)
Ulps == 4
Lot(a) ==
  CASE ma[a].base_position > 0 -> Mul(cache.price.price, One - Perp.init.asset - Perp.fee)
    [] ma[a].base_position < 0 -> Mul(cache.price.price, Perp.init.liab - Perp.fee - One)
    [] OTHER -> 0

(* A liquidation does not make the account it is applied to less healthy,  *)
(* and takes no more than what brings init health to zero, or to the next  *)
(* lot.                                                                    *)
LiquidationExact ==
  [][\A a \in Accounts :
       /\ moves' = moves /\ cache' = cache /\ ma'[a] # ma[a]
       /\ Liquidatable(Work, a)
       /\ \E b \in Accounts \ {a} : ma'[b] # ma[b] /\ Liquidate(a, b)
       => /\ InitHealth(a)' >= InitHealth(a) - Ulps
          /\ InitHealth(a)' <= Ulps + IF ma'[a].base_position = ma[a].base_position THEN 0 ELSE Lot(a)]_vars

(* What all accounts have won or lost on the perp market, the funding they *)
(* have not settled yet included, and the fees taken from it. *)
Claims ==
  market.fees_accrued
  + SumFunction([a \in Accounts |-> get_quote_position(ma[a], cache.perp)])

(* A loss on the perp market never disappears while others hold positions: *)
(* settlement, liquidation and bankruptcy only move it, and a socialized   *)
(* loss is charged to all open positions, to an ulp each.  With no open    *)
(* interest it is dropped, which can only raise the sum of all claims.     *)
ClaimsKept ==
  [][/\ Claims' >= Claims
     /\ market.open_interest # 0 => Claims' < Claims + market.open_interest]_vars

(* Longs and shorts match, and open interest counts both: the divisor of   *)
(* every socialized loss.  Fees are never settled below zero.              *)
PositionsExact ==
  /\ SumFunction([a \in Accounts |-> ma[a].base_position]) = 0
  /\ SumFunction([a \in Accounts |-> Magnitude(ma[a].base_position)]) = market.open_interest
  /\ market.fees_accrued >= 0

(* A bankruptcy comes to an end: with fresh caches somebody can resolve it, *)
(* also when the insurance fund is empty and when there are no positions to *)
(* share the loss, and enough resolutions clear the flag.                   *)
BankruptcyEnds == \A a \in Accounts : ma[a].is_bankrupt ~> ~ma[a].is_bankrupt
=============================================================================
