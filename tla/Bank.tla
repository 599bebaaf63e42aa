-------------------------------- MODULE Bank --------------------------------
(***************************************************************************)
(* Lending in fixed-point numbers.  An I80F48 is an integer count of ulps, *)
(* One of them to the unit.  The bank of a token is its RootBank, its one  *)
(* NodeBank (RootBank allows several, since v3.5 there is one) and its     *)
(* vault:                                                                  *)
(*   deposits, borrows   indexed totals of all accounts                    *)
(*   deposit_index, borrow_index   what an indexed unit is worth           *)
(*   last_updated, vault                                                   *)
(*                                                                         *)
(* The operators work on a record with the accounts (ma), the banks, the   *)
(* cache and a flag ok, which turns false where the code returns an error  *)
(* or panics.                                                              *)
(***************************************************************************)
EXTENDS Integers

CONSTANTS
  One,                              \* 2^48
  OptimalUtil, OptimalRate, MaxRate \* rates are for one unit of time

ASSUME RateAssumption ==
  /\ One \in Nat \ {0}
  /\ OptimalUtil \in 1 .. One - 1
  /\ OptimalRate \in Nat
  /\ MaxRate \in Nat

Smaller(x, y) == IF x <= y THEN x ELSE y
Larger(x, y) == IF x >= y THEN x ELSE y
Magnitude(x) == IF x < 0 THEN -x ELSE x

(* The product rounds down. *)
Mul(x, y) == (x * y) \div One

(* The quotient rounds to zero.  A quotient by zero panics; whoever divides *)
(* by something that can be zero says so with ok.                           *)
Div(x, y) ==
  LET q == IF y = 0 THEN 0 ELSE (Magnitude(x) * One) \div Magnitude(y)
  IN  IF (x < 0) # (y < 0) THEN -q ELSE q

Floor(x) == x \div One
Ceil(x) == -((-x) \div One)

-----------------------------------------------------------------------------
(* Interest *)

compute_interest_rate(util) ==
  IF util > OptimalUtil
    THEN OptimalRate + Mul(Div(MaxRate - OptimalRate, One - OptimalUtil), util - OptimalUtil)
    ELSE Mul(Div(OptimalRate, OptimalUtil), util)

(* A faulty form: lenders earn the whole rate, whatever is lent out. *)
update_index_WholeRate(b, now) ==
  LET native_deposits == Mul(b.deposits, b.deposit_index)
      utilization == Div(Mul(b.borrows, b.borrow_index), native_deposits)
      interest == compute_interest_rate(utilization) * (now - b.last_updated)
  IN  IF interest <= 0
        THEN [b EXCEPT !.last_updated = now]
        ELSE [b EXCEPT !.last_updated = now,
                       !.borrow_index = @ + Mul(@, interest),
                       !.deposit_index = @ + Mul(@, interest)]

(* RootBank::update_index_without_banks *)
update_index(b, now) ==
  LET native_deposits == Mul(b.deposits, b.deposit_index)
      utilization == Div(Mul(b.borrows, b.borrow_index), native_deposits)
      borrow_interest == compute_interest_rate(utilization) * (now - b.last_updated)
      deposit_interest == Mul(borrow_interest, utilization)
  IN  IF borrow_interest <= 0 \/ deposit_interest <= 0
        THEN [b EXCEPT !.last_updated = now]
        ELSE [b EXCEPT !.last_updated = now,
                       !.borrow_index = @ + Mul(@, borrow_interest),
                       !.deposit_index = @ + Mul(@, deposit_interest)]

RootBankCache(b, now) ==
  [deposit_index |-> b.deposit_index, borrow_index |-> b.borrow_index, last_update |-> now]

-----------------------------------------------------------------------------
(* Changing the net balance of account a in token t.  Quantities are native *)
(* amounts in ulps and are converted with the indexes of the cache.         *)

native_deposit(w, a, t) == Mul(w.ma[a].deposits[t], w.cache.bank[t].deposit_index)
native_borrow(w, a, t) == Mul(w.ma[a].borrows[t], w.cache.bank[t].borrow_index)

(* An account has a deposit or a borrow of a token, never both. *)
OneSided(deposit, borrow) == deposit >= 0 /\ borrow >= 0 /\ (deposit = 0 \/ borrow = 0)

(* checked_add_deposit, checked_sub_deposit, checked_add_borrow and         *)
(* checked_sub_borrow: the account and the node bank change together.       *)
Adjust(w, a, t, deposit, borrow) ==
  LET acc == [w.ma[a] EXCEPT !.deposits[t] = @ + deposit, !.borrows[t] = @ + borrow]
      node == [w.bank[t] EXCEPT !.deposits = @ + deposit, !.borrows = @ + borrow]
  IN  [w EXCEPT !.ma[a] = acc, !.bank[t] = node,
                !.ok = @ /\ OneSided(acc.deposits[t], acc.borrows[t])]

Nonzero(w, x) == [w EXCEPT !.ok = @ /\ x # 0]

has_valid_deposits_borrows(w, t) ==
  Floor(Mul(w.bank[t].deposits, w.cache.bank[t].deposit_index))
    >= Ceil(Mul(w.bank[t].borrows, w.cache.bank[t].borrow_index))

(* Pay down borrows first, then increase deposits. *)
checked_add_net(w, a, t, q) ==
  LET index == w.cache.bank[t]
      borrows == w.ma[a].borrows[t]
      owed == native_borrow(w, a, t)
  IN  CASE borrows > 0 /\ q < owed ->
             Nonzero(Adjust(w, a, t, 0, -Div(q, index.borrow_index)), index.borrow_index)
        [] borrows > 0 /\ q >= owed ->
             Nonzero(Adjust(Adjust(w, a, t, 0, -borrows),
                            a, t, Div(q - owed, index.deposit_index), 0), index.deposit_index)
        [] OTHER ->
             Nonzero(Adjust(w, a, t, Div(q, index.deposit_index), 0), index.deposit_index)

(* A borrow, of what the bank has. *)
Borrow(w, a, t, q) ==
  LET index == w.cache.bank[t].borrow_index
      v == Nonzero(Adjust(w, a, t, 0, Div(q, index)), index)
  IN  [v EXCEPT !.ok = @ /\ has_valid_deposits_borrows(v, t)]

(* Draw down deposits first, then borrow, and only what the bank has. *)
checked_sub_net(w, a, t, q) ==
  LET index == w.cache.bank[t].deposit_index
      deposits == w.ma[a].deposits[t]
      held == native_deposit(w, a, t)
  IN  CASE deposits > 0 /\ q < held -> Nonzero(Adjust(w, a, t, -Div(q, index), 0), index)
        [] deposits > 0 /\ q >= held -> Borrow(Adjust(w, a, t, -deposits, 0), a, t, q - held)
        [] OTHER -> Borrow(w, a, t, q)

checked_change_net(w, a, t, q) ==
  CASE q > 0 -> checked_add_net(w, a, t, q)
    [] q < 0 -> checked_sub_net(w, a, t, -q)
    [] OTHER -> w

(* The side that gains goes first: the other may need its liquidity. *)
transfer_token_internal(w, src, dst, t, q) ==
  IF q > 0
    THEN checked_change_net(checked_change_net(w, dst, t, q), src, t, -q)
    ELSE checked_change_net(checked_change_net(w, src, t, -q), dst, t, q)

(* invoke_transfer out of (q < 0) or into the vault, in whole native units *)
VaultTransfer(w, t, q) ==
  [w EXCEPT !.bank[t].vault = @ + q, !.ok = @ /\ w.bank[t].vault + q >= 0]

-----------------------------------------------------------------------------
(* A faulty form: the loss is written off without telling the node bank. *)
socialize_loss_NodeKept(w, a, t) ==
  LET b == w.bank[t]
      loss == w.ma[a].borrows[t]
      native_deposits == Mul(b.deposits, b.deposit_index)
      percentage == Div(Mul(loss, b.borrow_index), native_deposits)
      index == b.deposit_index - Mul(percentage, b.deposit_index)
  IN  Nonzero([w EXCEPT !.ma[a].borrows[t] = 0,
                        !.bank[t].deposit_index = index,
                        !.cache.bank[t].deposit_index = index], native_deposits)

(* A faulty form: the cache keeps the deposit index from before the loss. *)
socialize_loss_CacheKept(w, a, t) ==
  LET b == w.bank[t]
      loss == w.ma[a].borrows[t]
      native_deposits == Mul(b.deposits, b.deposit_index)
      percentage == Div(Mul(loss, b.borrow_index), native_deposits)
      index == b.deposit_index - Mul(percentage, b.deposit_index)
  IN  Nonzero(Adjust([w EXCEPT !.bank[t].deposit_index = index], a, t, 0, -loss), native_deposits)

(* RootBank::socialize_loss: lenders lose in proportion.  There is no error *)
(* for a loss above all deposits, only for a division by no deposits.       *)
socialize_loss(w, a, t) ==
  LET b == w.bank[t]
      loss == w.ma[a].borrows[t]
      native_deposits == Mul(b.deposits, b.deposit_index)
      percentage == Div(Mul(loss, b.borrow_index), native_deposits)
      index == b.deposit_index - Mul(percentage, b.deposit_index)
      shrunk == [w EXCEPT !.bank[t].deposit_index = index,
                          !.cache.bank[t].deposit_index = index]
      node_loss == Smaller(loss, b.borrows)
  IN  Nonzero(Adjust(shrunk, a, t, 0, -node_loss), native_deposits)
=============================================================================
