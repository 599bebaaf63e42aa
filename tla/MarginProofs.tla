---------------------------- MODULE MarginProofs ----------------------------
(***************************************************************************)
(* Proofs for Margin, for any finite set of accounts, any indexes, prices, *)
(* weights and quantities.                                                 *)
(*                                                                         *)
(* An instruction is a chain of operators on a working record.  Moved says *)
(* what a piece of such a chain leaves in order: the books of the banks    *)
(* (from BankProofs), the cached indexes and funding, open interest, and   *)
(* by how much the sums of all positions and of all claims shift.  There   *)
(* is one lemma of this form for each operator, and they compose           *)
(* (MovedTwice).  Committed turns the whole chain into a step: the         *)
(* invariant MarginInv holds again, and the step has the form that         *)
(* ClaimsKept and BankruptOnlyDust ask for (Preserved).  Each instruction  *)
(* then has one lemma, and NextStep puts them together.                    *)
(***************************************************************************)
EXTENDS Margin, BankProofs

(* The parts of a working record that instructions read and write. *)
IsTrader(acc) ==
  /\ {"base_position", "quote_position", "long_settled_funding", "short_settled_funding",
      "being_liquidated", "is_bankrupt"} \subseteq DOMAIN acc
  /\ acc.base_position \in Int /\ acc.quote_position \in Int
  /\ acc.long_settled_funding \in Int /\ acc.short_settled_funding \in Int

IsRoot(b) ==
  /\ {"deposit_index", "borrow_index", "last_updated"} \subseteq DOMAIN b
  /\ b.deposit_index \in Int /\ b.borrow_index \in Nat /\ b.last_updated \in Int

IsMarket(m) ==
  /\ {"open_interest", "fees_accrued", "long_funding", "short_funding"} \subseteq DOMAIN m
  /\ m.open_interest \in Int /\ m.fees_accrued \in Nat
  /\ m.long_funding \in Int /\ m.short_funding \in Int

IsCache(c) ==
  /\ {"bank", "price", "perp"} \subseteq DOMAIN c
  /\ DOMAIN c.bank = Tokens
  /\ \A t \in Tokens : {"deposit_index", "borrow_index"} \subseteq DOMAIN c.bank[t]
  /\ c.price.price \in Nat \ {0}
  /\ {"long_funding", "short_funding"} \subseteq DOMAIN c.perp

IsFund(f) == "insurance" \in DOMAIN f /\ f.insurance \in Nat

Parts(w) ==
  /\ {"market", "funds"} \subseteq DOMAIN w
  /\ \A a \in Accounts : IsTrader(w.ma[a])
  /\ \A t \in Tokens : IsRoot(w.bank[t])
  /\ IsMarket(w.market)
  /\ IsCache(w.cache)
  /\ IsFund(w.funds)

(* The cache has the indexes of the banks and the funding of the market. *)
Agree(w) ==
  /\ \A t \in Tokens : /\ w.cache.bank[t].deposit_index = w.bank[t].deposit_index
                       /\ w.cache.bank[t].borrow_index = w.bank[t].borrow_index
  /\ w.cache.perp.long_funding = w.market.long_funding
  /\ w.cache.perp.short_funding = w.market.short_funding

(* What is added up over all accounts besides deposits and borrows. *)
Net(w) == SumFunctionOnSet([a \in Accounts |-> w.ma[a].base_position], Accounts)
Open(w) == SumFunctionOnSet([a \in Accounts |-> Magnitude(w.ma[a].base_position)], Accounts)
Quotes(w) ==
  SumFunctionOnSet([a \in Accounts |-> get_quote_position(w.ma[a], w.cache.perp)], Accounts)
Claim(w) == w.market.fees_accrued + Quotes(w)

Sound(w) ==
  /\ Books(w, Accounts, Tokens)
  /\ Parts(w)
  /\ Agree(w)
  /\ Open(w) = w.market.open_interest

(* v is w after accounts of A were worked on: the books are in order, the  *)
(* positions add up to n more and the claims to c more.                    *)
Shifted(w, v, A, n, c) ==
  /\ Sound(v)
  /\ Net(v) = Net(w) + n
  /\ Claim(v) = Claim(w) + c
  /\ \A x \in Accounts \ A : v.ma[x] = w.ma[x]

(* The same, and no account becomes or ceases to be bankrupt. *)
Moved(w, v, A, n, c) ==
  /\ Shifted(w, v, A, n, c)
  /\ \A x \in Accounts : v.ma[x].is_bankrupt = w.ma[x].is_bankrupt

-----------------------------------------------------------------------------
(* Sums *)

(* What a position has won or lost is an integer. *)
LEMMA QuoteInt ==
  ASSUME NEW acc, IsTrader(acc), NEW c, c.long_funding \in Int, c.short_funding \in Int
  PROVE  get_quote_position(acc, c) \in Int
<1>1. Funding(acc, c) \in Int
  <2>1. (c.long_funding - acc.long_settled_funding) * acc.base_position \in Int
        /\ (c.short_funding - acc.short_settled_funding) * acc.base_position \in Int
    BY DEF IsTrader
  <2> QED BY <2>1 DEF Funding
<1> QED BY <1>1 DEF get_quote_position, IsTrader

(* The funding in the cache is an integer, as the market's is. *)
LEMMA FundingInt ==
  ASSUME NEW w, Parts(w), Agree(w)
  PROVE  w.cache.perp.long_funding \in Int /\ w.cache.perp.short_funding \in Int
BY DEF Parts, Agree, IsMarket

(* The sums are integers, and open interest is not negative. *)
LEMMA SumsInt ==
  ASSUME NEW w, Parts(w), Agree(w)
  PROVE  Net(w) \in Int /\ Open(w) \in Nat /\ Quotes(w) \in Int /\ Claim(w) \in Int
<1>1. IsFiniteSet(Accounts) BY MarginAssumption
<1> DEFINE f == [a \in Accounts |-> w.ma[a].base_position]
           g == [a \in Accounts |-> Magnitude(w.ma[a].base_position)]
           h == [a \in Accounts |-> get_quote_position(w.ma[a], w.cache.perp)]
<1>2. \A a \in Accounts : f[a] \in Int BY DEF Parts, IsTrader
<1>3. \A a \in Accounts : g[a] \in Nat BY DEF Parts, IsTrader, Magnitude
<1>4. \A a \in Accounts : h[a] \in Int BY FundingInt, QuoteInt DEF Parts
<1>5. Net(w) = SumFunctionOnSet(f, Accounts) /\ Open(w) = SumFunctionOnSet(g, Accounts)
      /\ Quotes(w) = SumFunctionOnSet(h, Accounts)
  BY DEF Net, Open, Quotes
<1> HIDE DEF f, g, h
<1>6. Net(w) \in Int BY <1>1, <1>2, <1>5, SumInt
<1>7. Open(w) \in Nat BY <1>1, <1>3, <1>5, SumNat
<1>8. Quotes(w) \in Int BY <1>1, <1>4, <1>5, SumInt
<1>9. w.market.fees_accrued \in Int BY DEF Parts, IsMarket
<1> QED BY <1>6, <1>7, <1>8, <1>9 DEF Claim

(* The sums when one account changes. *)
LEMMA SumsUpdate ==
  ASSUME NEW w, NEW v, Parts(w), Agree(w), Parts(v), v.cache.perp = w.cache.perp,
         NEW a \in Accounts, \A x \in Accounts \ {a} : v.ma[x] = w.ma[x]
  PROVE  /\ Net(v) = Net(w) + (v.ma[a].base_position - w.ma[a].base_position)
         /\ Open(v) = Open(w) + (Magnitude(v.ma[a].base_position) - Magnitude(w.ma[a].base_position))
         /\ Quotes(v) = Quotes(w) + (get_quote_position(v.ma[a], w.cache.perp)
                                       - get_quote_position(w.ma[a], w.cache.perp))
<1>1. IsFiniteSet(Accounts) BY MarginAssumption
<1> DEFINE f == [x \in Accounts |-> w.ma[x].base_position]
           f2 == [x \in Accounts |-> v.ma[x].base_position]
           g == [x \in Accounts |-> Magnitude(w.ma[x].base_position)]
           g2 == [x \in Accounts |-> Magnitude(v.ma[x].base_position)]
           h == [x \in Accounts |-> get_quote_position(w.ma[x], w.cache.perp)]
           h2 == [x \in Accounts |-> get_quote_position(v.ma[x], v.cache.perp)]
<1>2. f \in [Accounts -> Int] /\ f2 \in [Accounts -> Int] BY DEF Parts, IsTrader
<1>3. g \in [Accounts -> Int] /\ g2 \in [Accounts -> Int] BY DEF Parts, IsTrader, Magnitude
<1>4. \A x \in Accounts : h[x] \in Int /\ h2[x] \in Int BY FundingInt, QuoteInt DEF Parts
<1>4a. h \in [Accounts -> Int] /\ h2 \in [Accounts -> Int] BY <1>4
<1>5a. f2 = [f EXCEPT ![a] = f2[a]] OBVIOUS
<1>5b. g2 = [g EXCEPT ![a] = g2[a]] OBVIOUS
<1>5c. h2 = [h EXCEPT ![a] = h2[a]] OBVIOUS
<1>6. /\ Net(w) = SumFunctionOnSet(f, Accounts) /\ Net(v) = SumFunctionOnSet(f2, Accounts)
      /\ Open(w) = SumFunctionOnSet(g, Accounts) /\ Open(v) = SumFunctionOnSet(g2, Accounts)
      /\ Quotes(w) = SumFunctionOnSet(h, Accounts) /\ Quotes(v) = SumFunctionOnSet(h2, Accounts)
  BY DEF Net, Open, Quotes
<1>7. /\ f[a] = w.ma[a].base_position /\ f2[a] = v.ma[a].base_position
      /\ g[a] = Magnitude(w.ma[a].base_position) /\ g2[a] = Magnitude(v.ma[a].base_position)
      /\ h[a] = get_quote_position(w.ma[a], w.cache.perp)
      /\ h2[a] = get_quote_position(v.ma[a], w.cache.perp)
  OBVIOUS
<1> HIDE DEF f, f2, g, g2, h, h2
<1>8. SumFunctionOnSet(f2, Accounts) = SumFunctionOnSet(f, Accounts) + (f2[a] - f[a])
  BY <1>1, <1>2, <1>5a, SumExcept
<1>9. SumFunctionOnSet(g2, Accounts) = SumFunctionOnSet(g, Accounts) + (g2[a] - g[a])
  BY <1>1, <1>3, <1>5b, SumExcept
<1>10. SumFunctionOnSet(h2, Accounts) = SumFunctionOnSet(h, Accounts) + (h2[a] - h[a])
  BY <1>1, <1>4a, <1>5c, SumExcept
<1> QED BY <1>6, <1>7, <1>8, <1>9, <1>10

(* acc2 has the position of acc. *)
SameTrader(acc, acc2) ==
  /\ IsTrader(acc2)
  /\ acc2.base_position = acc.base_position /\ acc2.quote_position = acc.quote_position
  /\ acc2.long_settled_funding = acc.long_settled_funding
  /\ acc2.short_settled_funding = acc.short_settled_funding

(* A change of balances, indexes, vaults, tokens outside and flags moves *)
(* nothing on the perp market.                                           *)
LEMMA SameShifted ==
  ASSUME NEW w, Sound(w), NEW v, Books(v, Accounts, Tokens), Agree(v),
         {"market", "funds"} \subseteq DOMAIN v, v.market = w.market,
         IsCache(v.cache), IsFund(v.funds), \A t \in Tokens : IsRoot(v.bank[t]),
         \A x \in Accounts : SameTrader(w.ma[x], v.ma[x]),
         NEW A, \A x \in Accounts \ A : v.ma[x] = w.ma[x]
  PROVE  Shifted(w, v, A, 0, 0)
<1> USE DEF Sound
<1>1. \A x \in Accounts : IsTrader(v.ma[x]) BY DEF SameTrader
<1>3. Parts(v) BY <1>1 DEF Parts
<1>4. /\ v.cache.perp.long_funding = w.cache.perp.long_funding
      /\ v.cache.perp.short_funding = w.cache.perp.short_funding
  BY DEF Agree
<1>5. \A x \in Accounts : get_quote_position(v.ma[x], v.cache.perp)
                            = get_quote_position(w.ma[x], w.cache.perp)
  BY <1>4 DEF get_quote_position, Funding, SameTrader
<1>6. \A x \in Accounts : v.ma[x].base_position = w.ma[x].base_position BY DEF SameTrader
<1>7. Net(v) = Net(w)
  <2>1. [x \in Accounts |-> v.ma[x].base_position] = [x \in Accounts |-> w.ma[x].base_position]
    BY <1>6
  <2> QED BY <2>1 DEF Net
<1>8. Open(v) = Open(w)
  <2>1. [x \in Accounts |-> Magnitude(v.ma[x].base_position)]
          = [x \in Accounts |-> Magnitude(w.ma[x].base_position)]
    BY <1>6
  <2> QED BY <2>1 DEF Open
<1>9. Quotes(v) = Quotes(w)
  <2>1. [x \in Accounts |-> get_quote_position(v.ma[x], v.cache.perp)]
          = [x \in Accounts |-> get_quote_position(w.ma[x], w.cache.perp)]
    BY <1>5
  <2> QED BY <2>1 DEF Quotes
<1>10. Claim(v) = Claim(w) BY <1>9 DEF Claim
<1>11. Net(w) \in Int /\ Claim(w) \in Int BY SumsInt
<1>12. Sound(v) BY <1>3, <1>8
<1>14. Net(v) = Net(w) + 0 /\ Claim(v) = Claim(w) + 0 BY <1>7, <1>10, <1>11
<1> HIDE DEF Sound
<1> QED BY <1>12, <1>14 DEF Shifted

(* v is w with account a changed by n on the perp market, its claim by c. *)
Traded(w, v, a, n, c) ==
  /\ {"ma", "bank", "cache", "ok", "market", "funds"} \subseteq DOMAIN v
  /\ v.bank = w.bank /\ v.cache = w.cache /\ IsFund(v.funds)
  /\ DOMAIN v.ma = Accounts /\ (\A x \in Accounts \ {a} : v.ma[x] = w.ma[x])
  /\ {"deposits", "borrows"} \subseteq DOMAIN v.ma[a] /\ IsTrader(v.ma[a])
  /\ v.ma[a].deposits = w.ma[a].deposits /\ v.ma[a].borrows = w.ma[a].borrows
  /\ IsMarket(v.market) /\ v.market.long_funding = w.market.long_funding
  /\ v.market.short_funding = w.market.short_funding
  /\ v.ma[a].base_position = w.ma[a].base_position + n
  /\ v.market.open_interest = w.market.open_interest
       + (Magnitude(v.ma[a].base_position) - Magnitude(w.ma[a].base_position))
  /\ (v.market.fees_accrued - w.market.fees_accrued)
       + (get_quote_position(v.ma[a], w.cache.perp)
            - get_quote_position(w.ma[a], w.cache.perp)) = c

(* A change of one account on the perp market, and of the market with it. *)
LEMMA TraderShifted ==
  ASSUME NEW w, Sound(w), NEW v, NEW a \in Accounts, NEW n \in Int, NEW c \in Int,
         Traded(w, v, a, n, c)
  PROVE  Shifted(w, v, {a}, n, c)
<1> USE DEF Traded
<1>1. Books(w, Accounts, Tokens) /\ Parts(w) /\ Agree(w) /\ Open(w) = w.market.open_interest
  BY DEF Sound
<1>2. Shape(v, Accounts, Tokens)
  <2>1. \A x \in Accounts : IsAccount(v.ma[x], Tokens) BY <1>1 DEF Books, Shape, IsAccount
  <2> QED BY <1>1, <2>1 DEF Books, Shape
<1>3. Totals(v, Accounts, Tokens)
  <2>1. ASSUME NEW t \in Tokens
        PROVE  /\ [x \in Accounts |-> v.ma[x].deposits[t]] = [x \in Accounts |-> w.ma[x].deposits[t]]
               /\ [x \in Accounts |-> v.ma[x].borrows[t]] = [x \in Accounts |-> w.ma[x].borrows[t]]
    <3>1. \A x \in Accounts : v.ma[x].deposits = w.ma[x].deposits /\ v.ma[x].borrows = w.ma[x].borrows
      OBVIOUS
    <3> QED BY <3>1
  <2> QED BY <1>1, <2>1 DEF Books, Totals
<1>4. Parts(v)
  <2>1. \A x \in Accounts : IsTrader(v.ma[x]) BY <1>1 DEF Parts
  <2> QED BY <1>1, <2>1 DEF Parts
<1>5. Agree(v) BY <1>1 DEF Agree
<1>6. /\ Net(v) = Net(w) + (v.ma[a].base_position - w.ma[a].base_position)
      /\ Open(v) = Open(w) + (Magnitude(v.ma[a].base_position) - Magnitude(w.ma[a].base_position))
      /\ Quotes(v) = Quotes(w) + (get_quote_position(v.ma[a], w.cache.perp)
                                    - get_quote_position(w.ma[a], w.cache.perp))
  BY <1>1, <1>4, SumsUpdate
<1>7. Net(v) = Net(w) + n
  <2>1. w.ma[a].base_position \in Int BY <1>1 DEF Parts, IsTrader
  <2> QED BY <1>6, <2>1
<1>8. Open(v) = v.market.open_interest BY <1>1, <1>6
<1>9. Claim(v) = Claim(w) + c
  <2> DEFINE x == get_quote_position(v.ma[a], w.cache.perp)
             y == get_quote_position(w.ma[a], w.cache.perp)
  <2>1. /\ w.cache.perp.long_funding \in Int /\ w.cache.perp.short_funding \in Int
    BY <1>1, FundingInt
  <2>2. x \in Int BY <2>1, QuoteInt
  <2>3. y \in Int BY <1>1, <2>1, QuoteInt DEF Parts
  <2>4. v.market.fees_accrued \in Int /\ w.market.fees_accrued \in Int BY <1>1 DEF Parts, IsMarket
  <2>5. Quotes(w) \in Int BY <1>1, SumsInt
  <2>6. Quotes(v) = Quotes(w) + (x - y) BY <1>6
  <2>7. (v.market.fees_accrued - w.market.fees_accrued) + (x - y) = c OBVIOUS
  <2> HIDE DEF x, y
  <2>8. v.market.fees_accrued + (Quotes(w) + (x - y)) = (w.market.fees_accrued + Quotes(w)) + c
    BY <2>2, <2>3, <2>4, <2>5, <2>7
  <2> QED BY <2>6, <2>8 DEF Claim
<1>10. Sound(v) BY <1>2, <1>3, <1>4, <1>5, <1>8 DEF Sound, Books
<1> QED BY <1>7, <1>9, <1>10 DEF Shifted

(* One step after another. *)
LEMMA MovedTwice ==
  ASSUME NEW w, NEW v, NEW u, NEW A, NEW B, NEW C, A \subseteq C, B \subseteq C,
         NEW n \in Int, NEW m \in Int, NEW c \in Int, NEW d \in Int, Sound(w),
         Moved(w, v, A, n, c), Moved(v, u, B, m, d)
  PROVE  Moved(w, u, C, n + m, c + d)
<1>1. Net(w) \in Int /\ Claim(w) \in Int BY SumsInt DEF Sound
<1>2. Net(u) = Net(w) + (n + m) /\ Claim(u) = Claim(w) + (c + d) BY <1>1 DEF Moved, Shifted
<1> QED BY <1>2 DEF Moved, Shifted

(* Steps that move nothing, one after another. *)
LEMMA StillTwice ==
  ASSUME NEW w, NEW v, NEW u, NEW A, NEW B, NEW C, A \subseteq C, B \subseteq C, Sound(w),
         Moved(w, v, A, 0, 0), Moved(v, u, B, 0, 0)
  PROVE  Moved(w, u, C, 0, 0)
<1>1. Moved(w, u, C, 0 + 0, 0 + 0) BY MovedTwice
<1> QED BY <1>1

(* Doing nothing. *)
LEMMA MovedNot ==
  ASSUME NEW w, Sound(w), NEW A PROVE Moved(w, w, A, 0, 0)
<1>1. Net(w) \in Int /\ Claim(w) \in Int BY SumsInt DEF Sound
<1> QED BY <1>1 DEF Moved, Shifted

-----------------------------------------------------------------------------
(* What the operators move *)

(* A working record has these fields. *)
LEMMA Fields ==
  ASSUME NEW w, Sound(w)
  PROVE  /\ {"ma", "bank", "cache", "ok", "market", "funds"} \subseteq DOMAIN w
         /\ DOMAIN w.ma = Accounts /\ DOMAIN w.bank = Tokens
BY DEF Sound, Books, Shape, Parts

(* Bookings move nothing on the perp market. *)
LEMMA BookMoved ==
  ASSUME NEW w, Sound(w), NEW v, NEW A, Rebooked(w, v, A, Accounts, Tokens)
  PROVE  Moved(w, v, A, 0, 0)
<1>1. {"ma", "bank", "cache", "ok", "market", "funds"} \subseteq DOMAIN w BY Fields
<1>2. /\ DOMAIN v = DOMAIN w /\ v.market = w.market /\ v.funds = w.funds /\ v.cache = w.cache
      /\ \A x \in Accounts \ A : v.ma[x] = w.ma[x]
      /\ \A x \in Accounts : SameAccount(w.ma[x], v.ma[x])
      /\ \A t \in Tokens : SameBank(w.bank[t], v.bank[t])
  BY <1>1 DEF Rebooked, Kept
<1>3. \A x \in Accounts : IsTrader(w.ma[x]) BY DEF Sound, Parts
<1>4. \A x \in Accounts : SameTrader(w.ma[x], v.ma[x])
  BY <1>2, <1>3 DEF SameAccount, SameTrader, IsTrader
<1>5. \A x \in Accounts : v.ma[x].is_bankrupt = w.ma[x].is_bankrupt
  BY <1>2, <1>3 DEF SameAccount, IsTrader
<1>6. \A t \in Tokens : IsRoot(w.bank[t]) BY DEF Sound, Parts
<1>7. \A t \in Tokens : IsRoot(v.bank[t]) /\ v.bank[t].deposit_index = w.bank[t].deposit_index
                          /\ v.bank[t].borrow_index = w.bank[t].borrow_index
  BY <1>2, <1>6 DEF SameBank, IsRoot
<1>8. Agree(v) BY <1>2, <1>7 DEF Sound, Agree
<1>9. IsCache(v.cache) /\ IsFund(v.funds) BY <1>2 DEF Sound, Parts
<1>10. Books(v, Accounts, Tokens) BY DEF Rebooked
<1>11. Shifted(w, v, A, 0, 0) BY <1>1, <1>2, <1>4, <1>7, <1>8, <1>9, <1>10, SameShifted
<1> QED BY <1>5, <1>11 DEF Moved

(* Neither do new indexes, tokens that come or go, or a fresh cache. *)
LEMMA KeptMoved ==
  ASSUME NEW w, Sound(w), NEW v, DOMAIN v = DOMAIN w, v.ma = w.ma, v.market = w.market,
         DOMAIN v.bank = Tokens,
         \A t \in Tokens : /\ IsBank(v.bank[t]) /\ IsRoot(v.bank[t])
                           /\ v.bank[t].deposits = w.bank[t].deposits
                           /\ v.bank[t].borrows = w.bank[t].borrows,
         IsCache(v.cache), IsFund(v.funds), Agree(v)
  PROVE  Moved(w, v, {}, 0, 0)
<1>1. {"ma", "bank", "cache", "ok", "market", "funds"} \subseteq DOMAIN w BY Fields
<1>2. \A t \in Tokens : IsIndex(v.cache.bank[t]) BY DEF Agree, IsRoot, IsIndex
<1>3. Shape(v, Accounts, Tokens) BY <1>1, <1>2 DEF Sound, Books, Shape
<1>4. Totals(v, Accounts, Tokens) BY DEF Sound, Books, Totals
<1>5. \A x \in Accounts : SameTrader(w.ma[x], v.ma[x]) BY DEF SameTrader, Sound, Parts
<1>6. Books(v, Accounts, Tokens) BY <1>3, <1>4 DEF Books
<1>7. Shifted(w, v, {}, 0, 0) BY <1>1, <1>5, <1>6, SameShifted
<1> QED BY <1>7 DEF Moved

(* An error moves nothing. *)
LEMMA RequireMoved ==
  ASSUME NEW w, Sound(w), NEW p
  PROVE  /\ Moved(w, Require(w, p), {}, 0, 0) /\ Require(w, p).market = w.market
         /\ Require(w, p).ma = w.ma
<1>1. Require(w, p) = [w EXCEPT !.ok = w.ok /\ p] BY DEF Require
<1>2. Rebooked(w, [w EXCEPT !.ok = w.ok /\ p], {}, Accounts, Tokens) BY OkBooks DEF Sound
<1>3. {"ma", "market"} \subseteq DOMAIN w BY Fields
<1>4. [w EXCEPT !.ok = w.ok /\ p].market = w.market /\ [w EXCEPT !.ok = w.ok /\ p].ma = w.ma BY <1>3
<1>5. Moved(w, [w EXCEPT !.ok = w.ok /\ p], {}, 0, 0) BY <1>2, BookMoved
<1> QED BY <1>1, <1>4, <1>5

(* A transfer of tokens moves nothing on the perp market. *)
LEMMA VaultMovedNothing ==
  ASSUME NEW w, Sound(w), NEW t \in Tokens, NEW q \in Int
  PROVE  Moved(w, VaultTransfer(w, t, q), {}, 0, 0) /\ VaultTransfer(w, t, q).ma = w.ma
         /\ VaultTransfer(w, t, q).cache = w.cache
         /\ VaultTransfer(w, t, q).market = w.market
<1> DEFINE v == VaultTransfer(w, t, q)
<1>1. VaultMoved(w, v, t, q) BY VaultTransferParts DEF Sound
<1>2. {"ma", "bank", "cache", "ok", "market", "funds"} \subseteq DOMAIN w /\ DOMAIN w.bank = Tokens
  BY Fields
<1> HIDE DEF v
<1>3. DOMAIN v = DOMAIN w /\ v.ma = w.ma /\ v.market = w.market /\ v.cache = w.cache
      /\ v.funds = w.funds
  BY <1>1, <1>2 DEF VaultMoved
<1>4. v.bank = [w.bank EXCEPT ![t].vault = @ + q] BY <1>1 DEF VaultMoved
<1>5. \A u \in Tokens : IsBank(w.bank[u]) /\ IsRoot(w.bank[u])
  BY DEF Sound, Books, Shape, Parts
<1>6. DOMAIN v.bank = Tokens /\ (\A u \in Tokens \ {t} : v.bank[u] = w.bank[u])
      /\ v.bank[t] = [w.bank[t] EXCEPT !.vault = @ + q]
  BY <1>2, <1>4
<1>7. /\ IsBank(v.bank[t]) /\ IsRoot(v.bank[t])
      /\ v.bank[t].deposits = w.bank[t].deposits /\ v.bank[t].borrows = w.bank[t].borrows
      /\ v.bank[t].deposit_index = w.bank[t].deposit_index
      /\ v.bank[t].borrow_index = w.bank[t].borrow_index
  BY <1>5, <1>6 DEF IsBank, IsRoot
<1>8. \A u \in Tokens :
        /\ IsBank(v.bank[u]) /\ IsRoot(v.bank[u])
        /\ v.bank[u].deposits = w.bank[u].deposits /\ v.bank[u].borrows = w.bank[u].borrows
        /\ v.bank[u].deposit_index = w.bank[u].deposit_index
        /\ v.bank[u].borrow_index = w.bank[u].borrow_index
  BY <1>5, <1>6, <1>7
<1>9. Agree(v) BY <1>3, <1>8 DEF Agree, Sound
<1>10. IsCache(v.cache) /\ IsFund(v.funds) BY <1>3 DEF Sound, Parts
<1>11. Moved(w, v, {}, 0, 0) BY <1>3, <1>6, <1>8, <1>9, <1>10, KeptMoved
<1> QED BY <1>3, <1>11 DEF v

(* Tokens outside the banks move nothing, errors included. *)
LEMMA OutsideMoved ==
  ASSUME NEW w, Sound(w), NEW F, IsFund(F), NEW p
  PROVE  /\ Moved(w, [w EXCEPT !.funds = F, !.ok = p], {}, 0, 0)
         /\ [w EXCEPT !.funds = F, !.ok = p].ma = w.ma
         /\ [w EXCEPT !.funds = F, !.ok = p].cache = w.cache
         /\ [w EXCEPT !.funds = F, !.ok = p].market = w.market
<1> DEFINE v == [w EXCEPT !.funds = F, !.ok = p]
<1>1. {"ma", "bank", "cache", "ok", "market", "funds"} \subseteq DOMAIN w /\ DOMAIN w.bank = Tokens
  BY Fields
<1>2. DOMAIN v = DOMAIN w /\ v.ma = w.ma /\ v.market = w.market /\ v.cache = w.cache
      /\ v.bank = w.bank /\ v.funds = F
  BY <1>1
<1> HIDE DEF v
<1>3. \A u \in Tokens : IsBank(w.bank[u]) /\ IsRoot(w.bank[u])
  BY DEF Sound, Books, Shape, Parts
<1>4. Agree(v) BY <1>2 DEF Agree, Sound
<1>5. IsCache(v.cache) BY <1>2 DEF Sound, Parts
<1>6. Moved(w, v, {}, 0, 0) BY <1>1, <1>2, <1>3, <1>4, <1>5, KeptMoved
<1> QED BY <1>2, <1>6 DEF v

(* w with account a replaced. *)
With(w, a, r) == [w EXCEPT !.ma[a] = r]

(* The fields of w with account a replaced. *)
LEMMA WithFields ==
  ASSUME NEW w, Sound(w), NEW a \in Accounts, NEW r
  PROVE  /\ DOMAIN With(w, a, r) = DOMAIN w
         /\ With(w, a, r).bank = w.bank /\ With(w, a, r).market = w.market
         /\ With(w, a, r).cache = w.cache /\ With(w, a, r).funds = w.funds
         /\ With(w, a, r).ok = w.ok
         /\ DOMAIN With(w, a, r).ma = Accounts /\ With(w, a, r).ma[a] = r
         /\ \A x \in Accounts \ {a} : With(w, a, r).ma[x] = w.ma[x]
<1>1. /\ {"ma", "bank", "cache", "ok", "market", "funds"} \subseteq DOMAIN w
      /\ DOMAIN w.ma = Accounts
  BY Fields
<1> QED BY <1>1 DEF With

(* acc2 is acc with the same balances and position, and its records. *)
SameBalances(acc, acc2) ==
  /\ {"deposits", "borrows"} \subseteq DOMAIN acc2
  /\ acc2.deposits = acc.deposits /\ acc2.borrows = acc.borrows
  /\ acc2.base_position = acc.base_position

(* An account whose claim changes by c. *)
LEMMA WithShifted ==
  ASSUME NEW w, Sound(w), NEW a \in Accounts, NEW r, NEW c \in Int, IsTrader(r),
         SameBalances(w.ma[a], r),
         get_quote_position(r, w.cache.perp) - get_quote_position(w.ma[a], w.cache.perp) = c
  PROVE  Shifted(w, With(w, a, r), {a}, 0, c)
<1> DEFINE v == With(w, a, r)
<1>1. {"ma", "bank", "cache", "ok", "market", "funds"} \subseteq DOMAIN w BY Fields
<1>2. /\ DOMAIN v = DOMAIN w /\ v.bank = w.bank /\ v.market = w.market
      /\ v.cache = w.cache /\ v.funds = w.funds /\ DOMAIN v.ma = Accounts /\ v.ma[a] = r
      /\ \A x \in Accounts \ {a} : v.ma[x] = w.ma[x]
  BY WithFields
<1> HIDE DEF v
<1>3. IsMarket(w.market) /\ IsFund(w.funds) BY DEF Sound, Parts
<1>4. r.base_position \in Int BY DEF IsTrader
<1>5. r.base_position = w.ma[a].base_position + 0 BY <1>4 DEF SameBalances
<1>6. w.market.open_interest = w.market.open_interest
        + (Magnitude(r.base_position) - Magnitude(w.ma[a].base_position))
  <2>1. w.market.open_interest \in Int BY <1>3 DEF IsMarket
  <2>2. Magnitude(r.base_position) \in Int BY <1>4 DEF Magnitude
  <2>3. w.ma[a].base_position = r.base_position BY DEF SameBalances
  <2> QED BY <2>1, <2>2, <2>3
<1>7. (w.market.fees_accrued - w.market.fees_accrued)
        + (get_quote_position(r, w.cache.perp) - get_quote_position(w.ma[a], w.cache.perp)) = c
  <2>1. w.market.fees_accrued \in Int BY <1>3 DEF IsMarket
  <2> QED BY <2>1
<1>8. Shifted(w, v, {a}, 0, c)
  <2>1. /\ {"ma", "bank", "cache", "ok", "market", "funds"} \subseteq DOMAIN v
        /\ IsFund(v.funds) /\ {"deposits", "borrows"} \subseteq DOMAIN v.ma[a] /\ IsTrader(v.ma[a])
        /\ v.ma[a].deposits = w.ma[a].deposits /\ v.ma[a].borrows = w.ma[a].borrows
        /\ IsMarket(v.market) /\ v.market.long_funding = w.market.long_funding
        /\ v.market.short_funding = w.market.short_funding
    BY <1>1, <1>2, <1>3 DEF SameBalances
  <2>2. v.ma[a].base_position = w.ma[a].base_position + 0 BY <1>2, <1>5
  <2>3. v.market.open_interest = w.market.open_interest
          + (Magnitude(v.ma[a].base_position) - Magnitude(w.ma[a].base_position))
    BY <1>2, <1>6
  <2>4. (v.market.fees_accrued - w.market.fees_accrued)
           + (get_quote_position(v.ma[a], w.cache.perp)
                - get_quote_position(w.ma[a], w.cache.perp)) = c
    BY <1>2, <1>7
  <2>5. Traded(w, v, a, 0, c) BY <1>2, <2>1, <2>2, <2>3, <2>4 DEF Traded
  <2> QED BY <2>5, TraderShifted
<1> QED BY <1>8 DEF v

(* A position has no more funding to settle. *)
SettledIn(w, a) ==
  /\ w.ma[a].long_settled_funding = w.cache.perp.long_funding
  /\ w.ma[a].short_settled_funding = w.cache.perp.short_funding

(* Settling the funding changes no claim. *)
LEMMA SettleMoved ==
  ASSUME NEW w, Sound(w), NEW a \in Accounts
  PROVE  /\ Moved(w, settle_funding(w, a), {a}, 0, 0)
         /\ SettledIn(settle_funding(w, a), a)
         /\ settle_funding(w, a).cache = w.cache
         /\ settle_funding(w, a).market = w.market
         /\ settle_funding(w, a).funds = w.funds
<1> DEFINE acc == w.ma[a]
           c == w.cache.perp
           q == get_quote_position(acc, c)
           r == Settled(acc, c)
           v == With(w, a, r)
<1>1. settle_funding(w, a) = v BY DEF settle_funding, With
<1>2. IsTrader(acc) /\ c.long_funding \in Int /\ c.short_funding \in Int
  BY FundingInt DEF Sound, Parts
<1>3. q \in Int BY <1>2, QuoteInt
<1>4. {"deposits", "borrows"} \subseteq DOMAIN acc BY DEF Sound, Books, Shape, IsAccount
<1>5. /\ IsTrader(r) /\ SameBalances(acc, r)
      /\ r.quote_position = q /\ r.long_settled_funding = c.long_funding
      /\ r.short_settled_funding = c.short_funding
  <2> HIDE DEF acc, c, q
  <2>1. r = [acc EXCEPT !.quote_position = q, !.long_settled_funding = c.long_funding,
                        !.short_settled_funding = c.short_funding]
    BY DEF Settled, q
  <2> HIDE DEF r
  <2> QED BY <1>2, <1>3, <1>4, <2>1 DEF IsTrader, SameBalances
<1>6. r.is_bankrupt = acc.is_bankrupt
  <2> HIDE DEF acc, c
  <2> QED BY <1>2 DEF Settled, IsTrader
<1>7. get_quote_position(r, c) = q
  <2>1. Funding(r, c) = 0
    <3> HIDE DEF acc, c, r
    <3>1. c.long_funding - r.long_settled_funding = 0 /\ c.short_funding - r.short_settled_funding = 0
      BY <1>2, <1>5
    <3>2. r.base_position \in Int BY <1>5 DEF IsTrader
    <3> QED BY <3>1, <3>2 DEF Funding
  <2> HIDE DEF acc, c, r, q
  <2> QED BY <1>3, <1>5, <2>1 DEF get_quote_position
<1>8. get_quote_position(r, c) - get_quote_position(acc, c) = 0 BY <1>3, <1>7
<1>9. Shifted(w, v, {a}, 0, 0) BY <1>5, <1>8, WithShifted
<1>10. /\ v.cache = w.cache /\ v.market = w.market /\ v.funds = w.funds /\ v.ma[a] = r
       /\ \A x \in Accounts \ {a} : v.ma[x] = w.ma[x]
  BY WithFields
<1> HIDE DEF r, v
<1>11. Moved(w, v, {a}, 0, 0) BY <1>6, <1>9, <1>10 DEF Moved
<1>12. SettledIn(v, a) BY <1>5, <1>10 DEF SettledIn
<1> QED BY <1>1, <1>10, <1>11, <1>12

(* More quote is more claims. *)
LEMMA AddQuoteMoved ==
  ASSUME NEW w, Sound(w), NEW a \in Accounts, NEW q \in Int
  PROVE  /\ Moved(w, AddQuote(w, a, q), {a}, 0, q)
         /\ AddQuote(w, a, q).cache = w.cache
         /\ AddQuote(w, a, q).market = w.market
         /\ AddQuote(w, a, q).funds = w.funds
         /\ AddQuote(w, a, q).ma[a].quote_position = w.ma[a].quote_position + q
         /\ SameBalances(w.ma[a], AddQuote(w, a, q).ma[a])
<1> DEFINE acc == w.ma[a]
           r == [acc EXCEPT !.quote_position = @ + q]
           v == With(w, a, r)
<1>1. AddQuote(w, a, q) = v BY DEF AddQuote, With
<1>2. IsTrader(acc) /\ w.cache.perp.long_funding \in Int /\ w.cache.perp.short_funding \in Int
  BY FundingInt DEF Sound, Parts
<1>3. {"deposits", "borrows"} \subseteq DOMAIN acc BY DEF Sound, Books, Shape, IsAccount
<1>4. /\ IsTrader(r) /\ SameBalances(acc, r) /\ r.quote_position = acc.quote_position + q
      /\ r.long_settled_funding = acc.long_settled_funding
      /\ r.short_settled_funding = acc.short_settled_funding
  <2> HIDE DEF acc
  <2> QED BY <1>2, <1>3 DEF IsTrader, SameBalances
<1>5. r.is_bankrupt = acc.is_bankrupt BY <1>2 DEF IsTrader
<1>6. get_quote_position(r, w.cache.perp) - get_quote_position(acc, w.cache.perp) = q
  <2>1. Funding(r, w.cache.perp) = Funding(acc, w.cache.perp)
    BY <1>4 DEF Funding, SameBalances
  <2>2. get_quote_position(acc, w.cache.perp) \in Int BY <1>2, QuoteInt
  <2>3. get_quote_position(r, w.cache.perp) \in Int BY <1>2, <1>4, QuoteInt
  <2>4. Funding(acc, w.cache.perp) \in Int
    <3>1. (w.cache.perp.long_funding - acc.long_settled_funding) * acc.base_position \in Int
          /\ (w.cache.perp.short_funding - acc.short_settled_funding) * acc.base_position \in Int
      BY <1>2 DEF IsTrader
    <3> HIDE DEF acc
    <3> QED BY <3>1 DEF Funding
  <2>5. acc.quote_position \in Int BY <1>2 DEF IsTrader
  <2> HIDE DEF acc, r
  <2> QED BY <1>4, <2>1, <2>4, <2>5 DEF get_quote_position
<1>7. Shifted(w, v, {a}, 0, q) BY <1>4, <1>6, WithShifted
<1>8. /\ v.cache = w.cache /\ v.market = w.market /\ v.funds = w.funds /\ v.ma[a] = r
      /\ \A x \in Accounts \ {a} : v.ma[x] = w.ma[x]
  BY WithFields
<1> HIDE DEF r, v
<1>9. Moved(w, v, {a}, 0, q) BY <1>5, <1>7, <1>8 DEF Moved
<1> QED BY <1>1, <1>4, <1>8, <1>9

(* A booking on account a moves nothing on the perp market. *)
LEMMA ChangeNetMoved ==
  ASSUME NEW w, Sound(w), NEW a \in Accounts, NEW t \in Tokens, NEW q \in Int
  PROVE  /\ Moved(w, checked_change_net(w, a, t, q), {a}, 0, 0)
         /\ checked_change_net(w, a, t, q).cache = w.cache
         /\ checked_change_net(w, a, t, q).market = w.market
         /\ checked_change_net(w, a, t, q).funds = w.funds
<1> DEFINE v == checked_change_net(w, a, t, q)
<1>1. Rebooked(w, v, {a}, Accounts, Tokens) BY MarginAssumption, ChangeNetBooks DEF Sound
<1> HIDE DEF v
<1>2. Moved(w, v, {a}, 0, 0) BY <1>1, BookMoved
<1>3. {"cache", "market", "funds"} \subseteq DOMAIN w BY Fields
<1>4. v.cache = w.cache /\ v.market = w.market /\ v.funds = w.funds
  BY <1>1, <1>3 DEF Rebooked, Kept
<1> QED BY <1>2, <1>4 DEF v

(* Nor does a transfer between two accounts. *)
LEMMA TransferMoved ==
  ASSUME NEW w, Sound(w), NEW a \in Accounts, NEW b \in Accounts, NEW t \in Tokens, NEW q \in Int
  PROVE  /\ Moved(w, transfer_token_internal(w, a, b, t, q), {a, b}, 0, 0)
         /\ transfer_token_internal(w, a, b, t, q).cache = w.cache
         /\ transfer_token_internal(w, a, b, t, q).market = w.market
<1> DEFINE v == transfer_token_internal(w, a, b, t, q)
<1>1. Rebooked(w, v, {a, b}, Accounts, Tokens) BY MarginAssumption, TransferBooks DEF Sound
<1> HIDE DEF v
<1>2. Moved(w, v, {a, b}, 0, 0) BY <1>1, BookMoved
<1>3. {"cache", "market"} \subseteq DOMAIN w BY Fields
<1>4. v.cache = w.cache /\ v.market = w.market BY <1>1, <1>3 DEF Rebooked, Kept
<1> QED BY <1>2, <1>4 DEF v

(* What one account pays the other gets. *)
LEMMA TransferQuoteMoved ==
  ASSUME NEW w, Sound(w), NEW a \in Accounts, NEW b \in Accounts, NEW q \in Int
  PROVE  /\ Moved(w, transfer_quote_position(w, a, b, q), {a, b}, 0, 0)
         /\ transfer_quote_position(w, a, b, q).cache = w.cache
         /\ transfer_quote_position(w, a, b, q).market = w.market
         /\ transfer_quote_position(w, a, b, q).funds = w.funds
         /\ a # b => /\ SameBalances(w.ma[a], transfer_quote_position(w, a, b, q).ma[a])
                    /\ transfer_quote_position(w, a, b, q).ma[a].quote_position
                         = w.ma[a].quote_position + (-q)
<1> DEFINE u == AddQuote(w, a, -q)
           v == AddQuote(u, b, q)
<1>1. transfer_quote_position(w, a, b, q) = v BY DEF transfer_quote_position
<1>2. -q \in Int OBVIOUS
<1>3. /\ Moved(w, u, {a}, 0, -q) /\ u.cache = w.cache /\ u.market = w.market /\ u.funds = w.funds
      /\ u.ma[a].quote_position = w.ma[a].quote_position + (-q) /\ SameBalances(w.ma[a], u.ma[a])
  BY <1>2, AddQuoteMoved
<1>4. Sound(u) BY <1>3 DEF Moved, Shifted
<1> HIDE DEF u
<1>5. Moved(u, v, {b}, 0, q) /\ v.cache = u.cache /\ v.market = u.market /\ v.funds = u.funds
  BY <1>4, AddQuoteMoved
<1> HIDE DEF v
<1>6. {a} \subseteq {a, b} /\ {b} \subseteq {a, b} OBVIOUS
<1>7. Moved(w, v, {a, b}, 0 + 0, -q + q) BY <1>2, <1>3, <1>5, <1>6, MovedTwice
<1>8. 0 + 0 = 0 /\ -q + q = 0 OBVIOUS
<1>9. Moved(w, v, {a, b}, 0, 0) BY <1>7, <1>8
<1>10. a # b => v.ma[a] = u.ma[a] BY <1>5 DEF Moved, Shifted
<1> QED BY <1>1, <1>3, <1>5, <1>9, <1>10

(* A settled position that changes takes the open interest with it and no claim. *)
LEMMA ChangeBaseMoved ==
  ASSUME NEW w, Sound(w), NEW a \in Accounts, NEW n \in Int, SettledIn(w, a)
  PROVE  /\ Moved(w, change_base_position(w, a, n), {a}, n, 0)
         /\ change_base_position(w, a, n).cache = w.cache
<1> DEFINE acc == w.ma[a]
           k == acc.base_position + n
           m == [w.market EXCEPT !.open_interest = @ + Magnitude(k) - Magnitude(acc.base_position)]
           r == [acc EXCEPT !.base_position = k]
           v == [w EXCEPT !.ma[a] = r, !.market = m]
<1>1. change_base_position(w, a, n) = v BY DEF change_base_position
<1>2. /\ {"ma", "bank", "cache", "ok", "market", "funds"} \subseteq DOMAIN w
      /\ DOMAIN w.ma = Accounts
  BY Fields
<1>3. IsTrader(acc) /\ IsMarket(w.market) /\ IsFund(w.funds) BY DEF Sound, Parts
<1>4. {"deposits", "borrows"} \subseteq DOMAIN acc BY DEF Sound, Books, Shape, IsAccount
<1>5. k \in Int /\ acc.base_position \in Int BY <1>3 DEF IsTrader
<1>5a. Magnitude(k) \in Int /\ Magnitude(acc.base_position) \in Int BY <1>5 DEF Magnitude
<1>6. /\ IsTrader(r) /\ {"deposits", "borrows"} \subseteq DOMAIN r
      /\ r.deposits = acc.deposits /\ r.borrows = acc.borrows /\ r.base_position = k
      /\ r.quote_position = acc.quote_position
      /\ r.long_settled_funding = acc.long_settled_funding
      /\ r.short_settled_funding = acc.short_settled_funding
  <2> HIDE DEF acc, k
  <2> QED BY <1>3, <1>4, <1>5 DEF IsTrader
<1>7. r.is_bankrupt = acc.is_bankrupt BY <1>3 DEF IsTrader
<1>8. /\ IsMarket(m) /\ m.long_funding = w.market.long_funding
      /\ m.short_funding = w.market.short_funding /\ m.fees_accrued = w.market.fees_accrued
      /\ m.open_interest = w.market.open_interest + (Magnitude(k) - Magnitude(acc.base_position))
  <2> HIDE DEF acc, k
  <2> QED BY <1>3, <1>5a DEF IsMarket
<1>9. get_quote_position(r, w.cache.perp) = get_quote_position(acc, w.cache.perp)
  <2> HIDE DEF acc, r
  <2>1. w.cache.perp.long_funding \in Int /\ w.cache.perp.short_funding \in Int
    BY FundingInt DEF Sound
  <2>2. /\ w.cache.perp.long_funding - acc.long_settled_funding = 0
        /\ w.cache.perp.short_funding - acc.short_settled_funding = 0
        /\ w.cache.perp.long_funding - r.long_settled_funding = 0
        /\ w.cache.perp.short_funding - r.short_settled_funding = 0
    BY <1>6, <2>1 DEF SettledIn, acc
  <2>3. acc.base_position \in Int /\ r.base_position \in Int BY <1>3, <1>6 DEF IsTrader
  <2>4. Funding(acc, w.cache.perp) = 0 BY <2>2, <2>3 DEF Funding
  <2>5. Funding(r, w.cache.perp) = 0 BY <2>2, <2>3 DEF Funding
  <2> QED BY <1>6, <2>4, <2>5 DEF get_quote_position
<1>10. get_quote_position(acc, w.cache.perp) \in Int
  BY <1>3, FundingInt, QuoteInt DEF Sound
<1> HIDE DEF r, m
<1>11. /\ DOMAIN v = DOMAIN w /\ v.bank = w.bank /\ v.market = m /\ v.cache = w.cache
       /\ v.funds = w.funds /\ DOMAIN v.ma = Accounts /\ v.ma[a] = r
       /\ \A x \in Accounts \ {a} : v.ma[x] = w.ma[x]
  BY <1>2
<1> HIDE DEF v
<1>12. (v.market.fees_accrued - w.market.fees_accrued)
         + (get_quote_position(v.ma[a], w.cache.perp)
              - get_quote_position(w.ma[a], w.cache.perp)) = 0
  <2>1. w.market.fees_accrued \in Int BY <1>3 DEF IsMarket
  <2> QED BY <1>8, <1>9, <1>10, <1>11, <2>1
<1>13. Traded(w, v, a, n, 0)
  BY <1>2, <1>3, <1>6, <1>8, <1>11, <1>12 DEF Traded
<1>14. Shifted(w, v, {a}, n, 0) BY <1>13, TraderShifted
<1>15. Moved(w, v, {a}, n, 0) BY <1>7, <1>11, <1>14 DEF Moved
<1> QED BY <1>1, <1>11, <1>15

(* acc with its flags set. *)
Flagged(acc, b, l) == [acc EXCEPT !.is_bankrupt = b, !.being_liquidated = l]

(* A flag changes no claim. *)
LEMMA FlagShifted ==
  ASSUME NEW w, Sound(w), NEW a \in Accounts, NEW b, NEW l
  PROVE  /\ Shifted(w, With(w, a, Flagged(w.ma[a], b, l)), {a}, 0, 0)
         /\ SameBalances(w.ma[a], Flagged(w.ma[a], b, l))
         /\ Flagged(w.ma[a], b, l).quote_position = w.ma[a].quote_position
<1> DEFINE acc == w.ma[a]
           r == Flagged(acc, b, l)
<1>1. IsTrader(acc) BY DEF Sound, Parts
<1>2. {"deposits", "borrows"} \subseteq DOMAIN acc BY DEF Sound, Books, Shape, IsAccount
<1>3. /\ IsTrader(r) /\ SameBalances(acc, r) /\ r.quote_position = acc.quote_position
      /\ r.long_settled_funding = acc.long_settled_funding
      /\ r.short_settled_funding = acc.short_settled_funding
  <2> HIDE DEF acc
  <2> QED BY <1>1, <1>2 DEF IsTrader, SameBalances, Flagged
<1>4. get_quote_position(r, w.cache.perp) = get_quote_position(acc, w.cache.perp)
  BY <1>3 DEF get_quote_position, Funding, SameBalances
<1>5. get_quote_position(acc, w.cache.perp) \in Int
  BY <1>1, FundingInt, QuoteInt DEF Sound
<1> HIDE DEF r
<1>6. get_quote_position(r, w.cache.perp) - get_quote_position(acc, w.cache.perp) = 0
  BY <1>4, <1>5
<1>7. Shifted(w, With(w, a, r), {a}, 0, 0) BY <1>3, <1>6, WithShifted
<1> QED BY <1>3, <1>7 DEF r

-----------------------------------------------------------------------------
(* Indexes and caches *)

(* A product of numbers that are not negative is not negative. *)
LEMMA MulNat == ASSUME NEW x \in Nat, NEW y \in Nat PROVE Mul(x, y) \in Nat
<1>1. x * y \in Nat OBVIOUS
<1>2. One \in Nat \ {0} BY RateAssumption
<1>3. \A z \in Nat, d \in Nat \ {0} : z \div d \in Nat OBVIOUS
<1> QED BY <1>1, <1>2, <1>3 DEF Mul

(* update_index changes the indexes only, and a borrow index stays natural. *)
LEMMA UpdateIndex ==
  ASSUME NEW b, IsBank(b), IsRoot(b), NEW n \in Int
  PROVE  /\ IsBank(update_index(b, n)) /\ IsRoot(update_index(b, n))
         /\ update_index(b, n).deposits = b.deposits
         /\ update_index(b, n).borrows = b.borrows
<1> DEFINE native_deposits == Mul(b.deposits, b.deposit_index)
           utilization == Div(Mul(b.borrows, b.borrow_index), native_deposits)
           rate == compute_interest_rate(utilization)
           borrow_interest == rate * (n - b.last_updated)
           deposit_interest == Mul(borrow_interest, utilization)
           i == b.borrow_index + Mul(b.borrow_index, borrow_interest)
           j == b.deposit_index + Mul(b.deposit_index, deposit_interest)
<1>1. /\ b.deposits \in Int /\ b.borrows \in Int /\ b.deposit_index \in Int
      /\ b.borrow_index \in Nat /\ b.borrow_index \in Int /\ b.last_updated \in Int
  BY DEF IsBank, IsRoot
<1>2. native_deposits \in Int BY <1>1, MulInt
<1>3. Mul(b.borrows, b.borrow_index) \in Int BY <1>1, MulInt
<1>4. utilization \in Int BY <1>2, <1>3, DivInt
<1>5. rate \in Int
  <2> HIDE DEF utilization
  <2>1. One \in Int /\ OptimalUtil \in Int /\ OptimalRate \in Int /\ MaxRate \in Int
    BY RateAssumption
  <2>2. MaxRate - OptimalRate \in Int /\ One - OptimalUtil \in Int /\ utilization - OptimalUtil \in Int
    BY <1>4, <2>1
  <2>3. Div(MaxRate - OptimalRate, One - OptimalUtil) \in Int BY <2>2, DivInt
  <2>4. Mul(Div(MaxRate - OptimalRate, One - OptimalUtil), utilization - OptimalUtil) \in Int
    BY <2>2, <2>3, MulInt
  <2>5. Div(OptimalRate, OptimalUtil) \in Int BY <2>1, DivInt
  <2>6. Mul(Div(OptimalRate, OptimalUtil), utilization) \in Int BY <1>4, <2>5, MulInt
  <2> QED BY <2>1, <2>4, <2>6 DEF compute_interest_rate
<1>6. borrow_interest \in Int
  <2> HIDE DEF rate
  <2> QED BY <1>1, <1>5
<1>7. deposit_interest \in Int BY <1>4, <1>6, MulInt
<1>8. j \in Int
  <2>1. Mul(b.deposit_index, deposit_interest) \in Int BY <1>1, <1>7, MulInt
  <2> HIDE DEF deposit_interest
  <2> QED BY <1>1, <2>1
<1>9. borrow_interest > 0 => i \in Nat
  <2>1. SUFFICES ASSUME borrow_interest > 0 PROVE i \in Nat OBVIOUS
  <2> HIDE DEF borrow_interest
  <2>2. borrow_interest \in Nat BY <1>6, <2>1
  <2>3. Mul(b.borrow_index, borrow_interest) \in Nat BY <1>1, <2>2, MulNat
  <2> QED BY <1>1, <2>3
<1>10. update_index(b, n) = IF borrow_interest <= 0 \/ deposit_interest <= 0
                              THEN [b EXCEPT !.last_updated = n]
                              ELSE [b EXCEPT !.last_updated = n, !.borrow_index = i, !.deposit_index = j]
  BY DEF update_index
<1> HIDE DEF borrow_interest, deposit_interest, i, j
<1>11. CASE borrow_interest <= 0 \/ deposit_interest <= 0
  <2>1. update_index(b, n) = [b EXCEPT !.last_updated = n] BY <1>10, <1>11
  <2> QED BY <2>1 DEF IsBank, IsRoot
<1>12. CASE ~(borrow_interest <= 0 \/ deposit_interest <= 0)
  <2>1. update_index(b, n) = [b EXCEPT !.last_updated = n, !.borrow_index = i, !.deposit_index = j]
    BY <1>10, <1>12
  <2>2. i \in Nat BY <1>6, <1>9, <1>12
  <2> QED BY <1>8, <2>1, <2>2 DEF IsBank, IsRoot
<1> QED BY <1>11, <1>12

(* New indexes, in the bank and in the cache. *)
LEMMA ReindexedMoved ==
  ASSUME NEW w, Sound(w), NEW t \in Tokens, NEW b, IsBank(b), IsRoot(b),
         b.deposits = w.bank[t].deposits, b.borrows = w.bank[t].borrows
  PROVE  /\ Moved(w, Reindexed(w, t, b), {}, 0, 0)
         /\ Reindexed(w, t, b).ma = w.ma /\ Reindexed(w, t, b).funds = w.funds
<1> DEFINE e == RootBankCache(b, now)
           c == [w.cache EXCEPT !.bank[t] = e]
           v == [w EXCEPT !.bank[t] = b, !.cache = c]
<1>1. Reindexed(w, t, b) = v BY DEF Reindexed
<1>2. {"ma", "bank", "cache", "ok", "market", "funds"} \subseteq DOMAIN w /\ DOMAIN w.bank = Tokens
  BY Fields
<1>3. IsCache(w.cache) /\ IsFund(w.funds) BY DEF Sound, Parts
<1>4. /\ {"deposit_index", "borrow_index"} \subseteq DOMAIN e
      /\ e.deposit_index = b.deposit_index /\ e.borrow_index = b.borrow_index
  BY DEF RootBankCache
<1> HIDE DEF e
<1>5. /\ DOMAIN c = DOMAIN w.cache /\ c.price = w.cache.price /\ c.perp = w.cache.perp
      /\ DOMAIN c.bank = Tokens /\ c.bank[t] = e /\ \A u \in Tokens \ {t} : c.bank[u] = w.cache.bank[u]
  BY <1>3 DEF IsCache
<1> HIDE DEF c
<1>6. IsCache(c) BY <1>3, <1>4, <1>5 DEF IsCache
<1>7. /\ DOMAIN v = DOMAIN w /\ v.ma = w.ma /\ v.market = w.market /\ v.cache = c
      /\ v.funds = w.funds
      /\ DOMAIN v.bank = Tokens /\ v.bank[t] = b /\ \A u \in Tokens \ {t} : v.bank[u] = w.bank[u]
  BY <1>2
<1> HIDE DEF v
<1>8. Agree(w) BY DEF Sound
<1>9. Agree(v) BY <1>4, <1>5, <1>7, <1>8 DEF Agree
<1>10. \A u \in Tokens : IsBank(w.bank[u]) /\ IsRoot(w.bank[u])
  BY DEF Sound, Books, Shape, Parts
<1>11. \A u \in Tokens : /\ IsBank(v.bank[u]) /\ IsRoot(v.bank[u])
                         /\ v.bank[u].deposits = w.bank[u].deposits
                         /\ v.bank[u].borrows = w.bank[u].borrows
  BY <1>7, <1>10
<1>12. IsCache(v.cache) /\ IsFund(v.funds) BY <1>3, <1>6, <1>7
<1>13. Moved(w, v, {}, 0, 0) BY <1>7, <1>9, <1>11, <1>12, KeptMoved
<1> QED BY <1>1, <1>7, <1>13

(* A cache that agrees with the banks and the market. *)
LEMMA CacheMoved ==
  ASSUME NEW w, Sound(w), NEW c, IsCache(c),
         \A t \in Tokens : /\ c.bank[t].deposit_index = w.bank[t].deposit_index
                           /\ c.bank[t].borrow_index = w.bank[t].borrow_index,
         c.perp.long_funding = w.market.long_funding,
         c.perp.short_funding = w.market.short_funding
  PROVE  Moved(w, [w EXCEPT !.cache = c], {}, 0, 0)
<1> DEFINE v == [w EXCEPT !.cache = c]
<1>1. {"ma", "bank", "cache", "ok", "market", "funds"} \subseteq DOMAIN w /\ DOMAIN w.bank = Tokens
  BY Fields
<1>2. /\ DOMAIN v = DOMAIN w /\ v.ma = w.ma /\ v.market = w.market /\ v.cache = c
      /\ v.funds = w.funds /\ v.bank = w.bank
  BY <1>1
<1> HIDE DEF v
<1>3. Agree(v) BY <1>2 DEF Agree
<1>4. \A u \in Tokens : IsBank(w.bank[u]) /\ IsRoot(w.bank[u])
  BY DEF Sound, Books, Shape, Parts
<1>5. IsCache(v.cache) /\ IsFund(v.funds) BY <1>2 DEF Sound, Parts
<1>6. Moved(w, v, {}, 0, 0) BY <1>1, <1>2, <1>3, <1>4, <1>5, KeptMoved
<1> QED BY <1>6 DEF v

-----------------------------------------------------------------------------
(* Losses and fees *)

(* The quotient of a division by a positive number. *)
LEMMA QuotientBounds ==
  ASSUME NEW n \in Int, NEW d \in Nat \ {0}
  PROVE  n \div d \in Int /\ d * (n \div d) <= n /\ n < d * (n \div d) + d
OBVIOUS

(* A positive factor may be cancelled. *)
LEMMA Cancel ==
  ASSUME NEW k \in Nat \ {0}, NEW x \in Int, NEW y \in Int, k * x <= k * y
  PROVE  x <= y
<1> SUFFICES ASSUME y + 1 <= x PROVE FALSE OBVIOUS
<1>1. k * (y + 1) <= k * x
  <2>1. x - (y + 1) \in Nat OBVIOUS
  <2>2. k * (x - (y + 1)) >= 0 BY <2>1
  <2>3. k * (x - (y + 1)) = k * x - k * (y + 1) OBVIOUS
  <2>4. k * x \in Int /\ k * (y + 1) \in Int OBVIOUS
  <2> QED BY <2>2, <2>3, <2>4
<1>2. k * (y + 1) = k * y + k OBVIOUS
<1>3. k * y \in Int /\ k * x \in Int OBVIOUS
<1> QED BY <1>1, <1>2, <1>3

(* A loss shared by all open contracts is charged to an ulp each. *)
LEMMA SharedLoss ==
  ASSUME NEW q \in Int, q < 0, NEW o \in Nat \ {0}
  PROVE  /\ Div(q, o * One) \in Int
         /\ 0 <= (-Div(q, o * One)) * o
         /\ 0 <= -q - (-Div(q, o * One)) * o
         /\ -q - (-Div(q, o * One)) * o < o
<1> DEFINE x == -q
           d == o * One
           L == (x * One) \div d
<1>1. One \in Nat \ {0} BY RateAssumption
<1>2. x \in Nat \ {0} /\ d \in Nat \ {0} /\ x * One \in Nat BY <1>1
<1>3. Div(q, d) = -L
  <2>1. Magnitude(q) = x /\ Magnitude(d) = d /\ d # 0 /\ ~(d < 0) BY <1>2 DEF Magnitude
  <2> HIDE DEF x, d
  <2> QED BY <2>1 DEF Div
<1>4. L \in Int /\ d * L <= x * One /\ x * One < d * L + d
  <2> HIDE DEF d
  <2> DEFINE n == x * One
  <2>1. n \in Int BY <1>2
  <2> HIDE DEF n
  <2>2. n \div d \in Int /\ d * (n \div d) <= n /\ n < d * (n \div d) + d
    BY <1>2, <2>1, QuotientBounds
  <2> QED BY <2>2 DEF n
<1>4a. L \in Nat
  <2> HIDE DEF d
  <2>1. \A n \in Nat, k \in Nat \ {0} : n \div k \in Nat OBVIOUS
  <2> QED BY <1>2, <2>1
<1> HIDE DEF L, x
<1>5. L * o <= x
  <2>1. One * (L * o) <= One * x
    <3>1. d * L = One * (L * o) /\ x * One = One * x BY <1>1, <1>2, <1>4
    <3> QED BY <1>4, <3>1
  <2>2. L * o \in Int BY <1>4
  <2> HIDE DEF d
  <2> QED BY <1>1, <1>2, <2>1, <2>2, Cancel
<1>6. x < L * o + o
  <2> SUFFICES ASSUME L * o + o <= x PROVE FALSE BY <1>2, <1>4
  <2>1. One * (L * o + o) <= One * x
    <3>1. x - (L * o + o) \in Nat BY <1>2, <1>4
    <3>2. One * (x - (L * o + o)) >= 0 BY <1>1, <3>1
    <3>3. One * (x - (L * o + o)) = One * x - One * (L * o + o) BY <1>1, <1>2, <1>4
    <3>4. One * x \in Int /\ One * (L * o + o) \in Int BY <1>1, <1>2, <1>4
    <3> QED BY <3>2, <3>3, <3>4
  <2>2. d * L + d = One * (L * o + o) /\ x * One = One * x BY <1>1, <1>2, <1>4
  <2>3. x * One \in Int /\ d * L + d \in Int BY <1>1, <1>2, <1>4
  <2> QED BY <1>4, <2>1, <2>2, <2>3
<1>7. L * o \in Nat BY <1>4a
<1>8. -Div(q, d) = L BY <1>3, <1>4
<1>9. -q = x BY DEF x
<1>10. Div(q, d) \in Int BY <1>3, <1>4
<1>11. (-Div(q, d)) * o = L * o BY <1>8
<1> DEFINE p == L * o
<1> HIDE DEF p
<1>12. p \in Nat /\ p <= x /\ x < p + o BY <1>5, <1>6, <1>7 DEF p
<1>13. 0 <= p /\ 0 <= x - p /\ x - p < o BY <1>2, <1>12
<1> QED BY <1>9, <1>10, <1>11, <1>13 DEF p, d

(* v is u with k more funding for every contract to pay, long or short. *)
Refunded(u, v, k) ==
  /\ DOMAIN v = DOMAIN u
  /\ v.ma = u.ma /\ v.bank = u.bank /\ v.funds = u.funds
  /\ IsMarket(v.market)
  /\ v.market.open_interest = u.market.open_interest
  /\ v.market.fees_accrued = u.market.fees_accrued
  /\ v.market.long_funding = u.market.long_funding + k
  /\ v.market.short_funding = u.market.short_funding - k
  /\ IsCache(v.cache) /\ v.cache.bank = u.cache.bank
  /\ v.cache.perp.long_funding = v.market.long_funding
  /\ v.cache.perp.short_funding = v.market.short_funding

(* Every contract pays. *)
LEMMA RefundShifted ==
  ASSUME NEW u, Sound(u), NEW v, NEW k \in Int, Refunded(u, v, k)
  PROVE  Shifted(u, v, {}, 0, -(k * u.market.open_interest))
<1>1. {"ma", "bank", "cache", "ok", "market", "funds"} \subseteq DOMAIN u BY Fields
<1>2. /\ Books(u, Accounts, Tokens) /\ Parts(u) /\ Agree(u) /\ Open(u) = u.market.open_interest
  BY DEF Sound
<1>3. Parts(v) BY <1>1, <1>2 DEF Parts, Refunded
<1>4. Agree(v) BY <1>2 DEF Agree, Refunded
<1>5. Books(v, Accounts, Tokens) BY <1>1, <1>2 DEF Books, Shape, Totals, Refunded
<1>6. Net(v) = Net(u) /\ Open(v) = Open(u) BY DEF Net, Open, Refunded
<1>7. Sound(v) BY <1>2, <1>3, <1>4, <1>5, <1>6 DEF Sound, Refunded
<1> DEFINE f == [x \in Accounts |-> get_quote_position(u.ma[x], u.cache.perp)]
           g == [x \in Accounts |-> Magnitude(u.ma[x].base_position)]
           h == [x \in Accounts |-> get_quote_position(v.ma[x], v.cache.perp)]
<1>8. \A x \in Accounts : f[x] \in Int BY <1>2, FundingInt, QuoteInt DEF Parts
<1>9. \A x \in Accounts : g[x] \in Int BY <1>2 DEF Parts, IsTrader, Magnitude
<1>10. \A x \in Accounts : h[x] = f[x] - k * g[x]
  <2> TAKE x \in Accounts
  <2> DEFINE acc == u.ma[x]
             l == u.cache.perp.long_funding
             s == u.cache.perp.short_funding
             b == acc.base_position
             y == l - acc.long_settled_funding
             z == s - acc.short_settled_funding
  <2>1. IsTrader(acc) BY <1>2 DEF Parts
  <2>2. l \in Int /\ s \in Int BY <1>2, FundingInt
  <2>3. v.cache.perp.long_funding = l + k /\ v.cache.perp.short_funding = s - k
    BY <1>2 DEF Agree, Refunded
  <2>4. v.ma[x] = acc BY DEF Refunded
  <2>5. b \in Int /\ acc.quote_position \in Int /\ y \in Int /\ z \in Int
        /\ acc.long_settled_funding \in Int /\ acc.short_settled_funding \in Int
    BY <2>1, <2>2 DEF IsTrader
  <2>6. (l + k) - acc.long_settled_funding = y + k /\ (s - k) - acc.short_settled_funding = z - k
    BY <2>2, <2>5
  <2>7. f[x] = acc.quote_position - Funding(acc, u.cache.perp)
        /\ h[x] = acc.quote_position - Funding(acc, v.cache.perp)
        /\ g[x] = Magnitude(b)
    BY <2>4 DEF get_quote_position
  <2>8. CASE b > 0
    <3>1. Funding(acc, u.cache.perp) = y * b BY <2>5, <2>8 DEF Funding
    <3>2. Funding(acc, v.cache.perp) = (y + k) * b BY <2>3, <2>5, <2>6, <2>8 DEF Funding
    <3>3. Magnitude(b) = b BY <2>5, <2>8 DEF Magnitude
    <3> HIDE DEF acc, b, y, z, f, g, h
    <3>4. (y + k) * b = y * b + k * b BY <2>5
    <3>5. y * b \in Int /\ k * b \in Int BY <2>5
    <3> QED BY <2>5, <2>7, <3>1, <3>2, <3>3, <3>4, <3>5
  <2>9. CASE b < 0
    <3>1. Funding(acc, u.cache.perp) = z * b BY <2>5, <2>9 DEF Funding
    <3>2. Funding(acc, v.cache.perp) = (z - k) * b BY <2>3, <2>5, <2>6, <2>9 DEF Funding
    <3>3. Magnitude(b) = -b BY <2>5, <2>9 DEF Magnitude
    <3> HIDE DEF acc, b, y, z, f, g, h
    <3>4. (z - k) * b = z * b - k * b /\ k * (-b) = -(k * b) BY <2>5
    <3>5. z * b \in Int /\ k * b \in Int BY <2>5
    <3> QED BY <2>5, <2>7, <3>1, <3>2, <3>3, <3>4, <3>5
  <2>10. CASE b = 0
    <3>1. Funding(acc, u.cache.perp) = 0 /\ Funding(acc, v.cache.perp) = 0
      BY <2>10 DEF Funding
    <3>2. Magnitude(b) = 0 /\ k * 0 = 0 BY <2>10 DEF Magnitude
    <3> HIDE DEF acc, b, y, z, f, g, h
    <3> QED BY <2>5, <2>7, <3>1, <3>2
  <2> QED BY <2>5, <2>8, <2>9, <2>10
<1>11. IsFiniteSet(Accounts) BY MarginAssumption
<1>12. Quotes(u) = SumFunctionOnSet(f, Accounts) /\ Open(u) = SumFunctionOnSet(g, Accounts)
       /\ Quotes(v) = SumFunctionOnSet(h, Accounts)
  BY DEF Quotes, Open
<1> HIDE DEF f, g, h
<1>13. Quotes(v) = Quotes(u) - k * Open(u) BY <1>8, <1>9, <1>10, <1>11, <1>12, SumScaled
<1>14. Net(u) \in Int /\ Open(u) \in Nat /\ Quotes(u) \in Int BY <1>2, SumsInt
<1>15. u.market.fees_accrued \in Int /\ v.market.fees_accrued = u.market.fees_accrued
  BY <1>2 DEF Parts, IsMarket, Refunded
<1>16. Claim(v) = Claim(u) + (-(k * Open(u)))
  <2>1. k * Open(u) \in Int BY <1>14
  <2> QED BY <1>13, <1>14, <1>15, <2>1 DEF Claim
<1>17. Net(v) = Net(u) + 0 BY <1>6, <1>14
<1>18. \A x \in Accounts \ {} : v.ma[x] = u.ma[x] BY DEF Refunded
<1> QED BY <1>2, <1>7, <1>16, <1>17, <1>18 DEF Shifted

(* A socialized perp loss: with open interest it is charged to the others,  *)
(* and without it dropped.  The account that had it owes nothing any more.  *)
LEMMA PerpSocialized ==
  ASSUME NEW w, Sound(w), NEW a \in Accounts, w.ma[a].quote_position < 0
  PROVE  \E c \in Nat :
           /\ Moved(w, PerpSocialize(w, a), {a}, 0, c)
           /\ w.market.open_interest # 0 => c < w.market.open_interest
           /\ SameBalances(w.ma[a], PerpSocialize(w, a).ma[a])
           /\ PerpSocialize(w, a).ma[a].quote_position = 0
<1> DEFINE q == w.ma[a].quote_position
           o == w.market.open_interest
           loss == IF o = 0 THEN 0 ELSE Div(q, o * One)
           m == [w.market EXCEPT !.long_funding = @ - loss, !.short_funding = @ + loss]
           p == [w.cache.perp EXCEPT !.long_funding = m.long_funding,
                                     !.short_funding = m.short_funding]
           c == [w.cache EXCEPT !.perp = p]
           r == [w.ma[a] EXCEPT !.quote_position = 0]
           v == [w EXCEPT !.ma[a] = r, !.market = m, !.cache = c]
           u == AddQuote(w, a, -q)
<1>1. PerpSocialize(w, a) = v BY DEF PerpSocialize
<1>2. /\ {"ma", "bank", "cache", "ok", "market", "funds"} \subseteq DOMAIN w
      /\ DOMAIN w.ma = Accounts
  BY Fields
<1>3. IsTrader(w.ma[a]) /\ IsMarket(w.market) /\ IsCache(w.cache) BY DEF Sound, Parts
<1>4. q \in Int /\ -q \in Int BY <1>3 DEF IsTrader
<1>5. o \in Nat BY SumsInt DEF Sound
<1>6. /\ loss \in Int
      /\ 0 <= -q - (-loss) * o
      /\ o # 0 => -q - (-loss) * o < o
  <2>1. CASE o = 0
    <3>1. loss = 0 /\ (-0) * 0 = 0 BY <2>1
    <3> HIDE DEF q, o, loss
    <3>2. (-loss) * o = 0 BY <2>1, <3>1
    <3> QED BY <1>4, <2>1, <3>1, <3>2 DEF q
  <2>2. CASE o # 0
    <3>1. loss = Div(q, o * One) BY <2>2
    <3>2. o \in Nat \ {0} BY <1>5, <2>2
    <3> HIDE DEF loss, o
    <3> QED BY <1>4, <3>1, <3>2, SharedLoss
  <2> QED BY <2>1, <2>2
<1>7. -loss \in Int BY <1>6
<1> HIDE DEF loss
<1>8. /\ IsMarket(m) /\ m.open_interest = w.market.open_interest
      /\ m.fees_accrued = w.market.fees_accrued
      /\ m.long_funding = w.market.long_funding + (-loss)
      /\ m.short_funding = w.market.short_funding - (-loss)
  BY <1>3, <1>6 DEF IsMarket
<1> HIDE DEF m
<1>9. /\ {"long_funding", "short_funding"} \subseteq DOMAIN p
      /\ p.long_funding = m.long_funding /\ p.short_funding = m.short_funding
  BY <1>3 DEF IsCache
<1> HIDE DEF p
<1>10. DOMAIN c = DOMAIN w.cache /\ c.bank = w.cache.bank /\ c.price = w.cache.price /\ c.perp = p
  BY <1>3 DEF IsCache
<1> HIDE DEF c
<1>11. IsCache(c) BY <1>3, <1>9, <1>10 DEF IsCache
<1>12. /\ Moved(w, u, {a}, 0, -q) /\ u.cache = w.cache /\ u.market = w.market /\ u.funds = w.funds
       /\ SameBalances(w.ma[a], u.ma[a])
  BY <1>4, AddQuoteMoved
<1>13. u.ma = [w.ma EXCEPT ![a] = r] /\ u.bank = w.bank /\ DOMAIN u = DOMAIN w
  <2>1. q + (-q) = 0 BY <1>4
  <2>2. u = [w EXCEPT !.ma = [w.ma EXCEPT ![a] = [w.ma[a] EXCEPT !.quote_position = q + (-q)]]]
    BY DEF AddQuote
  <2>3. u = [w EXCEPT !.ma = [w.ma EXCEPT ![a] = r]] BY <2>1, <2>2
  <2> HIDE DEF u, r
  <2> QED BY <1>2, <2>3
<1>14. r.quote_position = 0 BY <1>3 DEF IsTrader
<1> HIDE DEF r
<1>15. /\ DOMAIN v = DOMAIN w /\ v.ma = [w.ma EXCEPT ![a] = r] /\ v.bank = w.bank
       /\ v.funds = w.funds /\ v.market = m /\ v.cache = c
  BY <1>2
<1> HIDE DEF u, v
<1>16. Refunded(u, v, -loss)
  BY <1>8, <1>9, <1>10, <1>11, <1>12, <1>13, <1>15 DEF Refunded
<1>17. Sound(u) BY <1>12 DEF Moved, Shifted
<1>18. Shifted(u, v, {}, 0, -((-loss) * u.market.open_interest)) BY <1>7, <1>16, <1>17, RefundShifted
<1>19. Moved(u, v, {}, 0, -((-loss) * o)) BY <1>12, <1>13, <1>15, <1>18 DEF Moved
<1> DEFINE k == (-loss) * o
<1>20. k \in Int BY <1>5, <1>7
<1>21. 0 <= -q - k /\ (o # 0 => -q - k < o) BY <1>6
<1>22. Moved(u, v, {}, 0, -k) BY <1>19
<1> HIDE DEF q, o, k
<1>23. {} \subseteq {a} /\ {a} \subseteq {a} /\ -k \in Int /\ 0 \in Int BY <1>20
<1>24. Moved(w, v, {a}, 0 + 0, -q + (-k)) BY <1>4, <1>12, <1>22, <1>23, MovedTwice
<1> DEFINE e == -q - k
<1>25. e \in Nat /\ -q + (-k) = e BY <1>4, <1>20, <1>21
<1>26. o # 0 => e < o BY <1>21
<1> HIDE DEF e
<1>27. Moved(w, v, {a}, 0, e) BY <1>24, <1>25
<1>28. v.ma[a] = r /\ v.ma[a] = u.ma[a] BY <1>2, <1>13, <1>15
<1>29. SameBalances(w.ma[a], v.ma[a]) /\ v.ma[a].quote_position = 0 BY <1>12, <1>14, <1>28
<1>30. o = w.market.open_interest BY DEF o
<1> QED BY <1>1, <1>25, <1>26, <1>27, <1>29, <1>30

(* A borrow that is written off: the lenders pay through the index, and the *)
(* deposits of the account stay.                                            *)
LEMMA SocializeMoved ==
  ASSUME NEW w, Sound(w), NEW a \in Accounts, NEW t \in Tokens
  PROVE  /\ Moved(w, socialize_loss(w, a, t), {a}, 0, 0)
         /\ socialize_loss(w, a, t).ma[a].deposits = w.ma[a].deposits
         /\ socialize_loss(w, a, t).ma[a].base_position = w.ma[a].base_position
         /\ socialize_loss(w, a, t).ma[a].quote_position = w.ma[a].quote_position
<1> DEFINE b == w.bank[t]
           loss == w.ma[a].borrows[t]
           native_deposits == Mul(b.deposits, b.deposit_index)
           percentage == Div(Mul(loss, b.borrow_index), native_deposits)
           index == b.deposit_index - Mul(percentage, b.deposit_index)
           n == [b EXCEPT !.deposit_index = index]
           e == [w.cache.bank[t] EXCEPT !.deposit_index = index]
           c == [w.cache EXCEPT !.bank[t] = e]
           u == [w EXCEPT !.bank[t] = n, !.cache = c]
           k == -Smaller(loss, b.borrows)
           x == Adjust(u, a, t, 0, k)
           v == Nonzero(x, native_deposits)
<1>1. socialize_loss(w, a, t) = v BY DEF socialize_loss
<1>2. {"ma", "bank", "cache", "ok", "market", "funds"} \subseteq DOMAIN w /\ DOMAIN w.bank = Tokens
  BY Fields
<1>3. IsCache(w.cache) /\ IsFund(w.funds) BY DEF Sound, Parts
<1>4. \A y \in Tokens : IsBank(w.bank[y]) /\ IsRoot(w.bank[y])
  BY DEF Sound, Books, Shape, Parts
<1>5. b.deposits \in Int /\ b.borrows \in Int /\ b.deposit_index \in Int /\ b.borrow_index \in Int
  BY <1>4 DEF IsBank, IsRoot
<1>6. loss \in Int BY DEF Sound, Books, Shape, IsAccount
<1>7. native_deposits \in Int BY <1>5, MulInt
<1>8. Mul(loss, b.borrow_index) \in Int BY <1>5, <1>6, MulInt
<1>9. percentage \in Int BY <1>7, <1>8, DivInt
<1>10. index \in Int
  <2>1. Mul(percentage, b.deposit_index) \in Int BY <1>5, <1>9, MulInt
  <2> HIDE DEF percentage
  <2> QED BY <1>5, <2>1
<1>11. k \in Int BY <1>5, <1>6 DEF Smaller
<1> HIDE DEF index, k, native_deposits
<1>12. /\ IsBank(n) /\ IsRoot(n) /\ n.deposits = b.deposits /\ n.borrows = b.borrows
       /\ n.deposit_index = index /\ n.borrow_index = b.borrow_index
  BY <1>4, <1>10 DEF IsBank, IsRoot
<1>13. /\ {"deposit_index", "borrow_index"} \subseteq DOMAIN e
       /\ e.deposit_index = index /\ e.borrow_index = w.cache.bank[t].borrow_index
  BY <1>3 DEF IsCache
<1> HIDE DEF n, e
<1>14. /\ DOMAIN c = DOMAIN w.cache /\ c.price = w.cache.price /\ c.perp = w.cache.perp
       /\ DOMAIN c.bank = Tokens /\ c.bank[t] = e
       /\ \A y \in Tokens \ {t} : c.bank[y] = w.cache.bank[y]
  BY <1>3 DEF IsCache
<1> HIDE DEF c
<1>15. IsCache(c) BY <1>3, <1>13, <1>14 DEF IsCache
<1>16. /\ DOMAIN u = DOMAIN w /\ u.ma = w.ma /\ u.market = w.market /\ u.cache = c
       /\ u.funds = w.funds
       /\ DOMAIN u.bank = Tokens /\ u.bank[t] = n /\ \A y \in Tokens \ {t} : u.bank[y] = w.bank[y]
  BY <1>2
<1> HIDE DEF u
<1>17. Agree(w) BY DEF Sound
<1>18. Agree(u) BY <1>12, <1>13, <1>14, <1>16, <1>17 DEF Agree
<1>19. \A y \in Tokens : /\ IsBank(u.bank[y]) /\ IsRoot(u.bank[y])
                         /\ u.bank[y].deposits = w.bank[y].deposits
                         /\ u.bank[y].borrows = w.bank[y].borrows
  BY <1>4, <1>12, <1>16
<1>20. IsCache(u.cache) /\ IsFund(u.funds) BY <1>3, <1>15, <1>16
<1>21. Moved(w, u, {}, 0, 0) BY <1>16, <1>18, <1>19, <1>20, KeptMoved
<1>22. Sound(u) BY <1>21 DEF Moved, Shifted
<1>23. Books(u, Accounts, Tokens) BY <1>22 DEF Sound
<1>24. Booked(u, x, a, t, 0, k) BY <1>11, <1>23, AdjustBooked DEF Books
<1>25. Rebooked(u, v, {a}, Accounts, Tokens)
  BY <1>11, <1>23, MarginAssumption, AdjustNonzero
<1>26. Rebooked(u, x, {a}, Accounts, Tokens) BY <1>11, <1>23, MarginAssumption, AdjustBooks
<1>27. v.ma = x.ma
  <2> HIDE DEF x
  <2>1. "ma" \in DOMAIN x BY <1>26 DEF Rebooked, Books, Shape
  <2> QED BY <2>1 DEF Nonzero
<1> HIDE DEF x, v
<1>28. Moved(u, v, {a}, 0, 0) BY <1>22, <1>25, BookMoved
<1>29. {} \subseteq {a} /\ {a} \subseteq {a} OBVIOUS
<1>30. Moved(w, v, {a}, 0, 0) BY <1>21, <1>28, <1>29, StillTwice
<1>31. v.ma[a].deposits = w.ma[a].deposits
  <2>1. v.ma[a].deposits = [w.ma[a].deposits EXCEPT ![t] = @ + 0]
    BY <1>16, <1>24, <1>27 DEF Booked
  <2>2. w.ma[a].deposits \in [Tokens -> Int] BY DEF Sound, Books, Shape, IsAccount
  <2>3. w.ma[a].deposits[t] + 0 = w.ma[a].deposits[t] BY <2>2
  <2> QED BY <2>1, <2>2, <2>3
<1>32. SameAccount(w.ma[a], v.ma[a]) BY <1>16, <1>25 DEF Rebooked, Kept
<1>33. IsTrader(w.ma[a]) BY DEF Sound, Parts
<1>34. v.ma[a].base_position = w.ma[a].base_position /\ v.ma[a].quote_position = w.ma[a].quote_position
  BY <1>32, <1>33 DEF SameAccount, IsTrader
<1> QED BY <1>1, <1>30, <1>31, <1>34

(* Fees that leave the market. *)
LEMMA FeesMoved ==
  ASSUME NEW w, Sound(w), NEW a \in Accounts, NEW fees \in Nat, NEW F, IsFund(F)
  PROVE  Moved(w, [w EXCEPT !.market.fees_accrued = fees, !.funds = F], {a}, 0,
               fees - w.market.fees_accrued)
<1> DEFINE m == [w.market EXCEPT !.fees_accrued = fees]
           v == [w EXCEPT !.market = m, !.funds = F]
           acc == w.ma[a]
<1>1. {"ma", "bank", "cache", "ok", "market", "funds"} \subseteq DOMAIN w /\ DOMAIN w.ma = Accounts
  BY Fields
<1>2. IsMarket(w.market) /\ IsTrader(acc) BY DEF Sound, Parts
<1>3. /\ IsMarket(m) /\ m.long_funding = w.market.long_funding
      /\ m.short_funding = w.market.short_funding /\ m.open_interest = w.market.open_interest
      /\ m.fees_accrued = fees
  BY <1>2 DEF IsMarket
<1> HIDE DEF m
<1>4. /\ DOMAIN v = DOMAIN w /\ v.ma = w.ma /\ v.bank = w.bank /\ v.cache = w.cache
      /\ v.market = m /\ v.funds = F
  BY <1>1
<1> HIDE DEF v
<1>5. acc.base_position \in Int /\ w.market.open_interest \in Int /\ w.market.fees_accrued \in Int
  BY <1>2 DEF IsTrader, IsMarket
<1>6. Magnitude(acc.base_position) \in Int BY <1>5 DEF Magnitude
<1>7. get_quote_position(acc, w.cache.perp) \in Int BY <1>2, FundingInt, QuoteInt DEF Sound
<1>8. {"deposits", "borrows"} \subseteq DOMAIN acc BY DEF Sound, Books, Shape, IsAccount
<1>9. /\ v.ma[a].base_position = w.ma[a].base_position + 0
      /\ v.market.open_interest = w.market.open_interest
           + (Magnitude(v.ma[a].base_position) - Magnitude(w.ma[a].base_position))
  BY <1>3, <1>4, <1>5, <1>6
<1>10. (v.market.fees_accrued - w.market.fees_accrued)
          + (get_quote_position(v.ma[a], w.cache.perp)
               - get_quote_position(w.ma[a], w.cache.perp)) = fees - w.market.fees_accrued
  BY <1>3, <1>4, <1>5, <1>7
<1>11. Traded(w, v, a, 0, fees - w.market.fees_accrued)
  BY <1>1, <1>2, <1>3, <1>4, <1>8, <1>9, <1>10 DEF Traded
<1>12. fees - w.market.fees_accrued \in Int BY <1>5
<1>13. Shifted(w, v, {a}, 0, fees - w.market.fees_accrued) BY <1>11, <1>12, TraderShifted
<1>14. Moved(w, v, {a}, 0, fees - w.market.fees_accrued) BY <1>4, <1>13 DEF Moved
<1>15. v = [w EXCEPT !.market.fees_accrued = fees, !.funds = F] BY DEF v, m
<1> QED BY <1>14, <1>15

-----------------------------------------------------------------------------
(* The invariant, and the end of an instruction *)

(* A bankrupt account has no position and less than a unit of quote. *)
Poor(acc) == acc.base_position = 0 /\ acc.quote_position < One

MarginInv ==
  /\ Sound(Work)
  /\ Net(Work) = 0
  /\ now \in Int
  /\ \A a \in Accounts : ma[a].is_bankrupt => Poor(ma[a])

(* Its deposits are dust, or were and grew by less than a unit of quote. *)
Dust(acc, a) ==
  \A t \in Tokens :
    \/ acc.deposits[t] <= DustThreshold
    \/ /\ ma[a].is_bankrupt
       /\ (acc.deposits[t] - ma[a].deposits[t]) * cache.bank[t].deposit_index * get_price(Work, t)
            < One * One * One

ClaimStep ==
  /\ Claims' >= Claims
  /\ market.open_interest # 0 => Claims' < Claims + market.open_interest

DustStep == \A a \in Accounts : ma'[a].is_bankrupt => Poor(ma'[a]) /\ Dust(ma'[a], a)

Preserved == MarginInv' /\ ClaimStep /\ DustStep

(* The parts of the record an instruction starts from. *)
LEMMA WorkFields ==
  /\ Work.ma = ma /\ Work.bank = bank /\ Work.market = market
  /\ Work.cache = cache /\ Work.funds = funds
BY DEF Work

(* Prices are positive. *)
LEMMA PriceNat ==
  ASSUME NEW w, Sound(w), NEW t PROVE get_price(w, t) \in Nat \ {0}
<1>1. w.cache.price.price \in Nat \ {0} BY DEF Sound, Parts, IsCache
<1> QED BY <1>1, RateAssumption DEF get_price

(* Records with the same parts are in order together. *)
LEMMA SoundSame ==
  ASSUME NEW w, NEW v, Sound(w), {"ma", "bank", "cache", "ok", "market", "funds"} \subseteq DOMAIN v,
         v.ma = w.ma, v.bank = w.bank, v.market = w.market, v.cache = w.cache, v.funds = w.funds
  PROVE  Sound(v) /\ Net(v) = Net(w) /\ Claim(v) = Claim(w)
<1>1. Books(v, Accounts, Tokens) BY DEF Sound, Books, Shape, Totals
<1>2. Parts(v) BY DEF Sound, Parts
<1>3. Agree(v) BY DEF Sound, Agree
<1>4. Open(v) = Open(w) /\ Net(v) = Net(w) BY DEF Open, Net
<1>5. Claim(v) = Claim(w) BY DEF Claim, Quotes
<1> QED BY <1>1, <1>2, <1>3, <1>4, <1>5 DEF Sound

(* The sum over a domain, for the claims of the properties. *)
LEMMA ClaimSum ==
  ASSUME NEW w
  PROVE  Claim(w) = w.market.fees_accrued
           + SumFunction([a \in Accounts |-> get_quote_position(w.ma[a], w.cache.perp)])
<1> DEFINE f == [a \in Accounts |-> get_quote_position(w.ma[a], w.cache.perp)]
<1>1. SumFunction(f) = SumFunctionOnSet(f, Accounts)
  <2>1. DOMAIN f = Accounts OBVIOUS
  <2> HIDE DEF f
  <2> QED BY <2>1, SumDomain
<1> QED BY <1>1 DEF Claim, Quotes

(* Deposits that stay are no gain. *)
LEMMA DustSame ==
  ASSUME Sound(Work), NEW a \in Accounts, ma[a].is_bankrupt, NEW acc, acc.deposits = ma[a].deposits
  PROVE  Dust(acc, a)
<1> SUFFICES ASSUME NEW t \in Tokens
             PROVE  (acc.deposits[t] - ma[a].deposits[t]) * cache.bank[t].deposit_index
                      * get_price(Work, t) < One * One * One
  BY DEF Dust
<1>1. ma[a].deposits[t] \in Int /\ cache.bank[t].deposit_index \in Int
  BY BalancesInt, WorkFields DEF Sound, Books
<1>2. get_price(Work, t) \in Int BY PriceNat
<1>3. (acc.deposits[t] - ma[a].deposits[t]) * cache.bank[t].deposit_index * get_price(Work, t) = 0
  BY <1>1, <1>2
<1>4. One * One * One > 0
  <2>1. One \in Nat \ {0} BY RateAssumption
  <2>2. One * One \in Nat \ {0} BY <2>1
  <2> QED BY <2>1, <2>2
<1> QED BY <1>3, <1>4

(* The end of an instruction, from what it has moved. *)
LEMMA Committed ==
  ASSUME MarginInv, NEW v, NEW n, CommitAfter(v, n), NEW A, NEW c \in Nat,
         market.open_interest # 0 => c < market.open_interest,
         Shifted(Work, v, A, 0, c),
         \A x \in Accounts \cap A : v.ma[x].is_bankrupt => Poor(v.ma[x]) /\ Dust(v.ma[x], x)
  PROVE  Preserved
<1>1. /\ ma' = v.ma /\ bank' = v.bank /\ market' = v.market /\ cache' = v.cache
      /\ funds' = v.funds /\ now' = now
  BY DEF CommitAfter
<1>2. /\ Sound(Work) /\ Net(Work) = 0 /\ now \in Int
      /\ \A a \in Accounts : ma[a].is_bankrupt => Poor(ma[a])
  BY DEF MarginInv
<1>3. /\ Sound(v) /\ Net(v) = Net(Work) + 0 /\ Claim(v) = Claim(Work) + c
      /\ \A x \in Accounts \ A : v.ma[x] = ma[x]
  BY WorkFields DEF Shifted
<1> DEFINE u == [ma |-> ma', bank |-> bank', market |-> market', cache |-> cache', funds |-> funds',
                 ok |-> TRUE]
<1>4. Work' = u BY DEF Work
<1>5. Sound(u) /\ Net(u) = Net(v) /\ Claim(u) = Claim(v)
  <2>1. /\ {"ma", "bank", "cache", "ok", "market", "funds"} \subseteq DOMAIN u
        /\ u.ma = v.ma /\ u.bank = v.bank /\ u.market = v.market /\ u.cache = v.cache
        /\ u.funds = v.funds
    BY <1>1
  <2> HIDE DEF u
  <2> QED BY <1>3, <2>1, SoundSame
<1>6. DustStep
  <2> SUFFICES ASSUME NEW a \in Accounts, v.ma[a].is_bankrupt PROVE Poor(v.ma[a]) /\ Dust(v.ma[a], a)
    BY <1>1 DEF DustStep
  <2>1. CASE a \in A BY <2>1
  <2>2. CASE a \notin A
    <3>1. v.ma[a] = ma[a] BY <1>3, <2>2
    <3>2. ma[a].is_bankrupt /\ Poor(ma[a]) BY <1>2, <3>1
    <3>3. Dust(ma[a], a) BY <1>2, <3>2, DustSame
    <3> QED BY <3>1, <3>2, <3>3
  <2> QED BY <2>1, <2>2
<1>7. MarginInv'
  <2>1. Net(Work) + 0 = 0 BY <1>2
  <2>2. \A a \in Accounts : ma'[a].is_bankrupt => Poor(ma'[a]) BY <1>6 DEF DustStep
  <2> HIDE DEF u
  <2> QED BY <1>1, <1>2, <1>3, <1>4, <1>5, <2>1, <2>2 DEF MarginInv, Poor
<1>8. ClaimStep
  <2>1. Claims = Claim(Work) BY ClaimSum, WorkFields DEF Claims
  <2>2. Claims' = Claim(u)
    <3>1. u.ma = ma' /\ u.market = market' /\ u.cache = cache' OBVIOUS
    <3> HIDE DEF u
    <3> QED BY <3>1, ClaimSum DEF Claims
  <2>3. Claim(Work) \in Int /\ Open(Work) \in Nat BY <1>2, SumsInt DEF Sound
  <2>4. market.open_interest \in Nat BY <1>2, <2>3, WorkFields DEF Sound
  <2>5. Claims' = Claim(Work) + c BY <1>3, <1>5, <2>2
  <2> QED BY <2>1, <2>3, <2>4, <2>5 DEF ClaimStep
<1> QED BY <1>6, <1>7, <1>8 DEF Preserved

(* The end of an instruction on accounts that are not bankrupt. *)
LEMMA CommittedMoved ==
  ASSUME MarginInv, NEW v, NEW n, CommitAfter(v, n), NEW A, Moved(Work, v, A, 0, 0),
         \A x \in Accounts \cap A : ~ma[x].is_bankrupt
  PROVE  Preserved
<1>1. \A x \in Accounts \cap A : ~v.ma[x].is_bankrupt BY WorkFields DEF Moved
<1>2. Shifted(Work, v, A, 0, 0) BY DEF Moved
<1>3. Open(Work) \in Nat /\ Open(Work) = market.open_interest
  BY SumsInt, WorkFields DEF MarginInv, Sound
<1>4. market.open_interest # 0 => 0 < market.open_interest BY <1>3
<1> QED BY <1>1, <1>2, <1>4, Committed

-----------------------------------------------------------------------------
(* Amounts are integers *)

(* Rounding to whole units. *)
LEMMA FloorInt == ASSUME NEW x \in Int PROVE Floor(x) \in Int /\ Ceil(x) \in Int
BY RateAssumption DEF Floor, Ceil

(* Health. *)
LEMMA HealthInt ==
  ASSUME NEW w, Sound(w), NEW a \in Accounts, NEW type \in {"init", "maint"}
  PROVE  get_health(w, a, type) \in Int
<1>1. \A t \in Tokens : get_net(w, a, t) \in Int
  <2> TAKE t \in Tokens
  <2>1. /\ native_deposit(w, a, t) \in Int /\ native_borrow(w, a, t) \in Int
        /\ -native_borrow(w, a, t) \in Int
    BY BalancesInt DEF Sound, Books
  <2>2. w.ma[a].deposits[t] \in Int /\ w.ma[a].borrows[t] \in Int
    BY BalancesInt DEF Sound, Books
  <2> QED BY <2>1, <2>2 DEF get_net
<1>2. get_price(w, Base) \in Int BY PriceNat
<1>3. w.ma[a].base_position \in Int BY DEF Sound, Parts, IsTrader
<1>4. get_quote_position(w.ma[a], w.cache.perp) \in Int BY FundingInt, QuoteInt DEF Sound, Parts
<1>5. get_spot_val(w, a) \in Int BY <1>1, <1>2, MulInt DEF get_spot_val, Tokens
<1>6. get_val(w, a) \in Int BY <1>2, <1>3 DEF get_val
<1>7. /\ Spot[type].asset \in Int /\ Spot[type].liab \in Int
      /\ Perp[type].asset \in Int /\ Perp[type].liab \in Int
  BY MarginAssumption DEF MarketWeights
<1>8. ASSUME NEW x \in Int, NEW y, y.asset \in Int, y.liab \in Int PROVE Weighted(x, y) \in Int
  BY <1>8, MulInt DEF Weighted
<1>9. Weighted(get_spot_val(w, a), Spot[type]) \in Int BY <1>5, <1>7, <1>8
<1>10. Weighted(get_val(w, a), Perp[type]) \in Int BY <1>6, <1>7, <1>8
<1>11. get_net(w, a, Quote) \in Int BY <1>1 DEF Tokens
<1> QED BY <1>4, <1>9, <1>10, <1>11 DEF get_health

(* What a liquidation transfers. *)
LEMMA LiabTransferInt ==
  ASSUME NEW health \in Int, NEW max \in Int, NEW price, NEW liab \in Int, NEW asset \in Int, NEW fee,
         price.asset \in Int, price.liab \in Int, fee.asset \in Int, fee.liab \in Int,
         fee.asset_weight \in Int, fee.liab_weight \in Int
  PROVE  LiabTransfer(health, max, price, liab, asset, fee) \in Int
<1> DEFINE x == Div(Mul(fee.asset_weight, fee.asset), fee.liab)
           y == Mul(price.liab, fee.liab_weight - x)
           deficit == Div(-health, y)
           z == Mul(Mul(asset, price.asset), fee.liab)
           implied == Div(z, Mul(price.liab, fee.asset))
<1>1. Mul(fee.asset_weight, fee.asset) \in Int BY MulInt
<1>2. x \in Int BY <1>1, DivInt
<1>3. fee.liab_weight - x \in Int /\ -health \in Int
  <2> HIDE DEF x
  <2> QED BY <1>2
<1>4. y \in Int BY <1>3, MulInt
<1>5. deficit \in Int BY <1>3, <1>4, DivInt
<1>6. Mul(asset, price.asset) \in Int BY MulInt
<1>7. z \in Int BY <1>6, MulInt
<1>8. Mul(price.liab, fee.asset) \in Int BY MulInt
<1>9. implied \in Int BY <1>7, <1>8, DivInt
<1>10. LiabTransfer(health, max, price, liab, asset, fee)
         = Smaller(Smaller(Smaller(deficit, liab), max), implied)
  BY DEF LiabTransfer
<1> HIDE DEF deficit, implied
<1> QED BY <1>5, <1>9, <1>10 DEF Smaller

(* And what it is paid with. *)
LEMMA AssetTransferInt ==
  ASSUME NEW x \in Int, NEW price, NEW fee,
         price.asset \in Int, price.liab \in Int, fee.asset \in Int, fee.liab \in Int
  PROVE  AssetTransfer(x, price, fee) \in Int
<1>1. Mul(x, price.liab) \in Int BY MulInt
<1>2. Mul(Mul(x, price.liab), fee.asset) \in Int BY <1>1, MulInt
<1>3. Mul(fee.liab, price.asset) \in Int BY MulInt
<1> QED BY <1>2, <1>3, DivInt DEF AssetTransfer

(* Fees and weights of a token. *)
LEMMA WeightsInt ==
  ASSUME NEW t
  PROVE  /\ AssetFee(t) \in Int /\ LiabFee(t) \in Int
         /\ InitAssetWeight(t) \in Int /\ InitLiabWeight(t) \in Int
<1>1. One \in Int /\ Spot.fee \in Int /\ Spot.init.asset \in Int /\ Spot.init.liab \in Int
  BY RateAssumption, MarginAssumption DEF MarketWeights
<1> QED BY <1>1 DEF AssetFee, LiabFee, InitAssetWeight, InitLiabWeight

-----------------------------------------------------------------------------
(* Liquidations end *)

(* The flags at the end of a liquidation: an account becomes bankrupt only  *)
(* with nothing left to take.                                               *)
LEMMA Concluded ==
  ASSUME MarginInv, NEW liqee \in Accounts, NEW liqor \in Accounts, Parties(liqee, liqor),
         NEW w, Moved(Work, w, {liqee, liqor}, 0, 0), Commit(Conclude(w, liqee, liqor))
  PROVE  Preserved
<1> DEFINE maint == get_health(w, liqee, "maint")
           bankrupt == maint < 0 /\ check_enter_bankruptcy(w.ma[liqee])
           going_on == maint < 0 \/ get_health(w, liqee, "init") < -One
           r == Flagged(w.ma[liqee], bankrupt, going_on)
           u == With(w, liqee, r)
           p == get_health(w, liqor, "init") >= 0
           v == Require(u, p)
<1>1. Conclude(w, liqee, liqor) = v BY DEF Conclude, With, Flagged
<1>2. Sound(Work) /\ Sound(w) BY DEF MarginInv, Moved, Shifted
<1> HIDE DEF bankrupt, going_on, p
<1>3. /\ Shifted(w, u, {liqee}, 0, 0) /\ SameBalances(w.ma[liqee], r)
      /\ r.quote_position = w.ma[liqee].quote_position
  BY <1>2, FlagShifted
<1>4. r.is_bankrupt = bankrupt
  <2>1. {"is_bankrupt", "being_liquidated"} \subseteq DOMAIN w.ma[liqee]
    BY <1>2 DEF Sound, Parts, IsTrader
  <2> QED BY <2>1 DEF Flagged
<1>5. u.ma[liqee] = r /\ \A x \in Accounts \ {liqee} : u.ma[x] = w.ma[x] BY <1>2, WithFields
<1>6. Sound(u) BY <1>3 DEF Shifted
<1> HIDE DEF r, u
<1>7. Moved(u, v, {}, 0, 0) BY <1>6, RequireMoved
<1>8. v.ma[liqee] = r /\ \A x \in Accounts \ {liqee} : v.ma[x] = w.ma[x]
  BY <1>5, <1>7 DEF Moved, Shifted
<1> HIDE DEF v
<1>9. Shifted(Work, v, {liqee, liqor}, 0, 0)
  <2>1. Net(Work) \in Int /\ Claim(Work) \in Int BY <1>2, SumsInt DEF Sound
  <2>2. Net(w) = Net(Work) + 0 /\ Claim(w) = Claim(Work) + 0 BY DEF Moved, Shifted
  <2>3. Net(u) = Net(w) + 0 /\ Claim(u) = Claim(w) + 0 BY <1>3 DEF Shifted
  <2>4. Net(v) = Net(u) + 0 /\ Claim(v) = Claim(u) + 0 /\ Sound(v) BY <1>7 DEF Moved, Shifted
  <2>5. Net(v) = Net(Work) + 0 /\ Claim(v) = Claim(Work) + 0 BY <2>1, <2>2, <2>3, <2>4
  <2>6. \A x \in Accounts \ {liqee, liqor} : v.ma[x] = Work.ma[x] BY <1>8 DEF Moved, Shifted
  <2> QED BY <2>4, <2>5, <2>6 DEF Shifted
<1>10. ~v.ma[liqor].is_bankrupt BY <1>8, WorkFields DEF Moved, Parties
<1>11. ASSUME v.ma[liqee].is_bankrupt
       PROVE  Poor(v.ma[liqee]) /\ Dust(v.ma[liqee], liqee)
  <2>1. bankrupt BY <1>4, <1>8, <1>11
  <2>2. check_enter_bankruptcy(w.ma[liqee]) BY <2>1 DEF bankrupt
  <2>3. r.deposits = w.ma[liqee].deposits /\ r.base_position = w.ma[liqee].base_position
    BY <1>3 DEF SameBalances
  <2>4. Poor(r)
    <3>1. r.quote_position <= 0 /\ r.base_position = 0 BY <1>3, <2>2, <2>3 DEF check_enter_bankruptcy
    <3>2. r.quote_position \in Int BY <1>2, <1>3 DEF Sound, Parts, IsTrader
    <3> QED BY <3>1, <3>2, RateAssumption DEF Poor
  <2>5. Dust(r, liqee) BY <2>2, <2>3 DEF check_enter_bankruptcy, Dust
  <2> QED BY <1>8, <2>4, <2>5
<1>12. \A x \in Accounts \cap {liqee, liqor} :
         v.ma[x].is_bankrupt => Poor(v.ma[x]) /\ Dust(v.ma[x], x)
  BY <1>10, <1>11
<1>13. CommitAfter(v, 0) BY <1>1 DEF Commit
<1>14. Open(Work) \in Nat /\ Open(Work) = market.open_interest
  BY <1>2, SumsInt, WorkFields DEF Sound
<1>15. market.open_interest # 0 => 0 < market.open_interest BY <1>14
<1> QED BY <1>9, <1>12, <1>13, <1>15, Committed

(* The flag of an account that is not liquidated any more. *)
LEMMA Unflagged ==
  ASSUME NEW w, Sound(w), NEW a \in Accounts
  PROVE  Moved(w, [w EXCEPT !.ma[a].being_liquidated = FALSE], {a}, 0, 0)
<1> DEFINE acc == w.ma[a]
           r == Flagged(acc, acc.is_bankrupt, FALSE)
           v == With(w, a, r)
<1>1. {"is_bankrupt", "being_liquidated"} \subseteq DOMAIN acc BY DEF Sound, Parts, IsTrader
<1>2. r = [acc EXCEPT !.being_liquidated = FALSE] /\ r.is_bankrupt = acc.is_bankrupt BY <1>1 DEF Flagged
<1>3. Shifted(w, v, {a}, 0, 0) BY FlagShifted
<1>4. [w EXCEPT !.ma[a].being_liquidated = FALSE] = v BY <1>2 DEF With
<1> HIDE DEF r
<1>5. v.ma[a] = r /\ \A x \in Accounts \ {a} : v.ma[x] = w.ma[x] BY WithFields
<1> HIDE DEF v
<1>6. Moved(w, v, {a}, 0, 0) BY <1>2, <1>3, <1>5 DEF Moved
<1> QED BY <1>4, <1>6

(* An account found healthy again. *)
LEMMA Released ==
  ASSUME MarginInv, NEW liqee \in Accounts, NEW liqor \in Accounts, Parties(liqee, liqor),
         NEW w, Moved(Work, w, {liqee, liqor}, 0, 0), Release(w, liqee)
  PROVE  Preserved
<1> DEFINE v == [w EXCEPT !.ma[liqee].being_liquidated = FALSE]
<1>1. Sound(Work) /\ Sound(w) BY DEF MarginInv, Moved, Shifted
<1>2. Moved(w, v, {liqee}, 0, 0) BY <1>1, Unflagged
<1>3. CommitAfter(v, 0) BY DEF Release, Commit
<1> HIDE DEF v
<1>4. {liqee, liqor} \subseteq {liqee, liqor} /\ {liqee} \subseteq {liqee, liqor} OBVIOUS
<1>5. Moved(Work, v, {liqee, liqor}, 0, 0) BY <1>1, <1>2, <1>4, StillTwice
<1>6. \A x \in Accounts \cap {liqee, liqor} : ~ma[x].is_bankrupt BY DEF Parties
<1> QED BY <1>3, <1>5, <1>6, CommittedMoved

-----------------------------------------------------------------------------
(* Deposits, withdrawals and keepers *)

(* The facts of a state that every instruction starts from. *)
LEMMA Start ==
  ASSUME MarginInv
  PROVE  /\ Sound(Work) /\ now \in Int
         /\ \A a \in Accounts : ma[a].base_position \in Int /\ ma[a].quote_position \in Int
         /\ cache.price.price \in Nat \ {0} /\ funds.insurance \in Nat
         /\ market.fees_accrued \in Nat /\ IsFund(funds) /\ IsCache(cache)
<1>1. Sound(Work) /\ now \in Int BY DEF MarginInv
<1>2. Parts(Work) BY <1>1 DEF Sound
<1> QED BY <1>1, <1>2, WorkFields DEF Parts, IsTrader, IsCache, IsFund, IsMarket

(* update_index on a bank of the state. *)
LEMMA UpdateMoved ==
  ASSUME MarginInv, NEW t \in Tokens
  PROVE  /\ Moved(Work, Reindexed(Work, t, update_index(bank[t], now)), {}, 0, 0)
         /\ Reindexed(Work, t, update_index(bank[t], now)).ma = ma
         /\ Reindexed(Work, t, update_index(bank[t], now)).funds = funds
<1>1. Sound(Work) /\ now \in Int BY Start
<1>2. IsBank(bank[t]) /\ IsRoot(bank[t]) BY <1>1, WorkFields DEF Sound, Books, Shape, Parts
<1> DEFINE b == update_index(bank[t], now)
<1>3. IsBank(b) /\ IsRoot(b) /\ b.deposits = bank[t].deposits /\ b.borrows = bank[t].borrows
  BY <1>1, <1>2, UpdateIndex
<1> HIDE DEF b
<1>4. /\ Moved(Work, Reindexed(Work, t, b), {}, 0, 0)
      /\ Reindexed(Work, t, b).ma = Work.ma /\ Reindexed(Work, t, b).funds = Work.funds
  BY <1>1, <1>3, WorkFields, ReindexedMoved
<1> QED BY <1>4, WorkFields DEF b

(* Tokens in a wallet leave the insurance fund alone. *)
LEMMA WalletFund ==
  ASSUME NEW f, IsFund(f), NEW a, NEW t, NEW n PROVE IsFund([f EXCEPT !.wallet[a][t] = n])
BY DEF IsFund

(* A deposit. *)
LEMMA DepositStep ==
  ASSUME MarginInv, NEW a \in Accounts, NEW t \in Tokens, NEW q \in DepositQuantities, deposit(a, t, q)
  PROVE  Preserved
<1> DEFINE w0 == Reindexed(Work, t, update_index(bank[t], now))
           n == IF t = Base /\ is_reduce_only(mode.spot)
                  THEN Smaller(q, Floor(native_borrow(w0, a, t))) ELSE q
           F == [w0.funds EXCEPT !.wallet[a][t] = @ - n]
           p == w0.ok /\ funds.wallet[a][t] >= n
           w1 == [w0 EXCEPT !.funds = F, !.ok = p]
           w2 == VaultTransfer(w1, t, n)
           w3 == checked_change_net(w2, a, t, n * One)
<1>1. ~ma[a].is_bankrupt /\ CommitAfter(w3, 1) BY DEF deposit
<1>2. Sound(Work) BY Start
<1>3. Moved(Work, w0, {}, 0, 0) /\ w0.funds = funds BY UpdateMoved
<1>4. Sound(w0) BY <1>3 DEF Moved, Shifted
<1> HIDE DEF w0
<1>5. n \in Int
  <2>1. q \in Int BY InputAssumption
  <2>2. native_borrow(w0, a, t) \in Int BY <1>4, BalancesInt DEF Sound, Books
  <2>3. Floor(native_borrow(w0, a, t)) \in Int BY <2>2, FloorInt
  <2> QED BY <2>1, <2>3 DEF Smaller
<1> HIDE DEF n
<1>6. n * One \in Int BY <1>5, RateAssumption
<1>7. IsFund(F) BY <1>4, WalletFund DEF Sound, Parts
<1> HIDE DEF F, p
<1>8. Moved(w0, w1, {}, 0, 0) BY <1>4, <1>7, OutsideMoved
<1>9. Sound(w1) BY <1>8 DEF Moved, Shifted
<1> HIDE DEF w1
<1>10. Moved(w1, w2, {}, 0, 0) BY <1>5, <1>9, VaultMovedNothing
<1>11. Sound(w2) BY <1>10 DEF Moved, Shifted
<1> HIDE DEF w2
<1>12. Moved(w2, w3, {a}, 0, 0) BY <1>6, <1>11, ChangeNetMoved
<1> HIDE DEF w3
<1>13. {} \subseteq {a} /\ {a} \subseteq {a} OBVIOUS
<1>14. Moved(Work, w1, {a}, 0, 0) BY <1>2, <1>3, <1>8, <1>13, StillTwice
<1>15. Moved(Work, w2, {a}, 0, 0) BY <1>2, <1>10, <1>13, <1>14, StillTwice
<1>16. Moved(Work, w3, {a}, 0, 0) BY <1>2, <1>12, <1>13, <1>15, StillTwice
<1>17. \A x \in Accounts \cap {a} : ~ma[x].is_bankrupt BY <1>1
<1> QED BY <1>1, <1>16, <1>17, CommittedMoved

(* A withdrawal. *)
LEMMA WithdrawStep ==
  ASSUME MarginInv, NEW a \in Accounts, NEW t \in Tokens, NEW q \in WithdrawQuantities,
         NEW b, withdraw(a, t, q, b)
  PROVE  Preserved
<1> DEFINE held == native_deposit(Work, a, t)
           n == IF q = All THEN Floor(held) ELSE q
           w0 == checked_change_net(Work, a, t, -(n * One))
           w1 == VaultTransfer(w0, t, -n)
           F == [w1.funds EXCEPT !.wallet[a][t] = @ + n]
           w2 == [w1 EXCEPT !.funds = F, !.ok = w1.ok]
           w3 == [w2 EXCEPT !.ma[a].being_liquidated = FALSE]
           p == get_health(w0, a, "init") >= 0
           w4 == Require(w3, p)
<1>1. ~ma[a].is_bankrupt /\ CommitAfter(withdraw2(a, t, n), 1) BY DEF withdraw
<1>2. Sound(Work) BY Start
<1>3. n \in Int
  <2>1. q # All => q \in Int BY InputAssumption
  <2>2. held \in Int BY <1>2, BalancesInt DEF Sound, Books
  <2>3. Floor(held) \in Int BY <2>2, FloorInt
  <2> QED BY <2>1, <2>3
<1> HIDE DEF n
<1>4. -(n * One) \in Int /\ -n \in Int BY <1>3, RateAssumption
<1>5. Moved(Work, w0, {a}, 0, 0) BY <1>2, <1>4, ChangeNetMoved
<1>6. Sound(w0) BY <1>5 DEF Moved, Shifted
<1>7. withdraw2(a, t, n) = Require([w1 EXCEPT !.funds.wallet[a][t] = @ + n,
                                              !.ma[a].being_liquidated = FALSE], p)
  BY DEF withdraw2
<1> HIDE DEF w0
<1>8. Moved(w0, w1, {}, 0, 0) BY <1>4, <1>6, VaultMovedNothing
<1>9. Sound(w1) BY <1>8 DEF Moved, Shifted
<1> HIDE DEF w1, p
<1>10. IsFund(F) BY <1>9, WalletFund DEF Sound, Parts
<1>11. [w1 EXCEPT !.funds.wallet[a][t] = @ + n, !.ma[a].being_liquidated = FALSE]
         = [w1 EXCEPT !.funds = F, !.ma[a].being_liquidated = FALSE]
  OBVIOUS
<1> HIDE DEF F
<1>12. [w1 EXCEPT !.funds = F, !.ma[a].being_liquidated = FALSE] = w3
  <2>1. {"ma", "funds", "ok"} \subseteq DOMAIN w1 BY <1>9, Fields
  <2>2. w2 = [w1 EXCEPT !.funds = F] /\ w2.ma = w1.ma BY <2>1
  <2> HIDE DEF w2
  <2> DEFINE M == [w1.ma EXCEPT ![a].being_liquidated = FALSE]
  <2>3. w3 = [w2 EXCEPT !.ma = M] BY <2>2
  <2>4. [w1 EXCEPT !.funds = F, !.ma[a].being_liquidated = FALSE] = [w1 EXCEPT !.funds = F, !.ma = M]
    OBVIOUS
  <2> HIDE DEF M, w3
  <2> QED BY <2>1, <2>2, <2>3, <2>4
<1>13. Moved(w1, w2, {}, 0, 0) BY <1>9, <1>10, OutsideMoved
<1>14. Sound(w2) BY <1>13 DEF Moved, Shifted
<1> HIDE DEF w2
<1>15. Moved(w2, w3, {a}, 0, 0) BY <1>14, Unflagged
<1>16. Sound(w3) BY <1>15 DEF Moved, Shifted
<1>17. CommitAfter(w4, 1) BY <1>1, <1>7, <1>11, <1>12
<1> HIDE DEF w3
<1>18. Moved(w3, w4, {}, 0, 0) BY <1>16, RequireMoved
<1> HIDE DEF w4
<1>19. {} \subseteq {a} /\ {a} \subseteq {a} OBVIOUS
<1>20. Moved(Work, w1, {a}, 0, 0) BY <1>2, <1>5, <1>8, <1>19, StillTwice
<1>21. Moved(Work, w2, {a}, 0, 0) BY <1>2, <1>13, <1>19, <1>20, StillTwice
<1>22. Moved(Work, w3, {a}, 0, 0) BY <1>2, <1>15, <1>19, <1>21, StillTwice
<1>23. Moved(Work, w4, {a}, 0, 0) BY <1>2, <1>18, <1>19, <1>22, StillTwice
<1>24. \A x \in Accounts \cap {a} : ~ma[x].is_bankrupt BY <1>1
<1> QED BY <1>17, <1>23, <1>24, CommittedMoved

(* New indexes. *)
LEMMA UpdateRootBankStep ==
  ASSUME MarginInv, NEW t \in Tokens, update_root_bank(t) PROVE Preserved
<1> DEFINE v == Reindexed(Work, t, update_index(bank[t], now))
<1>1. CommitAfter(v, 0) BY DEF update_root_bank, Commit
<1>2. Moved(Work, v, {}, 0, 0) BY UpdateMoved
<1> HIDE DEF v
<1>3. \A x \in Accounts \cap {} : ~ma[x].is_bankrupt OBVIOUS
<1> QED BY <1>1, <1>2, <1>3, CommittedMoved

(* A fresh cache. *)
LEMMA CacheStep ==
  ASSUME MarginInv, NEW n, NEW c, IsCache(c), CommitAfter([Work EXCEPT !.cache = c], n),
         \A t \in Tokens : /\ c.bank[t].deposit_index = bank[t].deposit_index
                           /\ c.bank[t].borrow_index = bank[t].borrow_index,
         c.perp.long_funding = market.long_funding,
         c.perp.short_funding = market.short_funding
  PROVE  Preserved
<1>1. Sound(Work) BY Start
<1>2. Moved(Work, [Work EXCEPT !.cache = c], {}, 0, 0) BY <1>1, CacheMoved, WorkFields
<1>3. \A x \in Accounts \cap {} : ~ma[x].is_bankrupt OBVIOUS
<1> QED BY <1>2, <1>3, CommittedMoved

(* The indexes of the state are cached, and the funding. *)
LEMMA CacheAgrees ==
  ASSUME MarginInv
  PROVE  /\ IsCache(cache)
         /\ \A t \in Tokens : /\ cache.bank[t].deposit_index = bank[t].deposit_index
                               /\ cache.bank[t].borrow_index = bank[t].borrow_index
         /\ cache.perp.long_funding = market.long_funding
         /\ cache.perp.short_funding = market.short_funding
<1>1. Agree(Work) BY DEF MarginInv, Sound
<1> QED BY <1>1, Start, WorkFields DEF Agree

(* The keepers' instructions. *)
LEMMA CacheRootBanksStep ==
  ASSUME MarginInv, NEW ts \in SUBSET Tokens, cache_root_banks(ts) PROVE Preserved
<1> DEFINE e == [t \in Tokens |-> IF t \in ts THEN RootBankCache(bank[t], now) ELSE cache.bank[t]]
           c == [cache EXCEPT !.bank = e]
<1>1. CommitAfter([Work EXCEPT !.cache = c], 0)
  <2>1. [Work EXCEPT !.cache.bank =
            [t \in Tokens |-> IF t \in ts THEN RootBankCache(bank[t], now) ELSE @[t]]]
          = [Work EXCEPT !.cache = c]
    BY DEF Work
  <2> QED BY <2>1 DEF cache_root_banks, Commit
<1>2. \A t \in Tokens : /\ {"deposit_index", "borrow_index"} \subseteq DOMAIN e[t]
                        /\ e[t].deposit_index = bank[t].deposit_index
                        /\ e[t].borrow_index = bank[t].borrow_index
  BY CacheAgrees DEF RootBankCache, IsCache
<1>3. DOMAIN e = Tokens OBVIOUS
<1> HIDE DEF e
<1>4. DOMAIN c = DOMAIN cache /\ c.bank = e /\ c.price = cache.price /\ c.perp = cache.perp
  BY CacheAgrees DEF IsCache
<1> HIDE DEF c
<1>5. IsCache(c) BY <1>2, <1>3, <1>4, CacheAgrees DEF IsCache
<1> QED BY <1>1, <1>2, <1>4, <1>5, CacheAgrees, CacheStep

(* A new price. *)
LEMMA CachePricesStep ==
  ASSUME MarginInv, NEW p \in Prices, cache_prices(p) PROVE Preserved
<1> DEFINE c == [cache EXCEPT !.price = [price |-> p, last_update |-> now]]
           n == IF p = cache.price.price THEN 0 ELSE 1
<1>1. CommitAfter([Work EXCEPT !.cache = c], n)
  <2>1. [Work EXCEPT !.cache.price = [price |-> p, last_update |-> now]] = [Work EXCEPT !.cache = c]
    BY DEF Work
  <2> QED BY <2>1 DEF cache_prices
<1>2. DOMAIN c = DOMAIN cache /\ c.bank = cache.bank /\ c.price.price = p /\ c.perp = cache.perp
  BY CacheAgrees DEF IsCache
<1>3. p \in Nat \ {0} BY InputAssumption
<1> HIDE DEF c
<1>4. IsCache(c) BY <1>2, <1>3, CacheAgrees DEF IsCache
<1> QED BY <1>1, <1>2, <1>4, CacheAgrees, CacheStep

(* The funding. *)
LEMMA CachePerpStep ==
  ASSUME MarginInv, cache_perp_markets PROVE Preserved
<1> DEFINE e == PerpMarketCache(market, now)
           c == [cache EXCEPT !.perp = e]
<1>1. CommitAfter([Work EXCEPT !.cache = c], 0)
  <2>1. [Work EXCEPT !.cache.perp = e] = [Work EXCEPT !.cache = c] BY DEF Work
  <2> QED BY <2>1 DEF cache_perp_markets, Commit
<1>2. /\ {"long_funding", "short_funding"} \subseteq DOMAIN e
      /\ e.long_funding = market.long_funding /\ e.short_funding = market.short_funding
  BY DEF PerpMarketCache
<1> HIDE DEF e
<1>3. DOMAIN c = DOMAIN cache /\ c.bank = cache.bank /\ c.price = cache.price /\ c.perp = e
  BY CacheAgrees DEF IsCache
<1> HIDE DEF c
<1>4. IsCache(c) BY <1>2, <1>3, CacheAgrees DEF IsCache
<1> QED BY <1>1, <1>2, <1>3, <1>4, CacheAgrees, CacheStep

-----------------------------------------------------------------------------
(* Settlement *)

(* The funding of two accounts is settled. *)
LEMMA SettledTwice ==
  ASSUME MarginInv, NEW a \in Accounts, NEW b \in Accounts, a # b, NEW w,
         w = settle_funding(settle_funding(Work, a), b)
  PROVE  /\ Moved(Work, w, {a, b}, 0, 0) /\ Sound(w) /\ SettledIn(w, a) /\ SettledIn(w, b)
         /\ w.cache = cache /\ w.market = market /\ w.funds = funds
<1> DEFINE u == settle_funding(Work, a)
           v == settle_funding(u, b)
<1>1. Sound(Work) BY Start
<1>2. Moved(Work, u, {a}, 0, 0) /\ SettledIn(u, a) /\ u.cache = cache /\ u.market = market
      /\ u.funds = funds
  BY <1>1, SettleMoved, WorkFields
<1>3. Sound(u) BY <1>2 DEF Moved, Shifted
<1> HIDE DEF u
<1>4. Moved(u, v, {b}, 0, 0) /\ SettledIn(v, b) /\ v.cache = u.cache /\ v.market = u.market
      /\ v.funds = u.funds
  BY <1>3, SettleMoved
<1>5. v = w BY DEF u
<1> HIDE DEF v
<1>6. Sound(v) /\ v.ma[a] = u.ma[a] BY <1>4 DEF Moved, Shifted
<1>7. SettledIn(v, a) BY <1>2, <1>4, <1>6 DEF SettledIn
<1>8. {a} \subseteq {a, b} /\ {b} \subseteq {a, b} OBVIOUS
<1>9. Moved(Work, v, {a, b}, 0, 0) BY <1>1, <1>2, <1>4, <1>8, StillTwice
<1> QED BY <1>2, <1>4, <1>5, <1>6, <1>7, <1>9

(* A result is an integer. *)
LEMMA PnlInt ==
  ASSUME NEW w, Sound(w), NEW a \in Accounts PROVE Pnl(w, a) \in Int
<1>1. w.ma[a].quote_position \in Int /\ w.ma[a].base_position \in Int /\ w.cache.price.price \in Int
  BY DEF Sound, Parts, IsTrader, IsCache
<1>2. w.ma[a].base_position * w.cache.price.price \in Int BY <1>1
<1> QED BY <1>1, <1>2 DEF Pnl

(* Profit of one account against loss of another. *)
LEMMA SettlePnlStep ==
  ASSUME MarginInv, NEW a \in Accounts, NEW b \in Accounts, a # b, settle_pnl(a, b)
  PROVE  Preserved
<1> DEFINE w == settle_funding(settle_funding(Work, a), b)
           a_pnl == Pnl(w, a)
           b_pnl == Pnl(w, b)
           s == Smaller(Magnitude(a_pnl), Magnitude(b_pnl))
           q == IF a_pnl > 0 THEN s ELSE -s
           u == transfer_quote_position(w, a, b, q)
           v == transfer_token_internal(u, b, a, Quote, q)
<1>1. ~ma[a].is_bankrupt /\ ~ma[b].is_bankrupt /\ (CommitAfter(v, 0) \/ CommitAfter(w, 0))
  BY DEF settle_pnl, Commit
<1>2. Sound(Work) BY Start
<1>3. Moved(Work, w, {a, b}, 0, 0) /\ Sound(w) BY SettledTwice
<1> HIDE DEF w
<1>4. a_pnl \in Int /\ b_pnl \in Int BY <1>3, PnlInt
<1> HIDE DEF a_pnl, b_pnl
<1>5. s \in Int BY <1>4 DEF Smaller, Magnitude
<1> HIDE DEF s
<1>6. q \in Int BY <1>5
<1> HIDE DEF q
<1>7. Moved(w, u, {a, b}, 0, 0) BY <1>3, <1>6, TransferQuoteMoved
<1>8. Sound(u) BY <1>7 DEF Moved, Shifted
<1> HIDE DEF u
<1>9. Quote \in Tokens BY DEF Tokens
<1>10. Moved(u, v, {b, a}, 0, 0) BY <1>6, <1>8, <1>9, TransferMoved
<1> HIDE DEF v
<1>11. {b, a} \subseteq {a, b} /\ {a, b} \subseteq {a, b} OBVIOUS
<1>12. Moved(Work, u, {a, b}, 0, 0) BY <1>2, <1>3, <1>7, <1>11, StillTwice
<1>13. Moved(Work, v, {a, b}, 0, 0) BY <1>2, <1>10, <1>11, <1>12, StillTwice
<1>14. \A x \in Accounts \cap {a, b} : ~ma[x].is_bankrupt BY <1>1
<1> QED BY <1>1, <1>3, <1>13, <1>14, CommittedMoved

(* Opposite positions closed against each other. *)
LEMMA ForceSettleStep ==
  ASSUME MarginInv, NEW a \in Accounts, NEW b \in Accounts, a # b, force_settle_perp_position(a, b)
  PROVE  Preserved
<1> DEFINE w == settle_funding(settle_funding(Work, a), b)
           k == Smaller(Magnitude(ma[a].base_position), Magnitude(ma[b].base_position))
           n == IF ma[a].base_position > 0 THEN k ELSE -k
           w1 == change_base_position(w, a, -n)
           w2 == change_base_position(w1, b, n)
           w3 == transfer_quote_position(w2, a, b, -(n * cache.price.price))
<1>1. ~ma[a].is_bankrupt /\ ~ma[b].is_bankrupt /\ CommitAfter(w3, 0)
  BY DEF force_settle_perp_position, Commit
<1>2. Sound(Work) BY Start
<1>3. Moved(Work, w, {a, b}, 0, 0) /\ Sound(w) /\ SettledIn(w, a) /\ SettledIn(w, b)
  BY SettledTwice
<1> HIDE DEF w
<1>4. k \in Int BY Start DEF Smaller, Magnitude
<1> HIDE DEF k
<1>5. n \in Int /\ -n \in Int BY <1>4
<1> HIDE DEF n
<1>6. -(n * cache.price.price) \in Int BY <1>5, Start
<1>7. Moved(w, w1, {a}, -n, 0) /\ w1.cache = w.cache BY <1>3, <1>5, ChangeBaseMoved
<1>8. Sound(w1) /\ w1.ma[b] = w.ma[b] BY <1>7 DEF Moved, Shifted
<1>9. SettledIn(w1, b) BY <1>3, <1>7, <1>8 DEF SettledIn
<1> HIDE DEF w1
<1>10. Moved(w1, w2, {b}, n, 0) BY <1>5, <1>8, <1>9, ChangeBaseMoved
<1>11. Sound(w2) BY <1>10 DEF Moved, Shifted
<1> HIDE DEF w2
<1>12. Moved(w2, w3, {a, b}, 0, 0) BY <1>6, <1>11, TransferQuoteMoved
<1> HIDE DEF w3
<1>13. {a} \subseteq {a, b} /\ {b} \subseteq {a, b} /\ {a, b} \subseteq {a, b} OBVIOUS
<1>14. Moved(w, w2, {a, b}, -n + n, 0 + 0) BY <1>3, <1>5, <1>7, <1>10, <1>13, MovedTwice
<1>15. -n + n = 0 /\ 0 + 0 = 0 BY <1>5
<1>16. Moved(w, w2, {a, b}, 0, 0) BY <1>14, <1>15
<1>17. Moved(Work, w2, {a, b}, 0, 0) BY <1>2, <1>3, <1>13, <1>16, StillTwice
<1>18. Moved(Work, w3, {a, b}, 0, 0) BY <1>2, <1>12, <1>13, <1>17, StillTwice
<1>19. \A x \in Accounts \cap {a, b} : ~ma[x].is_bankrupt BY <1>1
<1> QED BY <1>1, <1>18, <1>19, CommittedMoved

(* Whole units of a positive amount are not more than the amount. *)
LEMMA FloorBelow ==
  ASSUME NEW x \in Int PROVE Floor(x) * One \in Int /\ Floor(x) * One <= x
<1>1. One \in Nat \ {0} BY RateAssumption
<1>2. x \div One \in Int /\ One * (x \div One) <= x BY <1>1, QuotientBounds
<1>3. (x \div One) * One = One * (x \div One) /\ (x \div One) * One \in Int BY <1>1, <1>2
<1> QED BY <1>2, <1>3 DEF Floor

(* Fees paid out of a loss. *)
LEMMA SettleFeesStep ==
  ASSUME MarginInv, NEW a \in Accounts, settle_fees(a)
  PROVE  Preserved
<1> DEFINE w == settle_funding(Work, a)
           pnl == Pnl(w, a)
           fees == market.fees_accrued
           s == Floor(Smaller(Magnitude(pnl), fees)) * One
           left == fees - s
           d == IF mode.perp = "ForceCloseOnly" /\ left < One
                  THEN Smaller(Magnitude(pnl + s), left) ELSE 0
           u == AddQuote(w, a, s + d)
           F == [u.funds EXCEPT !.fees = @ + Floor(s)]
           x == [u EXCEPT !.market.fees_accrued = left - d, !.funds = F]
           y == VaultTransfer(x, Quote, -Floor(s))
           z == checked_change_net(y, a, Quote, -s)
<1>1. ~ma[a].is_bankrupt /\ (CommitAfter(z, 0) \/ CommitAfter(w, 0))
  BY DEF settle_fees, Commit
<1>2. Sound(Work) BY Start
<1>3. Moved(Work, w, {a}, 0, 0) /\ w.market = market /\ w.funds = funds
  BY <1>2, SettleMoved, WorkFields
<1>4. Sound(w) BY <1>3 DEF Moved, Shifted
<1> HIDE DEF w
<1>5. pnl \in Int BY <1>4, PnlInt
<1> HIDE DEF pnl
<1>6. fees \in Nat BY Start
<1> HIDE DEF fees
<1>7. s \in Int /\ s <= fees
  <2> DEFINE g == Smaller(Magnitude(pnl), fees)
  <2>1. g \in Int /\ g <= fees BY <1>5, <1>6 DEF Smaller, Magnitude
  <2> HIDE DEF g
  <2>2. Floor(g) * One \in Int /\ Floor(g) * One <= g BY <2>1, FloorBelow
  <2>3. s = Floor(g) * One BY DEF g
  <2> HIDE DEF s
  <2> QED BY <1>6, <2>1, <2>2, <2>3
<1>8. Floor(s) \in Int BY <1>7, FloorInt
<1> HIDE DEF s
<1>9. left \in Nat BY <1>6, <1>7
<1>10. left = fees - s OBVIOUS
<1> HIDE DEF left
<1>11. d \in Int /\ left - d \in Nat
  <2>1. Magnitude(pnl + s) \in Int BY <1>5, <1>7 DEF Magnitude
  <2> QED BY <1>9, <2>1 DEF Smaller
<1> HIDE DEF d
<1>12. s + d \in Int /\ -s \in Int /\ -Floor(s) \in Int BY <1>7, <1>8, <1>11
<1>13. Moved(w, u, {a}, 0, s + d) /\ u.market = market /\ u.funds = funds
  BY <1>3, <1>4, <1>12, AddQuoteMoved
<1>14. Sound(u) BY <1>13 DEF Moved, Shifted
<1> HIDE DEF u
<1>15. IsFund(F) BY <1>13, Start DEF IsFund
<1> HIDE DEF F
<1>16. Moved(u, x, {a}, 0, (left - d) - fees) BY <1>11, <1>13, <1>14, <1>15, FeesMoved DEF fees
<1>17. Sound(x) BY <1>16 DEF Moved, Shifted
<1> HIDE DEF x
<1>18. {a} \subseteq {a} /\ {} \subseteq {a} OBVIOUS
<1>19. (left - d) - fees \in Int /\ (s + d) + ((left - d) - fees) = 0
  BY <1>6, <1>7, <1>9, <1>10, <1>11
<1>20. Moved(w, x, {a}, 0 + 0, (s + d) + ((left - d) - fees))
  BY <1>4, <1>12, <1>13, <1>16, <1>18, <1>19, MovedTwice
<1>21. Moved(w, x, {a}, 0, 0) BY <1>19, <1>20
<1>22. Quote \in Tokens BY DEF Tokens
<1>23. Moved(x, y, {}, 0, 0) BY <1>12, <1>17, <1>22, VaultMovedNothing
<1>24. Sound(y) BY <1>23 DEF Moved, Shifted
<1> HIDE DEF y
<1>25. Moved(y, z, {a}, 0, 0) BY <1>12, <1>22, <1>24, ChangeNetMoved
<1> HIDE DEF z
<1>26. Moved(Work, x, {a}, 0, 0) BY <1>2, <1>3, <1>18, <1>21, StillTwice
<1>27. Moved(Work, y, {a}, 0, 0) BY <1>2, <1>18, <1>23, <1>26, StillTwice
<1>28. Moved(Work, z, {a}, 0, 0) BY <1>2, <1>18, <1>25, <1>27, StillTwice
<1>29. \A b \in Accounts \cap {a} : ~ma[b].is_bankrupt BY <1>1
<1> QED BY <1>1, <1>3, <1>28, <1>29, CommittedMoved

-----------------------------------------------------------------------------
(* Liquidation *)

(* A token borrow is paid with a token deposit. *)
LEMMA TokenAndTokenStep ==
  ASSUME MarginInv, NEW liqee \in Accounts, NEW liqor \in Accounts, NEW asset \in Tokens,
         NEW liab \in Tokens, NEW max \in LiabTransfers,
         liquidate_token_and_token(liqee, liqor, asset, liab, max)
  PROVE  Preserved
<1> DEFINE price == [asset |-> get_price(Work, asset), liab |-> get_price(Work, liab)]
           fee == [asset |-> AssetFee(asset), liab |-> LiabFee(liab),
                   asset_weight |-> InitAssetWeight(asset), liab_weight |-> InitLiabWeight(liab)]
           l == LiabTransfer(get_health(Work, liqee, "init"), max, price,
                             native_borrow(Work, liqee, liab),
                             native_deposit(Work, liqee, asset), fee)
           m == AssetTransfer(l, price, fee)
           w1 == checked_change_net(Work, liqee, liab, l)
           w2 == checked_change_net(w1, liqor, liab, -l)
           w3 == checked_change_net(w2, liqor, asset, m)
           w4 == checked_change_net(w3, liqee, asset, -m)
           A == {liqee, liqor}
<1>1. Parties(liqee, liqor) /\ Commit(Conclude(w4, liqee, liqor))
  BY DEF liquidate_token_and_token
<1>2. Sound(Work) BY Start
<1>3. /\ price.asset \in Int /\ price.liab \in Int /\ fee.asset \in Int /\ fee.liab \in Int
      /\ fee.asset_weight \in Int /\ fee.liab_weight \in Int
  BY <1>2, PriceNat, WeightsInt
<1> HIDE DEF price, fee
<1>4. get_health(Work, liqee, "init") \in Int BY <1>2, HealthInt
<1>5. native_borrow(Work, liqee, liab) \in Int BY <1>2, BalancesInt DEF Sound, Books
<1>6. native_deposit(Work, liqee, asset) \in Int BY <1>2, BalancesInt DEF Sound, Books
<1>7. max \in Int BY InputAssumption
<1>8. l \in Int BY <1>3, <1>4, <1>5, <1>6, <1>7, LiabTransferInt
<1> HIDE DEF l
<1>9. m \in Int BY <1>3, <1>8, AssetTransferInt
<1> HIDE DEF m
<1>10. -l \in Int /\ -m \in Int BY <1>8, <1>9
<1>11. Moved(Work, w1, {liqee}, 0, 0) BY <1>2, <1>8, ChangeNetMoved
<1>12. Sound(w1) BY <1>11 DEF Moved, Shifted
<1> HIDE DEF w1
<1>13. Moved(w1, w2, {liqor}, 0, 0) BY <1>10, <1>12, ChangeNetMoved
<1>14. Sound(w2) BY <1>13 DEF Moved, Shifted
<1> HIDE DEF w2
<1>15. Moved(w2, w3, {liqor}, 0, 0) BY <1>9, <1>14, ChangeNetMoved
<1>16. Sound(w3) BY <1>15 DEF Moved, Shifted
<1> HIDE DEF w3
<1>17. Moved(w3, w4, {liqee}, 0, 0) BY <1>10, <1>16, ChangeNetMoved
<1> HIDE DEF w4
<1>18. {liqee} \subseteq A /\ {liqor} \subseteq A /\ A \subseteq A OBVIOUS
<1> HIDE DEF A
<1>19. Moved(Work, w2, A, 0, 0) BY <1>2, <1>11, <1>13, <1>18, StillTwice
<1>20. Moved(Work, w3, A, 0, 0) BY <1>2, <1>15, <1>18, <1>19, StillTwice
<1>21. Moved(Work, w4, A, 0, 0) BY <1>2, <1>17, <1>18, <1>20, StillTwice
<1> QED BY <1>1, <1>21, Concluded DEF A

(* A negative quote position is paid with a token deposit. *)
LEMMA TokenForPerpStep ==
  ASSUME MarginInv, NEW liqee \in Accounts, NEW liqor \in Accounts, NEW asset \in Tokens,
         NEW max \in LiabTransfers, liquidate_token_for_perp(liqee, liqor, asset, max)
  PROVE  Preserved
<1> DEFINE price == [asset |-> get_price(Work, asset), liab |-> One]
           fee == [asset |-> AssetFee(asset), liab |-> One,
                   asset_weight |-> InitAssetWeight(asset), liab_weight |-> One]
           owed == -ma[liqee].quote_position
           held == native_deposit(Work, liqee, asset)
           k == LiabTransfer(get_health(Work, liqee, "init"), max, price, owed, held, fee)
           l == IF asset = Quote THEN Smaller(Smaller(held, owed), max) ELSE k
           m == AssetTransfer(l, price, fee)
           w == transfer_quote_position(Work, liqee, liqor, -l)
           v == transfer_token_internal(w, liqee, liqor, asset, m)
           A == {liqee, liqor}
<1>1. Parties(liqee, liqor) /\ Commit(Conclude(v, liqee, liqor))
  BY DEF liquidate_token_for_perp
<1>2. Sound(Work) BY Start
<1>3. /\ price.asset \in Int /\ price.liab \in Int /\ fee.asset \in Int /\ fee.liab \in Int
      /\ fee.asset_weight \in Int /\ fee.liab_weight \in Int
  BY <1>2, PriceNat, WeightsInt, RateAssumption
<1> HIDE DEF price, fee
<1>4. get_health(Work, liqee, "init") \in Int BY <1>2, HealthInt
<1>5. held \in Int BY <1>2, BalancesInt DEF Sound, Books
<1>6. owed \in Int BY Start
<1>7. max \in Int BY InputAssumption
<1> HIDE DEF held, owed
<1>8. k \in Int BY <1>3, <1>4, <1>5, <1>6, <1>7, LiabTransferInt
<1> HIDE DEF k
<1>9. l \in Int /\ -l \in Int BY <1>5, <1>6, <1>7, <1>8 DEF Smaller
<1> HIDE DEF l
<1>10. m \in Int BY <1>3, <1>9, AssetTransferInt
<1> HIDE DEF m
<1>11. Moved(Work, w, A, 0, 0) BY <1>2, <1>9, TransferQuoteMoved
<1>12. Sound(w) BY <1>11 DEF Moved, Shifted
<1> HIDE DEF w
<1>13. Moved(w, v, A, 0, 0) BY <1>10, <1>12, TransferMoved
<1> HIDE DEF v, A
<1>14. Moved(Work, v, A, 0, 0) BY <1>2, <1>11, <1>13, StillTwice
<1> QED BY <1>1, <1>14, Concluded DEF A

(* A token borrow is paid with a positive quote position. *)
LEMMA PerpForTokenStep ==
  ASSUME MarginInv, NEW liqee \in Accounts, NEW liqor \in Accounts, NEW liab \in Tokens,
         NEW max \in LiabTransfers, liquidate_perp_for_token(liqee, liqor, liab, max)
  PROVE  Preserved
<1> DEFINE price == [asset |-> One, liab |-> get_price(Work, liab)]
           fee == [asset |-> One, liab |-> LiabFee(liab),
                   asset_weight |-> One, liab_weight |-> InitLiabWeight(liab)]
           owed == native_borrow(Work, liqee, liab)
           held == ma[liqee].quote_position
           k == LiabTransfer(get_health(Work, liqee, "init"), max, price, owed, held, fee)
           l == IF liab = Quote THEN Smaller(Smaller(held, owed), max) ELSE k
           m == AssetTransfer(l, price, fee)
           w == transfer_token_internal(Work, liqor, liqee, liab, l)
           v == transfer_quote_position(w, liqee, liqor, m)
           A == {liqee, liqor}
<1>1. Parties(liqee, liqor) /\ Commit(Conclude(v, liqee, liqor))
  BY DEF liquidate_perp_for_token
<1>2. Sound(Work) BY Start
<1>3. /\ price.asset \in Int /\ price.liab \in Int /\ fee.asset \in Int /\ fee.liab \in Int
      /\ fee.asset_weight \in Int /\ fee.liab_weight \in Int
  BY <1>2, PriceNat, WeightsInt, RateAssumption
<1> HIDE DEF price, fee
<1>4. get_health(Work, liqee, "init") \in Int BY <1>2, HealthInt
<1>5. owed \in Int BY <1>2, BalancesInt DEF Sound, Books
<1>6. held \in Int BY Start
<1>7. max \in Int BY InputAssumption
<1> HIDE DEF held, owed
<1>8. k \in Int BY <1>3, <1>4, <1>5, <1>6, <1>7, LiabTransferInt
<1> HIDE DEF k
<1>9. l \in Int BY <1>5, <1>6, <1>7, <1>8 DEF Smaller
<1> HIDE DEF l
<1>10. m \in Int BY <1>3, <1>9, AssetTransferInt
<1> HIDE DEF m
<1>11. Moved(Work, w, {liqor, liqee}, 0, 0) BY <1>2, <1>9, TransferMoved
<1>12. Sound(w) BY <1>11 DEF Moved, Shifted
<1> HIDE DEF w
<1>13. Moved(w, v, A, 0, 0) BY <1>10, <1>12, TransferQuoteMoved
<1> HIDE DEF v
<1>14. {liqor, liqee} \subseteq A /\ A \subseteq A OBVIOUS
<1> HIDE DEF A
<1>15. Moved(Work, v, A, 0, 0) BY <1>2, <1>11, <1>13, <1>14, StillTwice
<1> QED BY <1>1, <1>15, Concluded DEF A

(* A position is taken over. *)
LEMMA PerpMarketStep ==
  ASSUME MarginInv, NEW liqee \in Accounts, NEW liqor \in Accounts, NEW request \in BaseTransfers,
         liquidate_perp_market(liqee, liqor, request)
  PROVE  Preserved
<1> DEFINE w == settle_funding(settle_funding(Work, liqee), liqor)
           position == ma[liqee].base_position
           price == cache.price.price
           h == get_health(w, liqee, "init")
           i == Div(-h, Mul(price, One - Perp.init.asset - Perp.fee))
           j == Div(-h, Mul(price, One - Perp.init.liab + Perp.fee))
           n == IF position > 0 THEN Smaller(Smaller(Ceil(i), request), position)
                                ELSE Larger(Larger(Floor(j), request), position)
           q == Mul(-(n * price), IF position > 0 THEN One - Perp.fee ELSE One + Perp.fee)
           w1 == change_base_position(w, liqee, -n)
           w2 == change_base_position(w1, liqor, n)
           w3 == transfer_quote_position(w2, liqee, liqor, q)
           A == {liqee, liqor}
<1>1. /\ Parties(liqee, liqor)
      /\ Release(w, liqee) \/ Commit(Conclude(w3, liqee, liqor))
  BY DEF liquidate_perp_market
<1>2. Sound(Work) /\ liqee # liqor BY <1>1, Start DEF Parties
<1>3. Moved(Work, w, A, 0, 0) /\ Sound(w) /\ SettledIn(w, liqee) /\ SettledIn(w, liqor)
  BY <1>2, SettledTwice
<1> HIDE DEF w
<1>4. h \in Int /\ -h \in Int
  <2>1. h \in Int BY <1>3, HealthInt
  <2> HIDE DEF h
  <2> QED BY <2>1
<1>5. position \in Int /\ price \in Int /\ request \in Int BY Start, InputAssumption
<1>6. /\ One \in Int /\ Perp.fee \in Int /\ Perp.init.asset \in Int /\ Perp.init.liab \in Int
  BY RateAssumption, MarginAssumption DEF MarketWeights
<1>7. /\ One - Perp.init.asset - Perp.fee \in Int /\ One - Perp.init.liab + Perp.fee \in Int
      /\ One - Perp.fee \in Int /\ One + Perp.fee \in Int
  BY <1>6
<1> HIDE DEF h, position, price
<1>8. i \in Int
  <2>1. Mul(price, One - Perp.init.asset - Perp.fee) \in Int BY <1>5, <1>7, MulInt
  <2> QED BY <1>4, <2>1, DivInt
<1>9. j \in Int
  <2>1. Mul(price, One - Perp.init.liab + Perp.fee) \in Int BY <1>5, <1>7, MulInt
  <2> QED BY <1>4, <2>1, DivInt
<1> HIDE DEF i, j
<1>10. Ceil(i) \in Int /\ Floor(j) \in Int BY <1>8, <1>9, FloorInt
<1>11. n \in Int /\ -n \in Int BY <1>5, <1>10 DEF Smaller, Larger
<1> HIDE DEF n
<1>12. q \in Int
  <2>1. -(n * price) \in Int BY <1>5, <1>11
  <2> QED BY <1>7, <2>1, MulInt
<1> HIDE DEF q
<1>13. Moved(w, w1, {liqee}, -n, 0) /\ w1.cache = w.cache BY <1>3, <1>11, ChangeBaseMoved
<1>14. Sound(w1) /\ w1.ma[liqor] = w.ma[liqor] BY <1>2, <1>13 DEF Moved, Shifted
<1>15. SettledIn(w1, liqor) BY <1>3, <1>13, <1>14 DEF SettledIn
<1> HIDE DEF w1
<1>16. Moved(w1, w2, {liqor}, n, 0) BY <1>11, <1>14, <1>15, ChangeBaseMoved
<1>17. Sound(w2) BY <1>16 DEF Moved, Shifted
<1> HIDE DEF w2
<1>18. Moved(w2, w3, A, 0, 0) BY <1>12, <1>17, TransferQuoteMoved
<1> HIDE DEF w3
<1>19. {liqee} \subseteq A /\ {liqor} \subseteq A /\ A \subseteq A OBVIOUS
<1> HIDE DEF A
<1>20. Moved(w, w2, A, -n + n, 0 + 0) BY <1>3, <1>11, <1>13, <1>16, <1>19, MovedTwice
<1>21. -n + n = 0 /\ 0 + 0 = 0 BY <1>11
<1>22. Moved(w, w2, A, 0, 0) BY <1>20, <1>21
<1>23. Moved(Work, w2, A, 0, 0) BY <1>2, <1>3, <1>19, <1>22, StillTwice
<1>24. Moved(Work, w3, A, 0, 0) BY <1>2, <1>18, <1>19, <1>23, StillTwice
<1>25. CASE Release(w, liqee) BY <1>1, <1>3, <1>25, Released DEF A
<1>26. CASE Commit(Conclude(w3, liqee, liqor)) BY <1>1, <1>24, <1>26, Concluded DEF A
<1> QED BY <1>1, <1>25, <1>26

(* The other liquidations find the account healthy. *)
LEMMA RecoveredStep ==
  ASSUME MarginInv, NEW liqee \in Accounts, NEW liqor \in Accounts, liquidate_recovered(liqee, liqor)
  PROVE  Preserved
<1>1. Parties(liqee, liqor) /\ Release(Work, liqee) BY DEF liquidate_recovered
<1>2. Moved(Work, Work, {liqee, liqor}, 0, 0) BY Start, MovedNot
<1> QED BY <1>1, <1>2, Released

-----------------------------------------------------------------------------
(* Bankruptcy *)

(* The flag at the end of a resolution. *)
LEMMA Resolved ==
  ASSUME MarginInv, NEW liqee \in Accounts, NEW liqor \in Accounts, Resolver(liqee, liqor),
         NEW w, NEW c \in Nat, market.open_interest # 0 => c < market.open_interest,
         Moved(Work, w, {liqee, liqor}, 0, c),
         w.ma[liqee].base_position = ma[liqee].base_position,
         w.ma[liqee].quote_position < One, Dust(w.ma[liqee], liqee),
         Commit(ExitBankruptcy(w, liqee))
  PROVE  Preserved
<1> DEFINE acc == w.ma[liqee]
           e == ~check_exit_bankruptcy(acc)
           r == Flagged(acc, e, acc.being_liquidated)
           v == With(w, liqee, r)
<1>1. Sound(Work) /\ Sound(w) BY DEF MarginInv, Moved, Shifted
<1>2. {"is_bankrupt", "being_liquidated"} \subseteq DOMAIN acc BY <1>1 DEF Sound, Parts, IsTrader
<1>3. ExitBankruptcy(w, liqee) = v
  <2>1. r = [acc EXCEPT !.is_bankrupt = e]
    <3> HIDE DEF e
    <3> QED BY <1>2 DEF Flagged
  <2> QED BY <2>1 DEF ExitBankruptcy, With
<1> HIDE DEF e
<1>4. /\ Shifted(w, v, {liqee}, 0, 0) /\ SameBalances(acc, r)
      /\ r.quote_position = acc.quote_position
  BY <1>1, FlagShifted
<1> HIDE DEF r
<1>5. v.ma[liqee] = r /\ \A x \in Accounts \ {liqee} : v.ma[x] = w.ma[x] BY <1>1, WithFields
<1> HIDE DEF v
<1>6. Shifted(Work, v, {liqee, liqor}, 0, c)
  <2>1. Net(Work) \in Int /\ Claim(Work) \in Int BY <1>1, SumsInt DEF Sound
  <2>2. Net(w) = Net(Work) + 0 /\ Claim(w) = Claim(Work) + c BY DEF Moved, Shifted
  <2>3. Net(v) = Net(w) + 0 /\ Claim(v) = Claim(w) + 0 /\ Sound(v) BY <1>4 DEF Shifted
  <2>4. Net(v) = Net(Work) + 0 /\ Claim(v) = Claim(Work) + c BY <2>1, <2>2, <2>3
  <2>5. \A x \in Accounts \ {liqee, liqor} : v.ma[x] = Work.ma[x] BY <1>5 DEF Moved, Shifted
  <2> QED BY <2>3, <2>4, <2>5 DEF Shifted
<1>7. ~v.ma[liqor].is_bankrupt BY <1>5, WorkFields DEF Moved, Resolver
<1>8. Poor(v.ma[liqee])
  <2>1. ma[liqee].base_position = 0 BY DEF MarginInv, Poor, Resolver
  <2> QED BY <1>4, <1>5, <2>1 DEF Poor, SameBalances
<1>9. Dust(v.ma[liqee], liqee) BY <1>4, <1>5 DEF Dust, SameBalances
<1>10. \A x \in Accounts \cap {liqee, liqor} :
         v.ma[x].is_bankrupt => Poor(v.ma[x]) /\ Dust(v.ma[x], x)
  BY <1>7, <1>8, <1>9
<1>11. CommitAfter(v, 0) BY <1>3 DEF Commit
<1> QED BY <1>6, <1>10, <1>11, Committed

(* Tokens from the insurance fund. *)
LEMMA InsuranceMoved ==
  ASSUME MarginInv, NEW q \in Int, q <= funds.insurance
  PROVE  /\ Moved(Work, FromInsurance(Work, q), {}, 0, 0) /\ FromInsurance(Work, q).ma = ma
         /\ FromInsurance(Work, q).cache = cache /\ FromInsurance(Work, q).market = market
<1> DEFINE F == [funds EXCEPT !.insurance = @ - q]
           w == [Work EXCEPT !.funds = F, !.ok = Work.ok]
           v == VaultTransfer(w, Quote, q)
<1>1. Sound(Work) BY Start
<1>2. FromInsurance(Work, q) = v
  <2>1. [Work EXCEPT !.funds.insurance = @ - q] = [Work EXCEPT !.funds = F] BY WorkFields
  <2>2. {"funds", "ok"} \subseteq DOMAIN Work BY <1>1, Fields
  <2> HIDE DEF F
  <2>3. [Work EXCEPT !.funds = F] = w BY <2>2
  <2> HIDE DEF w
  <2> QED BY <2>1, <2>3 DEF FromInsurance
<1>3. IsFund(F) BY Start DEF IsFund
<1> HIDE DEF F
<1>4. Moved(Work, w, {}, 0, 0) /\ w.ma = ma /\ w.cache = cache /\ w.market = market
  <2>1. Moved(Work, w, {}, 0, 0) BY <1>1, <1>3, OutsideMoved
  <2> QED BY <2>1 DEF Work
<1>5. Sound(w) BY <1>4 DEF Moved, Shifted
<1> HIDE DEF w
<1>6. Moved(w, v, {}, 0, 0) /\ v.ma = w.ma /\ v.cache = w.cache /\ v.market = w.market
  BY <1>5, VaultMovedNothing DEF Tokens
<1> HIDE DEF v
<1>7. Moved(Work, v, {}, 0, 0) BY <1>1, <1>4, <1>6, StillTwice
<1> QED BY <1>2, <1>4, <1>6, <1>7

(* Whole units, rounded up. *)
LEMMA CeilBounds ==
  ASSUME NEW x \in Nat PROVE Ceil(x) \in Nat /\ One * Ceil(x) < x + One
<1> DEFINE y == (-x) \div One
<1>1. One \in Nat \ {0} /\ -x \in Int BY RateAssumption
<1>2. y \in Int /\ One * y <= -x /\ -x < One * y + One BY <1>1, QuotientBounds
<1>3. Ceil(x) = -y BY DEF Ceil
<1> HIDE DEF y
<1>4. One * (-y) = -(One * y) /\ One * y \in Int BY <1>1, <1>2
<1>5. y <= 0
  <2>1. One * 0 = 0 BY <1>1
  <2>2. One * y <= One * 0 BY <1>2, <1>4, <2>1
  <2> QED BY <1>1, <1>2, <2>2, Cancel
<1> QED BY <1>1, <1>2, <1>3, <1>4, <1>5

(* What the insurance fund pays for a debt. *)
LEMMA InsuranceBounds ==
  ASSUME MarginInv, NEW x \in Nat
  PROVE  /\ InsuranceTransfer(x) \in Nat /\ InsuranceTransfer(x) <= funds.insurance
         /\ InsuranceTransfer(x) * One < x + One
<1> DEFINE c == Ceil(x)
           q == Smaller(c, funds.insurance)
<1>1. c \in Nat /\ One * c < x + One BY CeilBounds
<1>2. funds.insurance \in Nat BY Start
<1>3. InsuranceTransfer(x) = q BY DEF InsuranceTransfer
<1> HIDE DEF c
<1>4. q \in Nat /\ q <= c /\ q <= funds.insurance BY <1>1, <1>2 DEF Smaller
<1> HIDE DEF q
<1>5. One \in Nat BY RateAssumption
<1>6. q * One <= One * c
  <2>1. c - q \in Nat BY <1>1, <1>4
  <2>2. One * (c - q) >= 0 BY <1>5, <2>1
  <2>3. One * (c - q) = One * c - q * One BY <1>1, <1>4, <1>5
  <2>4. One * c \in Int /\ q * One \in Int BY <1>1, <1>4, <1>5
  <2> QED BY <2>2, <2>3, <2>4
<1>7. One * c \in Int /\ q * One \in Int BY <1>1, <1>4, <1>5
<1>8. q * One < x + One BY <1>1, <1>5, <1>6, <1>7
<1> QED BY <1>3, <1>4, <1>8

(* A negative quote position of a bankrupt account. *)
LEMMA ResolvePerpStep ==
  ASSUME MarginInv, NEW liqee \in Accounts, NEW liqor \in Accounts, NEW max \in LiabTransfers,
         resolve_perp_bankruptcy(liqee, liqor, max)
  PROVE  Preserved
<1> DEFINE debt == -ma[liqee].quote_position
           x == Smaller(max, debt)
           q == InsuranceTransfer(x)
           A == {liqee, liqor}
           u1 == FromInsurance(Work, q)
           u2 == transfer_quote_position(u1, liqee, liqor, -(q * One))
           paid == checked_change_net(u2, liqor, Quote, q * One)
           p == get_health(paid, liqor, "init") >= 0
           u3 == Require(paid, p)
           insured == IF q = 0 THEN Work ELSE u3
           w == IF q = funds.insurance /\ insured.ma[liqee].quote_position < 0
                  THEN PerpSocialize(insured, liqee) ELSE insured
<1>1. /\ liqee # liqor /\ ma[liqee].is_bankrupt /\ Resolver(liqee, liqor)
      /\ ma[liqee].quote_position < 0
  BY SMTT(30) DEF resolve_perp_bankruptcy, CanResolvePerp, Resolver
<1>2. Commit(ExitBankruptcy(w, liqee)) BY DEF resolve_perp_bankruptcy, PerpBankruptcy
<1>3. Sound(Work) /\ ma[liqee].quote_position \in Int BY Start
<1>4. x \in Nat /\ x <= debt
  <2>1. max \in Nat BY InputAssumption
  <2> QED BY <1>1, <1>3, <2>1 DEF Smaller
<1> HIDE DEF x
<1>5. q \in Nat /\ q <= funds.insurance /\ q * One < x + One BY <1>4, InsuranceBounds
<1> HIDE DEF q
<1>6. q * One \in Int /\ -(q * One) \in Int /\ One \in Int BY <1>5, RateAssumption
<1>7. Moved(Work, u1, {}, 0, 0) /\ u1.ma = ma /\ u1.market = market BY <1>5, InsuranceMoved
<1>8. Sound(u1) BY <1>7 DEF Moved, Shifted
<1> HIDE DEF u1
<1>9. /\ Moved(u1, u2, A, 0, 0) /\ u2.market = market
      /\ SameBalances(ma[liqee], u2.ma[liqee])
      /\ u2.ma[liqee].quote_position = ma[liqee].quote_position + (-(-(q * One)))
  BY <1>1, <1>6, <1>7, <1>8, TransferQuoteMoved
<1>10. Sound(u2) BY <1>9 DEF Moved, Shifted
<1>11. u2.ma[liqee].quote_position < One BY <1>3, <1>4, <1>5, <1>6, <1>9
<1> HIDE DEF u2
<1>12. Moved(u2, paid, {liqor}, 0, 0) /\ paid.market = market
  BY <1>6, <1>9, <1>10, ChangeNetMoved DEF Tokens
<1>13. Sound(paid) /\ paid.ma[liqee] = u2.ma[liqee] BY <1>1, <1>12 DEF Moved, Shifted
<1> HIDE DEF paid, p
<1>14. Moved(paid, u3, {}, 0, 0) /\ u3.market = market /\ u3.ma = paid.ma
  BY <1>12, <1>13, RequireMoved
<1> HIDE DEF u3
<1>15. {} \subseteq A /\ {liqor} \subseteq A /\ A \subseteq A /\ {liqee} \subseteq A OBVIOUS
<1> HIDE DEF A
<1>16. Moved(Work, u2, A, 0, 0) BY <1>3, <1>7, <1>9, <1>15, StillTwice
<1>17. Moved(Work, paid, A, 0, 0) BY <1>3, <1>12, <1>15, <1>16, StillTwice
<1>18. Moved(Work, u3, A, 0, 0) BY <1>3, <1>14, <1>15, <1>17, StillTwice
<1>19. Moved(Work, Work, A, 0, 0) BY <1>3, MovedNot
<1>20. Moved(Work, insured, A, 0, 0) BY <1>18, <1>19
<1>21. /\ SameBalances(ma[liqee], insured.ma[liqee])
       /\ insured.ma[liqee].quote_position < One /\ insured.market = market
  <2>1. CASE q = 0
    <3>1. insured = Work BY <2>1
    <3>2. {"deposits", "borrows"} \subseteq DOMAIN ma[liqee]
      BY <1>3, WorkFields DEF Sound, Books, Shape, IsAccount
    <3>3. ma[liqee].quote_position < One BY <1>1, <1>3, RateAssumption
    <3> QED BY <3>1, <3>2, <3>3, WorkFields DEF SameBalances
  <2>2. CASE q # 0
    <3>1. insured = u3 BY <2>2
    <3> HIDE DEF insured
    <3> QED BY <1>9, <1>11, <1>13, <1>14, <3>1
  <2> QED BY <2>1, <2>2
<1>22. Sound(insured) BY <1>20 DEF Moved, Shifted
<1> HIDE DEF insured
<1>23. \E c \in Nat :
         /\ market.open_interest # 0 => c < market.open_interest
         /\ Moved(Work, w, A, 0, c)
         /\ SameBalances(ma[liqee], w.ma[liqee]) /\ w.ma[liqee].quote_position < One
  <2>1. CASE q = funds.insurance /\ insured.ma[liqee].quote_position < 0
    <3>1. w = PerpSocialize(insured, liqee) BY <2>1
    <3>2. PICK c \in Nat :
            /\ Moved(insured, PerpSocialize(insured, liqee), {liqee}, 0, c)
            /\ insured.market.open_interest # 0 => c < insured.market.open_interest
            /\ SameBalances(insured.ma[liqee], PerpSocialize(insured, liqee).ma[liqee])
            /\ PerpSocialize(insured, liqee).ma[liqee].quote_position = 0
      BY <1>22, <2>1, PerpSocialized
    <3> HIDE DEF w
    <3>3. Moved(insured, w, {liqee}, 0, c) BY <3>1, <3>2
    <3>4. Moved(Work, w, A, 0 + 0, 0 + c) BY <1>3, <1>15, <1>20, <3>3, MovedTwice
    <3>5. 0 + 0 = 0 /\ 0 + c = c OBVIOUS
    <3>6. Moved(Work, w, A, 0, c) BY <3>4, <3>5
    <3>7. SameBalances(ma[liqee], w.ma[liqee]) BY <1>21, <3>1, <3>2 DEF SameBalances
    <3>8. w.ma[liqee].quote_position < One BY <3>1, <3>2, RateAssumption
    <3>9. market.open_interest # 0 => c < market.open_interest BY <1>21, <3>2
    <3> QED BY <3>6, <3>7, <3>8, <3>9
  <2>2. CASE ~(q = funds.insurance /\ insured.ma[liqee].quote_position < 0)
    <3>1. w = insured BY <2>2
    <3> HIDE DEF w
    <3>2. Open(Work) \in Nat /\ Open(Work) = market.open_interest
      BY <1>3, SumsInt, WorkFields DEF Sound
    <3>3. market.open_interest # 0 => 0 < market.open_interest BY <3>2
    <3> QED BY <1>20, <1>21, <3>1, <3>3
  <2> QED BY <2>1, <2>2
<1> HIDE DEF w
<1>24. PICK c \in Nat :
         /\ market.open_interest # 0 => c < market.open_interest
         /\ Moved(Work, w, A, 0, c)
         /\ SameBalances(ma[liqee], w.ma[liqee]) /\ w.ma[liqee].quote_position < One
  BY <1>23
<1>25. w.ma[liqee].deposits = ma[liqee].deposits
       /\ w.ma[liqee].base_position = ma[liqee].base_position
  BY <1>24 DEF SameBalances
<1>26. Dust(w.ma[liqee], liqee) BY <1>1, <1>3, <1>25, DustSame
<1>27. Moved(Work, w, {liqee, liqor}, 0, c) BY <1>24 DEF A
<1> QED BY <1>1, <1>2, <1>24, <1>25, <1>26, <1>27, Resolved

(* A factor keeps an order. *)
LEMMA Times ==
  ASSUME NEW k \in Nat, NEW x \in Int, NEW y \in Int, x <= y
  PROVE  k * x <= k * y
<1>1. y - x \in Nat OBVIOUS
<1>2. k * (y - x) >= 0 BY <1>1
<1>3. k * (y - x) = k * y - k * x OBVIOUS
<1>4. k * x \in Int /\ k * y \in Int OBVIOUS
<1> QED BY <1>2, <1>3, <1>4

(* The product rounds down. *)
LEMMA MulBound ==
  ASSUME NEW x \in Nat, NEW y \in Nat
  PROVE  Mul(x, y) \in Nat /\ One * Mul(x, y) <= x * y
<1>1. One \in Nat \ {0} /\ x * y \in Int BY RateAssumption
<1>2. One * ((x * y) \div One) <= x * y BY <1>1, QuotientBounds
<1> QED BY <1>2, MulNat DEF Mul

(* So does the quotient of natural numbers. *)
LEMMA DivBound ==
  ASSUME NEW x \in Nat, NEW y \in Nat \ {0}
  PROVE  Div(x, y) \in Nat /\ y * Div(x, y) <= x * One
<1> DEFINE n == x * One
           d == n \div y
<1>1. n \in Nat BY RateAssumption
<1>2. Div(x, y) = d BY <1>1 DEF Div, Magnitude
<1> HIDE DEF n
<1>3. d \in Int /\ y * d <= n /\ n < y * d + y BY <1>1, QuotientBounds
<1>4. d \in Nat
  <2> HIDE DEF d
  <2> SUFFICES ASSUME d + 1 <= 0 PROVE FALSE BY <1>3
  <2>1. y * (d + 1) <= y * 0 BY <1>3, Times
  <2>2. y * (d + 1) = y * d + y /\ y * 0 = 0 /\ y * d \in Int BY <1>3
  <2> QED BY <1>1, <1>3, <2>1, <2>2
<1> QED BY <1>2, <1>3, <1>4 DEF n

(* What a credit is worth once it is converted, whatever the index. *)
LEMMA DivGain ==
  ASSUME NEW x \in Nat, NEW y \in Int
  PROVE  Div(x, y) \in Int /\ Div(x, y) * y <= x * One
<1>1. x * One \in Nat BY RateAssumption
<1>2. CASE y = 0
  <2>1. Div(x, y) = 0 BY <1>2 DEF Div
  <2> QED BY <1>1, <1>2, <2>1
<1>3. CASE y > 0 BY <1>3, DivBound
<1>4. CASE y < 0
  <2> DEFINE g == Div(x, -y)
             h == Div(x, y)
  <2>1. -y \in Nat \ {0} BY <1>4
  <2>2. g \in Nat /\ (-y) * g <= x * One BY <2>1, DivBound
  <2>3. h = -g
    <3>1. Magnitude(-y) = Magnitude(y) /\ Magnitude(x) = x BY <1>4 DEF Magnitude
    <3>2. (x * One) \div Magnitude(y) \in Int
      <4>1. Magnitude(y) \in Nat \ {0} BY <1>4 DEF Magnitude
      <4> QED BY <1>1, <4>1
    <3>3. h = -((x * One) \div Magnitude(y)) BY <1>4, <3>1, <3>2 DEF Div
    <3>4. g = (x * One) \div Magnitude(y) BY <1>4, <3>1, <3>2 DEF Div
    <3> QED BY <3>3, <3>4
  <2> HIDE DEF g, h
  <2>4. (-g) * y = (-y) * g BY <2>2
  <2>5. h \in Int /\ h * y <= x * One BY <2>2, <2>3, <2>4
  <2> QED BY <2>5 DEF h
<1> QED BY <1>2, <1>3, <1>4

(* The price of a borrow, with rounding up to a whole unit of quote: what *)
(* is paid beyond the borrow is worth less than a unit.                   *)
LEMMA Overshoot ==
  ASSUME NEW p \in Nat \ {0}, NEW f \in Nat, f <= One, f # 0,
         NEW owed \in Nat, NEW wanted \in Nat, wanted <= owed,
         NEW q \in Nat, q * One < Div(Mul(wanted, p), f) + One
  PROVE  p * (Div(Mul(q * One, f), p) - owed) <= One * (One - 1)
<1> DEFINE m == Mul(wanted, p)
           d == Div(m, f)
           k == Mul(q * One, f)
           l == Div(k, p)
<1>1. One \in Nat \ {0} /\ q * One \in Nat BY RateAssumption
<1>2. m \in Nat /\ One * m <= wanted * p BY MulBound
<1> HIDE DEF m
<1>3. d \in Nat /\ f * d <= m * One BY <1>2, DivBound
<1>4. q * One < d + One BY DEF m
<1> HIDE DEF d
<1>5. k \in Nat /\ One * k <= (q * One) * f BY <1>1, MulBound
<1> HIDE DEF k
<1>6. l \in Nat /\ p * l <= k * One BY <1>5, DivBound
<1> HIDE DEF l
<1>7. f * (q * One) <= f * (d + (One - 1))
  <2>1. q * One <= d + (One - 1) /\ d + (One - 1) \in Int BY <1>1, <1>3, <1>4
  <2> QED BY <1>1, <2>1, Times
<1>8. f * (d + (One - 1)) = f * d + f * (One - 1) BY <1>1, <1>3
<1>9. f * (One - 1) <= One * (One - 1)
  <2>1. One - 1 \in Nat /\ One \in Int /\ f \in Int BY <1>1
  <2>2. (One - 1) * f <= (One - 1) * One BY <2>1, Times
  <2>3. (One - 1) * f = f * (One - 1) /\ (One - 1) * One = One * (One - 1) BY <2>1
  <2> QED BY <2>2, <2>3
<1>10. p * wanted <= p * owed BY Times
<1>11. p * (l - owed) = p * l - p * owed BY <1>6
<1>12. /\ p * l \in Int /\ p * owed \in Int /\ p * wanted \in Int /\ k * One \in Int
       /\ f * d \in Int /\ f * (One - 1) \in Int /\ One * (One - 1) \in Int /\ m * One \in Int
       /\ f * (q * One) \in Int
  BY <1>1, <1>2, <1>3, <1>5, <1>6
<1>13. k * One = One * k /\ m * One = One * m /\ wanted * p = p * wanted
       /\ (q * One) * f = f * (q * One)
  BY <1>1, <1>2, <1>5
<1>14. p * l <= f * d + f * (One - 1) BY <1>5, <1>6, <1>7, <1>8, <1>12, <1>13
<1>15. f * d <= p * wanted BY <1>2, <1>3, <1>12, <1>13
<1>16. p * l - p * owed <= One * (One - 1) BY <1>9, <1>10, <1>12, <1>14, <1>15
<1>17. p * (l - owed) <= One * (One - 1) BY <1>11, <1>16
<1> QED BY <1>17 DEF l, k

(* The excess, as the deposit it becomes. *)
LEMMA ExcessWorth ==
  ASSUME NEW p \in Nat \ {0}, NEW x \in Nat, p * x <= One * (One - 1), NEW y \in Int
  PROVE  Div(x, y) * y * p < One * One * One
<1> DEFINE g == Div(x, y)
<1>1. g \in Int /\ g * y <= x * One BY DivGain
<1> HIDE DEF g
<1>2. One \in Nat \ {0} BY RateAssumption
<1>3. p * (g * y) <= p * (x * One)
  <2>1. g * y \in Int /\ x * One \in Int BY <1>1, <1>2
  <2> QED BY <1>1, <2>1, Times
<1>4. One * (p * x) <= One * (One * (One - 1))
  <2>1. p * x \in Int /\ One * (One - 1) \in Int BY <1>2
  <2> QED BY <1>2, <2>1, Times
<1>5. One * (One * (One - 1)) < One * One * One
  <2> DEFINE s == One * One
  <2>1. s \in Nat \ {0} BY <1>2
  <2>2. One * (One * (One - 1)) = s * (One - 1) BY <1>2
  <2>3. s * (One - 1) = s * One - s /\ s * One \in Int BY <1>2, <2>1
  <2>4. One * One * One = s * One OBVIOUS
  <2> HIDE DEF s
  <2> QED BY <2>1, <2>2, <2>3, <2>4
<1>6. p * (x * One) = One * (p * x) /\ g * y * p = p * (g * y) BY <1>1, <1>2
<1>7. p * (g * y) \in Int /\ One * (p * x) \in Int /\ One * One * One \in Int
      /\ One * (One * (One - 1)) \in Int
  <2>1. p * x \in Int /\ g * y \in Int /\ One * One \in Int /\ One * (One - 1) \in Int
    BY <1>1, <1>2
  <2> QED BY <1>2, <2>1
<1>8. g * y * p < One * One * One BY <1>3, <1>4, <1>5, <1>6, <1>7
<1> QED BY <1>8 DEF g

(* A resolution credits the account with lt, of which the borrow is repaid. *)
Credited(w, acc, a, t, q) ==
  \A u \in Tokens :
    \/ acc.deposits[u] = w.ma[a].deposits[u]
    \/ /\ u = t /\ q >= native_borrow(w, a, t)
       /\ acc.deposits[u] = w.ma[a].deposits[u]
                              + Div(q - native_borrow(w, a, t), w.cache.bank[t].deposit_index)

(* What checked_add_net does to the deposits of an account that owes. *)
LEMMA AddNetCredits ==
  ASSUME NEW w, Sound(w), NEW a \in Accounts, NEW t \in Tokens, NEW q \in Int, w.ma[a].borrows[t] > 0
  PROVE  Credited(w, checked_add_net(w, a, t, q).ma[a], a, t, q)
<1> DEFINE index == w.cache.bank[t]
           borrows == w.ma[a].borrows[t]
           owed == native_borrow(w, a, t)
<1>1. Shape(w, Accounts, Tokens) /\ Books(w, Accounts, Tokens) BY DEF Sound, Books
<1>2. borrows \in Int /\ owed \in Int /\ index.deposit_index \in Int /\ index.borrow_index \in Int
  BY <1>1, BalancesInt
<1>3. DOMAIN w.ma[a].deposits = Tokens /\ \A u \in Tokens : w.ma[a].deposits[u] \in Int
  BY <1>1 DEF Shape, IsAccount
<1>4. CASE q < owed
  <2> DEFINE d == -Div(q, index.borrow_index)
             v == Adjust(w, a, t, 0, d)
             z == Nonzero(v, index.borrow_index)
  <2>1. d \in Int
    <3>1. Div(q, index.borrow_index) \in Int BY <1>2, DivInt
    <3> QED BY <3>1
  <2>2. checked_add_net(w, a, t, q) = z BY <1>2, <1>4, <2>1 DEF checked_add_net
  <2> HIDE DEF d
  <2>3. Booked(w, v, a, t, 0, d)
    <3>1. d \in Int /\ 0 \in Int BY <2>1
    <3> QED BY <1>1, <3>1, AdjustBooked
  <2>4. {"ma", "ok"} \subseteq DOMAIN v BY <1>1, <2>3 DEF Booked, Shape
  <2>5. v.ma[a].deposits = [w.ma[a].deposits EXCEPT ![t] = @ + 0] BY <2>3 DEF Booked
  <2> HIDE DEF v
  <2>6. z.ma = v.ma BY <2>4 DEF Nonzero
  <2> HIDE DEF z
  <2>7. \A u \in Tokens : z.ma[a].deposits[u] = w.ma[a].deposits[u] BY <1>3, <2>5, <2>6
  <2> QED BY <2>2, <2>7 DEF Credited
<1>5. CASE q >= owed
  <2> DEFINE g == Div(q - owed, index.deposit_index)
             b == -borrows
             v == Adjust(w, a, t, 0, b)
             x == Adjust(v, a, t, g, 0)
             z == Nonzero(x, index.deposit_index)
  <2>1. g \in Int /\ b \in Int
    <3>1. q - owed \in Int BY <1>2
    <3>2. g \in Int BY <1>2, <3>1, DivInt
    <3>3. b \in Int BY <1>2
    <3> QED BY <3>2, <3>3
  <2>2. checked_add_net(w, a, t, q) = z BY <1>2, <1>5 DEF checked_add_net
  <2> HIDE DEF b
  <2>3. Booked(w, v, a, t, 0, b)
    <3>1. b \in Int /\ 0 \in Int BY <2>1
    <3> QED BY <1>1, <3>1, AdjustBooked
  <2>4. Rebooked(w, v, {a}, Accounts, Tokens) BY <1>1, <2>1, AdjustBooks, MarginAssumption
  <2>5. Shape(v, Accounts, Tokens) BY <2>4 DEF Rebooked, Books
  <2>6. v.ma[a].deposits = [w.ma[a].deposits EXCEPT ![t] = @ + 0] BY <2>3 DEF Booked
  <2> HIDE DEF v, g
  <2>7. Booked(v, x, a, t, g, 0) BY <2>1, <2>5, AdjustBooked
  <2>8. {"ma", "ok"} \subseteq DOMAIN x BY <2>5, <2>7 DEF Booked, Shape
  <2>9. x.ma[a].deposits = [v.ma[a].deposits EXCEPT ![t] = @ + g] BY <2>7 DEF Booked
  <2> HIDE DEF x
  <2>10. z.ma = x.ma BY <2>8 DEF Nonzero
  <2> HIDE DEF z
  <2>11. /\ \A u \in Tokens \ {t} : z.ma[a].deposits[u] = w.ma[a].deposits[u]
         /\ z.ma[a].deposits[t] = w.ma[a].deposits[t] + g
    BY <1>3, <2>1, <2>6, <2>9, <2>10
  <2> QED BY <1>5, <2>2, <2>11 DEF Credited, g
<1> QED BY <1>2, <1>4, <1>5

(* A transfer to an account that owes. *)
LEMMA TransferCredits ==
  ASSUME NEW w, Sound(w), NEW a \in Accounts, NEW b \in Accounts, a # b, NEW t \in Tokens,
         NEW q \in Nat, w.ma[a].borrows[t] > 0
  PROVE  /\ Credited(w, transfer_token_internal(w, b, a, t, q).ma[a], a, t, q)
         /\ transfer_token_internal(w, b, a, t, q).ma[a].base_position = w.ma[a].base_position
         /\ transfer_token_internal(w, b, a, t, q).ma[a].quote_position = w.ma[a].quote_position
<1> DEFINE x == checked_change_net(w, a, t, q)
           v == transfer_token_internal(w, b, a, t, q)
<1>1. Rebooked(w, v, {a, b}, Accounts, Tokens) BY MarginAssumption, TransferBooks DEF Sound
<1>2. SameAccount(w.ma[a], v.ma[a]) BY <1>1 DEF Rebooked, Kept
<1>3. v.ma[a].base_position = w.ma[a].base_position /\ v.ma[a].quote_position = w.ma[a].quote_position
  BY <1>2 DEF SameAccount, Sound, Parts, IsTrader
<1>4. CASE q = 0
  <2>1. v = w BY <1>4 DEF transfer_token_internal, checked_change_net
  <2>2. Credited(w, v.ma[a], a, t, q) BY <2>1 DEF Credited
  <2> QED BY <1>3, <2>2
<1>5. CASE q > 0
  <2>1. x = checked_add_net(w, a, t, q) BY <1>5 DEF checked_change_net
  <2>2. Credited(w, x.ma[a], a, t, q) BY <2>1, AddNetCredits
  <2>3. v = checked_change_net(x, b, t, -q) BY <1>5 DEF transfer_token_internal
  <2>4. Moved(w, x, {a}, 0, 0) BY ChangeNetMoved
  <2>5. Sound(x) BY <2>4 DEF Moved, Shifted
  <2> HIDE DEF x
  <2>6. Moved(x, v, {b}, 0, 0) BY <2>3, <2>5, ChangeNetMoved
  <2>7. v.ma[a] = x.ma[a] BY <2>6 DEF Moved, Shifted
  <2> QED BY <1>3, <2>2, <2>7
<1> QED BY <1>4, <1>5

(* A borrow of a bankrupt account. *)
LEMMA ResolveTokenStep ==
  ASSUME MarginInv, NEW liqee \in Accounts, NEW liqor \in Accounts, NEW liab \in Tokens,
         NEW max \in LiabTransfers, resolve_token_bankruptcy(liqee, liqor, liab, max)
  PROVE  Preserved
<1> DEFINE price == get_price(Work, liab)
           fee == LiabFee(liab)
           owed == native_borrow(Work, liqee, liab)
           insured_liabs == Div(Mul(funds.insurance * One, fee), price)
           wanted == Smaller(Smaller(max, owed), insured_liabs)
           q == InsuranceTransfer(Div(Mul(wanted, price), fee))
           lt == Div(Mul(q * One, fee), price)
           A == {liqee, liqor}
           u1 == FromInsurance(Work, q)
           u2 == checked_change_net(u1, liqor, Quote, q * One)
           paid == transfer_token_internal(u2, liqor, liqee, liab, lt)
           p == get_health(paid, liqor, "init") >= 0
           u3 == Require(paid, p)
           insured == IF q = 0 THEN Work ELSE u3
           w == IF q = funds.insurance /\ insured.ma[liqee].borrows[liab] > 0
                  THEN socialize_loss(insured, liqee, liab) ELSE insured
<1>1. /\ liqee # liqor /\ ma[liqee].is_bankrupt /\ Resolver(liqee, liqor)
      /\ ma[liqee].borrows[liab] > 0
  BY SMTT(30) DEF resolve_token_bankruptcy, CanResolveToken, Resolver
<1>2. Commit(ExitBankruptcy(w, liqee)) BY DEF resolve_token_bankruptcy, TokenBankruptcy
<1>3. Sound(Work) /\ funds.insurance \in Nat BY Start
<1>4. price \in Nat \ {0} BY <1>3, PriceNat
<1>5. fee \in Nat /\ fee <= One /\ fee # 0 BY FeeAssumption, RateAssumption DEF LiabFee
<1>6. owed \in Nat
  <2>1. ma[liqee].borrows[liab] \in Nat
    <3>1. ma[liqee].borrows[liab] \in Int BY <1>3, BalancesInt, WorkFields DEF Sound, Books
    <3> QED BY <1>1, <3>1
  <2>2. cache.bank[liab].borrow_index \in Nat
    BY <1>3, WorkFields DEF Sound, Agree, Parts, IsRoot
  <2> QED BY <2>1, <2>2, WorkFields, MulNat DEF native_borrow
<1>7. insured_liabs \in Nat
  <2>1. funds.insurance * One \in Nat BY <1>3, RateAssumption
  <2>2. Mul(funds.insurance * One, fee) \in Nat BY <1>5, <2>1, MulNat
  <2> QED BY <1>4, <2>2, DivBound
<1> HIDE DEF price, fee, owed, insured_liabs
<1>8. wanted \in Nat /\ wanted <= owed
  <2>1. max \in Nat BY InputAssumption
  <2> QED BY <1>6, <1>7, <2>1 DEF Smaller
<1> HIDE DEF wanted
<1>9. q \in Nat /\ q <= funds.insurance /\ q * One < Div(Mul(wanted, price), fee) + One
  <2>1. Mul(wanted, price) \in Nat BY <1>4, <1>8, MulNat
  <2>2. Div(Mul(wanted, price), fee) \in Nat BY <1>5, <2>1, DivBound
  <2> QED BY <2>2, InsuranceBounds
<1> HIDE DEF q
<1>10. price * (lt - owed) <= One * (One - 1) BY <1>4, <1>5, <1>6, <1>8, <1>9, Overshoot
<1>11. q * One \in Nat /\ q * One \in Int BY <1>9, RateAssumption
<1>12. lt \in Nat /\ lt \in Int
  <2>1. Mul(q * One, fee) \in Nat BY <1>5, <1>11, MulNat
  <2> QED BY <1>4, <2>1, DivBound
<1> HIDE DEF lt
<1>13. Moved(Work, u1, {}, 0, 0) /\ u1.ma = ma /\ u1.cache = cache BY <1>9, InsuranceMoved
<1>14. Sound(u1) BY <1>13 DEF Moved, Shifted
<1> HIDE DEF u1
<1>15. Moved(u1, u2, {liqor}, 0, 0) /\ u2.cache = cache
  BY <1>11, <1>13, <1>14, ChangeNetMoved DEF Tokens
<1>16. Sound(u2) /\ u2.ma[liqee] = ma[liqee] BY <1>1, <1>13, <1>15 DEF Moved, Shifted
<1> HIDE DEF u2
<1>17. Moved(u2, paid, {liqor, liqee}, 0, 0) BY <1>12, <1>16, TransferMoved
<1>18. /\ Credited(u2, paid.ma[liqee], liqee, liab, lt)
       /\ paid.ma[liqee].base_position = ma[liqee].base_position
       /\ paid.ma[liqee].quote_position = ma[liqee].quote_position
  BY <1>1, <1>12, <1>16, TransferCredits
<1>19. Sound(paid) BY <1>17 DEF Moved, Shifted
<1> HIDE DEF paid, p
<1>20. Moved(paid, u3, {}, 0, 0) /\ u3.ma = paid.ma BY <1>19, RequireMoved
<1> HIDE DEF u3
<1>21. {} \subseteq A /\ {liqor} \subseteq A /\ A \subseteq A /\ {liqee} \subseteq A
       /\ {liqor, liqee} \subseteq A
  OBVIOUS
<1> HIDE DEF A
<1>22. Moved(Work, u2, A, 0, 0) BY <1>3, <1>13, <1>15, <1>21, StillTwice
<1>23. Moved(Work, paid, A, 0, 0) BY <1>3, <1>17, <1>21, <1>22, StillTwice
<1>24. Moved(Work, u3, A, 0, 0) BY <1>3, <1>20, <1>21, <1>23, StillTwice
<1>25. Moved(Work, Work, A, 0, 0) BY <1>3, MovedNot
<1>26. Moved(Work, insured, A, 0, 0) BY <1>24, <1>25
<1>27. Dust(paid.ma[liqee], liqee)
  <2> SUFFICES ASSUME NEW t \in Tokens
               PROVE  (paid.ma[liqee].deposits[t] - ma[liqee].deposits[t])
                        * cache.bank[t].deposit_index * get_price(Work, t) < One * One * One
    BY <1>1 DEF Dust
  <2>1. ma[liqee].deposits[t] \in Int /\ cache.bank[t].deposit_index \in Int
    BY <1>3, BalancesInt, WorkFields DEF Sound, Books
  <2>2. get_price(Work, t) \in Nat \ {0} BY <1>3, PriceNat
  <2>3. native_borrow(u2, liqee, liab) = owed BY <1>15, <1>16, WorkFields DEF native_borrow, owed
  <2>4. \/ paid.ma[liqee].deposits[t] = ma[liqee].deposits[t]
        \/ /\ t = liab /\ lt >= owed
           /\ paid.ma[liqee].deposits[t]
                = ma[liqee].deposits[t] + Div(lt - owed, cache.bank[t].deposit_index)
    BY <1>15, <1>16, <1>18, <2>3 DEF Credited
  <2>5. CASE paid.ma[liqee].deposits[t] = ma[liqee].deposits[t]
    <3>1. (paid.ma[liqee].deposits[t] - ma[liqee].deposits[t])
            * cache.bank[t].deposit_index * get_price(Work, t) = 0
      BY <2>1, <2>2, <2>5
    <3>2. One * One * One > 0
      <4>1. One \in Nat \ {0} BY RateAssumption
      <4>2. One * One \in Nat \ {0} BY <4>1
      <4> QED BY <4>1, <4>2
    <3> QED BY <3>1, <3>2
  <2>6. CASE /\ t = liab /\ lt >= owed
             /\ paid.ma[liqee].deposits[t]
                  = ma[liqee].deposits[t] + Div(lt - owed, cache.bank[t].deposit_index)
    <3> DEFINE x == lt - owed
               g == Div(x, cache.bank[t].deposit_index)
    <3>1. x \in Nat /\ price * x <= One * (One - 1) BY <1>6, <1>10, <1>12, <2>6
    <3>2. get_price(Work, t) = price BY <2>6 DEF price
    <3> HIDE DEF x
    <3>3. g * cache.bank[t].deposit_index * price < One * One * One
      BY <1>4, <2>1, <3>1, ExcessWorth
    <3>4. g \in Int
      <4>1. x \in Int BY <3>1
      <4> QED BY <2>1, <4>1, DivInt
    <3>5. paid.ma[liqee].deposits[t] = ma[liqee].deposits[t] + g BY <2>6 DEF x
    <3> HIDE DEF g
    <3>6. paid.ma[liqee].deposits[t] - ma[liqee].deposits[t] = g BY <2>1, <3>4, <3>5
    <3> QED BY <3>2, <3>3, <3>6
  <2> QED BY <2>4, <2>5, <2>6
<1>28. /\ insured.ma[liqee].base_position = ma[liqee].base_position
       /\ insured.ma[liqee].quote_position = ma[liqee].quote_position
       /\ Dust(insured.ma[liqee], liqee)
  <2>1. CASE q = 0
    <3>1. insured = Work BY <2>1
    <3> HIDE DEF insured
    <3>2. Dust(ma[liqee], liqee) BY <1>1, <1>3, DustSame
    <3> QED BY <3>1, <3>2, WorkFields
  <2>2. CASE q # 0
    <3>1. insured = u3 BY <2>2
    <3> HIDE DEF insured
    <3> QED BY <1>18, <1>20, <1>27, <3>1
  <2> QED BY <2>1, <2>2
<1>29. Sound(insured) BY <1>26 DEF Moved, Shifted
<1> HIDE DEF insured
<1>30. /\ Moved(Work, w, A, 0, 0)
       /\ w.ma[liqee].base_position = ma[liqee].base_position
       /\ w.ma[liqee].quote_position = ma[liqee].quote_position
       /\ Dust(w.ma[liqee], liqee)
  <2>1. CASE q = funds.insurance /\ insured.ma[liqee].borrows[liab] > 0
    <3>1. w = socialize_loss(insured, liqee, liab) BY <2>1
    <3> HIDE DEF w
    <3>2. /\ Moved(insured, w, {liqee}, 0, 0)
          /\ w.ma[liqee].deposits = insured.ma[liqee].deposits
          /\ w.ma[liqee].base_position = insured.ma[liqee].base_position
          /\ w.ma[liqee].quote_position = insured.ma[liqee].quote_position
      BY <1>29, <3>1, SocializeMoved
    <3>3. Moved(Work, w, A, 0, 0) BY <1>3, <1>21, <1>26, <3>2, StillTwice
    <3>4. Dust(w.ma[liqee], liqee) BY <1>28, <3>2 DEF Dust
    <3> QED BY <1>28, <3>2, <3>3, <3>4
  <2>2. CASE ~(q = funds.insurance /\ insured.ma[liqee].borrows[liab] > 0)
    <3>1. w = insured BY <2>2
    <3> HIDE DEF w
    <3> QED BY <1>26, <1>28, <3>1
  <2> QED BY <2>1, <2>2
<1> HIDE DEF w
<1>31. w.ma[liqee].quote_position < One BY <1>1, <1>30 DEF MarginInv, Poor
<1>32. Moved(Work, w, {liqee, liqor}, 0, 0) BY <1>30 DEF A
<1>33. market.open_interest # 0 => 0 < market.open_interest
  <2>1. Open(Work) \in Nat /\ Open(Work) = market.open_interest
    BY <1>3, SumsInt, WorkFields DEF Sound
  <2> QED BY <2>1
<1> QED BY <1>1, <1>2, <1>30, <1>31, <1>32, <1>33, Resolved
-----------------------------------------------------------------------------
(* The invariant *)

(* Time passes and nothing else changes. *)
LEMMA TickStep ==
  ASSUME MarginInv, UNCHANGED <<ma, bank, market, cache, funds>>, now' \in Int
  PROVE  Preserved
<1>1. Work' = Work BY DEF Work
<1>2. Sound(Work) /\ Net(Work) = 0 BY DEF MarginInv
<1>3. Sound(Work)' /\ Net(Work)' = 0 BY <1>1, <1>2
<1>4. MarginInv' BY <1>3 DEF MarginInv, Poor
<1>5. Claims' = Claims BY DEF Claims
<1>6. Claims \in Int /\ (market.open_interest # 0 => 0 < market.open_interest)
  <2>1. Claims = Claim(Work) BY ClaimSum, WorkFields DEF Claims
  <2>2. Claim(Work) \in Int /\ Open(Work) \in Nat /\ Open(Work) = market.open_interest
    BY <1>2, SumsInt, WorkFields DEF Sound
  <2> QED BY <2>1, <2>2
<1>7. market.open_interest \in Int BY <1>2, WorkFields DEF Sound, Parts, IsMarket
<1>8. ClaimStep BY <1>5, <1>6, <1>7 DEF ClaimStep
<1>9. DustStep
  <2> SUFFICES ASSUME NEW a \in Accounts, ma'[a].is_bankrupt
               PROVE  Poor(ma'[a]) /\ Dust(ma'[a], a)
    BY DEF DustStep
  <2>1. ma[a].is_bankrupt OBVIOUS
  <2>2. Poor(ma[a]) BY <2>1 DEF MarginInv
  <2>3. Dust(ma[a], a) BY <1>2, <2>1, DustSame
  <2> QED BY <2>2, <2>3
<1> QED BY <1>4, <1>8, <1>9 DEF Preserved
(* A start of the program is in order. *)
LEMMA InitInv == Init => MarginInv
<1> SUFFICES ASSUME Init PROVE MarginInv OBVIOUS
<1>1. PICK s \in Starts :
        /\ ma = s.ma /\ bank = s.bank /\ market = s.market /\ funds = s.funds /\ now = s.now
        /\ cache = [bank |-> [t \in Tokens |-> RootBankCache(s.bank[t], s.now)],
                    price |-> [price |-> s.price, last_update |-> s.now],
                    perp |-> PerpMarketCache(s.market, s.now)]
  BY DEF Init
<1>2. s \in StartSet /\ InOrder(s) /\ IsFiniteSet(Accounts) BY MarginAssumption
<1>3. /\ DOMAIN ma = Accounts
      /\ \A a \in Accounts :
           ma[a] \in [deposits : [Tokens -> Int], borrows : [Tokens -> Int],
                      base_position : Int, quote_position : Int,
                      long_settled_funding : Int, short_settled_funding : Int,
                      being_liquidated : BOOLEAN, is_bankrupt : {FALSE}]
  BY <1>1, <1>2 DEF StartSet
<1>4. /\ DOMAIN bank = Tokens
      /\ \A t \in Tokens :
           bank[t] \in [deposits : Int, borrows : Int, deposit_index : Int, borrow_index : Nat,
                        last_updated : Int, vault : Int]
  BY <1>1, <1>2 DEF StartSet
<1>5. /\ market \in [open_interest : Int, fees_accrued : Nat, long_funding : Int, short_funding : Int]
      /\ s.price \in Nat \ {0} /\ now \in Int
      /\ funds \in [wallet : [Accounts -> [Tokens -> Int]], insurance : Nat, fees : Int]
  BY <1>1, <1>2 DEF StartSet
<1>6. /\ {"bank", "price", "perp"} \subseteq DOMAIN cache
      /\ DOMAIN cache.bank = Tokens /\ cache.price.price = s.price
      /\ cache.perp = PerpMarketCache(market, now)
      /\ \A t \in Tokens : cache.bank[t] = RootBankCache(bank[t], now)
  BY <1>1
<1>7. \A t \in Tokens : /\ {"deposit_index", "borrow_index"} \subseteq DOMAIN cache.bank[t]
                        /\ cache.bank[t].deposit_index = bank[t].deposit_index
                        /\ cache.bank[t].borrow_index = bank[t].borrow_index
  <2> SUFFICES ASSUME NEW t \in Tokens
               PROVE  /\ {"deposit_index", "borrow_index"} \subseteq DOMAIN cache.bank[t]
                      /\ cache.bank[t].deposit_index = bank[t].deposit_index
                      /\ cache.bank[t].borrow_index = bank[t].borrow_index
    OBVIOUS
  <2>1. cache.bank[t] = RootBankCache(bank[t], now) BY <1>6
  <2> QED BY <2>1 DEF RootBankCache
<1>8. /\ {"long_funding", "short_funding"} \subseteq DOMAIN cache.perp
      /\ cache.perp.long_funding = market.long_funding
      /\ cache.perp.short_funding = market.short_funding
  BY <1>6 DEF PerpMarketCache
<1>9. \A a \in Accounts : IsAccount(ma[a], Tokens) /\ IsTrader(ma[a]) /\ ~ma[a].is_bankrupt
  BY <1>3 DEF IsAccount, IsTrader
<1>10. \A t \in Tokens : IsBank(bank[t]) /\ IsRoot(bank[t]) BY <1>4 DEF IsBank, IsRoot
<1>11. IsMarket(market) /\ IsFund(funds) BY <1>5 DEF IsMarket, IsFund
<1>12. IsCache(cache) BY <1>5, <1>6, <1>7, <1>8 DEF IsCache
<1>13. \A t \in Tokens : IsIndex(cache.bank[t]) BY <1>7, <1>10 DEF IsIndex, IsRoot
<1>14. {"ma", "bank", "cache", "ok", "market", "funds"} \subseteq DOMAIN Work BY DEF Work
<1>15. \A f : DOMAIN f = Accounts => SumFunction(f) = SumFunctionOnSet(f, Accounts) BY SumDomain
<1>16. Totals(Work, Accounts, Tokens)
  <2> SUFFICES ASSUME NEW t \in Tokens
               PROVE  /\ bank[t].deposits
                           = SumFunctionOnSet([a \in Accounts |-> ma[a].deposits[t]], Accounts)
                      /\ bank[t].borrows
                           = SumFunctionOnSet([a \in Accounts |-> ma[a].borrows[t]], Accounts)
    BY WorkFields DEF Totals
  <2> DEFINE d == [a \in Accounts |-> ma[a].deposits[t]]
             b == [a \in Accounts |-> ma[a].borrows[t]]
  <2>1. DOMAIN d = Accounts /\ DOMAIN b = Accounts OBVIOUS
  <2>2. bank[t].deposits = SumFunction(d) /\ bank[t].borrows = SumFunction(b)
    BY <1>1, <1>2 DEF InOrder
  <2> HIDE DEF d, b
  <2>3. bank[t].deposits = SumFunctionOnSet(d, Accounts) /\ bank[t].borrows = SumFunctionOnSet(b, Accounts)
    BY <1>15, <2>1, <2>2
  <2> QED BY <2>3 DEF d, b
<1>17. Net(Work) = 0 /\ Open(Work) = market.open_interest
  <2> DEFINE n == [a \in Accounts |-> ma[a].base_position]
             o == [a \in Accounts |-> Magnitude(ma[a].base_position)]
  <2>1. DOMAIN n = Accounts /\ DOMAIN o = Accounts OBVIOUS
  <2>2. SumFunction(n) = 0 /\ SumFunction(o) = market.open_interest BY <1>1, <1>2 DEF InOrder
  <2>3. Net(Work) = SumFunctionOnSet(n, Accounts) /\ Open(Work) = SumFunctionOnSet(o, Accounts)
    BY WorkFields DEF Net, Open
  <2> HIDE DEF n, o
  <2> QED BY <1>15, <2>1, <2>2, <2>3
<1>18. Shape(Work, Accounts, Tokens) BY <1>3, <1>4, <1>9, <1>10, <1>13, <1>14, WorkFields DEF Shape
<1>19. Parts(Work) BY <1>9, <1>10, <1>11, <1>12, <1>14, WorkFields DEF Parts
<1>20. Agree(Work) BY <1>7, <1>8, WorkFields DEF Agree
<1>21. Sound(Work) BY <1>16, <1>17, <1>18, <1>19, <1>20, WorkFields DEF Sound, Books
<1> QED BY <1>5, <1>9, <1>17, <1>21 DEF MarginInv

(* Every step of the program. *)
LEMMA NextStep == ASSUME MarginInv, [Next]_vars PROVE Preserved
<1>1. CASE UNCHANGED vars
  <2>1. now' \in Int BY <1>1 DEF vars, MarginInv
  <2> QED BY <1>1, <2>1, TickStep DEF vars
<1>2. CASE Tick
  <2>1. now' \in Int BY <1>2 DEF Tick, MarginInv
  <2> QED BY <1>2, <2>1, TickStep DEF Tick
<1>3. CASE \E a \in Accounts, t \in Tokens :
             \/ \E q \in DepositQuantities : deposit(a, t, q)
             \/ \E q \in WithdrawQuantities, b \in AllowBorrow : withdraw(a, t, q, b)
  <2>1. PICK a \in Accounts, t \in Tokens :
             \/ \E q \in DepositQuantities : deposit(a, t, q)
             \/ \E q \in WithdrawQuantities, b \in AllowBorrow : withdraw(a, t, q, b)
    BY <1>3
  <2>2. CASE \E q \in DepositQuantities : deposit(a, t, q) BY <2>2, DepositStep
  <2>3. CASE \E q \in WithdrawQuantities, b \in AllowBorrow : withdraw(a, t, q, b)
    BY <2>3, WithdrawStep
  <2> QED BY <2>1, <2>2, <2>3
<1>4. CASE \E t \in Tokens : update_root_bank(t) BY <1>4, UpdateRootBankStep
<1>5. CASE \E ts \in SUBSET Tokens : cache_root_banks(ts) BY <1>5, CacheRootBanksStep
<1>6. CASE \E p \in Prices : cache_prices(p) BY <1>6, CachePricesStep
<1>7. CASE cache_perp_markets BY <1>7, CachePerpStep
<1>8. CASE \E a, b \in Accounts : a # b /\ (settle_pnl(a, b) \/ force_settle_perp_position(a, b))
  BY <1>8, SettlePnlStep, ForceSettleStep
<1>9. CASE \E a \in Accounts : settle_fees(a) BY <1>9, SettleFeesStep
<1>10. CASE \E a, b \in Accounts : Liquidate(a, b) \/ liquidate_recovered(a, b) \/ Resolve(a, b)
  <2>1. PICK a \in Accounts, b \in Accounts :
          Liquidate(a, b) \/ liquidate_recovered(a, b) \/ Resolve(a, b)
    BY <1>10
  <2>2. CASE Liquidate(a, b)
    <3>1. CASE \E max \in LiabTransfers, t \in Tokens :
                 \/ \E u \in Tokens : liquidate_token_and_token(a, b, t, u, max)
                 \/ liquidate_token_for_perp(a, b, t, max)
                 \/ liquidate_perp_for_token(a, b, t, max)
      BY <3>1, TokenAndTokenStep, TokenForPerpStep, PerpForTokenStep
    <3>2. CASE \E request \in BaseTransfers : liquidate_perp_market(a, b, request)
      BY <3>2, PerpMarketStep
    <3> QED BY <2>2, <3>1, <3>2 DEF Liquidate
  <2>3. CASE liquidate_recovered(a, b) BY <2>3, RecoveredStep
  <2>4. CASE Resolve(a, b) BY <2>4, ResolvePerpStep, ResolveTokenStep DEF Resolve
  <2> QED BY <2>1, <2>2, <2>3, <2>4
<1> QED BY <1>1, <1>2, <1>3, <1>4, <1>5, <1>6, <1>7, <1>8, <1>9, <1>10 DEF Next

(* The invariant of the margin state: the books are in order, the cache has *)
(* the indexes and the funding, longs and shorts match, and a bankrupt      *)
(* account has nothing left to take.                                        *)
THEOREM MarginInvariant == Spec => []MarginInv
<1>1. MarginInv /\ [Next]_vars => MarginInv' BY NextStep DEF Preserved
<1> QED BY <1>1, InitInv, PTL DEF Spec

(* The invariant as the sums of the properties. *)
LEMMA InvSums == MarginInv => BanksBalance /\ CacheCurrent /\ PositionsExact
<1> SUFFICES ASSUME MarginInv PROVE BanksBalance /\ CacheCurrent /\ PositionsExact OBVIOUS
<1>1. Sound(Work) /\ Net(Work) = 0 BY DEF MarginInv
<1>2. \A f : DOMAIN f = Accounts => SumFunction(f) = SumFunctionOnSet(f, Accounts) BY SumDomain
<1>3. BanksBalance
  <2> SUFFICES ASSUME NEW t \in Tokens
               PROVE  /\ bank[t].deposits = SumFunction([a \in Accounts |-> ma[a].deposits[t]])
                      /\ bank[t].borrows = SumFunction([a \in Accounts |-> ma[a].borrows[t]])
    BY DEF BanksBalance
  <2> DEFINE d == [a \in Accounts |-> ma[a].deposits[t]]
             b == [a \in Accounts |-> ma[a].borrows[t]]
  <2>1. DOMAIN d = Accounts /\ DOMAIN b = Accounts OBVIOUS
  <2>2. bank[t].deposits = SumFunctionOnSet(d, Accounts) /\ bank[t].borrows = SumFunctionOnSet(b, Accounts)
    BY <1>1, WorkFields DEF Sound, Books, Totals
  <2> HIDE DEF d, b
  <2>3. bank[t].deposits = SumFunction(d) /\ bank[t].borrows = SumFunction(b)
    BY <1>2, <2>1, <2>2
  <2> QED BY <2>3 DEF d, b
<1>4. CacheCurrent BY <1>1, WorkFields DEF Sound, Agree, CacheCurrent
<1>5. PositionsExact
  <2> DEFINE n == [a \in Accounts |-> ma[a].base_position]
             o == [a \in Accounts |-> Magnitude(ma[a].base_position)]
  <2>1. DOMAIN n = Accounts /\ DOMAIN o = Accounts OBVIOUS
  <2>2. SumFunctionOnSet(n, Accounts) = 0 /\ SumFunctionOnSet(o, Accounts) = market.open_interest
    BY <1>1, WorkFields DEF Net, Open, Sound
  <2> HIDE DEF n, o
  <2>3. SumFunction(n) = 0 /\ SumFunction(o) = market.open_interest BY <1>2, <2>1, <2>2
  <2>4. market.fees_accrued >= 0 BY Start
  <2> QED BY <2>3, <2>4 DEF PositionsExact, n, o
<1> QED BY <1>3, <1>4, <1>5

(* For any number of accounts, whatever sequence of deposits, settlements, *)
(* liquidations and write-offs came before, the totals of a node bank are  *)
(* the sums over the accounts.                                             *)
THEOREM BanksTheorem == Spec => []BanksBalance
BY MarginInvariant, InvSums, PTL

(* No balance is ever converted with an index that differs from that of the *)
(* root bank, socialized losses included.                                   *)
THEOREM CacheTheorem == Spec => []CacheCurrent
BY MarginInvariant, InvSums, PTL

(* Longs and shorts match and open interest counts both, for any number of *)
(* accounts; settled fees never exceed what was accrued.                   *)
THEOREM PositionsTheorem == Spec => []PositionsExact
BY MarginInvariant, InvSums, PTL

(* An account is bankrupt only with nothing left to take, from the         *)
(* liquidation that declares it to the resolution that ends it: the        *)
(* insurance fund overpays a borrow by less than a unit of quote.          *)
THEOREM DustTheorem == Spec => BankruptOnlyDust
<1> DEFINE Step == \A a \in Accounts : ma'[a].is_bankrupt =>
                     /\ ma'[a].base_position = 0
                     /\ ma'[a].quote_position < One
                     /\ \A t \in Tokens :
                          \/ ma'[a].deposits[t] <= DustThreshold
                          \/ /\ ma[a].is_bankrupt
                             /\ LET gain == ma'[a].deposits[t] - ma[a].deposits[t]
                                IN  gain * cache.bank[t].deposit_index * get_price(Work, t)
                                      < One * One * One
<1>1. MarginInv /\ [Next]_vars => Step
  BY NextStep DEF Preserved, DustStep, Poor, Dust
<1>2. MarginInv /\ [Next]_vars => [Step]_vars BY <1>1
<1>3. Spec => [][Step]_vars
  <2> HIDE DEF Step
  <2> QED BY <1>2, MarginInvariant, PTL DEF Spec
<1> QED BY <1>3 DEF BankruptOnlyDust

(* Settlement, liquidation and bankruptcy move claims on the perp market   *)
(* from account to account and never lose one: a socialized loss is shared *)
(* by all open contracts, to an ulp each, for any number of accounts.      *)
THEOREM ClaimsTheorem == Spec => ClaimsKept
<1> DEFINE Step == /\ Claims' >= Claims
                   /\ market.open_interest # 0 => Claims' < Claims + market.open_interest
<1>1. MarginInv /\ [Next]_vars => Step BY NextStep DEF Preserved, ClaimStep
<1>2. MarginInv /\ [Next]_vars => [Step]_vars BY <1>1
<1>3. Spec => [][Step]_vars
  <2> HIDE DEF Step
  <2> QED BY <1>2, MarginInvariant, PTL DEF Spec
<1> QED BY <1>3 DEF ClaimsKept
=============================================================================
