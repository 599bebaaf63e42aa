----------------------------- MODULE BankProofs -----------------------------
(***************************************************************************)
(* What the operators of Bank do to the books. A working record is in      *)
(* order when its banks, accounts and indexes are integers (Shape) and the *)
(* indexed totals of every bank are the sums over the accounts (Totals).   *)
(* Every operator keeps it in order and changes no account but those it is *)
(* about, whatever the amounts, the signs, the rounding and the indexes.   *)
(* Modules that use Bank build their own invariants on these lemmas.       *)
(***************************************************************************)
EXTENDS Bank, Sums

(* The parts of a working record that the operators of Bank use. *)
IsAccount(acc, T) ==
  /\ {"deposits", "borrows"} \subseteq DOMAIN acc
  /\ acc.deposits \in [T -> Int]
  /\ acc.borrows \in [T -> Int]

IsBank(b) ==
  /\ {"deposits", "borrows", "vault"} \subseteq DOMAIN b
  /\ b.deposits \in Int
  /\ b.borrows \in Int
  /\ b.vault \in Int

IsIndex(i) == i.deposit_index \in Int /\ i.borrow_index \in Int

Shape(w, S, T) ==
  /\ {"ma", "bank", "cache", "ok"} \subseteq DOMAIN w
  /\ DOMAIN w.ma = S
  /\ \A a \in S : IsAccount(w.ma[a], T)
  /\ DOMAIN w.bank = T
  /\ \A t \in T : IsBank(w.bank[t])
  /\ \A t \in T : IsIndex(w.cache.bank[t])

Totals(w, S, T) ==
  \A t \in T :
    /\ w.bank[t].deposits = SumFunctionOnSet([a \in S |-> w.ma[a].deposits[t]], S)
    /\ w.bank[t].borrows = SumFunctionOnSet([a \in S |-> w.ma[a].borrows[t]], S)

Books(w, S, T) == Shape(w, S, T) /\ Totals(w, S, T)

(* acc and acc2 are the same but for balances. *)
SameAccount(acc, acc2) ==
  /\ DOMAIN acc2 = DOMAIN acc
  /\ \A f \in DOMAIN acc \ {"deposits", "borrows"} : acc2[f] = acc[f]

SameBank(b, b2) ==
  /\ DOMAIN b2 = DOMAIN b
  /\ \A f \in DOMAIN b \ {"deposits", "borrows"} : b2[f] = b[f]

Kept(w, v, A, S, T) ==
  /\ DOMAIN v = DOMAIN w
  /\ \A f \in DOMAIN w \ {"ma", "bank", "ok"} : v[f] = w[f]
  /\ v.ok => w.ok
  /\ \A x \in S \ A : v.ma[x] = w.ma[x]
  /\ \A x \in S : SameAccount(w.ma[x], v.ma[x])
  /\ \A t \in T : SameBank(w.bank[t], v.bank[t])

(* v is w with balances of accounts of A changed, and the totals with them. *)
Rebooked(w, v, A, S, T) == Books(v, S, T) /\ Kept(w, v, A, S, T)

(* v is w with d and b added to the balances of a in t, and to the totals. *)
Booked(w, v, a, t, d, b) ==
  /\ DOMAIN v = DOMAIN w
  /\ \A f \in DOMAIN w \ {"ma", "bank", "ok"} : v[f] = w[f]
  /\ v.ok => w.ok
  /\ DOMAIN v.ma = DOMAIN w.ma
  /\ \A x \in DOMAIN w.ma \ {a} : v.ma[x] = w.ma[x]
  /\ SameAccount(w.ma[a], v.ma[a])
  /\ v.ma[a].deposits = [w.ma[a].deposits EXCEPT ![t] = @ + d]
  /\ v.ma[a].borrows = [w.ma[a].borrows EXCEPT ![t] = @ + b]
  /\ DOMAIN v.bank = DOMAIN w.bank
  /\ \A u \in DOMAIN w.bank \ {t} : v.bank[u] = w.bank[u]
  /\ SameBank(w.bank[t], v.bank[t])
  /\ v.bank[t].deposits = w.bank[t].deposits + d
  /\ v.bank[t].borrows = w.bank[t].borrows + b

(* Adjust, the add_deposit, sub_borrow and so on of an account and its     *)
(* bank, books the same amounts in both.                                   *)
LEMMA AdjustBooked ==
  ASSUME NEW S, NEW T, NEW w, Shape(w, S, T), NEW a \in S, NEW t \in T, NEW d \in Int, NEW b \in Int
  PROVE  Booked(w, Adjust(w, a, t, d, b), a, t, d, b)
<1> DEFINE v == Adjust(w, a, t, d, b)
           acc == [w.ma[a] EXCEPT !.deposits[t] = @ + d, !.borrows[t] = @ + b]
           node == [w.bank[t] EXCEPT !.deposits = @ + d, !.borrows = @ + b]
           ok == w.ok /\ OneSided(acc.deposits[t], acc.borrows[t])
<1>1. v = [w EXCEPT !.ma = [w.ma EXCEPT ![a] = acc], !.bank = [w.bank EXCEPT ![t] = node], !.ok = ok]
  BY DEF Adjust, Shape
<1>2. {"ma", "bank", "cache", "ok"} \subseteq DOMAIN w /\ a \in DOMAIN w.ma /\ t \in DOMAIN w.bank
  BY DEF Shape
<1>3. /\ DOMAIN acc = DOMAIN w.ma[a]
      /\ \A f \in DOMAIN w.ma[a] \ {"deposits", "borrows"} : acc[f] = w.ma[a][f]
      /\ acc.deposits = [w.ma[a].deposits EXCEPT ![t] = @ + d]
      /\ acc.borrows = [w.ma[a].borrows EXCEPT ![t] = @ + b]
  BY DEF Shape, IsAccount
<1>4. /\ DOMAIN node = DOMAIN w.bank[t]
      /\ \A f \in DOMAIN w.bank[t] \ {"deposits", "borrows"} : node[f] = w.bank[t][f]
      /\ node.deposits = w.bank[t].deposits + d
      /\ node.borrows = w.bank[t].borrows + b
  BY DEF Shape, IsBank
<1>5. ok => w.ok OBVIOUS
<1> HIDE DEF acc, node, ok, v
<1>6. /\ DOMAIN v = DOMAIN w
      /\ \A f \in DOMAIN w \ {"ma", "bank", "ok"} : v[f] = w[f]
      /\ v.ma = [w.ma EXCEPT ![a] = acc]
      /\ v.bank = [w.bank EXCEPT ![t] = node]
      /\ v.ok = ok
  BY <1>1, <1>2
<1>7. v.ma[a] = acc /\ v.bank[t] = node BY <1>2, <1>6
<1>8. /\ DOMAIN v.ma = DOMAIN w.ma
      /\ \A x \in DOMAIN w.ma \ {a} : v.ma[x] = w.ma[x]
      /\ DOMAIN v.bank = DOMAIN w.bank
      /\ \A u \in DOMAIN w.bank \ {t} : v.bank[u] = w.bank[u]
  BY <1>6
<1>9. SameAccount(w.ma[a], v.ma[a]) /\ SameBank(w.bank[t], v.bank[t])
  BY <1>3, <1>4, <1>7 DEF SameAccount, SameBank
<1>10. Booked(w, v, a, t, d, b)
  BY <1>3, <1>4, <1>5, <1>6, <1>7, <1>8, <1>9 DEF Booked
<1> QED BY <1>10 DEF v

(* A change that is booked in an account and in its bank keeps the         *)
(* totals.                                                                 *)
LEMMA BookedBooks ==
  ASSUME NEW S, IsFiniteSet(S), NEW T, NEW w, Books(w, S, T), NEW a \in S, NEW t \in T,
         NEW d \in Int, NEW b \in Int, NEW v, Booked(w, v, a, t, d, b)
  PROVE  Rebooked(w, v, {a}, S, T)
<1> USE DEF Books
<1>1. DOMAIN v = DOMAIN w /\ \A f \in DOMAIN w \ {"ma", "bank", "ok"} : v[f] = w[f]
  BY DEF Booked
<1>2. DOMAIN w.ma = S /\ DOMAIN w.bank = T /\ IsAccount(w.ma[a], T) /\ IsBank(w.bank[t])
  BY DEF Shape
<1>3. /\ DOMAIN v.ma = S
      /\ \A x \in S \ {a} : v.ma[x] = w.ma[x]
      /\ SameAccount(w.ma[a], v.ma[a])
      /\ v.ma[a].deposits = [w.ma[a].deposits EXCEPT ![t] = @ + d]
      /\ v.ma[a].borrows = [w.ma[a].borrows EXCEPT ![t] = @ + b]
  BY <1>2 DEF Booked
<1>3a. IsAccount(v.ma[a], T)
  BY <1>2, <1>3 DEF IsAccount, SameAccount
<1>4. /\ DOMAIN v.bank = T
      /\ \A u \in T \ {t} : v.bank[u] = w.bank[u]
      /\ SameBank(w.bank[t], v.bank[t])
      /\ v.bank[t].deposits = w.bank[t].deposits + d
      /\ v.bank[t].borrows = w.bank[t].borrows + b
  BY <1>2 DEF Booked
<1>4a. IsBank(v.bank[t])
  BY <1>2, <1>4 DEF IsBank, SameBank
<1>5. v.cache = w.cache
  BY <1>1 DEF Shape
<1>6. Shape(v, S, T)
  BY <1>1, <1>3, <1>3a, <1>4, <1>4a, <1>5 DEF Shape
<1>7. ASSUME NEW u \in T
      PROVE  /\ v.bank[u].deposits = SumFunctionOnSet([x \in S |-> v.ma[x].deposits[u]], S)
             /\ v.bank[u].borrows = SumFunctionOnSet([x \in S |-> v.ma[x].borrows[u]], S)
  <2> DEFINE D == [x \in S |-> w.ma[x].deposits[u]]
             E == [x \in S |-> v.ma[x].deposits[u]]
             B == [x \in S |-> w.ma[x].borrows[u]]
             C == [x \in S |-> v.ma[x].borrows[u]]
  <2>1. w.bank[u].deposits = SumFunctionOnSet(D, S) /\ w.bank[u].borrows = SumFunctionOnSet(B, S)
    BY DEF Totals
  <2>2. /\ \A x \in S : D[x] \in Int /\ E[x] \in Int
        /\ \A x \in S : B[x] \in Int /\ C[x] \in Int
    BY <1>6 DEF Shape, IsAccount
  <2>3. \A x \in S \ {a} : E[x] = D[x] /\ C[x] = B[x]
    BY <1>3
  <2>4. w.bank[u].deposits \in Int /\ w.bank[u].borrows \in Int
    BY DEF Shape, IsBank
  <2>5. CASE u = t
    <3>1. E[a] = D[a] + d /\ C[a] = B[a] + b
      BY <1>2, <1>3, <2>5 DEF IsAccount
    <3> HIDE DEF D, E, B, C
    <3>2. SumFunctionOnSet(E, S) = SumFunctionOnSet(D, S) + (E[a] - D[a])
      BY <2>2, <2>3, SumUpdate
    <3>3. SumFunctionOnSet(C, S) = SumFunctionOnSet(B, S) + (C[a] - B[a])
      BY <2>2, <2>3, SumUpdate
    <3>4. E[a] - D[a] = d /\ C[a] - B[a] = b BY <2>2, <3>1
    <3>5. v.bank[u].deposits = SumFunctionOnSet(E, S) /\ v.bank[u].borrows = SumFunctionOnSet(C, S)
      BY <1>4, <2>1, <2>5, <3>2, <3>3, <3>4
    <3> QED BY <3>5 DEF E, C
  <2>6. CASE u # t
    <3>1. E[a] = D[a] /\ C[a] = B[a]
      BY <1>2, <1>3, <2>6 DEF IsAccount
    <3>2. v.bank[u] = w.bank[u] BY <1>4, <2>6
    <3>3. \A x \in S : E[x] = D[x] BY <2>3, <3>1
    <3>4. \A x \in S : C[x] = B[x] BY <2>3, <3>1
    <3> HIDE DEF D, E, B, C
    <3>5. SumFunctionOnSet(E, S) = SumFunctionOnSet(D, S) BY <3>3, SumCongr
    <3>6. SumFunctionOnSet(C, S) = SumFunctionOnSet(B, S) BY <3>4, SumCongr
    <3>7. v.bank[u].deposits = SumFunctionOnSet(E, S) /\ v.bank[u].borrows = SumFunctionOnSet(C, S)
      BY <2>1, <3>2, <3>5, <3>6
    <3> QED BY <3>7 DEF E, C
  <2> QED BY <2>5, <2>6
<1>8. Totals(v, S, T)
  BY <1>7 DEF Totals
<1>9. \A x \in S : SameAccount(w.ma[x], v.ma[x])
  BY <1>3 DEF SameAccount
<1>10. \A u \in T : SameBank(w.bank[u], v.bank[u])
  BY <1>4 DEF SameBank
<1>11. Kept(w, v, {a}, S, T)
  <2>1. v.ok => w.ok BY DEF Booked
  <2> QED BY <1>1, <1>3, <1>9, <1>10, <2>1 DEF Kept
<1> QED BY <1>6, <1>8, <1>11 DEF Rebooked

(* Adjust keeps the books. *)
LEMMA AdjustBooks ==
  ASSUME NEW S, IsFiniteSet(S), NEW T, NEW w, Books(w, S, T), NEW a \in S, NEW t \in T,
         NEW d \in Int, NEW b \in Int
  PROVE  Rebooked(w, Adjust(w, a, t, d, b), {a}, S, T)
<1>1. Booked(w, Adjust(w, a, t, d, b), a, t, d, b)
  BY AdjustBooked DEF Books
<1> QED BY <1>1, BookedBooks

(* An instruction that turns out to fail books nothing more. *)
LEMMA OkBooks ==
  ASSUME NEW S, NEW T, NEW w, Books(w, S, T), NEW p, p => w.ok
  PROVE  Rebooked(w, [w EXCEPT !.ok = p], {}, S, T)
<1> DEFINE v == [w EXCEPT !.ok = p]
<1>1. /\ DOMAIN v = DOMAIN w
      /\ \A f \in DOMAIN w \ {"ok"} : v[f] = w[f]
      /\ v.ok => w.ok
  BY DEF Books, Shape
<1>2. v.ma = w.ma /\ v.bank = w.bank /\ v.cache = w.cache
  BY DEF Books, Shape
<1> HIDE DEF v
<1>3. Shape(v, S, T) BY <1>1, <1>2 DEF Books, Shape
<1>4. Totals(v, S, T) BY <1>2 DEF Books, Totals
<1>5. Kept(w, v, {}, S, T) BY <1>1, <1>2 DEF Kept, SameAccount, SameBank
<1>6. Rebooked(w, v, {}, S, T) BY <1>3, <1>4, <1>5 DEF Rebooked, Books
<1> QED BY <1>6 DEF v

(* The check of a divisor books nothing. *)
LEMMA NonzeroBooks ==
  ASSUME NEW S, NEW T, NEW w, Books(w, S, T), NEW x
  PROVE  Rebooked(w, Nonzero(w, x), {}, S, T)
<1>1. Nonzero(w, x) = [w EXCEPT !.ok = w.ok /\ x # 0] BY DEF Nonzero
<1>2. Rebooked(w, [w EXCEPT !.ok = w.ok /\ x # 0], {}, S, T) BY OkBooks
<1> QED BY <1>1, <1>2

(* One booking after another. *)
LEMMA RebookedTwice ==
  ASSUME NEW S, NEW T, NEW w, NEW v, NEW u, NEW A, NEW B, NEW C,
         Rebooked(w, v, A, S, T), Rebooked(v, u, B, S, T), A \subseteq C, B \subseteq C
  PROVE  Rebooked(w, u, C, S, T)
<1> USE DEF Rebooked
<1>1. DOMAIN u = DOMAIN w /\ (\A f \in DOMAIN w \ {"ma", "bank", "ok"} : u[f] = w[f])
  BY DEF Kept
<1>2. u.ok => w.ok BY DEF Kept
<1>3. \A x \in S \ C : u.ma[x] = w.ma[x] BY DEF Kept
<1>4. \A x \in S : SameAccount(w.ma[x], u.ma[x]) BY DEF Kept, SameAccount
<1>5. \A x \in T : SameBank(w.bank[x], u.bank[x]) BY DEF Kept, SameBank
<1>6. Kept(w, u, C, S, T) BY <1>1, <1>2, <1>3, <1>4, <1>5 DEF Kept
<1> QED BY <1>6

(* Doing nothing keeps the books. *)
LEMMA RebookedNot ==
  ASSUME NEW S, NEW T, NEW w, Books(w, S, T), NEW A
  PROVE  Rebooked(w, w, A, S, T)
BY DEF Rebooked, Kept, SameAccount, SameBank

(* The product of fixed-point numbers is one. *)
LEMMA MulInt == ASSUME NEW x \in Int, NEW y \in Int PROVE Mul(x, y) \in Int
BY RateAssumption DEF Mul

(* So is the quotient, whatever the signs. *)
LEMMA DivInt == ASSUME NEW x \in Int, NEW y \in Int PROVE Div(x, y) \in Int
<1>1. CASE y = 0 BY <1>1 DEF Div, Magnitude
<1>2. CASE y # 0
  <2>1. Magnitude(y) \in Nat \ {0} /\ Magnitude(x) * One \in Int
    BY <1>2, RateAssumption DEF Magnitude
  <2>2. (Magnitude(x) * One) \div Magnitude(y) \in Int BY <2>1
  <2> QED BY <1>2, <2>2 DEF Div
<1> QED BY <1>1, <1>2

(* The balances of an account, indexed and native, are integers. *)
LEMMA BalancesInt ==
  ASSUME NEW S, NEW T, NEW w, Shape(w, S, T), NEW a \in S, NEW t \in T
  PROVE  /\ w.ma[a].deposits[t] \in Int /\ w.ma[a].borrows[t] \in Int
         /\ w.cache.bank[t].deposit_index \in Int /\ w.cache.bank[t].borrow_index \in Int
         /\ native_deposit(w, a, t) \in Int /\ native_borrow(w, a, t) \in Int
<1>1. w.ma[a].deposits[t] \in Int /\ w.ma[a].borrows[t] \in Int
  BY DEF Shape, IsAccount
<1>2. w.cache.bank[t].deposit_index \in Int /\ w.cache.bank[t].borrow_index \in Int
  BY DEF Shape, IsIndex
<1>3. native_deposit(w, a, t) \in Int BY <1>1, <1>2, MulInt DEF native_deposit
<1>4. native_borrow(w, a, t) \in Int BY <1>1, <1>2, MulInt DEF native_borrow
<1> QED BY <1>1, <1>2, <1>3, <1>4

(* One and two adjustments, and the check of the divisor. *)
LEMMA AdjustNonzero ==
  ASSUME NEW S, IsFiniteSet(S), NEW T, NEW w, Books(w, S, T), NEW a \in S, NEW t \in T,
         NEW d \in Int, NEW b \in Int, NEW x
  PROVE  Rebooked(w, Nonzero(Adjust(w, a, t, d, b), x), {a}, S, T)
<1>1. Rebooked(w, Adjust(w, a, t, d, b), {a}, S, T) BY AdjustBooks
<1>2. Rebooked(Adjust(w, a, t, d, b), Nonzero(Adjust(w, a, t, d, b), x), {}, S, T)
  BY <1>1, NonzeroBooks DEF Rebooked
<1> QED BY <1>1, <1>2, RebookedTwice

(* checked_add_net, which repays before it deposits, keeps the books. *)
LEMMA AddNetBooks ==
  ASSUME NEW S, IsFiniteSet(S), NEW T, NEW w, Books(w, S, T), NEW a \in S, NEW t \in T,
         NEW q \in Int
  PROVE  Rebooked(w, checked_add_net(w, a, t, q), {a}, S, T)
<1> DEFINE index == w.cache.bank[t]
           borrows == w.ma[a].borrows[t]
           owed == native_borrow(w, a, t)
<1>1. borrows \in Int /\ owed \in Int /\ index.deposit_index \in Int /\ index.borrow_index \in Int
  BY BalancesInt DEF Books
<1>2. /\ -Div(q, index.borrow_index) \in Int /\ Div(q, index.deposit_index) \in Int
      /\ Div(q - owed, index.deposit_index) \in Int
  <2>1. q - owed \in Int BY <1>1
  <2>2. Div(q, index.borrow_index) \in Int BY <1>1, DivInt
  <2>3. Div(q, index.deposit_index) \in Int BY <1>1, DivInt
  <2>4. Div(q - owed, index.deposit_index) \in Int BY <1>1, <2>1, DivInt
  <2> QED BY <2>2, <2>3, <2>4
<1>3. CASE borrows > 0 /\ q < owed
  <2>1. checked_add_net(w, a, t, q)
          = Nonzero(Adjust(w, a, t, 0, -Div(q, index.borrow_index)), index.borrow_index)
    BY <1>1, <1>2, <1>3 DEF checked_add_net
  <2> QED BY <1>2, <2>1, AdjustNonzero
<1>4. CASE borrows > 0 /\ q >= owed
  <2> DEFINE v == Adjust(w, a, t, 0, -borrows)
  <2>1. checked_add_net(w, a, t, q)
          = Nonzero(Adjust(v, a, t, Div(q - owed, index.deposit_index), 0), index.deposit_index)
    BY <1>1, <1>4 DEF checked_add_net
  <2>2. Rebooked(w, v, {a}, S, T) BY <1>1, AdjustBooks
  <2> HIDE DEF v
  <2>3. Rebooked(v, Nonzero(Adjust(v, a, t, Div(q - owed, index.deposit_index), 0),
                            index.deposit_index), {a}, S, T)
    BY <1>2, <2>2, AdjustNonzero DEF Rebooked
  <2> QED BY <2>1, <2>2, <2>3, RebookedTwice
<1>5. CASE ~(borrows > 0)
  <2>1. checked_add_net(w, a, t, q)
          = Nonzero(Adjust(w, a, t, Div(q, index.deposit_index), 0), index.deposit_index)
    BY <1>5 DEF checked_add_net
  <2> QED BY <1>2, <2>1, AdjustNonzero
<1> QED BY <1>1, <1>3, <1>4, <1>5

(* A borrow keeps the books. *)
LEMMA BorrowBooks ==
  ASSUME NEW S, IsFiniteSet(S), NEW T, NEW w, Books(w, S, T), NEW a \in S, NEW t \in T,
         NEW q \in Int
  PROVE  Rebooked(w, Borrow(w, a, t, q), {a}, S, T)
<1> DEFINE index == w.cache.bank[t]
           u == Nonzero(Adjust(w, a, t, 0, Div(q, index.borrow_index)), index.borrow_index)
           p == u.ok /\ has_valid_deposits_borrows(u, t)
<1>1. Div(q, index.borrow_index) \in Int
  BY BalancesInt, DivInt DEF Books
<1>2. Rebooked(w, u, {a}, S, T) BY <1>1, AdjustNonzero
<1>3. Borrow(w, a, t, q) = [u EXCEPT !.ok = p] BY DEF Borrow
<1> HIDE DEF u
<1>4. Rebooked(u, [u EXCEPT !.ok = p], {}, S, T)
  BY <1>2, OkBooks DEF Rebooked
<1> QED BY <1>2, <1>3, <1>4, RebookedTwice

(* checked_sub_net, which draws down deposits before it borrows, keeps     *)
(* the books.                                                              *)
LEMMA SubNetBooks ==
  ASSUME NEW S, IsFiniteSet(S), NEW T, NEW w, Books(w, S, T), NEW a \in S, NEW t \in T,
         NEW q \in Int
  PROVE  Rebooked(w, checked_sub_net(w, a, t, q), {a}, S, T)
<1> DEFINE index == w.cache.bank[t]
           deposits == w.ma[a].deposits[t]
           held == native_deposit(w, a, t)
<1>1. deposits \in Int /\ held \in Int /\ index.deposit_index \in Int
  BY BalancesInt DEF Books
<1>2. -Div(q, index.deposit_index) \in Int /\ q - held \in Int /\ -deposits \in Int
  <2>1. Div(q, index.deposit_index) \in Int BY <1>1, DivInt
  <2> QED BY <1>1, <2>1
<1>3. CASE deposits > 0 /\ q < held
  <2>1. checked_sub_net(w, a, t, q)
          = Nonzero(Adjust(w, a, t, -Div(q, index.deposit_index), 0), index.deposit_index)
    BY <1>1, <1>2, <1>3 DEF checked_sub_net
  <2> QED BY <1>2, <2>1, AdjustNonzero
<1>4. CASE deposits > 0 /\ q >= held
  <2> DEFINE v == Adjust(w, a, t, -deposits, 0)
  <2>1. Rebooked(w, v, {a}, S, T) BY <1>2, AdjustBooks
  <2>3. checked_sub_net(w, a, t, q) = Borrow(v, a, t, q - held)
    BY <1>1, <1>4 DEF checked_sub_net
  <2> HIDE DEF v
  <2>4. Rebooked(v, Borrow(v, a, t, q - held), {a}, S, T)
    BY <1>2, <2>1, BorrowBooks DEF Rebooked
  <2> QED BY <2>1, <2>3, <2>4, RebookedTwice
<1>5. CASE ~(deposits > 0)
  <2>1. checked_sub_net(w, a, t, q) = Borrow(w, a, t, q)
    BY <1>5 DEF checked_sub_net
  <2> QED BY <2>1, BorrowBooks
<1> QED BY <1>1, <1>3, <1>4, <1>5

(* checked_change_net keeps the books and touches one account only. *)
LEMMA ChangeNetBooks ==
  ASSUME NEW S, IsFiniteSet(S), NEW T, NEW w, Books(w, S, T), NEW a \in S, NEW t \in T,
         NEW q \in Int
  PROVE  Rebooked(w, checked_change_net(w, a, t, q), {a}, S, T)
<1>1. CASE q > 0
  <2>1. checked_change_net(w, a, t, q) = checked_add_net(w, a, t, q)
    BY <1>1 DEF checked_change_net
  <2> QED BY <2>1, AddNetBooks
<1>2. CASE q < 0
  <2>1. checked_change_net(w, a, t, q) = checked_sub_net(w, a, t, -q) /\ -q \in Int
    BY <1>2 DEF checked_change_net
  <2> QED BY <2>1, SubNetBooks
<1>3. CASE q = 0
  <2>1. checked_change_net(w, a, t, q) = w
    BY <1>3 DEF checked_change_net
  <2> QED BY <2>1, RebookedNot
<1> QED BY <1>1, <1>2, <1>3

(* transfer_token_internal keeps the books and touches two accounts only. *)
LEMMA TransferBooks ==
  ASSUME NEW S, IsFiniteSet(S), NEW T, NEW w, Books(w, S, T), NEW src \in S, NEW dst \in S,
         NEW t \in T, NEW q \in Int
  PROVE  Rebooked(w, transfer_token_internal(w, src, dst, t, q), {src, dst}, S, T)
<1>1. CASE q > 0
  <2> DEFINE v == checked_change_net(w, dst, t, q)
  <2>1. transfer_token_internal(w, src, dst, t, q) = checked_change_net(v, src, t, -q)
    BY <1>1 DEF transfer_token_internal
  <2>2. Rebooked(w, v, {dst}, S, T) BY ChangeNetBooks
  <2> HIDE DEF v
  <2>3. Rebooked(v, checked_change_net(v, src, t, -q), {src}, S, T)
    BY <2>2, ChangeNetBooks DEF Rebooked
  <2> QED BY <2>1, <2>2, <2>3, RebookedTwice
<1>2. CASE ~(q > 0)
  <2> DEFINE v == checked_change_net(w, src, t, -q)
  <2>1. transfer_token_internal(w, src, dst, t, q) = checked_change_net(v, dst, t, q)
    BY <1>2 DEF transfer_token_internal
  <2>2. Rebooked(w, v, {src}, S, T) BY ChangeNetBooks
  <2> HIDE DEF v
  <2>3. Rebooked(v, checked_change_net(v, dst, t, q), {dst}, S, T)
    BY <2>2, ChangeNetBooks DEF Rebooked
  <2> QED BY <2>1, <2>2, <2>3, RebookedTwice
<1> QED BY <1>1, <1>2

(* v is w with q tokens more in the vault of t. *)
VaultMoved(w, v, t, q) ==
  /\ DOMAIN v = DOMAIN w
  /\ \A f \in DOMAIN w \ {"bank", "ok"} : v[f] = w[f]
  /\ v.bank = [w.bank EXCEPT ![t].vault = @ + q]
  /\ v.ok = (w.ok /\ w.bank[t].vault + q >= 0)

(* A transfer of tokens changes the vault and nothing that is booked. *)
LEMMA VaultTransferParts ==
  ASSUME NEW S, NEW T, NEW w, Books(w, S, T), NEW t \in T, NEW q \in Int
  PROVE  /\ Books(VaultTransfer(w, t, q), S, T)
         /\ VaultMoved(w, VaultTransfer(w, t, q), t, q)
<1> DEFINE v == VaultTransfer(w, t, q)
           bb == [w.bank EXCEPT ![t].vault = @ + q]
           p == w.ok /\ w.bank[t].vault + q >= 0
<1>1. {"ma", "bank", "cache", "ok"} \subseteq DOMAIN w BY DEF Books, Shape
<1>2. v = [w EXCEPT !.bank = bb, !.ok = p] BY DEF VaultTransfer
<1>3. DOMAIN w.bank = T /\ IsBank(w.bank[t]) BY DEF Books, Shape
<1>4. /\ DOMAIN bb = T
      /\ \A u \in T \ {t} : bb[u] = w.bank[u]
      /\ bb[t] = [w.bank[t] EXCEPT !.vault = @ + q]
  BY <1>3
<1>5. IsBank(bb[t]) /\ bb[t].deposits = w.bank[t].deposits /\ bb[t].borrows = w.bank[t].borrows
  BY <1>3, <1>4 DEF IsBank
<1> HIDE DEF v, bb, p
<1>6. /\ DOMAIN v = DOMAIN w
      /\ \A f \in DOMAIN w \ {"bank", "ok"} : v[f] = w[f]
      /\ v.bank = bb
      /\ v.ok = p
  BY <1>1, <1>2
<1>7. v.ma = w.ma /\ v.cache = w.cache BY <1>1, <1>6
<1>8. Shape(v, S, T)
  BY <1>1, <1>4, <1>5, <1>6, <1>7 DEF Books, Shape
<1>9. \A u \in T : v.bank[u].deposits = w.bank[u].deposits /\ v.bank[u].borrows = w.bank[u].borrows
  BY <1>4, <1>5, <1>6
<1>10. Totals(v, S, T)
  BY <1>7, <1>9 DEF Books, Totals
<1>11. VaultMoved(w, v, t, q) BY <1>6 DEF bb, p, VaultMoved
<1> QED BY <1>8, <1>10, <1>11 DEF v, Books
=============================================================================
