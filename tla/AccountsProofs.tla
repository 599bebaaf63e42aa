--------------------------- MODULE AccountsProofs ---------------------------
(***************************************************************************)
(* Accounts: the books of the group are exact in every reachable state,    *)
(* for any finite set of accounts and any offers, parameters and amounts.  *)
(*                                                                         *)
(* The inductive invariant Inv says more than the properties. Those add up *)
(* over open accounts; Inv adds up over all addresses and says that an     *)
(* account that is not open is as good as new (IdleInv), which is what     *)
(* closing must guarantee and what init_mango_account relies on. That      *)
(* makers can be loaded follows from the quantity an account has open      *)
(* being what it has on the book and in the queue (OpenInv). That          *)
(* mngo_left stays in range needs points that are not negative, so time    *)
(* that does not run backwards (TimeInv).                                  *)
(***************************************************************************)
EXTENDS Accounts, BankProofs, SequenceTheorems

(* The records of the state. *)
AccountSet ==
  [exists : BOOLEAN, is_initialized : BOOLEAN, version : {0, 1}, not_upgradable : BOOLEAN,
   owner : Users \cup {NoKey}, delegate : Users \cup {NoKey}, msrm_amount : Int,
   mngo_accrued : Int, open : Int]

InfoSet ==
  [version : {0, 1}, rate : Nat, max_depth : Nat, target_period_length : Nat \ {0},
   mngo_per_period : Nat, exp : Nat, lm_size_shift : Nat, mngo_left : Int, period_start : Int]

OrderSet ==
  [owner : Keys, timestamp : Int, version : {0, 1}, side : {"bid", "ask"}, price : Nat \ {0},
   best_initial : Int, quantity : Nat \ {0}, time_in_force : Nat]

FillSet == [maker : OrderSet, timestamp : Int, quantity : Nat \ {0}]

(* Types.  2 ^ lm_size_shift is a divisor. *)
TypeInv ==
  /\ account \in [Keys -> AccountSet]
  /\ lmi \in InfoSet
  /\ 2 ^ lmi.lm_size_shift \in Nat \ {0}
  /\ orders \in SUBSET OrderSet
  /\ events \in Seq(FillSet)
  /\ group \in [num_mango_accounts : Int, max_mango_accounts : MaxAccounts \cup {Min(MaxAccounts)}]
  /\ vault \in [msrm : Int, mngo : Int]
  /\ allotted \in Int
  /\ now \in Int

(* No time runs backwards. *)
TimeInv ==
  /\ \A o \in orders : o.timestamp <= now
  /\ \A i \in 1..Len(events) : events[i].maker.timestamp <= events[i].timestamp

(* An account that is not open is as good as new. *)
IdleInv ==
  \A a \in Keys : ~account[a].is_initialized =>
    /\ account[a].delegate = NoKey
    /\ account[a].msrm_amount = 0 /\ account[a].mngo_accrued = 0 /\ account[a].open = 0
    /\ ma[a].deposits[Mngo] = 0 /\ ma[a].borrows[Mngo] = 0

(* Open accounts have data; those of version 1 are counted. *)
CountInv ==
  /\ \A a \in Keys : account[a].is_initialized => account[a].exists
  /\ group.num_mango_accounts = Cardinality({a \in Active : account[a].version = 1})

(* What an account has on the book and in the queue. *)
Of(o, a) == IF o.owner = a THEN o.quantity ELSE 0
Resting(S, a) == SumFunctionOnSet([o \in S |-> Of(o, a)], S)

Filled(e, a) == IF e.maker.owner = a THEN e.quantity ELSE 0
Queued(s, a) == SumFunctionOnSet([i \in 1..Len(s) |-> Filled(s[i], a)], 1..Len(s))

(* An account has one order at a time, and open is what it has on the book  *)
(* and in the queue.                                                        *)
OpenInv ==
  /\ IsFiniteSet(orders)
  /\ \A o, p \in orders : o.owner = p.owner => o = p
  /\ \A a \in Keys : account[a].open = Resting(orders, a) + Queued(events, a)

(* Emission, MSRM and the bank, over all addresses. *)
EmissionInv ==
  SumFunctionOnSet([a \in Keys |-> account[a].mngo_accrued], Keys) + vault.mngo + lmi.mngo_left
    = allotted

MsrmInv == vault.msrm = SumFunctionOnSet([a \in Keys |-> account[a].msrm_amount], Keys)

Lenders == Keys \cup {lender}
BankInv == Books(Work, Lenders, {Mngo})

Inv ==
  /\ TypeInv /\ TimeInv /\ IdleInv /\ CountInv /\ OpenInv
  /\ PeriodBudget /\ EmissionInv /\ MsrmInv /\ BankInv

-----------------------------------------------------------------------------
(* Fixed-point numbers *)

(* Fixed-point products, quotients, floors and powers of naturals are      *)
(* naturals.                                                               *)
LEMMA MulNat == ASSUME NEW x \in Nat, NEW y \in Nat PROVE Mul(x, y) \in Nat
<1>1. x * y \in Nat OBVIOUS
<1> QED BY <1>1, RateAssumption DEF Mul

(* A quotient of naturals is the integer quotient of the scaled dividend. *)
LEMMA DivNat ==
  ASSUME NEW x \in Nat, NEW y \in Nat \ {0}
  PROVE  Div(x, y) = (x * One) \div y /\ Div(x, y) \in Nat
<1>1. Div(x, y) = (x * One) \div y BY DEF Div, Magnitude
<1>2. x * One \in Nat BY RateAssumption
<1> QED BY <1>1, <1>2

(* Rounding down a natural gives a natural. *)
LEMMA FloorNat == ASSUME NEW x \in Nat PROVE Floor(x) \in Nat
BY RateAssumption DEF Floor

(* pow_i80f48 of a natural is a natural, whatever the exponent. *)
LEMMA PowNat == ASSUME NEW x \in Nat, NEW e PROVE pow_i80f48(x, e) \in Nat
<1> DEFINE base2 == Mul(x, x)
           base4 == Mul(base2, base2)
           base8 == Mul(base4, base4)
           Times(result, power, bit) == IF (e \div bit) % 2 = 1 THEN Mul(result, power) ELSE result
<1>1. base2 \in Nat BY MulNat
<1> HIDE DEF base2
<1>2. base4 \in Nat BY <1>1, MulNat
<1> HIDE DEF base4
<1>3. base8 \in Nat BY <1>2, MulNat
<1> HIDE DEF base8
<1>4. ASSUME NEW r \in Nat, NEW p \in Nat, NEW b PROVE Times(r, p, b) \in Nat
  BY MulNat
<1>5. pow_i80f48(x, e) = Times(Times(Times(Times(One, x, 1), base2, 2), base4, 4), base8, 8)
  BY DEF pow_i80f48, base2, base4, base8
<1> HIDE DEF Times
<1>6. One \in Nat BY RateAssumption
<1>7. Times(One, x, 1) \in Nat BY <1>4, <1>6
<1>8. Times(Times(One, x, 1), base2, 2) \in Nat BY <1>1, <1>4, <1>7
<1>9. Times(Times(Times(One, x, 1), base2, 2), base4, 4) \in Nat BY <1>2, <1>4, <1>8
<1>10. Times(Times(Times(Times(One, x, 1), base2, 2), base4, 4), base8, 8) \in Nat
  BY <1>3, <1>4, <1>9
<1> QED BY <1>5, <1>10

(* apply_size_incentives never gives negative points: time does not run    *)
(* backwards and the factor is positive where it is used.                  *)
LEMMA SizePoints ==
  ASSUME lmi \in InfoSet, 2 ^ lmi.lm_size_shift \in Nat \ {0},
         NEW o \in OrderSet, NEW best \in Int, NEW t \in Int, o.timestamp <= t,
         NEW q \in Nat, DepthLeft(o, best) > 0
  PROVE  apply_size_incentives(o, best, t, q) \in Nat
<1> DEFINE factor == DepthLeft(o, best)
           power == pow_i80f48(factor \div 2 ^ lmi.lm_size_shift, lmi.exp)
<1>1. factor \in Int /\ factor > 0
  BY RateAssumption DEF DepthLeft, InfoSet, OrderSet, Larger
<1>2. apply_size_incentives(o, best, t, q) = Mul(power * (t - o.timestamp), Smaller(q * One, factor))
  BY DEF apply_size_incentives
<1> HIDE DEF factor
<1>3. factor \div 2 ^ lmi.lm_size_shift \in Nat
  <2> DEFINE k == 2 ^ lmi.lm_size_shift
  <2> k \in Nat \ {0} OBVIOUS
  <2> HIDE DEF k
  <2>1. factor \div k \in Nat BY <1>1
  <2> QED BY <2>1 DEF k
<1>4. power \in Nat BY <1>3, PowNat
<1> HIDE DEF power
<1>5. t - o.timestamp \in Nat BY DEF OrderSet
<1>6. power * (t - o.timestamp) \in Nat BY <1>4, <1>5
<1>7. Smaller(q * One, factor) \in Nat
  <2>1. q * One \in Nat BY RateAssumption
  <2> QED BY <1>1, <2>1 DEF Smaller
<1> QED BY <1>2, <1>6, <1>7, MulNat

(* apply_price_incentives never gives negative points, even when the best  *)
(* price is far away.                                                      *)
LEMMA PricePoints ==
  ASSUME lmi \in InfoSet,
         NEW o \in OrderSet, NEW best_final \in Int, NEW t \in Int, o.timestamp <= t,
         NEW q \in Nat
  PROVE  apply_price_incentives(o, best_final, t, q) \in Nat
<1> DEFINE best == BestPrice(o, best_final)
           dist_bps == Div(Magnitude(best - o.price) * Bps * One, best * One)
           weight == IF lmi.max_depth = 0 THEN One
                     ELSE pow_i80f48(Larger(lmi.max_depth - dist_bps, 0), lmi.exp)
<1>1. best \in Int BY DEF BestPrice, OrderSet, Larger, Smaller
<1>2. apply_price_incentives(o, best_final, t, q) = weight * (t - o.timestamp) * q
  BY DEF apply_price_incentives
<1> HIDE DEF best
<1>3. dist_bps \in Int
  <2>1. Magnitude(best - o.price) \in Int BY <1>1 DEF Magnitude, OrderSet
  <2>2. Magnitude(best - o.price) * Bps * One \in Int BY <2>1, RateAssumption, AccountsAssumption
  <2>3. best * One \in Int BY <1>1, RateAssumption
  <2> QED BY <2>2, <2>3, DivInt
<1> HIDE DEF dist_bps
<1>4. weight \in Nat
  <2>1. lmi.max_depth \in Nat BY DEF InfoSet
  <2>2. Larger(lmi.max_depth - dist_bps, 0) \in Nat BY <1>3, <2>1 DEF Larger
  <2>3. pow_i80f48(Larger(lmi.max_depth - dist_bps, 0), lmi.exp) \in Nat BY <2>2, PowNat
  <2> QED BY <2>3, RateAssumption
<1> HIDE DEF weight
<1>5. t - o.timestamp \in Nat BY DEF OrderSet
<1>6. weight * (t - o.timestamp) \in Nat BY <1>4, <1>5
<1>7. weight * (t - o.timestamp) * q \in Nat BY <1>6
<1> QED BY <1>2, <1>7

(* No order earns negative points. *)
LEMMA PointsNat ==
  ASSUME lmi \in InfoSet, 2 ^ lmi.lm_size_shift \in Nat \ {0}, NEW o \in OrderSet, NEW best \in Int,
         NEW t \in Int, o.timestamp <= t, NEW q \in Nat, ~Unrewarded(o, best)
  PROVE  Points(o, best, t, q) \in Nat
<1>1. CASE lmi.version = 0
  <2>1. Points(o, best, t, q) = apply_price_incentives(o, best, t, q) BY <1>1 DEF Points
  <2> QED BY <2>1, PricePoints
<1>2. CASE lmi.version # 0
  <2>1. DepthLeft(o, best) \in Int BY RateAssumption DEF DepthLeft, InfoSet, OrderSet, Larger
  <2>2. DepthLeft(o, best) > 0 BY <1>2, <2>1 DEF Unrewarded
  <2>3. Points(o, best, t, q) = apply_size_incentives(o, best, t, q) BY <1>2 DEF Points
  <2>4. apply_size_incentives(o, best, t, q) \in Nat BY <2>2, SizePoints
  <2> QED BY <2>3, <2>4
<1> QED BY <1>1, <1>2

-----------------------------------------------------------------------------
(* Rewards *)

(* A reward is paid out of the budget of the periods it takes from. *)
Budgeted(l, r) ==
  /\ r.lmi \in InfoSet
  /\ r.lmi.lm_size_shift = l.lm_size_shift
  /\ r.lmi.mngo_left \in 0 .. r.lmi.mngo_per_period
  /\ r.mngo \in Nat
  /\ r.mngo + r.lmi.mngo_left = l.mngo_left + IF r.over THEN l.mngo_per_period ELSE 0

(* A new period has all of its MNGO and well-formed parameters. *)
LEMMA NextPeriodInfo ==
  ASSUME NEW l \in InfoSet, NEW t \in Int
  PROVE  /\ NextPeriod(l, t) \in InfoSet
         /\ NextPeriod(l, t).lm_size_shift = l.lm_size_shift
         /\ NextPeriod(l, t).mngo_left = l.mngo_per_period
         /\ NextPeriod(l, t).mngo_per_period = l.mngo_per_period
<1>1. MIN_RATE_ADJ \in Nat /\ MAX_RATE_ADJ \in Nat
  BY RateAssumption DEF MIN_RATE_ADJ, MAX_RATE_ADJ
<1>2. RateAdj(l, t) \in Nat
  <2>1. CASE t < l.period_start BY <1>1, <2>1 DEF RateAdj
  <2>2. CASE ~(t < l.period_start)
    <3> DEFINE d == Div((t - l.period_start) * One, l.target_period_length * One)
    <3>1. (t - l.period_start) * One \in Int /\ l.target_period_length * One \in Int
      BY RateAssumption DEF InfoSet
    <3>2. d \in Int BY <3>1, DivInt
    <3>3. RateAdj(l, t) = Larger(MIN_RATE_ADJ, Smaller(MAX_RATE_ADJ, d)) BY <2>2 DEF RateAdj
    <3> HIDE DEF d
    <3> QED BY <1>1, <3>2, <3>3 DEF Larger, Smaller
  <2> QED BY <2>1, <2>2
<1>3. Mul(l.rate, RateAdj(l, t)) \in Nat BY <1>2, MulNat DEF InfoSet
<1> DEFINE rate == Mul(l.rate, RateAdj(l, t))
<1>4. NextPeriod(l, t) = [l EXCEPT !.rate = rate, !.period_start = t, !.mngo_left = l.mngo_per_period]
  BY DEF NextPeriod
<1>5. l.mngo_per_period \in Int BY DEF InfoSet
<1> HIDE DEF rate
<1>6. rate \in Nat BY <1>3 DEF rate
<1> QED BY <1>4, <1>5, <1>6 DEF InfoSet

(* The rounding argument of convert_points: fewer points than mngo_left /  *)
(* rate, rounded down, earn at most mngo_left.                             *)
LEMMA EarnedWithinRest ==
  ASSUME NEW left \in Nat, NEW rate \in Nat \ {0}, NEW points \in Nat,
         points < Div(left * One, rate)
  PROVE  Floor(Mul(points, rate)) <= left
<1> DEFINE N == left * One
<1>1. One \in Nat \ {0} BY RateAssumption
<1>2. N \in Nat BY <1>1
<1>3. Div(N, rate) = (N * One) \div rate BY <1>2, DivNat
<1>4. N * One \in Nat BY <1>1, <1>2
<1>5. rate * ((N * One) \div rate) <= N * One BY <1>4
<1>6. points * rate <= N * One
  <2> DEFINE D == (N * One) \div rate
  <2>1. D \in Nat /\ points <= D BY <1>3, <1>4
  <2>2. rate * D <= N * One BY <1>5
  <2> HIDE DEF D, N
  <2>3. points * rate <= rate * D BY <2>1
  <2>4. points * rate \in Nat /\ rate * D \in Nat BY <2>1
  <2> QED BY <1>4, <2>2, <2>3, <2>4
<1>7. points * rate \in Nat OBVIOUS
<1>8. (points * rate) \div One <= N
  <2> HIDE DEF N
  <2> QED BY <1>1, <1>2, <1>6, <1>7
<1>9. (points * rate) \div One \in Nat BY <1>1, <1>7
<1>10. ((points * rate) \div One) \div One <= left
  <2> DEFINE M == (points * rate) \div One
  <2>1. M \in Nat /\ M <= left * One BY <1>8, <1>9
  <2> HIDE DEF M
  <2>2. M \div One <= left BY <1>1, <2>1
  <2> QED BY <2>2 DEF M
<1> QED BY <1>10 DEF Floor, Mul

(* convert_points pays what it takes from the old and the new period. *)
LEMMA ConvertPoints ==
  ASSUME NEW l \in InfoSet, l.rate # 0, l.mngo_left \in 0 .. l.mngo_per_period,
         NEW t \in Int, NEW points \in Nat
  PROVE  Budgeted(l, convert_points(l, t, points))
<1> DEFINE points_in_period == Div(l.mngo_left * One, l.rate)
           over == points >= points_in_period
           p == IF over THEN NextPeriod(l, t) ELSE l
           full == Floor(Mul(IF over THEN points - points_in_period ELSE points, p.rate))
           earned == Smaller(full, p.mngo_per_period)
<1>1. convert_points(l, t, points)
        = [lmi |-> [p EXCEPT !.mngo_left = @ - earned], over |-> over,
           mngo |-> earned + IF over THEN l.mngo_left ELSE 0]
  BY DEF convert_points
<1>2. l.mngo_left \in Nat /\ l.rate \in Nat \ {0} /\ l.mngo_per_period \in Nat
  BY DEF InfoSet
<1>3. l.mngo_left * One \in Nat BY <1>2, RateAssumption
<1>4. points_in_period \in Nat BY <1>2, <1>3, DivNat
<1> HIDE DEF points_in_period
<1>5. p \in InfoSet /\ p.lm_size_shift = l.lm_size_shift /\ p.mngo_per_period = l.mngo_per_period
  BY NextPeriodInfo
<1>6. p.mngo_left = IF over THEN l.mngo_per_period ELSE l.mngo_left
  BY NextPeriodInfo
<1>7. p.rate \in Nat BY <1>5 DEF InfoSet
<1>8. full \in Nat
  <2>1. (IF over THEN points - points_in_period ELSE points) \in Nat BY <1>4
  <2> QED BY <1>7, <2>1, MulNat, FloorNat
<1>9. over \/ full <= l.mngo_left
  <2> SUFFICES ASSUME ~over PROVE full <= l.mngo_left OBVIOUS
  <2>1. points < points_in_period BY <1>4
  <2>2. Floor(Mul(points, l.rate)) <= l.mngo_left
    BY <1>2, <2>1, EarnedWithinRest DEF points_in_period
  <2> QED BY <2>2
<1> HIDE DEF full, p, over
<1>10. earned \in Nat /\ earned <= p.mngo_left
  BY <1>2, <1>5, <1>6, <1>8, <1>9 DEF Smaller
<1>11. p.mngo_left <= p.mngo_per_period
  BY <1>2, <1>5, <1>6
<1> HIDE DEF earned
<1> DEFINE m == [p EXCEPT !.mngo_left = @ - earned]
<1>12. /\ m \in InfoSet /\ m.lm_size_shift = l.lm_size_shift
       /\ m.mngo_left = p.mngo_left - earned /\ m.mngo_per_period = p.mngo_per_period
  BY <1>5, <1>10 DEF InfoSet
<1>13. m.mngo_left \in 0 .. m.mngo_per_period
  BY <1>2, <1>5, <1>6, <1>10, <1>11, <1>12
<1> DEFINE r == convert_points(l, t, points)
<1>14. r.lmi = m /\ r.over = over /\ r.mngo = earned + IF over THEN l.mngo_left ELSE 0
  BY <1>1
<1> HIDE DEF m, r
<1>15. r.mngo \in Nat BY <1>2, <1>10, <1>14
<1>16. r.mngo + m.mngo_left = l.mngo_left + IF over THEN l.mngo_per_period ELSE 0
  BY <1>2, <1>6, <1>10, <1>12, <1>14
<1>17. Budgeted(l, r) BY <1>12, <1>13, <1>14, <1>15, <1>16 DEF Budgeted
<1> QED BY <1>17 DEF r

(* So does every reward, also when nothing is earned. *)
LEMMA RewardBudgeted ==
  ASSUME lmi \in InfoSet, 2 ^ lmi.lm_size_shift \in Nat \ {0}, PeriodBudget,
         NEW o \in OrderSet, NEW best \in Int, NEW t \in Int, o.timestamp <= t, NEW q \in Nat
  PROVE  Budgeted(lmi, Reward(o, best, t, q)) /\ Budgeted(lmi, NothingEarned)
<1>1. Budgeted(lmi, NothingEarned)
  BY DEF Budgeted, NothingEarned, PeriodBudget, InfoSet
<1>2. CASE o.version # lmi.version \/ lmi.rate = 0 \/ lmi.mngo_per_period = 0 \/ Unrewarded(o, best)
  BY <1>1, <1>2 DEF Reward
<1>3. CASE ~(o.version # lmi.version \/ lmi.rate = 0 \/ lmi.mngo_per_period = 0 \/ Unrewarded(o, best))
  <2>1. Reward(o, best, t, q) = convert_points(lmi, t, Points(o, best, t, q))
    BY <1>3 DEF Reward
  <2>2. Points(o, best, t, q) \in Nat BY <1>3, PointsNat
  <2>3. Budgeted(lmi, convert_points(lmi, t, Points(o, best, t, q)))
    BY <1>3, <2>2, ConvertPoints DEF PeriodBudget
  <2> QED BY <1>1, <2>1, <2>3
<1> QED BY <1>2, <1>3

-----------------------------------------------------------------------------
(* What does not change *)

(* TimeInv depends on the orders, the events and the clock. *)
LEMMA KeepTime ==
  ASSUME TimeInv, UNCHANGED <<orders, events, now>> PROVE TimeInv'
BY DEF TimeInv

(* OpenInv depends on the orders, the events and what is open. *)
LEMMA KeepOpen ==
  ASSUME OpenInv, UNCHANGED <<orders, events>>, \A a \in Keys : account'[a].open = account[a].open
  PROVE  OpenInv'
BY DEF OpenInv

(* The accrued MNGO of all accounts depends on that of each. *)
LEMMA KeepAccrued ==
  ASSUME \A a \in Keys : account'[a].mngo_accrued = account[a].mngo_accrued
  PROVE  SumFunctionOnSet([a \in Keys |-> account'[a].mngo_accrued], Keys)
           = SumFunctionOnSet([a \in Keys |-> account[a].mngo_accrued], Keys)
<1>1. [a \in Keys |-> account'[a].mngo_accrued] = [a \in Keys |-> account[a].mngo_accrued]
  OBVIOUS
<1> QED BY <1>1

(* EmissionInv depends on what is accrued, redeemed, left and allotted. *)
LEMMA KeepEmission ==
  ASSUME EmissionInv, \A a \in Keys : account'[a].mngo_accrued = account[a].mngo_accrued,
         vault'.mngo = vault.mngo, lmi'.mngo_left = lmi.mngo_left, allotted' = allotted
  PROVE  EmissionInv'
BY KeepAccrued DEF EmissionInv

(* MsrmInv depends on the MSRM of the accounts and of the vault. *)
LEMMA KeepMsrm ==
  ASSUME MsrmInv, \A a \in Keys : account'[a].msrm_amount = account[a].msrm_amount,
         vault'.msrm = vault.msrm
  PROVE  MsrmInv'
<1>1. [a \in Keys |-> account'[a].msrm_amount] = [a \in Keys |-> account[a].msrm_amount]
  OBVIOUS
<1> QED BY <1>1 DEF MsrmInv

(* BankInv depends on the balances. *)
LEMMA KeepBank == ASSUME BankInv, UNCHANGED balances PROVE BankInv'
<1>1. Work' = Work BY DEF balances, Work
<1> QED BY <1>1 DEF BankInv

(* CountInv depends on who is open and its version. *)
LEMMA KeepCount ==
  ASSUME CountInv, \A a \in Keys : /\ account'[a].is_initialized = account[a].is_initialized
                                   /\ account'[a].version = account[a].version
                                   /\ account'[a].exists = account[a].exists,
         group'.num_mango_accounts = group.num_mango_accounts
  PROVE  CountInv'
<1>1. {a \in Active : account[a].version = 1}' = {a \in Active : account[a].version = 1}
  BY DEF Active
<1> QED BY <1>1 DEF CountInv

(* IdleInv is kept when the accounts that change are open. *)
LEMMA KeepIdle ==
  ASSUME IdleInv, UNCHANGED ma,
         \A a \in Keys : account'[a] = account[a] \/ account'[a].is_initialized
  PROVE  IdleInv'
BY DEF IdleInv

(* PeriodBudget depends on the mining parameters. *)
LEMMA KeepBudget == ASSUME PeriodBudget, UNCHANGED lmi PROVE PeriodBudget'
BY DEF PeriodBudget

-----------------------------------------------------------------------------
(* What an instruction leaves in the banks *)

(* The record an instruction starts from is the state. *)
LEMMA WorkFields ==
  /\ DOMAIN Work = {"ma", "bank", "ok", "cache"}
  /\ Work.ma = ma /\ Work.bank = bank /\ Work.ok = TRUE
BY DEF Work

(* A committed instruction that kept the books leaves them in the state. *)
LEMMA CommitBooks ==
  ASSUME NEW w, Books(w, Lenders, {Mngo}), Commit(w)
  PROVE  BankInv'
<1>1. Work'.ma = w.ma /\ Work'.bank = w.bank /\ DOMAIN Work' = {"ma", "bank", "ok", "cache"}
  BY DEF Commit, Work
<1>2. \A t \in {Mngo} : IsIndex(Work'.cache.bank[t])
  BY AccountsAssumption DEF Work, IsIndex
<1>3. Shape(Work', Lenders, {Mngo}) BY <1>1, <1>2 DEF Books, Shape
<1>4. Totals(Work', Lenders, {Mngo}) BY <1>1 DEF Books, Totals
<1> QED BY <1>3, <1>4 DEF BankInv, Books

(* There are finitely many accounts with balances. *)
LEMMA LendersFinite == IsFiniteSet(Lenders) /\ \A a \in Keys : a \in Lenders
BY AccountsAssumption, FS_AddElement DEF Lenders

(* What an account holds and owes is an integer. *)
LEMMA NativeInt ==
  ASSUME BankInv, NEW a \in Keys
  PROVE  /\ native_deposit(Work, a, Mngo) \in Int /\ native_borrow(Work, a, Mngo) \in Int
         /\ Floor(native_deposit(Work, a, Mngo)) \in Int
<1>1. native_deposit(Work, a, Mngo) \in Int /\ native_borrow(Work, a, Mngo) \in Int
  BY BalancesInt, LendersFinite DEF BankInv, Books
<1> QED BY <1>1, RateAssumption DEF Floor

(* Tokens come in and are credited. *)
LEMMA CreditBank ==
  ASSUME BankInv, NEW a \in Keys, NEW q \in Int,
         Commit(checked_change_net(VaultTransfer(Work, Mngo, q), a, Mngo, q * One))
  PROVE  BankInv' /\ \A x \in Keys \ {a} : ma'[x] = ma[x]
<1> DEFINE v == VaultTransfer(Work, Mngo, q)
           w == checked_change_net(v, a, Mngo, q * One)
<1>1. Books(v, Lenders, {Mngo}) /\ VaultMoved(Work, v, Mngo, q)
  BY VaultTransferParts DEF BankInv
<1>2. v.ma = ma BY <1>1, WorkFields DEF VaultMoved
<1> HIDE DEF v
<1>3. q * One \in Int BY RateAssumption
<1>4. Rebooked(v, w, {a}, Lenders, {Mngo}) BY <1>1, <1>3, LendersFinite, ChangeNetBooks
<1>5. ma' = w.ma /\ Commit(w) BY DEF Commit, v
<1> HIDE DEF w
<1>6. BankInv' BY <1>4, <1>5, CommitBooks DEF Rebooked
<1>7. \A x \in Keys \ {a} : w.ma[x] = v.ma[x] BY <1>4, LendersFinite DEF Rebooked, Kept
<1> QED BY <1>2, <1>5, <1>6, <1>7

(* An account is debited and the tokens go out. *)
LEMMA DebitBank ==
  ASSUME BankInv, NEW a \in Keys, NEW q \in Int,
         Commit(VaultTransfer(checked_change_net(Work, a, Mngo, -(q * One)), Mngo, -q))
  PROVE  BankInv' /\ \A x \in Keys \ {a} : ma'[x] = ma[x]
<1> DEFINE v == checked_change_net(Work, a, Mngo, -(q * One))
           w == VaultTransfer(v, Mngo, -q)
<1>1. -(q * One) \in Int /\ -q \in Int BY RateAssumption
<1>2. Rebooked(Work, v, {a}, Lenders, {Mngo})
  BY <1>1, LendersFinite, ChangeNetBooks DEF BankInv
<1>3. ma' = w.ma /\ Commit(w) BY DEF Commit
<1> HIDE DEF v
<1>4. Books(w, Lenders, {Mngo}) /\ VaultMoved(v, w, Mngo, -q)
  BY <1>1, <1>2, VaultTransferParts DEF Rebooked
<1> HIDE DEF w
<1>5. BankInv' BY <1>3, <1>4, CommitBooks
<1>6. w.ma = v.ma BY <1>2, <1>4 DEF Rebooked, Books, Shape, VaultMoved
<1>7. \A x \in Keys \ {a} : v.ma[x] = ma[x] BY <1>2, LendersFinite, WorkFields DEF Rebooked, Kept
<1> QED BY <1>3, <1>5, <1>6, <1>7

(* A transfer between accounts, also when it must satisfy a condition. *)
LEMMA MoveBank ==
  ASSUME BankInv, NEW a \in Keys, NEW b \in Keys, NEW q \in Int, NEW p,
         p => transfer_token_internal(Work, a, b, Mngo, q).ok,
         Commit([transfer_token_internal(Work, a, b, Mngo, q) EXCEPT !.ok = p])
  PROVE  BankInv' /\ \A x \in Keys \ {a, b} : ma'[x] = ma[x]
<1> DEFINE v == transfer_token_internal(Work, a, b, Mngo, q)
           w == [v EXCEPT !.ok = p]
<1>1. Rebooked(Work, v, {a, b}, Lenders, {Mngo})
  BY LendersFinite, TransferBooks DEF BankInv
<1>2. Commit(w) /\ ma' = w.ma BY DEF Commit
<1>3. p => v.ok OBVIOUS
<1> HIDE DEF v
<1>4. Rebooked(v, w, {}, Lenders, {Mngo}) BY <1>1, <1>3, OkBooks DEF Rebooked
<1> HIDE DEF w
<1>5. BankInv' BY <1>2, <1>4, CommitBooks DEF Rebooked
<1>6. \A x \in Keys \ {a, b} : w.ma[x] = ma[x]
  BY <1>1, <1>4, LendersFinite, WorkFields DEF Rebooked, Kept
<1> QED BY <1>2, <1>5, <1>6

-----------------------------------------------------------------------------
(* Creating and closing *)

Idle(acc, balance) ==
  /\ acc.delegate = NoKey
  /\ acc.msrm_amount = 0 /\ acc.mngo_accrued = 0 /\ acc.open = 0
  /\ balance.deposits[Mngo] = 0 /\ balance.borrows[Mngo] = 0

(* A step that changes one account but nothing that is added up. *)
LEMMA LifecycleStep ==
  ASSUME Inv, NEW a \in Keys, NEW r \in AccountSet, account' = [account EXCEPT ![a] = r],
         r.open = account[a].open, r.mngo_accrued = account[a].mngo_accrued,
         r.msrm_amount = account[a].msrm_amount,
         r.is_initialized \/ Idle(r, ma[a]),
         UNCHANGED <<balances, mining, vault, now>>,
         group' \in [num_mango_accounts : Int, max_mango_accounts : MaxAccounts \cup {Min(MaxAccounts)}],
         CountInv'
  PROVE  Inv'
<1> USE DEF Inv, mining, balances
<1>1. account' \in [Keys -> AccountSet] /\ account'[a] = r BY DEF TypeInv
<1>2. \A b \in Keys \ {a} : account'[b] = account[b] BY DEF TypeInv
<1>3. TypeInv' BY <1>1 DEF TypeInv
<1>4. TimeInv' BY KeepTime
<1>5. IdleInv' BY <1>1, <1>2 DEF IdleInv, Idle
<1>6. OpenInv' BY <1>1, <1>2, KeepOpen
<1>7. PeriodBudget' BY KeepBudget
<1>8. EmissionInv' BY <1>1, <1>2, KeepEmission
<1>9. MsrmInv' BY <1>1, <1>2, KeepMsrm
<1>10. BankInv' BY KeepBank
<1> QED BY <1>3, <1>4, <1>5, <1>6, <1>7, <1>8, <1>9, <1>10

Counted == {a \in Active : account[a].version = 1}

(* There are finitely many counted accounts. *)
LEMMA CountedFinite == IsFiniteSet(Counted) /\ Cardinality(Counted) \in Nat
<1>1. Counted \subseteq Keys BY DEF Counted, Active
<1>2. IsFiniteSet(Counted) BY <1>1, AccountsAssumption, FS_Subset
<1> QED BY <1>2, FS_CardinalityType

(* The count when the same accounts are counted. *)
LEMMA CountSame ==
  ASSUME CountInv, Counted' = Counted, group'.num_mango_accounts = group.num_mango_accounts,
         \A a \in Keys : account'[a].is_initialized => account'[a].exists
  PROVE  CountInv'
BY DEF CountInv, Counted

(* The count when one account more is counted. *)
LEMMA CountMore ==
  ASSUME CountInv, NEW a, a \notin Counted, Counted' = Counted \cup {a},
         group'.num_mango_accounts = group.num_mango_accounts + 1,
         \A b \in Keys : account'[b].is_initialized => account'[b].exists
  PROVE  CountInv'
<1>1. Cardinality(Counted \cup {a}) = Cardinality(Counted) + 1
  BY CountedFinite, FS_AddElement
<1> QED BY <1>1 DEF CountInv, Counted

(* The count when one account less is counted. *)
LEMMA CountLess ==
  ASSUME CountInv, NEW a, a \in Counted, Counted' = Counted \ {a},
         group'.num_mango_accounts = group.num_mango_accounts + (-1),
         \A b \in Keys : account'[b].is_initialized => account'[b].exists
  PROVE  CountInv'
<1>1. Cardinality(Counted \ {a}) = Cardinality(Counted) - 1
  BY CountedFinite, FS_RemoveElement
<1>2. Cardinality(Counted) \in Nat BY CountedFinite
<1> QED BY <1>1, <1>2 DEF CountInv, Counted

(* init_mango_account takes the data as it is; that data is idle. *)
LEMMA StepInit ==
  ASSUME Inv, NEW a \in Keys, NEW u \in Users, init_mango_account(a, u) PROVE Inv'
<1> USE DEF init_mango_account
<1> DEFINE r == [account[a] EXCEPT !.is_initialized = TRUE, !.owner = u,
                                   !.version = 0, !.not_upgradable = TRUE]
<1>1. account[a] \in AccountSet BY DEF Inv, TypeInv
<1>2. account' = [account EXCEPT ![a] = r] BY DEF Inv, TypeInv
<1>3. r \in AccountSet /\ r.open = account[a].open /\ r.mngo_accrued = account[a].mngo_accrued
      /\ r.msrm_amount = account[a].msrm_amount /\ r.is_initialized /\ r.version = 0
      /\ r.exists = account[a].exists
  BY <1>1 DEF AccountSet
<1> HIDE DEF r
<1>4. account'[a] = r /\ \A b \in Keys \ {a} : account'[b] = account[b]
  BY <1>2 DEF Inv, TypeInv
<1>5. Counted' = Counted
  <2>1. \A b \in Keys \ {a} : b \in Counted' <=> b \in Counted
    BY <1>4 DEF Counted, Active
  <2>2. a \notin Counted BY DEF Counted, Active
  <2>3. account'[a].version # 1 BY <1>3, <1>4
  <2>4. a \notin Counted' BY <2>3 DEF Counted
  <2> QED BY <2>1, <2>2, <2>4 DEF Counted, Active
<1>6. CountInv' BY <1>3, <1>4, <1>5, CountSame DEF Inv, CountInv
<1>7. UNCHANGED <<balances, mining, vault, now, group>> BY DEF bounds
<1>8. group' \in [num_mango_accounts : Int, max_mango_accounts : MaxAccounts \cup {Min(MaxAccounts)}]
  BY <1>7 DEF Inv, TypeInv
<1> QED BY <1>2, <1>3, <1>6, <1>7, <1>8, LifecycleStep

(* Counting keeps the group's record well-formed. *)
LEMMA GroupCount ==
  ASSUME TypeInv, NEW n \in Int, Count(n)
  PROVE  /\ group' \in [num_mango_accounts : Int, max_mango_accounts : MaxAccounts \cup {Min(MaxAccounts)}]
         /\ group'.num_mango_accounts = group.num_mango_accounts + n
BY SMTT(30) DEF TypeInv, Count

(* An address without data is idle. *)
LEMMA BlankAccount ==
  /\ Blank \in AccountSet
  /\ Blank.open = 0 /\ Blank.mngo_accrued = 0 /\ Blank.msrm_amount = 0 /\ Blank.version = 0
  /\ Blank.delegate = NoKey /\ ~Blank.is_initialized
BY DEF Blank, AccountSet

(* A new account over nothing. *)
LEMMA StepCreate ==
  ASSUME Inv, NEW a \in Keys, NEW u \in Users, create_mango_account(a, u) PROVE Inv'
<1> USE DEF create_mango_account
<1> DEFINE r == [Blank EXCEPT !.exists = TRUE, !.is_initialized = TRUE, !.version = 1, !.owner = u]
<1>1. ~account[a].is_initialized /\ a \notin Counted
  BY DEF Inv, CountInv, Counted, Active
<1>2. r \in AccountSet /\ r.open = 0 /\ r.mngo_accrued = 0 /\ r.msrm_amount = 0
      /\ r.is_initialized /\ r.version = 1 /\ r.exists
  BY BlankAccount DEF AccountSet
<1>3. account' = [account EXCEPT ![a] = r] OBVIOUS
<1> HIDE DEF r
<1>4. account'[a] = r /\ \A b \in Keys \ {a} : account'[b] = account[b]
  BY <1>3 DEF Inv, TypeInv
<1>5. r.open = account[a].open /\ r.mngo_accrued = account[a].mngo_accrued
      /\ r.msrm_amount = account[a].msrm_amount
  BY <1>1, <1>2 DEF Inv, IdleInv
<1>6. Counted' = Counted \cup {a} BY <1>2, <1>4 DEF Counted, Active
<1>7. /\ group' \in [num_mango_accounts : Int, max_mango_accounts : MaxAccounts \cup {Min(MaxAccounts)}]
      /\ group'.num_mango_accounts = group.num_mango_accounts + 1
  BY GroupCount DEF Inv
<1>8. CountInv' BY <1>1, <1>2, <1>4, <1>6, <1>7, CountMore DEF Inv, CountInv
<1>9. UNCHANGED <<balances, mining, vault, now>> BY DEF bounds
<1> QED BY <1>2, <1>3, <1>5, <1>7, <1>8, <1>9, LifecycleStep

(* create_dust_account counts nothing, and its account is version 0. *)
LEMMA StepDust == ASSUME Inv, create_dust_account PROVE Inv'
<1> DEFINE r == [Blank EXCEPT !.exists = TRUE, !.is_initialized = TRUE,
                              !.owner = CHOOSE u \in Users : TRUE, !.not_upgradable = TRUE]
<1>0. Dust \in Keys BY AccountsAssumption
<1>1. ~account[Dust].is_initialized BY <1>0 DEF Inv, CountInv, create_dust_account
<1>2. r \in AccountSet /\ r.open = 0 /\ r.mngo_accrued = 0 /\ r.msrm_amount = 0
      /\ r.is_initialized /\ r.version = 0 /\ r.exists
  <2>1. (CHOOSE u \in Users : TRUE) \in Users BY AccountsAssumption
  <2> QED BY <2>1, BlankAccount DEF AccountSet
<1>3. account' = [account EXCEPT ![Dust] = r] BY DEF create_dust_account
<1> HIDE DEF r
<1>4. account'[Dust] = r /\ \A b \in Keys \ {Dust} : account'[b] = account[b]
  BY <1>0, <1>3 DEF Inv, TypeInv
<1>5. r.open = account[Dust].open /\ r.mngo_accrued = account[Dust].mngo_accrued
      /\ r.msrm_amount = account[Dust].msrm_amount
  BY <1>0, <1>1, <1>2 DEF Inv, IdleInv
<1>6. Counted' = Counted
  <2>1. \A b \in Keys \ {Dust} : b \in Counted' <=> b \in Counted
    BY <1>4 DEF Counted, Active
  <2>2. Dust \notin Counted BY <1>1 DEF Counted, Active
  <2>3. account'[Dust].version # 1 BY <1>2, <1>4
  <2>4. Dust \notin Counted' BY <2>3 DEF Counted
  <2> QED BY <2>1, <2>2, <2>4 DEF Counted, Active
<1>7. UNCHANGED <<balances, mining, vault, now, group>> BY DEF bounds, create_dust_account
<1>8. CountInv' BY <1>2, <1>4, <1>6, <1>7, CountSame DEF Inv, CountInv
<1>9. group' \in [num_mango_accounts : Int, max_mango_accounts : MaxAccounts \cup {Min(MaxAccounts)}]
  BY <1>7 DEF Inv, TypeInv
<1> QED BY <1>0, <1>2, <1>3, <1>5, <1>7, <1>8, <1>9, LifecycleStep

(* upgrade_mango_account_v0_v1 counts the account from now on. *)
LEMMA StepUpgrade ==
  ASSUME Inv, NEW a \in Keys, upgrade_mango_account_v0_v1(a) PROVE Inv'
<1> USE DEF upgrade_mango_account_v0_v1
<1> DEFINE r == [account[a] EXCEPT !.version = 1]
<1>1. account[a] \in AccountSet /\ account[a].is_initialized /\ a \notin Counted
  BY DEF Inv, TypeInv, Active, Counted
<1>2. r \in AccountSet /\ r.open = account[a].open /\ r.mngo_accrued = account[a].mngo_accrued
      /\ r.msrm_amount = account[a].msrm_amount /\ r.is_initialized /\ r.version = 1
      /\ r.exists = account[a].exists
  BY <1>1 DEF AccountSet
<1>3. account' = [account EXCEPT ![a] = r] BY DEF Inv, TypeInv
<1> HIDE DEF r
<1>4. account'[a] = r /\ \A b \in Keys \ {a} : account'[b] = account[b]
  BY <1>3 DEF Inv, TypeInv
<1>6. Counted' = Counted \cup {a} BY <1>2, <1>4 DEF Counted, Active
<1>7. /\ group' \in [num_mango_accounts : Int, max_mango_accounts : MaxAccounts \cup {Min(MaxAccounts)}]
      /\ group'.num_mango_accounts = group.num_mango_accounts + 1
  BY GroupCount DEF Inv
<1>8. CountInv' BY <1>1, <1>2, <1>4, <1>6, <1>7, CountMore DEF Inv, CountInv
<1>9. UNCHANGED <<balances, mining, vault, now>> BY DEF bounds
<1> QED BY <1>2, <1>3, <1>7, <1>8, <1>9, LifecycleStep

(* close_mango_account leaves an idle account behind. *)
LEMMA StepClose ==
  ASSUME Inv, NEW a \in Keys, close_mango_account(a) PROVE Inv'
<1> USE DEF close_mango_account
<1> DEFINE r == Closed(account[a])
<1>1. account[a] \in AccountSet /\ account[a].is_initialized /\ account[a].version = 1 /\ a \in Counted
  <2>1. account[a] \in AccountSet /\ account[a].is_initialized BY DEF Inv, TypeInv, Active
  <2>2. account[a].version > 0 BY DEF Closable
  <2>3. account[a].version = 1 BY <2>1, <2>2 DEF AccountSet
  <2> QED BY <2>1, <2>3 DEF Counted, Active
<1>2. r \in AccountSet /\ r.open = account[a].open /\ r.mngo_accrued = account[a].mngo_accrued
      /\ r.msrm_amount = account[a].msrm_amount /\ ~r.is_initialized
      /\ r.delegate = NoKey
  BY <1>1 DEF AccountSet, Closed
<1>3. account' = [account EXCEPT ![a] = r] OBVIOUS
<1> HIDE DEF r
<1>4. account'[a] = r /\ \A b \in Keys \ {a} : account'[b] = account[b]
  BY <1>3 DEF Inv, TypeInv
<1>5. Idle(r, ma[a]) BY <1>2 DEF Idle, Closable, HasNoFunds, has_no_open_orders
<1>6. Counted' = Counted \ {a} BY <1>2, <1>4 DEF Counted, Active
<1>7. /\ group' \in [num_mango_accounts : Int, max_mango_accounts : MaxAccounts \cup {Min(MaxAccounts)}]
      /\ group'.num_mango_accounts = group.num_mango_accounts + (-1)
  BY GroupCount DEF Inv
<1>8. CountInv' BY <1>1, <1>2, <1>4, <1>6, <1>7, CountLess DEF Inv, CountInv
<1>9. UNCHANGED <<balances, mining, vault, now>> BY DEF bounds
<1> QED BY <1>2, <1>3, <1>5, <1>7, <1>8, <1>9, LifecycleStep

(* Dropping the data of an idle account loses nothing. *)
LEMMA StepEnd ==
  ASSUME Inv, NEW a \in Keys, EndOfTransaction(a) PROVE Inv'
<1> USE DEF EndOfTransaction
<1>1. Idle(account[a], ma[a]) BY DEF Inv, IdleInv, Idle
<1>2. Blank \in AccountSet /\ Blank.open = 0 /\ Blank.mngo_accrued = 0 /\ Blank.msrm_amount = 0
      /\ ~Blank.is_initialized /\ Blank.delegate = NoKey
  BY BlankAccount
<1>3. account' = [account EXCEPT ![a] = Blank] OBVIOUS
<1>4. account'[a] = Blank /\ \A b \in Keys \ {a} : account'[b] = account[b]
  BY <1>3 DEF Inv, TypeInv
<1>5. Counted' = Counted BY <1>2, <1>4 DEF Counted, Active
<1>6. UNCHANGED <<balances, mining, vault, now, group>> BY DEF bounds
<1>7. CountInv' BY <1>2, <1>4, <1>5, <1>6, CountSame DEF Inv, CountInv
<1>8. group' \in [num_mango_accounts : Int, max_mango_accounts : MaxAccounts \cup {Min(MaxAccounts)}]
  BY <1>6 DEF Inv, TypeInv
<1>9. Idle(Blank, ma[a]) BY <1>1, <1>2 DEF Idle
<1> QED BY <1>1, <1>2, <1>3, <1>6, <1>7, <1>8, <1>9, LifecycleStep DEF Idle

(* set_delegate changes an open account only. *)
LEMMA StepDelegate ==
  ASSUME Inv, NEW a \in Keys, NEW u \in Users \cup {NoKey}, set_delegate(a, u) PROVE Inv'
<1> USE DEF set_delegate
<1> DEFINE r == [account[a] EXCEPT !.delegate = u]
<1>1. account[a] \in AccountSet /\ account[a].is_initialized BY DEF Inv, TypeInv, Active
<1>2. r \in AccountSet /\ r.open = account[a].open /\ r.mngo_accrued = account[a].mngo_accrued
      /\ r.msrm_amount = account[a].msrm_amount /\ r.is_initialized
      /\ r.version = account[a].version /\ r.exists = account[a].exists
  BY <1>1 DEF AccountSet
<1>3. account' = [account EXCEPT ![a] = r] BY DEF Inv, TypeInv
<1> HIDE DEF r
<1>4. account'[a] = r /\ \A b \in Keys \ {a} : account'[b] = account[b]
  BY <1>3 DEF Inv, TypeInv
<1>5. UNCHANGED <<balances, mining, vault, now, group>> OBVIOUS
<1>6. CountInv' BY <1>1, <1>2, <1>4, <1>5, KeepCount DEF Inv
<1>7. group' \in [num_mango_accounts : Int, max_mango_accounts : MaxAccounts \cup {Min(MaxAccounts)}]
  BY <1>5 DEF Inv, TypeInv
<1> QED BY <1>2, <1>3, <1>5, <1>6, <1>7, LifecycleStep

-----------------------------------------------------------------------------
(* Funds *)

(* A step that changes one balance, or two, of accounts that are open. *)
LEMMA BalanceStep ==
  ASSUME Inv, NEW A, A \subseteq Active, \A x \in Keys \ A : ma'[x] = ma[x], BankInv',
         UNCHANGED <<account, mining, group, vault, now>>
  PROVE  Inv'
<1> USE DEF Inv, mining
<1>1. TypeInv' BY DEF TypeInv
<1>2. TimeInv' BY KeepTime
<1>3. IdleInv' BY DEF IdleInv, Active
<1>4. CountInv' BY KeepCount
<1>5. OpenInv' BY KeepOpen
<1>6. PeriodBudget' BY KeepBudget
<1>7. EmissionInv' BY KeepEmission
<1>8. MsrmInv' BY KeepMsrm
<1> QED BY <1>1, <1>2, <1>3, <1>4, <1>5, <1>6, <1>7, <1>8

(* deposit credits what the vault receives. *)
LEMMA StepDeposit ==
  ASSUME Inv, NEW a \in Keys, NEW q \in Int, deposit(a, q) PROVE Inv'
<1>1. BankInv' /\ \A x \in Keys \ {a} : ma'[x] = ma[x]
  BY CreditBank DEF deposit, Inv
<1>2. {a} \subseteq Active /\ UNCHANGED <<account, mining, group, vault, now>> BY DEF deposit
<1> QED BY <1>1, <1>2, BalanceStep

(* withdraw debits what the vault pays. *)
LEMMA StepWithdraw ==
  ASSUME Inv, NEW a \in Keys, withdraw(a) PROVE Inv'
<1> DEFINE q == Floor(native_deposit(Work, a, Mngo))
<1>1. q \in Int BY NativeInt DEF Inv
<1>2. /\ a \in Active
      /\ Commit(VaultTransfer(checked_change_net(Work, a, Mngo, -(q * One)), Mngo, -q))
      /\ UNCHANGED <<account, mining, group, vault, now>>
  BY DEF withdraw, bounds
<1> HIDE DEF q
<1>3. BankInv' /\ \A x \in Keys \ {a} : ma'[x] = ma[x]
  BY <1>1, <1>2, DebitBank DEF Inv
<1>4. {a} \subseteq Active BY <1>2
<1> QED BY <1>2, <1>3, <1>4, BalanceStep

(* resolve_dust moves a balance between two open accounts. *)
LEMMA StepResolve ==
  ASSUME Inv, NEW a \in Keys, resolve_dust(a) PROVE Inv'
<1> DEFINE borrow == native_borrow(Work, a, Mngo)
           held == native_deposit(Work, a, Mngo)
           repaid == transfer_token_internal(Work, Dust, a, Mngo, borrow)
           moved == transfer_token_internal(Work, a, Dust, Mngo, held)
           p == repaid.ok /\ repaid.ma[Dust].borrows[Mngo] = 0
<1>1. borrow \in Int /\ held \in Int BY NativeInt DEF Inv
<1>2. Dust \in Keys /\ {a, Dust} \subseteq Active BY AccountsAssumption DEF resolve_dust
<1>3. UNCHANGED <<account, mining, group, vault, now>> BY DEF resolve_dust, bounds
<1>4. \/ Commit([repaid EXCEPT !.ok = p])
      \/ Commit(moved)
  BY DEF resolve_dust
<1> HIDE DEF borrow, held
<1>5. CASE Commit([repaid EXCEPT !.ok = p])
  <2>1. BankInv' /\ \A x \in Keys \ {Dust, a} : ma'[x] = ma[x]
    BY <1>1, <1>2, <1>5, MoveBank DEF Inv
  <2> QED BY <1>2, <1>3, <2>1, BalanceStep
<1>6. CASE Commit(moved)
  <2>1. Rebooked(Work, moved, {a, Dust}, Lenders, {Mngo})
    BY <1>1, <1>2, LendersFinite, TransferBooks DEF BankInv, Inv
  <2>2. ma' = moved.ma BY <1>6 DEF Commit
  <2> HIDE DEF moved
  <2>3. BankInv' BY <1>6, <2>1, CommitBooks DEF Rebooked
  <2>4. \A x \in Keys \ {a, Dust} : ma'[x] = ma[x]
    BY <2>1, <2>2, LendersFinite, WorkFields DEF Rebooked, Kept
  <2> QED BY <1>2, <1>3, <2>3, <2>4, BalanceStep
<1> QED BY <1>4, <1>5, <1>6

(* The MSRM of one account and of the vault change together. *)
LEMMA MsrmStep ==
  ASSUME Inv, NEW a \in Active, NEW q \in Int,
         account' = [account EXCEPT ![a].msrm_amount = @ + q],
         vault' = [vault EXCEPT !.msrm = @ + q],
         UNCHANGED <<balances, mining, group, now>>
  PROVE  Inv'
<1> USE DEF Inv, mining, balances
<1> DEFINE r == [account[a] EXCEPT !.msrm_amount = @ + q]
<1>0. a \in Keys /\ account[a].is_initialized BY DEF Active
<1>1. account[a] \in AccountSet BY <1>0 DEF TypeInv
<1>2. r \in AccountSet /\ r.msrm_amount = account[a].msrm_amount + q
      /\ r.is_initialized = account[a].is_initialized /\ r.exists = account[a].exists
      /\ r.version = account[a].version /\ r.open = account[a].open
      /\ r.mngo_accrued = account[a].mngo_accrued
  BY <1>1 DEF AccountSet
<1>3. account' = [account EXCEPT ![a] = r] BY DEF TypeInv
<1> HIDE DEF r
<1>4. account'[a] = r /\ \A b \in Keys \ {a} : account'[b] = account[b]
  BY <1>0, <1>3 DEF TypeInv
<1>5. /\ vault' \in [msrm : Int, mngo : Int] /\ vault'.mngo = vault.mngo
      /\ vault'.msrm = vault.msrm + q
  BY DEF TypeInv
<1>6. account' \in [Keys -> AccountSet] BY <1>2, <1>3 DEF TypeInv
<1>7. TypeInv' BY <1>5, <1>6 DEF TypeInv
<1>8. TimeInv' BY KeepTime
<1>9. IdleInv'
  <2>1. \A b \in Keys : account'[b] = account[b] \/ account'[b].is_initialized
    BY <1>0, <1>2, <1>4
  <2> QED BY <2>1, KeepIdle
<1>10. CountInv' BY <1>2, <1>4, KeepCount
<1>11. OpenInv' BY <1>2, <1>4, KeepOpen
<1>12. PeriodBudget' BY KeepBudget
<1>13. EmissionInv' BY <1>2, <1>4, <1>5, KeepEmission
<1>14. BankInv' BY KeepBank
<1>15. MsrmInv'
  <2> DEFINE f == [b \in Keys |-> account[b].msrm_amount]
             g == [b \in Keys |-> account'[b].msrm_amount]
  <2>1. \A b \in Keys : f[b] \in Int /\ g[b] \in Int BY <1>6 DEF TypeInv, AccountSet
  <2>2. \A b \in Keys \ {a} : g[b] = f[b] BY <1>4
  <2>3. g[a] = f[a] + q BY <1>0, <1>2, <1>4
  <2>4. vault.msrm = SumFunctionOnSet(f, Keys) BY DEF MsrmInv
  <2> HIDE DEF f, g
  <2>5. SumFunctionOnSet(g, Keys) = SumFunctionOnSet(f, Keys) + (g[a] - f[a])
    BY <1>0, <2>1, <2>2, AccountsAssumption, SumUpdate
  <2>6. g[a] - f[a] = q BY <1>0, <2>1, <2>3
  <2>7. vault'.msrm = SumFunctionOnSet(g, Keys) BY <1>5, <2>4, <2>5, <2>6
  <2> QED BY <2>7 DEF MsrmInv, g
<1> QED BY <1>7, <1>8, <1>9, <1>10, <1>11, <1>12, <1>13, <1>14, <1>15

(* deposit_msrm and withdraw_msrm. *)
LEMMA StepMsrm ==
  ASSUME Inv, NEW a \in Keys, NEW q \in Int, deposit_msrm(a, q) \/ withdraw_msrm(a, q) PROVE Inv'
<1>1. CASE deposit_msrm(a, q)
  BY <1>1, MsrmStep DEF deposit_msrm
<1>2. CASE withdraw_msrm(a, q)
  <2>1. a \in Active /\ -q \in Int BY <1>2 DEF withdraw_msrm
  <2>2. UNCHANGED <<balances, mining, group, now>> BY <1>2 DEF withdraw_msrm, bounds
  <2>3. account[a].msrm_amount - q = account[a].msrm_amount + (-q) /\ vault.msrm - q = vault.msrm + (-q)
    BY DEF Inv, TypeInv, AccountSet
  <2>4. account' = [account EXCEPT ![a].msrm_amount = @ + (-q)] BY <1>2, <2>3 DEF withdraw_msrm
  <2>5. vault' = [vault EXCEPT !.msrm = @ + (-q)] BY <1>2, <2>3 DEF withdraw_msrm
  <2> QED BY <2>1, <2>2, <2>4, <2>5, MsrmStep
<1> QED BY <1>1, <1>2

-----------------------------------------------------------------------------
(* What is open *)

(* What an account has on the book is a natural, and at least each of its  *)
(* orders.                                                                 *)
LEMMA RestingNat ==
  ASSUME NEW S \in SUBSET OrderSet, IsFiniteSet(S), NEW a
  PROVE  /\ Resting(S, a) \in Nat
         /\ \A o \in S : o.owner = a => o.quantity <= Resting(S, a)
<1> DEFINE f == [o \in S |-> Of(o, a)]
<1>1. \A o \in S : f[o] \in Nat BY DEF OrderSet, Of
<1>2. \A o \in S : o.owner = a => f[o] = o.quantity BY DEF Of
<1> HIDE DEF f
<1>3. SumFunctionOnSet(f, S) \in Nat /\ \A o \in S : f[o] <= SumFunctionOnSet(f, S) BY <1>1, SumNat
<1>4. Resting(S, a) = SumFunctionOnSet(f, S) BY DEF Resting, f
<1> QED BY <1>2, <1>3, <1>4

(* An order that leaves the book. *)
LEMMA RestingRemove ==
  ASSUME NEW S \in SUBSET OrderSet, IsFiniteSet(S), NEW o \in S, NEW a
  PROVE  Resting(S \ {o}, a) = Resting(S, a) - Of(o, a)
<1> DEFINE f == [p \in S |-> Of(p, a)]
           R == S \ {o}
           g == [p \in R |-> Of(p, a)]
<1>1. \A p \in S : f[p] \in Int BY DEF OrderSet, Of
<1>2. \A p \in R : g[p] = f[p] OBVIOUS
<1>3. f[o] = Of(o, a) OBVIOUS
<1>4. IsFiniteSet(R) BY FS_Subset
<1> HIDE DEF f, g
<1>5. SumFunctionOnSet(f, S) = f[o] + SumFunctionOnSet(f, R) BY <1>1, SumRemove
<1> HIDE DEF R
<1>6. SumFunctionOnSet(g, R) = SumFunctionOnSet(f, R) BY <1>2, <1>4, SumCongr
<1>7. SumFunctionOnSet(f, R) \in Int BY <1>1, <1>4, SumInt DEF R
<1>8. SumFunctionOnSet(g, R) = SumFunctionOnSet(f, S) - Of(o, a)
  <2>1. f[o] \in Int BY <1>1
  <2> QED BY <1>3, <1>5, <1>6, <1>7, <2>1
<1> QED BY <1>8 DEF Resting, f, g, R

(* An order that comes to rest. *)
LEMMA RestingAdd ==
  ASSUME NEW S \in SUBSET OrderSet, IsFiniteSet(S), NEW o \in OrderSet, o \notin S, NEW a
  PROVE  Resting(S \cup {o}, a) = Resting(S, a) + Of(o, a)
<1> DEFINE R == S \cup {o}
<1>1. R \in SUBSET OrderSet /\ o \in R /\ R \ {o} = S OBVIOUS
<1>2. IsFiniteSet(R) BY FS_AddElement
<1> HIDE DEF R
<1>3. Resting(R \ {o}, a) = Resting(R, a) - Of(o, a) BY <1>1, <1>2, RestingRemove
<1>4. Resting(R, a) \in Nat BY <1>1, <1>2, RestingNat
<1>5. Of(o, a) \in Int BY DEF Of, OrderSet
<1>6. Resting(S, a) = Resting(R, a) - Of(o, a) BY <1>1, <1>3
<1>7. Resting(R, a) = Resting(S, a) + Of(o, a) BY <1>4, <1>5, <1>6
<1> QED BY <1>7 DEF R

(* What an account has in the queue is a natural, and at least each of     *)
(* its fills.                                                              *)
LEMMA QueuedNat ==
  ASSUME NEW s \in Seq(FillSet), NEW a
  PROVE  /\ Queued(s, a) \in Nat
         /\ \A i \in 1..Len(s) : s[i].maker.owner = a => s[i].quantity <= Queued(s, a)
<1> DEFINE f == [i \in 1..Len(s) |-> Filled(s[i], a)]
<1>1. \A i \in 1..Len(s) : s[i] \in FillSet OBVIOUS
<1>2. \A i \in 1..Len(s) : f[i] \in Nat BY <1>1 DEF FillSet, Filled
<1>3. \A i \in 1..Len(s) : s[i].maker.owner = a => f[i] = s[i].quantity BY DEF Filled
<1>4. IsFiniteSet(1..Len(s)) BY FS_Interval
<1> HIDE DEF f
<1>5. /\ SumFunctionOnSet(f, 1..Len(s)) \in Nat
      /\ \A i \in 1..Len(s) : f[i] <= SumFunctionOnSet(f, 1..Len(s))
  BY <1>2, <1>4, SumNat
<1>6. Queued(s, a) = SumFunctionOnSet(f, 1..Len(s)) BY DEF Queued, f
<1> QED BY <1>3, <1>5, <1>6

(* A fill that is queued. *)
LEMMA QueuedAppend ==
  ASSUME NEW s \in Seq(FillSet), NEW e \in FillSet, NEW a
  PROVE  Queued(Append(s, e), a) = Queued(s, a) + Filled(e, a)
<1> DEFINE u == Append(s, e)
           n == Len(s)
           f == [i \in 1..n |-> Filled(s[i], a)]
           g == [i \in 1..(n + 1) |-> Filled(u[i], a)]
<1>1. n \in Nat /\ Len(u) = n + 1 /\ u[n + 1] = e /\ \A i \in 1..n : u[i] = s[i]
  BY AppendProperties, LenProperties
<1>2. \A i \in 1..(n + 1) : u[i] \in FillSet BY <1>1
<1>3. \A i \in 1..(n + 1) : g[i] \in Int BY <1>2 DEF FillSet, Filled
<1>4. \A i \in 1..n : f[i] = g[i] BY <1>1
<1>5. g[n + 1] = Filled(e, a) BY <1>1
<1>6. IsFiniteSet(1..n) BY <1>1, FS_Interval
<1>7. 1..(n + 1) = (1..n) \cup {n + 1} /\ n + 1 \notin 1..n BY <1>1
<1>8. Queued(s, a) = SumFunctionOnSet(f, 1..n) /\ Queued(u, a) = SumFunctionOnSet(g, 1..(n + 1))
  BY <1>1 DEF Queued
<1> HIDE DEF u, n, f, g
<1>9. SumFunctionOnSet(f, 1..n) = SumFunctionOnSet(g, 1..n) BY <1>4, <1>6, SumCongr
<1>10. SumFunctionOnSet(g, (1..n) \cup {n + 1}) = g[n + 1] + SumFunctionOnSet(g, 1..n)
  BY <1>3, <1>6, <1>7, SumAdd
<1>11. SumFunctionOnSet(g, 1..n) \in Int
  <2>1. \A i \in 1..n : g[i] \in Int BY <1>3, <1>7
  <2> QED BY <1>6, <2>1, SumInt
<1>12. Filled(e, a) \in Int BY DEF FillSet, Filled
<1>13. Queued(u, a) = Filled(e, a) + Queued(s, a) BY <1>5, <1>7, <1>8, <1>9, <1>10
<1>14. Queued(s, a) \in Int BY <1>8, <1>9, <1>11
<1>15. Queued(u, a) = Queued(s, a) + Filled(e, a) BY <1>12, <1>13, <1>14
<1> QED BY <1>15 DEF u

(* A fill that is consumed. *)
LEMMA QueuedTail ==
  ASSUME NEW s \in Seq(FillSet), s # <<>>, NEW a
  PROVE  Queued(Tail(s), a) = Queued(s, a) - Filled(Head(s), a)
<1> DEFINE u == Tail(s)
           n == Len(u)
           f == [i \in 1..(n + 1) |-> Filled(s[i], a)]
           g == [i \in 1..n |-> Filled(u[i], a)]
<1>1. n \in Nat /\ Len(s) = n + 1 /\ Head(s) = s[1] /\ \A i \in 1..n : u[i] = s[i + 1]
  BY HeadTailProperties, LenProperties
<1>2. \A i \in 1..(n + 1) : s[i] \in FillSet BY <1>1
<1>3. \A i \in 1..(n + 1) : f[i] \in Int BY <1>2 DEF FillSet, Filled
<1>4. \A i \in 1..n : g[i] = f[i + 1] BY <1>1
<1>5. f[1] = Filled(Head(s), a) BY <1>1
<1>6. Queued(u, a) = SumFunctionOnSet(g, 1..n) /\ Queued(s, a) = SumFunctionOnSet(f, 1..(n + 1))
  BY <1>1 DEF Queued
<1> HIDE DEF u, n, f, g
<1>7. SumFunctionOnSet(f, 1..(n + 1)) = f[1] + SumFunctionOnSet(g, 1..n)
  BY <1>1, <1>3, <1>4, SumShift
<1>8. \A i \in 1..n : g[i] \in Int BY <1>1, <1>3, <1>4
<1>9. IsFiniteSet(1..n) BY <1>1, FS_Interval
<1>10. SumFunctionOnSet(g, 1..n) \in Int BY <1>8, <1>9, SumInt
<1>11. f[1] \in Int BY <1>1, <1>3
<1>12. Queued(u, a) = Queued(s, a) - Filled(Head(s), a)
  BY <1>5, <1>6, <1>7, <1>10, <1>11
<1> QED BY <1>12 DEF u

(* MakersExist follows: who has something open is open. *)
LEMMA MakersOpen ==
  ASSUME TypeInv, IdleInv, OpenInv PROVE MakersExist
<1>1. \A a \in Keys : Resting(orders, a) \in Nat /\ Queued(events, a) \in Nat
  BY RestingNat, QueuedNat DEF TypeInv, OpenInv
<1>2. \A a \in Keys : account[a].open > 0 => a \in Active
  BY DEF IdleInv, Active
<1>3. ASSUME NEW o \in orders PROVE o.owner \in Active
  <2>1. o.owner \in Keys /\ o.quantity \in Nat \ {0} BY DEF TypeInv, OrderSet
  <2>2. o.quantity <= Resting(orders, o.owner) BY RestingNat DEF TypeInv, OpenInv
  <2>3. account[o.owner].open = Resting(orders, o.owner) + Queued(events, o.owner)
    BY <2>1 DEF OpenInv
  <2>4. account[o.owner].open > 0 BY <1>1, <2>1, <2>2, <2>3
  <2> QED BY <1>2, <2>1, <2>4
<1>4. ASSUME NEW i \in 1..Len(events) PROVE events[i].maker.owner \in Active
  <2> DEFINE e == events[i]
             a == e.maker.owner
  <2>1. e \in FillSet BY DEF TypeInv
  <2>2. a \in Keys /\ e.quantity \in Nat \ {0} BY <2>1 DEF FillSet, OrderSet
  <2>3. e.quantity <= Queued(events, a) BY QueuedNat DEF TypeInv
  <2>4. account[a].open = Resting(orders, a) + Queued(events, a) BY <2>2 DEF OpenInv
  <2>5. account[a].open > 0 BY <1>1, <2>2, <2>3, <2>4
  <2> QED BY <1>2, <2>2, <2>5
<1> QED BY <1>3, <1>4 DEF MakersExist

-----------------------------------------------------------------------------
(* Rewards that are paid and redeemed *)

Accrued == SumFunctionOnSet([b \in Keys |-> account[b].mngo_accrued], Keys)

(* The accrued MNGO of all accounts when that of one changes. *)
LEMMA AccruedUpdate ==
  ASSUME TypeInv, account' \in [Keys -> AccountSet], NEW a \in Keys, NEW q \in Int,
         \A b \in Keys \ {a} : account'[b] = account[b],
         account'[a].mngo_accrued = account[a].mngo_accrued + q
  PROVE  Accrued \in Int /\ Accrued' = Accrued + q
<1> DEFINE f == [b \in Keys |-> account[b].mngo_accrued]
           g == [b \in Keys |-> account'[b].mngo_accrued]
<1>1. \A b \in Keys : f[b] \in Int /\ g[b] \in Int BY DEF TypeInv, AccountSet
<1>2. \A b \in Keys \ {a} : g[b] = f[b] OBVIOUS
<1>3. g[a] = f[a] + q OBVIOUS
<1>4. Accrued = SumFunctionOnSet(f, Keys) /\ Accrued' = SumFunctionOnSet(g, Keys) BY DEF Accrued
<1> HIDE DEF f, g
<1>5. SumFunctionOnSet(g, Keys) = SumFunctionOnSet(f, Keys) + (g[a] - f[a])
  BY <1>1, <1>2, AccountsAssumption, SumUpdate
<1>6. g[a] - f[a] = q BY <1>1, <1>3
<1>7. SumFunctionOnSet(f, Keys) \in Int BY <1>1, AccountsAssumption, SumInt
<1> QED BY <1>4, <1>5, <1>6, <1>7

Redeemed(acc, m) == [acc EXCEPT !.mngo_accrued = @ - m]
Paid(acc, m, q) == [acc EXCEPT !.mngo_accrued = @ + m, !.open = @ - q]

(* The account after redeem_mngo. *)
LEMMA LessAccrued ==
  ASSUME NEW acc \in AccountSet, NEW m \in Int, NEW r, r = Redeemed(acc, m)
  PROVE  r \in AccountSet /\ r.mngo_accrued = acc.mngo_accrued - m
         /\ r.is_initialized = acc.is_initialized /\ r.exists = acc.exists
         /\ r.version = acc.version /\ r.open = acc.open
         /\ r.msrm_amount = acc.msrm_amount
BY DEF AccountSet, Redeemed

(* The account after a reward. *)
LEMMA MoreAccrued ==
  ASSUME NEW acc \in AccountSet, NEW m \in Int, NEW q \in Int, NEW r,
         r = Paid(acc, m, q)
  PROVE  r \in AccountSet /\ r.mngo_accrued = acc.mngo_accrued + m
         /\ r.is_initialized = acc.is_initialized /\ r.exists = acc.exists
         /\ r.version = acc.version /\ r.open = acc.open - q
         /\ r.msrm_amount = acc.msrm_amount
<1> DEFINE x == acc.mngo_accrued + m
           y == acc.open - q
<1>1. x \in Int /\ y \in Int BY DEF AccountSet
<1>2. r = [acc EXCEPT !.mngo_accrued = x, !.open = y] BY DEF AccountSet, Paid
<1>3. x = acc.mngo_accrued + m /\ y = acc.open - q OBVIOUS
<1> HIDE DEF x, y
<1> QED BY <1>1, <1>2, <1>3 DEF AccountSet

(* redeem_mngo moves MNGO from accrued to redeemed and credits it. *)
LEMMA StepRedeem ==
  ASSUME Inv, NEW a \in Keys, redeem_mngo(a) PROVE Inv'
<1> DEFINE mngo == Smaller(account[a].mngo_accrued, MngoVault - vault.mngo)
           r == Redeemed(account[a], mngo)
<1> USE DEF Inv
<1>0. account[a].is_initialized BY DEF redeem_mngo, Active
<1>1. account[a] \in AccountSet BY DEF TypeInv
<1>2. mngo \in Int BY <1>1, AccountsAssumption DEF TypeInv, AccountSet, Smaller
<1>3. /\ account' = [account EXCEPT ![a].mngo_accrued = @ - mngo]
      /\ vault' = [vault EXCEPT !.mngo = @ + mngo]
      /\ Commit(checked_change_net(VaultTransfer(Work, Mngo, mngo), a, Mngo, mngo * One))
      /\ UNCHANGED <<mining, group, now>>
  BY DEF redeem_mngo, bounds
<1> HIDE DEF mngo
<1>m. r = Redeemed(account[a], mngo) OBVIOUS
<1> HIDE DEF r
<1>4. r \in AccountSet /\ r.mngo_accrued = account[a].mngo_accrued - mngo
      /\ r.is_initialized = account[a].is_initialized /\ r.exists = account[a].exists
      /\ r.version = account[a].version /\ r.open = account[a].open
      /\ r.msrm_amount = account[a].msrm_amount
  BY <1>1, <1>2, <1>m, LessAccrued
<1>5. account' = [account EXCEPT ![a] = r] BY <1>3, <1>m DEF TypeInv, Redeemed
<1>6. account'[a] = r /\ \A b \in Keys \ {a} : account'[b] = account[b]
  BY <1>5 DEF TypeInv
<1>7. account' \in [Keys -> AccountSet] BY <1>4, <1>5 DEF TypeInv
<1>8. /\ vault' \in [msrm : Int, mngo : Int] /\ vault'.msrm = vault.msrm
      /\ vault'.mngo = vault.mngo + mngo
  BY <1>2, <1>3 DEF TypeInv
<1>9. UNCHANGED <<lmi, orders, events, allotted, group, now>> BY <1>3 DEF mining
<1>10. TypeInv' BY <1>7, <1>8, <1>9 DEF TypeInv
<1>11. TimeInv' BY <1>9, KeepTime
<1>12. BankInv' /\ \A x \in Keys \ {a} : ma'[x] = ma[x] BY <1>2, <1>3, CreditBank
<1>13. IdleInv' BY <1>0, <1>4, <1>6, <1>12 DEF IdleInv
<1>14. CountInv' BY <1>4, <1>6, <1>9, KeepCount
<1>15. OpenInv' BY <1>4, <1>6, <1>9, KeepOpen
<1>16. PeriodBudget' BY <1>9, KeepBudget
<1>17. MsrmInv' BY <1>4, <1>6, <1>8, KeepMsrm
<1>18. EmissionInv'
  <2>1. -mngo \in Int /\ account[a].mngo_accrued \in Int BY <1>1, <1>2 DEF AccountSet
  <2>2. account'[a].mngo_accrued = account[a].mngo_accrued + (-mngo) BY <1>2, <1>4, <1>6, <2>1
  <2>3. Accrued \in Int /\ Accrued' = Accrued + (-mngo) BY <1>6, <1>7, <2>1, <2>2, AccruedUpdate
  <2>4. Accrued + vault.mngo + lmi.mngo_left = allotted BY DEF EmissionInv, Accrued
  <2>5. vault.mngo \in Int /\ lmi.mngo_left \in Int BY DEF TypeInv, InfoSet
  <2>6. Accrued' + vault'.mngo + lmi'.mngo_left = allotted'
    BY <1>2, <1>8, <1>9, <2>3, <2>4, <2>5
  <2> QED BY <2>6 DEF EmissionInv, Accrued
<1> QED BY <1>10, <1>11, <1>12, <1>13, <1>14, <1>15, <1>16, <1>17, <1>18

(* Paying a reward keeps all but what the caller does to the book. *)
LEMMA PayStep ==
  ASSUME Inv, NEW a \in Active, NEW r, Budgeted(lmi, r), NEW q \in Int, Pay(r, a, q),
         orders' \in SUBSET OrderSet, events' \in Seq(FillSet), TimeInv',
         IsFiniteSet(orders'), \A o, p \in orders' : o.owner = p.owner => o = p,
         \A b \in Keys : Resting(orders', b) + Queued(events', b)
                           = account[b].open - IF b = a THEN q ELSE 0,
         UNCHANGED <<balances, group, vault, now>>
  PROVE  Inv'
<1> DEFINE acc == Paid(account[a], r.mngo, q)
<1> USE DEF Inv
<1>0. a \in Keys /\ account[a].is_initialized BY DEF Active
<1>1. account[a] \in AccountSet BY <1>0 DEF TypeInv
<1>2. r.mngo \in Nat /\ r.lmi \in InfoSet BY DEF Budgeted
<1>3. /\ account' = [account EXCEPT ![a].mngo_accrued = @ + r.mngo, ![a].open = @ - q]
      /\ lmi' = r.lmi
      /\ allotted' = allotted + IF r.over THEN lmi.mngo_per_period ELSE 0
  BY DEF Pay
<1>c. acc = Paid(account[a], r.mngo, q) OBVIOUS
<1> HIDE DEF acc
<1>4. acc \in AccountSet /\ acc.mngo_accrued = account[a].mngo_accrued + r.mngo
      /\ acc.is_initialized = account[a].is_initialized /\ acc.exists = account[a].exists
      /\ acc.version = account[a].version /\ acc.open = account[a].open - q
      /\ acc.msrm_amount = account[a].msrm_amount
  BY <1>1, <1>2, <1>c, MoreAccrued
<1>5. account' = [account EXCEPT ![a] = acc] BY <1>0, <1>3, <1>c DEF TypeInv, Paid
<1>6. account'[a] = acc /\ \A b \in Keys \ {a} : account'[b] = account[b]
  BY <1>0, <1>5 DEF TypeInv
<1>7. account' \in [Keys -> AccountSet] BY <1>4, <1>5 DEF TypeInv
<1>8. lmi.mngo_per_period \in Nat BY DEF TypeInv, InfoSet
<1>9. TypeInv'
  <2>1. allotted' \in Int BY <1>3, <1>8 DEF TypeInv
  <2>2. lmi' \in InfoSet /\ lmi'.lm_size_shift = lmi.lm_size_shift BY <1>3 DEF Budgeted
  <2> QED BY <1>7, <2>1, <2>2 DEF TypeInv
<1>10. IdleInv'
  <2>1. \A b \in Keys : account'[b] = account[b] \/ account'[b].is_initialized
    BY <1>0, <1>4, <1>6
  <2> QED BY <2>1, KeepIdle DEF balances
<1>11. CountInv' BY <1>4, <1>6, KeepCount
<1>12. OpenInv'
  <2>1. \A b \in Keys : account[b].open \in Int BY DEF TypeInv, AccountSet
  <2>2. \A b \in Keys : account'[b].open = account[b].open - IF b = a THEN q ELSE 0
    BY <1>4, <1>6, <2>1
  <2>3. \A b \in Keys : account'[b].open = Resting(orders', b) + Queued(events', b) BY <2>2
  <2> QED BY <2>3 DEF OpenInv
<1>13. PeriodBudget' BY <1>3 DEF PeriodBudget, Budgeted
<1>14. MsrmInv' BY <1>4, <1>6, KeepMsrm
<1>15. BankInv' BY KeepBank
<1>16. EmissionInv'
  <2>1. Accrued \in Int /\ Accrued' = Accrued + r.mngo
    BY <1>0, <1>2, <1>4, <1>6, <1>7, AccruedUpdate
  <2>2. Accrued + vault.mngo + lmi.mngo_left = allotted BY DEF EmissionInv, Accrued
  <2>3. vault.mngo \in Int /\ lmi.mngo_left \in Int BY DEF TypeInv, InfoSet
  <2>4. lmi'.mngo_left \in Int /\ vault' = vault BY <1>2, <1>3 DEF InfoSet
  <2>5. r.mngo + lmi'.mngo_left = lmi.mngo_left + IF r.over THEN lmi.mngo_per_period ELSE 0
    BY <1>3 DEF Budgeted
  <2> DEFINE more == IF r.over THEN lmi.mngo_per_period ELSE 0
  <2>6. more \in Int /\ allotted' = allotted + more BY <1>3, <1>8
  <2> HIDE DEF more
  <2>7. r.mngo + lmi'.mngo_left = lmi.mngo_left + more BY <2>5 DEF more
  <2>8. Accrued' + vault.mngo + lmi'.mngo_left = allotted'
    <3>1. allotted' = Accrued + vault.mngo + lmi.mngo_left + more BY <2>2, <2>6
    <3>2. lmi.mngo_left + more = r.mngo + lmi'.mngo_left BY <2>7
    <3> DEFINE A == Accrued
               V == vault.mngo
               M == r.mngo
               L == lmi.mngo_left
               K == lmi'.mngo_left
    <3>3. A \in Int /\ V \in Int /\ M \in Int /\ L \in Int /\ K \in Int BY <1>2, <2>1, <2>3, <2>4
    <3>4. Accrued' = A + M /\ allotted' = A + V + L + more /\ L + more = M + K BY <2>1, <3>1, <3>2
    <3> HIDE DEF A, V, M, L, K, Inv
    <3>5. A + M + V + K = A + V + L + more BY <2>6, <3>3, <3>4
    <3> QED BY <3>4, <3>5 DEF V, K
  <2> QED BY <2>4, <2>8 DEF EmissionInv, Accrued
<1> QED BY <1>9, <1>10, <1>11, <1>12, <1>13, <1>14, <1>15, <1>16

-----------------------------------------------------------------------------
(* The book and the queue *)

(* A new order is well-formed and is as old as the clock. *)
LEMMA OrderTyped ==
  ASSUME TypeInv, NEW a \in Keys, NEW offer \in Offers[lmi.version]
  PROVE  /\ Order(a, offer) \in OrderSet
         /\ Order(a, offer).owner = a /\ Order(a, offer).quantity = offer.quantity
         /\ Order(a, offer).timestamp = now /\ offer.quantity \in Int
<1>1. offer \in OfferSet BY InputAssumption DEF TypeInv, InfoSet
<1>2. now \in Int /\ lmi.version \in {0, 1} BY DEF TypeInv, InfoSet
<1> QED BY <1>1, <1>2 DEF Order, OrderSet, OfferSet

(* place_perp_order: the account had nothing open, so the order is new. *)
LEMMA StepPlace ==
  ASSUME Inv, NEW a \in Makers, NEW offer \in Offers[lmi.version], place_perp_order(a, offer)
  PROVE  Inv'
<1> DEFINE o == Order(a, offer)
           q == offer.quantity
           r == [account[a] EXCEPT !.open = @ + q]
<1>0. a \in Keys /\ account[a].is_initialized BY DEF place_perp_order, Active
<1>1. account[a] \in AccountSet /\ account[a].open = 0 BY <1>0 DEF Inv, TypeInv, place_perp_order
<1>2. o \in OrderSet /\ o.owner = a /\ o.quantity = q /\ o.timestamp = now /\ q \in Int
  BY <1>0, OrderTyped DEF Inv
<1>3. /\ orders' = orders \cup {o}
      /\ account' = [account EXCEPT ![a].open = @ + q]
      /\ UNCHANGED <<balances, lmi, events, allotted, group, vault, now>>
  BY DEF place_perp_order
<1> HIDE DEF o, q
<1>4. r \in AccountSet /\ r.mngo_accrued = account[a].mngo_accrued
      /\ r.is_initialized = account[a].is_initialized /\ r.exists = account[a].exists
      /\ r.version = account[a].version /\ r.open = q
      /\ r.msrm_amount = account[a].msrm_amount
  BY <1>1, <1>2 DEF AccountSet
<1>5. account' = [account EXCEPT ![a] = r] BY <1>0, <1>3 DEF Inv, TypeInv
<1> HIDE DEF r
<1>6. account'[a] = r /\ \A b \in Keys \ {a} : account'[b] = account[b]
  BY <1>0, <1>5 DEF Inv, TypeInv
<1>7. account' \in [Keys -> AccountSet] BY <1>4, <1>5 DEF Inv, TypeInv
<1>8. orders' \in SUBSET OrderSet BY <1>2, <1>3 DEF Inv, TypeInv
<1>9. TypeInv' BY <1>3, <1>7, <1>8 DEF Inv, TypeInv
<1>10. TimeInv'
  <2>1. now \in Int BY DEF Inv, TypeInv
  <2> QED BY <1>2, <1>3, <2>1 DEF Inv, TimeInv
<1>11. IdleInv'
  <2>1. \A b \in Keys : account'[b] = account[b] \/ account'[b].is_initialized
    BY <1>0, <1>4, <1>6
  <2> QED BY <1>3, <2>1, KeepIdle DEF balances, Inv
<1>12. CountInv' BY <1>3, <1>4, <1>6, KeepCount DEF Inv
<1>13. PeriodBudget' BY <1>3, KeepBudget DEF Inv
<1>14. EmissionInv' BY <1>3, <1>4, <1>6, KeepEmission DEF Inv
<1>15. MsrmInv' BY <1>3, <1>4, <1>6, KeepMsrm DEF Inv
<1>16. BankInv' BY <1>3, KeepBank DEF Inv
<1>17. OpenInv'
  <2> USE DEF Inv
  <2>1. IsFiniteSet(orders) /\ orders \in SUBSET OrderSet /\ events \in Seq(FillSet)
    BY DEF OpenInv, TypeInv
  <2>2. \A b \in Keys : Resting(orders, b) \in Nat /\ Queued(events, b) \in Nat
    BY <2>1, RestingNat, QueuedNat
  <2>3. \A p \in orders : p.owner # a
    <3> SUFFICES ASSUME NEW p \in orders, p.owner = a PROVE FALSE OBVIOUS
    <3>1. p.quantity \in Nat \ {0} /\ p.quantity <= Resting(orders, a)
      BY <2>1, RestingNat DEF OrderSet
    <3>2. Resting(orders, a) + Queued(events, a) = 0 BY <1>0, <1>1 DEF OpenInv
    <3> QED BY <1>0, <2>2, <3>1, <3>2
  <2>4. IsFiniteSet(orders') BY <1>3, <2>1, FS_AddElement
  <2>5. \A x, y \in orders' : x.owner = y.owner => x = y BY <1>2, <1>3, <2>3 DEF OpenInv
  <2>6. o \notin orders BY <1>2, <2>3
  <2>7. ASSUME NEW b \in Keys PROVE account'[b].open = Resting(orders', b) + Queued(events', b)
    <3>1. Resting(orders', b) = Resting(orders, b) + Of(o, b)
      BY <1>2, <1>3, <2>1, <2>6, RestingAdd
    <3>2. account[b].open = Resting(orders, b) + Queued(events, b) BY DEF OpenInv
    <3>3. account'[b].open = account[b].open + Of(o, b)
      BY <1>1, <1>2, <1>4, <1>6, <2>2, <3>2 DEF Of
    <3>4. Of(o, b) \in Int BY <1>2 DEF Of
    <3>5. Resting(orders, b) \in Int /\ Queued(events, b) \in Int /\ events' = events
      BY <1>3, <2>2
    <3> HIDE DEF Inv
    <3>6. account'[b].open = Resting(orders, b) + Queued(events, b) + Of(o, b) BY <3>2, <3>3
    <3>7. Resting(orders, b) + Queued(events, b) + Of(o, b)
            = (Resting(orders, b) + Of(o, b)) + Queued(events, b)
      BY <3>4, <3>5
    <3> QED BY <3>1, <3>5, <3>6, <3>7
  <2> QED BY <2>4, <2>5, <2>7 DEF OpenInv
<1> QED BY <1>9, <1>10, <1>11, <1>12, <1>13, <1>14, <1>15, <1>16, <1>17 DEF Inv

(* cancel_perp_order pays a reward, or none for an expired order. *)
LEMMA StepCancel ==
  ASSUME Inv, NEW o \in orders, NEW best_final \in Finals[lmi.version],
         cancel_perp_order(o, best_final)
  PROVE  Inv'
<1> DEFINE a == o.owner
           expired == o.time_in_force # 0 /\ now >= o.timestamp + o.time_in_force
           r == IF expired THEN NothingEarned ELSE Reward(o, best_final, now, o.quantity)
<1>1. o \in OrderSet /\ a \in Keys /\ o.quantity \in Nat /\ now \in Int /\ o.timestamp <= now
  BY DEF Inv, TypeInv, TimeInv, OrderSet
<1>2. a \in Active BY MakersOpen DEF Inv, MakersExist
<1>3. best_final \in Int BY InputAssumption DEF Inv, TypeInv, InfoSet
<1>4. lmi \in InfoSet /\ 2 ^ lmi.lm_size_shift \in Nat \ {0} /\ PeriodBudget
  BY DEF Inv, TypeInv
<1>5. Budgeted(lmi, Reward(o, best_final, now, o.quantity)) /\ Budgeted(lmi, NothingEarned)
  BY <1>1, <1>3, <1>4, RewardBudgeted
<1>6. Budgeted(lmi, r) BY <1>5
<1>7. /\ orders' = orders \ {o} /\ Pay(r, a, o.quantity)
      /\ UNCHANGED <<balances, events, group, vault, now>>
  BY DEF cancel_perp_order, bounds
<1> HIDE DEF r
<1>8. IsFiniteSet(orders) /\ orders \in SUBSET OrderSet /\ events \in Seq(FillSet)
  BY DEF Inv, OpenInv, TypeInv
<1>9. IsFiniteSet(orders') /\ orders' \in SUBSET OrderSet /\ events' \in Seq(FillSet)
  BY <1>7, <1>8, FS_Subset
<1>10. \A x, y \in orders' : x.owner = y.owner => x = y BY <1>7 DEF Inv, OpenInv
<1>11. TimeInv' BY <1>7 DEF Inv, TimeInv
<1>12. ASSUME NEW b \in Keys
       PROVE  Resting(orders', b) + Queued(events', b)
                = account[b].open - IF b = a THEN o.quantity ELSE 0
  <2>1. Resting(orders', b) = Resting(orders, b) - Of(o, b) BY <1>7, <1>8, RestingRemove
  <2>2. Resting(orders, b) \in Int /\ Queued(events, b) \in Int BY <1>8, RestingNat, QueuedNat
  <2>3. account[b].open = Resting(orders, b) + Queued(events, b) BY DEF Inv, OpenInv
  <2>4. Of(o, b) = (IF b = a THEN o.quantity ELSE 0) /\ Of(o, b) \in Int BY <1>1 DEF Of
  <2>5. Resting(orders', b) + Queued(events', b) = account[b].open - Of(o, b)
    BY <1>7, <2>1, <2>2, <2>3, <2>4
  <2> QED BY <2>4, <2>5
<1>13. o.quantity \in Int BY <1>1
<1> HIDE DEF a
<1> QED BY <1>2, <1>6, <1>7, <1>9, <1>10, <1>11, <1>12, <1>13, PayStep

(* consume_events pays the maker of the first fill. *)
LEMMA StepConsume == ASSUME Inv, consume_events PROVE Inv'
<1> DEFINE fill == Head(events)
           a == fill.maker.owner
           q == fill.quantity
           best_final == IF lmi.version = 0 THEN fill.maker.price ELSE 0
           r == Reward(fill.maker, best_final, fill.timestamp, q)
<1>1. events \in Seq(FillSet) /\ events # <<>> BY DEF Inv, TypeInv, consume_events
<1>2. /\ Len(events) \in Nat \ {0} /\ fill = events[1] /\ Tail(events) \in Seq(FillSet)
      /\ Len(Tail(events)) = Len(events) - 1
      /\ \A i \in 1..Len(Tail(events)) : Tail(events)[i] = events[i + 1]
  BY <1>1, HeadTailProperties, LenProperties
<1>3. fill \in FillSet BY <1>1, <1>2
<1>4. fill.maker \in OrderSet /\ fill.timestamp \in Int /\ q \in Nat /\ a \in Keys
  BY <1>3 DEF FillSet, OrderSet
<1>5. fill.maker.timestamp <= fill.timestamp BY <1>2 DEF Inv, TimeInv
<1>6. best_final \in Int BY <1>4 DEF OrderSet
<1>7. lmi \in InfoSet /\ 2 ^ lmi.lm_size_shift \in Nat \ {0} /\ PeriodBudget
  BY DEF Inv, TypeInv
<1>8. Budgeted(lmi, r) BY <1>4, <1>5, <1>6, <1>7, RewardBudgeted
<1>9. /\ a \in Active /\ Pay(r, a, q) /\ events' = Tail(events)
      /\ UNCHANGED <<balances, orders, group, vault, now>>
  BY DEF consume_events, bounds
<1>10. IsFiniteSet(orders') /\ orders' \in SUBSET OrderSet /\ events' \in Seq(FillSet)
  BY <1>2, <1>9 DEF Inv, OpenInv, TypeInv
<1>11. \A x, y \in orders' : x.owner = y.owner => x = y BY <1>9 DEF Inv, OpenInv
<1>12. TimeInv'
  <2>1. \A o \in orders' : o.timestamp <= now' BY <1>9 DEF Inv, TimeInv
  <2>2. \A i \in 1..Len(events') : events'[i] = events[i + 1] /\ i + 1 \in 1..Len(events)
    BY <1>2, <1>9
  <2> QED BY <2>1, <2>2 DEF Inv, TimeInv
<1>13. ASSUME NEW b \in Keys
       PROVE  Resting(orders', b) + Queued(events', b) = account[b].open - IF b = a THEN q ELSE 0
  <2>1. Queued(events', b) = Queued(events, b) - Filled(fill, b) BY <1>1, <1>9, QueuedTail
  <2>2. Resting(orders, b) \in Int /\ Queued(events, b) \in Int
    BY <1>1, RestingNat, QueuedNat DEF Inv, OpenInv, TypeInv
  <2>3. account[b].open = Resting(orders, b) + Queued(events, b) BY DEF Inv, OpenInv
  <2>4. Filled(fill, b) = (IF b = a THEN q ELSE 0) /\ Filled(fill, b) \in Int BY <1>4 DEF Filled
  <2>5. Resting(orders', b) + Queued(events', b) = account[b].open - Filled(fill, b)
    BY <1>9, <2>1, <2>2, <2>3, <2>4
  <2> QED BY <2>4, <2>5
<1>14. q \in Int BY <1>4
<1> HIDE DEF a, q, r
<1> QED BY <1>8, <1>9, <1>10, <1>11, <1>12, <1>13, <1>14, PayStep

(* Of an order that was taken in part the rest stays on the book. *)
Rest(o, q) == [o EXCEPT !.quantity = @ - q]

(* The rest of an order is an order of the same owner and age. *)
LEMMA RestTyped ==
  ASSUME NEW o \in OrderSet, NEW q \in 1..o.quantity, q # o.quantity
  PROVE  /\ Rest(o, q) \in OrderSet /\ Rest(o, q).owner = o.owner
         /\ Rest(o, q).quantity = o.quantity - q /\ Rest(o, q).timestamp = o.timestamp
<1>1. o.quantity \in Nat \ {0} BY DEF OrderSet
<1> DEFINE n == o.quantity - q
<1>2. n \in Nat \ {0} BY <1>1
<1>3. Rest(o, q) = [o EXCEPT !.quantity = n] BY DEF Rest
<1> HIDE DEF n
<1>4. /\ Rest(o, q) \in OrderSet /\ Rest(o, q).owner = o.owner
      /\ Rest(o, q).quantity = n /\ Rest(o, q).timestamp = o.timestamp
  BY <1>2, <1>3 DEF OrderSet
<1> QED BY <1>4 DEF n

(* A fill moves quantity of the maker from the book to the queue. *)
LEMMA StepFill ==
  ASSUME Inv, NEW o \in orders, NEW q \in 1..o.quantity, Fill(o, q) PROVE Inv'
<1> DEFINE e == [maker |-> o, timestamp |-> now, quantity |-> q]
           R == orders \ {o}
           a == o.owner
<1>1. o \in OrderSet /\ a \in Keys /\ o.quantity \in Nat \ {0} /\ now \in Int /\ o.timestamp <= now
  BY DEF Inv, TypeInv, TimeInv, OrderSet
<1>2. q \in Nat \ {0} BY <1>1
<1>3. e \in FillSet /\ e.maker = o /\ e.timestamp = now /\ e.quantity = q BY <1>1, <1>2 DEF FillSet
<1>4. /\ events' = Append(events, e)
      /\ orders' = R \cup IF q = o.quantity THEN {} ELSE {Rest(o, q)}
      /\ UNCHANGED <<account, balances, lmi, allotted, group, vault, now>>
  BY DEF Fill, bounds, Rest
<1> HIDE DEF e
<1>5. IsFiniteSet(orders) /\ orders \in SUBSET OrderSet /\ events \in Seq(FillSet)
      /\ \A x, y \in orders : x.owner = y.owner => x = y
  BY DEF Inv, OpenInv, TypeInv
<1>6. IsFiniteSet(R) /\ R \in SUBSET OrderSet /\ \A x \in R : x.owner # a BY <1>5, FS_Subset
<1>7. \A b \in Keys : Resting(R, b) = Resting(orders, b) - Of(o, b) BY <1>5, RestingRemove
<1> DEFINE Gone(b) == IF b = a THEN q ELSE 0
<1>8. /\ IsFiniteSet(orders') /\ orders' \in SUBSET OrderSet
      /\ \A x, y \in orders' : x.owner = y.owner => x = y
      /\ \A x \in orders' : x.timestamp <= now
      /\ \A b \in Keys : Resting(orders', b) = Resting(orders, b) - Gone(b)
  <2>1. CASE q = o.quantity
    <3>1. orders' = R BY <1>4, <2>1
    <3>2. \A b \in Keys : Gone(b) = Of(o, b) BY <2>1 DEF Of
    <3>3. \A x \in R : x.timestamp <= now BY DEF Inv, TimeInv
    <3> HIDE DEF Gone
    <3> QED BY <1>5, <1>6, <1>7, <3>1, <3>2, <3>3
  <2>2. CASE q # o.quantity
    <3> DEFINE p == Rest(o, q)
    <3>1. p \in OrderSet /\ p.owner = a /\ p.quantity = o.quantity - q /\ p.timestamp = o.timestamp
      BY <1>1, <2>2, RestTyped
    <3>2. orders' = R \cup {p} BY <1>4, <2>2
    <3> HIDE DEF p, R
    <3>3. p \notin R BY <1>6, <3>1
    <3>4. IsFiniteSet(orders') BY <1>6, <3>2, FS_AddElement
    <3>5. orders' \in SUBSET OrderSet BY <1>6, <3>1, <3>2
    <3>6. \A x, y \in orders' : x.owner = y.owner => x = y BY <1>5, <1>6, <3>1, <3>2 DEF R
    <3>7. \A x \in orders' : x.timestamp <= now BY <1>1, <3>1, <3>2 DEF Inv, TimeInv, R
    <3>8. ASSUME NEW b \in Keys PROVE Resting(orders', b) = Resting(orders, b) - Gone(b)
      <4>1. Resting(orders', b) = Resting(R, b) + Of(p, b)
        BY <1>6, <3>1, <3>2, <3>3, RestingAdd
      <4>2. Resting(orders, b) \in Int BY <1>5, RestingNat
      <4>3. Of(o, b) \in Int /\ Of(p, b) = Of(o, b) - Gone(b) /\ Gone(b) \in Int
        BY <1>1, <1>2, <3>1 DEF Of
      <4> HIDE DEF Gone
      <4> QED BY <1>7, <4>1, <4>2, <4>3
    <3> HIDE DEF Gone
    <3> QED BY <3>4, <3>5, <3>6, <3>7, <3>8
  <2> QED BY <2>1, <2>2
<1>9. events' \in Seq(FillSet) BY <1>3, <1>4, <1>5
<1>10. TypeInv' BY <1>4, <1>8, <1>9 DEF Inv, TypeInv
<1>11. TimeInv'
  <2>1. /\ Len(events) \in Nat /\ Len(events') = Len(events) + 1
        /\ events'[Len(events) + 1] = e
        /\ \A i \in 1..Len(events) : events'[i] = events[i]
    BY <1>3, <1>4, <1>5, AppendProperties, LenProperties
  <2>2. \A i \in 1..Len(events') : events'[i].maker.timestamp <= events'[i].timestamp
    BY <1>1, <1>3, <2>1 DEF Inv, TimeInv
  <2> QED BY <1>4, <1>8, <2>2 DEF TimeInv
<1>12. OpenInv'
  <2>1. ASSUME NEW b \in Keys PROVE account'[b].open = Resting(orders', b) + Queued(events', b)
    <3>1. Queued(events', b) = Queued(events, b) + Filled(e, b) BY <1>3, <1>4, <1>5, QueuedAppend
    <3>2. Resting(orders', b) = Resting(orders, b) - Gone(b) BY <1>8
    <3>3. Filled(e, b) = Gone(b) /\ Gone(b) \in Int BY <1>2, <1>3 DEF Filled
    <3>4. Resting(orders, b) \in Int /\ Queued(events, b) \in Int
      BY <1>5, RestingNat, QueuedNat
    <3>5. account'[b].open = Resting(orders, b) + Queued(events, b) BY <1>4 DEF Inv, OpenInv
    <3> HIDE DEF Gone
    <3> QED BY <3>1, <3>2, <3>3, <3>4, <3>5
  <2> QED BY <1>8, <2>1 DEF OpenInv
<1>13. IdleInv' BY <1>4, KeepIdle DEF Inv, balances
<1>14. CountInv' BY <1>4, KeepCount DEF Inv
<1>15. PeriodBudget' BY <1>4, KeepBudget DEF Inv
<1>16. EmissionInv' BY <1>4, KeepEmission DEF Inv
<1>17. MsrmInv' BY <1>4, KeepMsrm DEF Inv
<1>18. BankInv' BY <1>4, KeepBank DEF Inv
<1> QED BY <1>10, <1>11, <1>12, <1>13, <1>14, <1>15, <1>16, <1>17, <1>18 DEF Inv

-----------------------------------------------------------------------------
(* The admin and the clock *)

(* Parameters that pass the checks are well-formed mining parameters. *)
LEMMA ResetInfo ==
  ASSUME NEW p \in ParamSet, ValidParams(p), NEW t \in Int
  PROVE  /\ Reset(p, t) \in InfoSet /\ Reset(p, t).lm_size_shift = p.lm_size_shift
         /\ Reset(p, t).mngo_left = p.mngo_per_period
         /\ Reset(p, t).mngo_per_period = p.mngo_per_period
         /\ p.mngo_per_period \in Nat
<1>1. p.version \in {0, 1} /\ p.rate \in Nat /\ p.max_depth \in Nat
      /\ p.target_period_length \in Nat \ {0} /\ p.mngo_per_period \in Nat
      /\ p.exp \in Nat /\ p.lm_size_shift \in Nat
  BY DEF ParamSet, ValidParams
<1> QED BY <1>1 DEF Reset, InfoSet

(* change_perp_market_params2 begins a period; the rest of the old one     *)
(* was never paid.                                                         *)
LEMMA StepParams ==
  ASSUME Inv, NEW p \in Params, change_perp_market_params2(p) PROVE Inv'
<1>1. /\ ValidParams(p) /\ lmi' = Reset(p, now)
      /\ allotted' = (allotted - lmi.mngo_left) + p.mngo_per_period
      /\ UNCHANGED <<account, balances, orders, events, group, vault, now>>
  BY DEF change_perp_market_params2
<1>2. p \in ParamSet /\ now \in Int BY InputAssumption DEF Inv, TypeInv
<1>3. /\ lmi' \in InfoSet /\ lmi'.lm_size_shift = p.lm_size_shift
      /\ lmi'.mngo_left = p.mngo_per_period /\ lmi'.mngo_per_period = p.mngo_per_period
      /\ p.mngo_per_period \in Nat
  BY <1>1, <1>2, ResetInfo
<1>4. allotted \in Int /\ lmi.mngo_left \in Int BY DEF Inv, TypeInv, InfoSet
<1>5. allotted' \in Int BY <1>1, <1>3, <1>4
<1>6. 2 ^ lmi'.lm_size_shift \in Nat \ {0} BY <1>3, InputAssumption
<1>7. TypeInv' BY <1>1, <1>3, <1>5, <1>6 DEF Inv, TypeInv
<1>8. TimeInv' BY <1>1, KeepTime DEF Inv
<1>9. IdleInv' BY <1>1, KeepIdle DEF Inv, balances
<1>10. CountInv' BY <1>1, KeepCount DEF Inv
<1>11. OpenInv' BY <1>1, KeepOpen DEF Inv
<1>12. PeriodBudget' BY <1>3 DEF PeriodBudget
<1>13. MsrmInv' BY <1>1, KeepMsrm DEF Inv
<1>14. BankInv' BY <1>1, KeepBank DEF Inv
<1>15. EmissionInv'
  <2>1. Accrued + vault.mngo + lmi.mngo_left = allotted BY DEF Inv, EmissionInv, Accrued
  <2>2. Accrued \in Int
    <3> DEFINE f == [b \in Keys |-> account[b].mngo_accrued]
    <3>1. \A b \in Keys : f[b] \in Int BY DEF Inv, TypeInv, AccountSet
    <3>2. Accrued = SumFunctionOnSet(f, Keys) BY DEF Accrued
    <3> HIDE DEF f
    <3> QED BY <3>1, <3>2, AccountsAssumption, SumInt
  <2>3. vault.mngo \in Int BY DEF Inv, TypeInv
  <2>4. Accrued + vault.mngo + lmi'.mngo_left = allotted'
    BY <1>1, <1>3, <1>4, <2>1, <2>2, <2>3
  <2>5. Accrued' = Accrued /\ vault' = vault BY <1>1 DEF Accrued
  <2> QED BY <2>4, <2>5 DEF EmissionInv, Accrued
<1> QED BY <1>7, <1>8, <1>9, <1>10, <1>11, <1>12, <1>13, <1>14, <1>15 DEF Inv

(* change_max_mango_accounts changes no count. *)
LEMMA StepChangeMax ==
  ASSUME Inv, NEW n \in MaxAccounts, change_max_mango_accounts(n) PROVE Inv'
<1>1. /\ group' = [group EXCEPT !.max_mango_accounts = n]
      /\ UNCHANGED <<account, balances, lmi, orders, events, allotted, vault, now>>
  BY DEF change_max_mango_accounts, mining
<1>2. /\ group' \in [num_mango_accounts : Int, max_mango_accounts : MaxAccounts \cup {Min(MaxAccounts)}]
      /\ group'.num_mango_accounts = group.num_mango_accounts
  BY <1>1 DEF Inv, TypeInv
<1>3. TypeInv' BY <1>1, <1>2 DEF Inv, TypeInv
<1>4. TimeInv' BY <1>1, KeepTime DEF Inv
<1>5. IdleInv' BY <1>1, KeepIdle DEF Inv, balances
<1>6. CountInv' BY <1>1, <1>2, KeepCount DEF Inv
<1>7. OpenInv' BY <1>1, KeepOpen DEF Inv
<1>8. PeriodBudget' BY <1>1, KeepBudget DEF Inv
<1>9. EmissionInv' BY <1>1, KeepEmission DEF Inv
<1>10. MsrmInv' BY <1>1, KeepMsrm DEF Inv
<1>11. BankInv' BY <1>1, KeepBank DEF Inv
<1> QED BY <1>3, <1>4, <1>5, <1>6, <1>7, <1>8, <1>9, <1>10, <1>11 DEF Inv

(* The clock, and steps that change nothing. *)
LEMMA StepTime ==
  ASSUME Inv, now' \in {now, now + 1},
         UNCHANGED <<account, balances, lmi, orders, events, allotted, group, vault>>
  PROVE  Inv'
<1>1. now \in Int /\ now' \in Int /\ now <= now' BY DEF Inv, TypeInv
<1>2. TypeInv' BY <1>1 DEF Inv, TypeInv
<1>3. TimeInv'
  <2>1. \A o \in orders : o.timestamp \in Int BY DEF Inv, TypeInv, OrderSet
  <2> QED BY <1>1, <2>1 DEF Inv, TimeInv
<1>4. IdleInv' BY KeepIdle DEF Inv, balances
<1>5. CountInv' BY KeepCount DEF Inv
<1>6. OpenInv' BY KeepOpen DEF Inv
<1>7. PeriodBudget' BY KeepBudget DEF Inv
<1>8. EmissionInv' BY KeepEmission DEF Inv
<1>9. MsrmInv' BY KeepMsrm DEF Inv
<1>10. BankInv' BY KeepBank DEF Inv
<1> QED BY <1>2, <1>3, <1>4, <1>5, <1>6, <1>7, <1>8, <1>9, <1>10 DEF Inv

-----------------------------------------------------------------------------
(* The initial states *)

(* The initial banks are what the lender and the legacy account hold. *)
LEMMA InitBank == ASSUME Init PROVE BankInv
<1> DEFINE f == [a \in Lenders |-> ma[a].deposits[Mngo]]
           g == [a \in Lenders |-> ma[a].borrows[Mngo]]
<1>1. Work.ma = ma /\ Work.bank = bank /\ DOMAIN Work = {"ma", "bank", "ok", "cache"}
  BY WorkFields
<1>2. Lent \in Nat /\ LegacyBorrows \in Nat /\ Floor(Lent) \in Nat
  BY AccountsAssumption, FloorNat
<1>3. lender \in Lenders /\ Legacy \in Lenders /\ lender # Legacy BY AccountsAssumption DEF Lenders
<1>4. DOMAIN ma = Lenders /\ DOMAIN bank = {Mngo} BY DEF Init, Lenders
<1>5. ASSUME NEW a \in Lenders PROVE IsAccount(ma[a], {Mngo})
  <2>1. ma[a] = [deposits |-> [t \in {Mngo} |-> IF a = lender THEN Lent ELSE 0],
                 borrows |-> [t \in {Mngo} |-> IF a = Legacy THEN LegacyBorrows ELSE 0]]
    BY DEF Init, Lenders
  <2>2. DOMAIN ma[a] = {"deposits", "borrows"} BY <2>1
  <2>3. ma[a].deposits \in [{Mngo} -> Int] /\ ma[a].borrows \in [{Mngo} -> Int] BY <1>2, <2>1
  <2> QED BY <2>2, <2>3 DEF IsAccount
<1>6. ASSUME NEW t \in {Mngo} PROVE IsBank(bank[t])
  <2>1. bank[t] = [deposits |-> Lent, borrows |-> LegacyBorrows, vault |-> Floor(Lent)] BY DEF Init
  <2>2. DOMAIN bank[t] = {"deposits", "borrows", "vault"} BY <2>1
  <2>3. bank[t].deposits \in Int /\ bank[t].borrows \in Int /\ bank[t].vault \in Int BY <1>2, <2>1
  <2> QED BY <2>2, <2>3 DEF IsBank
<1>7. \A t \in {Mngo} : IsIndex(Work.cache.bank[t]) BY AccountsAssumption DEF Work, IsIndex
<1>8. Shape(Work, Lenders, {Mngo}) BY <1>1, <1>4, <1>5, <1>6, <1>7 DEF Shape
<1>9. f[lender] = Lent /\ \A a \in Lenders \ {lender} : f[a] = 0 BY <1>3 DEF Init, Lenders
<1>10. g[Legacy] = LegacyBorrows /\ \A a \in Lenders \ {Legacy} : g[a] = 0
  BY <1>3 DEF Init, Lenders
<1>11. bank[Mngo].deposits = Lent /\ bank[Mngo].borrows = LegacyBorrows BY DEF Init
<1> HIDE DEF f, g
<1>12. SumFunctionOnSet(f, Lenders) = Lent BY <1>2, <1>3, <1>9, LendersFinite, SumSingle
<1>13. SumFunctionOnSet(g, Lenders) = LegacyBorrows BY <1>2, <1>3, <1>10, LendersFinite, SumSingle
<1>14. Totals(Work, Lenders, {Mngo}) BY <1>1, <1>11, <1>12, <1>13 DEF Totals, f, g
<1> QED BY <1>8, <1>14 DEF BankInv, Books

(* The initial states satisfy the invariant. *)
LEMMA InitInv == Init => Inv
<1> SUFFICES ASSUME Init PROVE Inv OBVIOUS
<1>1. /\ orders = {} /\ events = <<>> /\ now = 0 /\ allotted = InitParams.mngo_per_period
      /\ group = [num_mango_accounts |-> 0, max_mango_accounts |-> Min(MaxAccounts)]
      /\ vault = [msrm |-> 0, mngo |-> 0] /\ lmi = Reset(InitParams, 0)
  BY DEF Init
<1> DEFINE old == [Blank EXCEPT !.exists = TRUE, !.is_initialized = TRUE,
                                !.owner = CHOOSE u \in Users : TRUE]
<1>2. account = [a \in Keys |-> IF a # Legacy THEN Blank ELSE old] BY DEF Init
<1>3. Blank \in AccountSet /\ Blank.open = 0 /\ Blank.mngo_accrued = 0 /\ Blank.msrm_amount = 0
      /\ Blank.version = 0 /\ Blank.delegate = NoKey /\ ~Blank.is_initialized
  BY BlankAccount
<1>4. old \in AccountSet /\ old.open = 0 /\ old.mngo_accrued = 0 /\ old.msrm_amount = 0
      /\ old.version = 0 /\ old.is_initialized /\ old.exists
  <2>1. (CHOOSE u \in Users : TRUE) \in Users BY AccountsAssumption
  <2> QED BY <2>1, BlankAccount DEF AccountSet
<1> HIDE DEF old
<1>5. \A a \in Keys : /\ account[a].open = 0 /\ account[a].mngo_accrued = 0
                      /\ account[a].msrm_amount = 0 /\ account[a].version = 0
  BY <1>2, <1>3, <1>4
<1>6. /\ lmi \in InfoSet /\ lmi.lm_size_shift = InitParams.lm_size_shift
      /\ lmi.mngo_left = InitParams.mngo_per_period
      /\ lmi.mngo_per_period = InitParams.mngo_per_period
      /\ InitParams.mngo_per_period \in Nat
  BY <1>1, InputAssumption, ResetInfo
<1>7. TypeInv
  <2>1. account \in [Keys -> AccountSet] BY <1>2, <1>3, <1>4
  <2>2. 2 ^ lmi.lm_size_shift \in Nat \ {0} BY <1>6, InputAssumption
  <2>3. events \in Seq(FillSet) BY <1>1
  <2> QED BY <1>1, <1>6, <2>1, <2>2, <2>3 DEF TypeInv
<1>8. TimeInv BY <1>1 DEF TimeInv
<1>9. IdleInv
  <2> SUFFICES ASSUME NEW a \in Keys, ~account[a].is_initialized
               PROVE  /\ account[a].delegate = NoKey
                      /\ ma[a].deposits[Mngo] = 0 /\ ma[a].borrows[Mngo] = 0
    BY <1>5 DEF IdleInv
  <2>1. a # Legacy /\ a # lender BY <1>2, <1>4, AccountsAssumption
  <2>2. account[a].delegate = NoKey BY <1>2, <1>3, <2>1
  <2> QED BY <2>1, <2>2 DEF Init
<1>10. CountInv
  <2>1. {a \in Active : account[a].version = 1} = {} BY <1>5 DEF Active
  <2>2. Cardinality({}) = 0 BY FS_EmptySet
  <2>3. \A a \in Keys : account[a].is_initialized => account[a].exists BY <1>2, <1>3, <1>4
  <2> QED BY <1>1, <2>1, <2>2, <2>3 DEF CountInv
<1>11. OpenInv
  <2>1. IsFiniteSet(orders) BY <1>1, FS_EmptySet
  <2>2. \A a \in Keys : Resting(orders, a) = 0 BY <1>1, SumEmpty DEF Resting
  <2>3. \A a \in Keys : Queued(events, a) = 0
    <3>1. Len(events) = 0 /\ 1..0 = {} BY <1>1
    <3> QED BY <3>1, SumEmpty DEF Queued
  <2> QED BY <1>1, <1>5, <2>1, <2>2, <2>3 DEF OpenInv
<1>12. PeriodBudget BY <1>6 DEF PeriodBudget
<1>13. EmissionInv
  <2> DEFINE f == [a \in Keys |-> account[a].mngo_accrued]
  <2>1. \A a \in Keys : f[a] = 0 BY <1>5
  <2> HIDE DEF f
  <2>2. SumFunctionOnSet(f, Keys) = 0 BY <2>1, AccountsAssumption, SumZero
  <2>3. SumFunctionOnSet(f, Keys) + vault.mngo + lmi.mngo_left = allotted BY <1>1, <1>6, <2>2
  <2> QED BY <2>3 DEF EmissionInv, f
<1>14. MsrmInv
  <2> DEFINE f == [a \in Keys |-> account[a].msrm_amount]
  <2>1. \A a \in Keys : f[a] = 0 BY <1>5
  <2> HIDE DEF f
  <2>2. SumFunctionOnSet(f, Keys) = 0 BY <2>1, AccountsAssumption, SumZero
  <2> QED BY <1>1, <2>2 DEF MsrmInv, f
<1>15. BankInv BY InitBank
<1> QED BY <1>7, <1>8, <1>9, <1>10, <1>11, <1>12, <1>13, <1>14, <1>15 DEF Inv

-----------------------------------------------------------------------------
(* Creating, upgrading, closing and delegating keep the invariant. *)
LEMMA StepLifecycle == ASSUME Inv, NEW a \in Keys, Lifecycle(a) PROVE Inv'
<1>1. CASE \E u \in Users : init_mango_account(a, u) BY <1>1, StepInit
<1>2. CASE \E u \in Users : create_mango_account(a, u) BY <1>2, StepCreate
<1>3. CASE upgrade_mango_account_v0_v1(a) BY <1>3, StepUpgrade
<1>4. CASE close_mango_account(a) BY <1>4, StepClose
<1>5. CASE EndOfTransaction(a) BY <1>5, StepEnd
<1>6. CASE \E u \in Users \cup {NoKey} : set_delegate(a, u) BY <1>6, StepDelegate
<1> QED BY <1>1, <1>2, <1>3, <1>4, <1>5, <1>6 DEF Lifecycle

(* Moving funds keeps the invariant. *)
LEMMA StepFunds == ASSUME Inv, NEW a \in Keys, Funds(a) PROVE Inv'
<1>1. CASE deposit(a, 1) BY <1>1, StepDeposit
<1>2. CASE withdraw(a) BY <1>2, StepWithdraw
<1>3. CASE resolve_dust(a) BY <1>3, StepResolve
<1>4. CASE deposit_msrm(a, 1) \/ withdraw_msrm(a, 1) BY <1>4, StepMsrm
<1>5. CASE redeem_mngo(a) BY <1>5, StepRedeem
<1> QED BY <1>1, <1>2, <1>3, <1>4, <1>5 DEF Funds

(* Every step keeps the invariant. *)
LEMMA InvStep == Inv /\ [Next]_vars => Inv'
<1> SUFFICES ASSUME Inv, [Next]_vars PROVE Inv' OBVIOUS
<1>1. CASE \E a \in Keys : Lifecycle(a) BY <1>1, StepLifecycle
<1>2. CASE \E a \in Keys : Funds(a) BY <1>2, StepFunds
<1>3. CASE create_dust_account BY <1>3, StepDust
<1>4. CASE \E n \in MaxAccounts : change_max_mango_accounts(n) BY <1>4, StepChangeMax
<1>5. CASE \E a \in Makers, offer \in Offers[lmi.version] : place_perp_order(a, offer)
  BY <1>5, StepPlace
<1>6. CASE \E o \in orders, best_final \in Finals[lmi.version] : cancel_perp_order(o, best_final)
  BY <1>6, StepCancel
<1>7. CASE \E o \in orders : \E q \in 1 .. o.quantity : Fill(o, q) BY <1>7, StepFill
<1>8. CASE consume_events BY <1>8, StepConsume
<1>9. CASE \E p \in Params : change_perp_market_params2(p) BY <1>9, StepParams
<1>10. CASE Tick BY <1>10, StepTime DEF Tick, mining
<1>11. CASE UNCHANGED vars BY <1>11, StepTime DEF vars, mining, bounds
<1> QED
  BY <1>1, <1>2, <1>3, <1>4, <1>5, <1>6, <1>7, <1>8, <1>9, <1>10, <1>11 DEF Next

(* The inductive invariant holds in every reachable state, for all         *)
(* accounts, offers, parameters and amounts: types, time, idle accounts,   *)
(* counts, open quantities, the period's budget, emission, MSRM and the    *)
(* bank's totals.                                                          *)
THEOREM AccountsInvariant == Spec => []Inv
<1>1. Init => Inv BY InitInv
<1>2. Inv /\ [Next]_vars => Inv' BY InvStep
<1> QED BY <1>1, <1>2, PTL DEF Spec

(* convert_points never takes mngo_left below zero or above one period's   *)
(* MNGO, whatever the points, the rate and the order of rewards.           *)
THEOREM BudgetTheorem == Spec => []PeriodBudget
<1>1. Inv => PeriodBudget BY DEF Inv
<1> QED BY <1>1, AccountsInvariant, PTL

(* consume_events never meets a maker whose account was closed: what       *)
(* rests or is queued counts as open, and open accounts cannot be closed.  *)
THEOREM MakersTheorem == Spec => []MakersExist
<1>1. Inv => MakersExist BY MakersOpen DEF Inv
<1> QED BY <1>1, AccountsInvariant, PTL

(* What idle accounts do not have need not be added. *)
LEMMA SumActive ==
  ASSUME NEW S, IsFiniteSet(S), NEW T \in SUBSET S, NEW f, NEW g,
         \A a \in S : f[a] \in Int, \A a \in S \ T : f[a] = 0,
         DOMAIN g = T, \A a \in T : g[a] = f[a]
  PROVE  SumFunction(g) = SumFunctionOnSet(f, S)
<1>1. SumFunctionOnSet(f, S) = SumFunctionOnSet(f, T) BY SumSupport
<1>2. IsFiniteSet(T) BY FS_Subset
<1>3. SumFunctionOnSet(g, T) = SumFunctionOnSet(f, T) BY <1>2, SumCongr
<1> QED BY <1>1, <1>3, SumDomain

(* Idle accounts have accrued nothing, so the sum over the open ones is    *)
(* all.                                                                    *)
LEMMA InvEmission == Inv => EmissionExact
<1> SUFFICES ASSUME Inv PROVE EmissionExact OBVIOUS
<1> DEFINE f == [a \in Keys |-> account[a].mngo_accrued]
           g == [a \in Active |-> account[a].mngo_accrued]
<1>1. \A a \in Keys : f[a] \in Int BY DEF Inv, TypeInv, AccountSet
<1>2. \A a \in Keys \ Active : f[a] = 0 BY DEF Inv, IdleInv, Active
<1>3. Active \in SUBSET Keys /\ DOMAIN g = Active /\ \A a \in Active : g[a] = f[a] BY DEF Active
<1>4. SumFunctionOnSet(f, Keys) + vault.mngo + lmi.mngo_left = allotted BY DEF Inv, EmissionInv
<1> HIDE DEF f, g
<1>5. SumFunction(g) = SumFunctionOnSet(f, Keys)
  BY <1>1, <1>2, <1>3, AccountsAssumption, SumActive
<1> QED BY <1>4, <1>5 DEF EmissionExact, g

(* All MNGO that periods allotted is accrued by an open account, redeemed  *)
(* or left: convert_points pays none twice and closing loses none.         *)
THEOREM EmissionTheorem == Spec => []EmissionExact
BY InvEmission, AccountsInvariant, PTL

(* Idle accounts hold nothing, so the group's books are about the open     *)
(* ones.                                                                   *)
LEMMA InvNothingStranded == Inv => NothingStranded
<1> SUFFICES ASSUME Inv PROVE NothingStranded OBVIOUS
<1> DEFINE S == Active \cup {lender}
           df == [a \in Lenders |-> ma[a].deposits[Mngo]]
           dg == [a \in S |-> ma[a].deposits[Mngo]]
           bf == [a \in Lenders |-> ma[a].borrows[Mngo]]
           bg == [a \in S |-> ma[a].borrows[Mngo]]
           mf == [a \in Keys |-> account[a].msrm_amount]
           mg == [a \in Active |-> account[a].msrm_amount]
<1>1. Active \in SUBSET Keys /\ S \in SUBSET Lenders BY DEF Active, Lenders
<1>2. Books(Work, Lenders, {Mngo}) /\ Work.ma = ma /\ Work.bank = bank
  BY WorkFields DEF Inv, BankInv
<1>3. \A a \in Lenders : df[a] \in Int /\ bf[a] \in Int BY <1>2 DEF Books, Shape, IsAccount
<1>4. \A a \in Lenders \ S : df[a] = 0 /\ bf[a] = 0 BY DEF Inv, IdleInv, Active, Lenders
<1>5. /\ DOMAIN dg = S /\ \A a \in S : dg[a] = df[a]
      /\ DOMAIN bg = S /\ \A a \in S : bg[a] = bf[a]
  BY <1>1
<1>6. bank[Mngo].deposits = SumFunctionOnSet(df, Lenders)
      /\ bank[Mngo].borrows = SumFunctionOnSet(bf, Lenders)
  BY <1>2 DEF Books, Totals
<1>7. \A a \in Keys : mf[a] \in Int BY DEF Inv, TypeInv, AccountSet
<1>8. \A a \in Keys \ Active : mf[a] = 0 BY DEF Inv, IdleInv, Active
<1>9. DOMAIN mg = Active /\ \A a \in Active : mg[a] = mf[a] BY <1>1
<1>10. vault.msrm = SumFunctionOnSet(mf, Keys) BY DEF Inv, MsrmInv
<1> HIDE DEF df, dg, bf, bg, mf, mg
<1>11. SumFunction(dg) = SumFunctionOnSet(df, Lenders)
  BY <1>1, <1>3, <1>4, <1>5, LendersFinite, SumActive
<1>12. SumFunction(bg) = SumFunctionOnSet(bf, Lenders)
  BY <1>1, <1>3, <1>4, <1>5, LendersFinite, SumActive
<1>13. SumFunction(mg) = SumFunctionOnSet(mf, Keys)
  BY <1>1, <1>7, <1>8, <1>9, AccountsAssumption, SumActive
<1>14. group.num_mango_accounts = Cardinality({a \in Active : account[a].version = 1})
  BY DEF Inv, CountInv
<1> QED BY <1>6, <1>10, <1>11, <1>12, <1>13, <1>14 DEF NothingStranded, dg, bg, mg

(* The bank's totals, the MSRM vault and num_mango_accounts are about the  *)
(* open accounts: close_mango_account and resolve_dust strand nothing.     *)
THEOREM StrandedTheorem == Spec => []NothingStranded
BY InvNothingStranded, AccountsInvariant, PTL

-----------------------------------------------------------------------------
(* What an instruction initialises *)

(* FreshStart for one account. *)
Fresh(a) ==
  ~account[a].is_initialized /\ account'[a].is_initialized =>
    /\ account'[a].delegate = NoKey
    /\ account'[a].msrm_amount = 0 /\ account'[a].mngo_accrued = 0 /\ account'[a].open = 0
    /\ ma'[a].deposits[Mngo] = 0 /\ ma'[a].borrows[Mngo] = 0

(* What creating and closing leave is fresh. *)
LEMMA LifecycleFresh ==
  ASSUME Inv, NEW a \in Keys, Lifecycle(a), NEW b \in Keys PROVE Fresh(b)
<1>1. account[a] \in AccountSet /\ account \in [Keys -> AccountSet] /\ ma' = ma
  BY DEF Inv, TypeInv, Lifecycle, init_mango_account, create_mango_account,
         upgrade_mango_account_v0_v1, close_mango_account, EndOfTransaction, set_delegate, balances
<1>2. ~account[b].is_initialized => Idle(account[b], ma[b]) BY DEF Inv, IdleInv, Idle
<1>3. ASSUME NEW u \in Users, init_mango_account(a, u) PROVE Fresh(b)
  <2> DEFINE r == [account[a] EXCEPT !.is_initialized = TRUE, !.owner = u,
                                     !.version = 0, !.not_upgradable = TRUE]
  <2>1. account' = [account EXCEPT ![a] = r] BY <1>1, <1>3 DEF init_mango_account
  <2>2. /\ r.delegate = account[a].delegate /\ r.msrm_amount = account[a].msrm_amount
        /\ r.mngo_accrued = account[a].mngo_accrued /\ r.open = account[a].open
    BY <1>1 DEF AccountSet
  <2> HIDE DEF r
  <2>3. account'[b] = IF a = b THEN r ELSE account[b] BY <1>1, <2>1
  <2> QED BY <1>1, <1>2, <2>2, <2>3 DEF Fresh, Idle
<1>4. ASSUME NEW u \in Users, create_mango_account(a, u) PROVE Fresh(b)
  <2> DEFINE r == [Blank EXCEPT !.exists = TRUE, !.is_initialized = TRUE, !.version = 1, !.owner = u]
  <2>1. account' = [account EXCEPT ![a] = r] BY <1>4 DEF create_mango_account
  <2>2. r.delegate = NoKey /\ r.msrm_amount = 0 /\ r.mngo_accrued = 0 /\ r.open = 0
    BY BlankAccount DEF AccountSet
  <2> HIDE DEF r
  <2>3. account'[b] = IF a = b THEN r ELSE account[b] BY <1>1, <2>1
  <2> QED BY <1>1, <1>2, <2>2, <2>3 DEF Fresh, Idle
<1>5. CASE upgrade_mango_account_v0_v1(a)
  <2>1. \A x \in Keys \ {a} : account'[x] = account[x]
    BY <1>1, <1>5 DEF upgrade_mango_account_v0_v1
  <2>2. account[a].is_initialized BY <1>5 DEF upgrade_mango_account_v0_v1, Active
  <2> QED BY <2>1, <2>2 DEF Fresh
<1>6. CASE close_mango_account(a)
  <2>1. \A x \in Keys \ {a} : account'[x] = account[x] BY <1>1, <1>6 DEF close_mango_account
  <2>2. account[a].is_initialized BY <1>6 DEF close_mango_account, Active
  <2> QED BY <2>1, <2>2 DEF Fresh
<1>7. CASE EndOfTransaction(a)
  <2>1. account'[b] = IF a = b THEN Blank ELSE account[b] BY <1>1, <1>7 DEF EndOfTransaction
  <2> QED BY <2>1, BlankAccount DEF Fresh
<1>8. ASSUME NEW u \in Users \cup {NoKey}, set_delegate(a, u) PROVE Fresh(b)
  <2>1. \A x \in Keys \ {a} : account'[x] = account[x] BY <1>1, <1>8 DEF set_delegate
  <2>2. account[a].is_initialized BY <1>8 DEF set_delegate, Active
  <2> QED BY <2>1, <2>2 DEF Fresh
<1> QED BY <1>3, <1>4, <1>5, <1>6, <1>7, <1>8 DEF Lifecycle

(* Moving funds opens no account. *)
LEMMA FundsFresh ==
  ASSUME Inv, NEW a \in Keys, Funds(a), NEW b \in Keys PROVE Fresh(b)
<1>1. account \in [Keys -> AccountSet] BY DEF Inv, TypeInv
<1>2. account[a].is_initialized
  BY DEF Funds, deposit, withdraw, resolve_dust, deposit_msrm, withdraw_msrm, redeem_mngo, Active
<1>3. \A x \in Keys \ {a} : account'[x] = account[x]
  <2>1. CASE deposit(a, 1) BY <2>1 DEF deposit
  <2>2. CASE withdraw(a) BY <2>2 DEF withdraw
  <2>3. CASE resolve_dust(a) BY <2>3 DEF resolve_dust
  <2>4. CASE deposit_msrm(a, 1) BY <1>1, <2>4 DEF deposit_msrm
  <2>5. CASE withdraw_msrm(a, 1) BY <1>1, <2>5 DEF withdraw_msrm
  <2>6. CASE redeem_mngo(a) BY <1>1, <2>6 DEF redeem_mngo
  <2> QED BY <2>1, <2>2, <2>3, <2>4, <2>5, <2>6 DEF Funds
<1> QED BY <1>2, <1>3 DEF Fresh

(* create_dust_account writes a blank account over an idle one. *)
LEMMA DustFresh ==
  ASSUME Inv, create_dust_account, NEW b \in Keys PROVE Fresh(b)
<1> DEFINE r == [Blank EXCEPT !.exists = TRUE, !.is_initialized = TRUE,
                              !.owner = CHOOSE u \in Users : TRUE, !.not_upgradable = TRUE]
<1>1. r.delegate = NoKey /\ r.msrm_amount = 0 /\ r.mngo_accrued = 0 /\ r.open = 0
  BY BlankAccount DEF AccountSet
<1>2. account' = [account EXCEPT ![Dust] = r] /\ ma' = ma BY DEF create_dust_account, balances
<1> HIDE DEF r
<1>3. account'[b] = IF Dust = b THEN r ELSE account[b] BY <1>2 DEF Inv, TypeInv
<1>4. ~account[b].is_initialized => Idle(account[b], ma[b]) BY DEF Inv, IdleInv, Idle
<1> QED BY <1>1, <1>2, <1>3, <1>4 DEF Fresh, Idle

(* Whoever is paid or rests an order is open. *)
LEMMA BookFresh ==
  ASSUME Inv, NEW a \in Active, \A x \in Keys \ {a} : account'[x] = account[x], NEW b \in Keys
  PROVE  Fresh(b)
BY DEF Fresh, Active

(* Every step that opens an account opens a fresh one. *)
LEMMA StepFresh == Inv /\ [Next]_vars => [\A a \in Keys : Fresh(a)]_vars
<1> SUFFICES ASSUME Inv, Next, NEW b \in Keys PROVE Fresh(b) OBVIOUS
<1>0. account \in [Keys -> AccountSet] /\ MakersExist BY MakersOpen DEF Inv, TypeInv
<1>1. CASE \E a \in Keys : Lifecycle(a) BY <1>1, LifecycleFresh
<1>2. CASE \E a \in Keys : Funds(a) BY <1>2, FundsFresh
<1>3. CASE create_dust_account BY <1>3, DustFresh
<1>4. ASSUME NEW a \in Makers, NEW offer \in Offers[lmi.version], place_perp_order(a, offer)
      PROVE  Fresh(b)
  <2>1. a \in Active /\ \A x \in Keys \ {a} : account'[x] = account[x]
    BY <1>0, <1>4 DEF place_perp_order
  <2> QED BY <2>1, BookFresh
<1>5. ASSUME NEW o \in orders, NEW best_final \in Finals[lmi.version],
             cancel_perp_order(o, best_final)
      PROVE  Fresh(b)
  <2>1. o.owner \in Active /\ \A x \in Keys \ {o.owner} : account'[x] = account[x]
    BY <1>0, <1>5 DEF cancel_perp_order, Pay, MakersExist
  <2> QED BY <2>1, BookFresh
<1>6. CASE consume_events
  <2> DEFINE a == Head(events).maker.owner
  <2>1. a \in Active /\ \A x \in Keys \ {a} : account'[x] = account[x]
    BY <1>0, <1>6 DEF consume_events, Pay
  <2> QED BY <2>1, BookFresh, SMTT(30)
<1>7. CASE UNCHANGED account BY <1>7 DEF Fresh
<1>8. CASE \E n \in MaxAccounts : change_max_mango_accounts(n)
  BY <1>7, <1>8 DEF change_max_mango_accounts
<1>9. CASE \E o \in orders : \E q \in 1 .. o.quantity : Fill(o, q) BY <1>7, <1>9 DEF Fill
<1>10. CASE \E p \in Params : change_perp_market_params2(p)
  BY <1>7, <1>10 DEF change_perp_market_params2
<1>11. CASE Tick BY <1>7, <1>11 DEF Tick
<1> QED BY <1>1, <1>2, <1>3, <1>4, <1>5, <1>6, <1>8, <1>9, <1>10, <1>11 DEF Next

(* An account that an instruction initialises holds nothing and obeys no   *)
(* delegate, though init_mango_account does not clear the data it finds.   *)
THEOREM FreshStartTheorem == Spec => FreshStart
<1>1. Inv /\ [Next]_vars => [\A a \in Keys : Fresh(a)]_vars BY StepFresh
<1> QED BY <1>1, AccountsInvariant, PTL DEF Spec, FreshStart, Fresh
=============================================================================
