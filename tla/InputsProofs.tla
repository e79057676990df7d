----------------------------- MODULE InputsProofs -----------------------------
(***************************************************************************)
(* What is computed from the inputs, for inputs of every length.  The      *)
(* backtest keeps its books for every initial cash and whatever the        *)
(* indicator says; the MACD lines are aligned, the averages are weighted   *)
(* sums, the RSI is the share of the gains.  A filter gates by what was    *)
(* typed, and of a reply are parsed the intents its shape lets be seen.    *)
(***************************************************************************)
EXTENDS Inputs, WellFoundedInduction, SequenceTheorems, TLAPS

(* A quantity is bought with the money there is, and with all of it but     *)
(* what would not pay one more lot.                                         *)
LEMMA LotsAreAffordable ==
  ASSUME NEW money \in Nat, NEW price \in Nat, price > 0
  PROVE  /\ Lots(money, price) \in Nat
         /\ money - Lots(money, price) * price >= 0
         /\ money - Lots(money, price) * price < price
<1> DEFINE q == money \div price
<1>1. q \in Nat /\ money = price * q + (money % price) /\ money % price \in 0 .. price - 1
  BY SMT
<1> HIDE DEF q
<1>2. q * price = price * q
  BY <1>1, SMT
<1> QED BY <1>1, <1>2, SMT DEF Lots, q

(* No row has a negative price.  loadCSV does not check it.                 *)
Priced == \A row \in Rows : row.close \in Nat

Account ==
  /\ rows \in Seq(Rows)
  /\ cursor \in 0 .. Len(rows)
  /\ entry \in Nat
  /\ cash = NaN \/ (cash \in Nat /\ position \in Nat)

AccountInv == Account /\ FullyInvested

LEMMA PriceIsNat ==
  ASSUME Priced, Account, Deciding
  PROVE  Price \in Nat
<1>1. cursor + 1 \in 1 .. Len(rows)
  BY SMT DEF Account, Deciding
<1>2. rows[cursor + 1] \in Rows
  BY <1>1, SMT DEF Account
<1> QED BY <1>2 DEF Priced, Price

(* Once they are lost, the books stay so: no row is taken back.             *)
LostTo(past) == \E i \in Warmup + 1 .. past : rows[i].close = 0

LEMMA StaysLost ==
  ASSUME Warmup \in Nat, NEW past \in Nat, NEW now \in Nat, past <= now, LostTo(past)
  PROVE  LostTo(now)
<1>1. PICK i \in Warmup + 1 .. past : rows[i].close = 0
  BY DEF LostTo
<1>2. i \in Warmup + 1 .. now
  OBVIOUS
<1> QED BY <1>1, <1>2 DEF LostTo

LEMMA NextAccount ==
  ASSUME Priced, Warmup \in Nat, AccountInv, [Next]_vars
  PROVE  AccountInv'
<1>0. NaN \notin Nat
  BY FloatsAssumption, SMT
<1> USE DEF AccountInv, Account
<1>1. CASE Load
  <2>1. cursor = 0 /\ cash # NaN
    <3>1. Warmup + 1 .. 0 = {}
      BY SMT
    <3> QED BY <1>1, <3>1 DEF Load, FullyInvested
  <2>2. rows' \in Seq(Rows) /\ Len(rows') = Len(rows) + 1
    BY <1>1 DEF Load
  <2> QED BY <1>1, <2>1, <2>2, SMT DEF Load, FullyInvested
<1>2. CASE Begin
  <2>1. cursor = 0 /\ cash # NaN
    <3>1. Warmup + 1 .. 0 = {}
      BY SMT
    <3> QED BY <1>2, <3>1 DEF Begin, FullyInvested
  <2> QED BY <1>2, <2>1, SMT DEF Begin, FullyInvested
<1>3. CASE Buy
  <2>1. Price \in Nat /\ Price > 0 /\ cash # NaN /\ cash \in Nat
    BY <1>3, PriceIsNat DEF Buy
  <2> DEFINE p == Price  qty == Lots(cash, p)
  <2>2. qty \in Nat /\ cash - qty * p >= 0 /\ cash - qty * p < p
    BY <2>1, LotsAreAffordable
  <2>3. /\ IF qty > 0 THEN position' = qty /\ cash' = cash - qty * p /\ entry' = p
                      ELSE UNCHANGED <<cash, position, entry>>
        /\ cursor' = cursor + 1 /\ rows' = rows
    BY <1>3 DEF Buy
  <2>4. cursor + 1 \in 0 .. Len(rows)
    BY <1>3, SMT DEF Buy, Deciding
  <2>5. qty * p \in Nat
    BY <2>1, <2>2, SMT
  <2> HIDE DEF p, qty
  <2>6. CASE qty > 0
    <3>1. cash - qty * p \in Nat
      BY <2>1, <2>2, <2>5, SMT
    <3> QED BY <1>0, <2>1, <2>2, <2>3, <2>4, <2>6, <3>1, SMT DEF p, FullyInvested
  <2>7. CASE ~(qty > 0)
    BY <2>1, <2>3, <2>4, <2>7, SMT DEF FullyInvested
  <2> QED BY <2>6, <2>7
<1>4. CASE BuyForNothing
  <2>1. /\ Price \in Nat /\ cursor \in Nat /\ cursor + 1 \in 0 .. Len(rows)
        /\ cursor + 1 \in Warmup + 1 .. cursor + 1
    BY <1>4, PriceIsNat, SMT DEF BuyForNothing, Deciding
  <2>2. /\ cash' = NaN /\ entry' = Price /\ cursor' = cursor + 1 /\ rows' = rows
        /\ cash = NaN \/ Price = 0
    BY <1>4 DEF BuyForNothing
  <2>3. LostTo(cursor + 1)
    <3>1. CASE cash = NaN
      <4>1. LostTo(cursor) /\ cursor + 1 \in Nat /\ cursor <= cursor + 1
        BY <2>1, <3>1 DEF LostTo, FullyInvested
      <4> QED BY <2>1, <4>1, StaysLost
    <3>2. CASE Price = 0
      BY <2>1, <3>2, Zenon DEF LostTo, Price
    <3> QED BY <2>2, <3>1, <3>2
  <2> QED BY <2>1, <2>2, <2>3 DEF LostTo, FullyInvested
<1>5. CASE Sell
  <2>1. Price \in Nat
    BY <1>5, PriceIsNat DEF Sell
  <2> DEFINE p == Price
  <2>2. cash' = Proceeds(p) /\ position' = 0 /\ cursor' = cursor + 1
          /\ UNCHANGED <<rows, entry>>
    BY <1>5 DEF Sell
  <2>3. cursor + 1 \in 0 .. Len(rows)
    BY <1>5, SMT DEF Sell, Deciding
  <2> HIDE DEF p
  <2>4. CASE cash = NaN
    <3>1. LostTo(cursor) /\ cursor \in Nat /\ cursor + 1 \in Nat /\ cursor <= cursor + 1
      BY <2>4 DEF LostTo, FullyInvested
    <3>2. LostTo(cursor + 1)
      BY <3>1, StaysLost
    <3> QED BY <2>2, <2>3, <2>4, <3>2 DEF Proceeds, LostTo, FullyInvested
  <2>5. CASE cash # NaN
    <3>1. cash' = cash + position * p /\ cash \in Nat /\ position \in Nat
      BY <2>2, <2>5 DEF Proceeds
    <3>2. position * p \in Nat
      BY <2>1, <3>1, SMT DEF p
    <3>3. cash' \in Nat
      BY <3>1, <3>2, SMT
    <3> QED BY <1>0, <2>2, <2>3, <3>3, SMT DEF FullyInvested
  <2> QED BY <2>4, <2>5
<1>6. CASE Hold
  <2>1. cursor' = cursor + 1 /\ UNCHANGED <<rows, cash, position, entry>>
    BY <1>6 DEF Hold
  <2>2. cursor \in Nat /\ cursor + 1 \in Nat /\ cursor <= cursor + 1 /\ cursor + 1 \in 0 .. Len(rows)
    BY <1>6, SMT DEF Hold, Deciding
  <2>3. cash = NaN => LostTo(cursor + 1)
    <3>1. cash = NaN => LostTo(cursor)
      BY DEF LostTo, FullyInvested
    <3> QED BY <2>2, <3>1, StaysLost
  <2> QED BY <2>1, <2>2, <2>3 DEF LostTo, FullyInvested
<1>7. CASE Liquidate
  <2> DEFINE p == rows[cursor].close
  <2>1. rows[cursor] \in Rows
    BY <1>7, SMT DEF Liquidate
  <2>2. p \in Nat
    BY <2>1 DEF Priced
  <2>3. cash' = Proceeds(p) /\ position' = 0 /\ UNCHANGED <<rows, cursor, entry>>
    BY <1>7 DEF Liquidate
  <2> HIDE DEF p
  <2>4. CASE cash = NaN
    BY <2>3, <2>4 DEF Proceeds, FullyInvested
  <2>5. CASE cash # NaN
    <3>1. cash' = cash + position * p /\ cash \in Nat /\ position \in Nat
      BY <2>3, <2>5 DEF Proceeds
    <3>2. position * p \in Nat
      BY <2>2, <3>1, SMT
    <3>3. cash' \in Nat
      BY <3>1, <3>2, SMT
    <3> QED BY <1>0, <2>3, <3>3, SMT DEF FullyInvested
  <2> QED BY <2>4, <2>5
<1>8. CASE UNCHANGED vars
  BY <1>8 DEF vars, FullyInvested
<1> QED BY <1>1, <1>2, <1>3, <1>4, <1>5, <1>6, <1>7, <1>8 DEF Next

LEMMA InitAccount ==
  ASSUME Cash \in Nat, Init
  PROVE  AccountInv
<1>1. NaN \notin Nat
  BY FloatsAssumption, SMT
<1> QED BY <1>1, SMT DEF Init, AccountInv, Account, FullyInvested

(* main: cash and position are never negative, and what is left beside a    *)
(* position would not have paid one more lot, unless a row had a price of   *)
(* 0; nothing else makes them no numbers.                                   *)
THEOREM AllTheCash ==
  ASSUME Priced, Warmup \in Nat, Cash \in Nat
  PROVE  Spec => []FullyInvested
<1>1. Init => AccountInv
  BY InitAccount
<1>2. AccountInv /\ [Next]_vars => AccountInv'
  BY NextAccount
<1>3. AccountInv => FullyInvested
  BY DEF AccountInv
<1> QED BY <1>1, <1>2, <1>3, PTL DEF Spec

KeepsEquity ==
  IF cash' = NaN THEN cash = NaN \/ Price = 0
  ELSE cash # NaN /\ cash' + position' * Price = cash + position * Price

LEMMA EquityStep ==
  ASSUME Priced, AccountInv, Next, cursor' = cursor + 1, Deciding
  PROVE  KeepsEquity
<1> USE DEF AccountInv, Account
<1>0. NaN \notin Int
  BY FloatsAssumption
<1> DEFINE p == Price
<1>1. p \in Nat
  BY PriceIsNat
<1>2. CASE Buy
  <2> DEFINE qty == Lots(cash, p)
  <2>1. p > 0 /\ position = 0 /\ cash # NaN /\ cash \in Nat
    BY <1>2 DEF Buy, Buys
  <2>2. qty \in Nat
    BY <1>1, <2>1, LotsAreAffordable
  <2>3. IF qty > 0 THEN position' = qty /\ cash' = cash - qty * p
                   ELSE UNCHANGED <<cash, position>>
    BY <1>2 DEF Buy
  <2> HIDE DEF p, qty
  <2>4. qty * p \in Nat
    BY <1>1, <2>2, SMT
  <2>5. cash' \in Int /\ cash' + position' * p = cash + position * p
    BY <1>1, <2>1, <2>2, <2>3, <2>4, SMT
  <2> QED BY <1>0, <2>1, <2>5 DEF p, KeepsEquity
<1>3. CASE Sell
  <2>1. cash' = Proceeds(p) /\ position' = 0
    BY <1>3 DEF Sell
  <2> HIDE DEF p
  <2>2. CASE cash = NaN
    BY <2>1, <2>2 DEF Proceeds, KeepsEquity
  <2>3. CASE cash # NaN
    <3>1. cash' = cash + position * p /\ cash \in Nat /\ position \in Nat
      BY <2>1, <2>3 DEF Proceeds
    <3>2. position * p \in Nat
      BY <1>1, <3>1, SMT
    <3>3. cash' \in Int /\ cash' + position' * p = cash + position * p
      BY <1>1, <2>1, <3>1, <3>2, SMT
    <3> QED BY <1>0, <2>3, <3>3 DEF p, KeepsEquity
  <2> QED BY <2>2, <2>3
<1>4. CASE BuyForNothing
  BY <1>4 DEF BuyForNothing, KeepsEquity
<1>5. CASE Hold
  BY <1>5 DEF Hold, KeepsEquity
<1>6. ~Load /\ ~Begin /\ ~Liquidate
  BY SMT DEF Deciding, Load, Begin, Liquidate
<1> QED BY <1>2, <1>3, <1>4, <1>5, <1>6 DEF Next

(* main: no decision makes or loses money at the price it is taken at, but  *)
(* for a purchase at a price of 0, which loses the books.                   *)
THEOREM EquityIsKept ==
  ASSUME Priced, Warmup \in Nat, Cash \in Nat
  PROVE  Spec => TradesKeepEquity
<1>1. Init => AccountInv
  BY InitAccount
<1>2. AccountInv /\ [Next]_vars => AccountInv'
  BY NextAccount
<1>3. AccountInv /\ [Next]_vars => [cursor' = cursor + 1 => KeepsEquity]_vars
  <2> SUFFICES ASSUME AccountInv, Next, cursor' = cursor + 1
               PROVE  KeepsEquity
    OBVIOUS
  <2>1. CASE Deciding
    BY <2>1, EquityStep
  <2>2. CASE ~Deciding
    <3>1. UNCHANGED <<cash, position>>
      BY <2>2, SMT DEF AccountInv, Account, Next, Load, Begin, Buy, BuyForNothing, Sell, Hold,
                       Liquidate
    <3> QED BY <3>1 DEF KeepsEquity
  <2> QED BY <2>1, <2>2
<1>4. TradesKeepEquity <=> [][cursor' = cursor + 1 => KeepsEquity]_vars
  BY DEF TradesKeepEquity, KeepsEquity
<1> QED BY <1>1, <1>2, <1>3, <1>4, PTL DEF Spec
-------------------------------------------------------------------------------
(***************************************************************************)
(* The three MACD lines are aligned.  A moving average is a recursive      *)
(* function on places; that it exists, and that at a place it depends on   *)
(* nothing after that place, is induction on the places.                   *)
(***************************************************************************)

(* Induction, from the least element of what is not in the set. *)
LEMMA Inductive ==
  ASSUME NEW S, 0 \in S, \A n \in Nat : n \in S => n + 1 \in S
  PROVE  Nat \subseteq S
<1> DEFINE R == OpToRel(<, Nat)
           T == {n \in Nat : n \notin S}
<1> SUFFICES ASSUME T # {} PROVE FALSE
  OBVIOUS
<1>1. IsWellFoundedOn(R, Nat)
  BY NatLessThanWellFounded, Zenon
<1>2. \A x, y \in Nat : x < y => <<x, y>> \in R
  BY Zenon DEF OpToRel
<1>3. T \subseteq Nat
  OBVIOUS
<1> HIDE DEF R
<1>4. PICK x \in T : \A y \in T : ~(<<y, x>> \in R)
  BY <1>1, <1>3, WFMin, Zenon
<1>5. x # 0 /\ x \in Nat
  OBVIOUS
<1>6. x - 1 \in Nat /\ x - 1 < x /\ (x - 1) + 1 = x
  BY <1>5
<1>7. x - 1 \in S
  BY <1>2, <1>4, <1>5, <1>6
<1> QED BY <1>6, <1>7

(* The running average up to the place n. *)
Averages(avg, n, values, period, num, den) ==
  /\ DOMAIN avg = period .. n
  /\ \A i \in period .. n :
       avg[i] = IF i = period THEN Mean(SubSeq(values, 1, period))
                  ELSE (values[i] * num + avg[i - 1] * (den - num)) \div den

LEMMA AveragesExist ==
  ASSUME NEW values, NEW period \in Nat, NEW num, NEW den, NEW n \in Nat
  PROVE  \E avg : Averages(avg, n, values, period, num, den)
<1> DEFINE Done == {k \in Nat : \E avg : Averages(avg, k, values, period, num, den)}
           Seed == Mean(SubSeq(values, 1, period))
           After(i, a) == (values[i] * num + a * (den - num)) \div den
<1>1. 0 \in Done
  <2> DEFINE avg == [i \in period .. 0 |-> Seed]
  <2>1. \A i \in period .. 0 : i = period
    OBVIOUS
  <2>2. Averages(avg, 0, values, period, num, den)
    BY <2>1, Zenon DEF Averages
  <2> QED BY <2>2
<1>2. ASSUME NEW k \in Nat, k \in Done PROVE k + 1 \in Done
  <2>1. PICK f : Averages(f, k, values, period, num, den)
    BY <1>2
  <2> DEFINE avg == [i \in period .. k + 1 |->
                       IF i = period THEN Seed
                         ELSE IF i = k + 1 THEN After(i, f[k]) ELSE f[i]]
  <2>2. ASSUME NEW i \in period .. k + 1, i # period
        PROVE  avg[i] = After(i, avg[i - 1])
    <3> HIDE DEF After, Seed
    <3>1. i - 1 \in period .. k /\ i - 1 \in period .. k + 1 /\ i - 1 # k + 1
      BY <2>2
    <3>2. avg[i - 1] = f[i - 1]
      <4>1. i - 1 = period => f[i - 1] = Seed
        BY <2>1, <3>1, Zenon DEF Averages, Seed
      <4> QED BY <3>1, <4>1
    <3>3. CASE i = k + 1
      BY <2>2, <3>2, <3>3
    <3>4. CASE i # k + 1
      <4>1. i \in period .. k
        BY <3>4
      <4>2. f[i] = After(i, f[i - 1])
        BY <2>1, <2>2, <4>1, Zenon DEF Averages, After
      <4> QED BY <2>2, <3>2, <3>4, <4>2
    <3> QED BY <3>3, <3>4
  <2>3. ASSUME period \in period .. k + 1 PROVE avg[period] = Seed
    BY <2>3, Zenon
  <2>4. DOMAIN avg = period .. k + 1
    OBVIOUS
  <2> HIDE DEF avg
  <2>5. Averages(avg, k + 1, values, period, num, den)
    BY <2>2, <2>3, <2>4, Zenon DEF Averages
  <2> QED BY <2>5
<1> HIDE DEF Done
<1>3. n \in Done
  BY <1>1, <1>2, Inductive
<1> QED BY <1>3 DEF Done

(* The series the code returns is a running average. *)
Follows(avg, values, period, num, den) ==
  /\ Averages(avg, Len(values), values, period, num, den)
  /\ Smoothed(values, period, num, den) =
       [i \in DOMAIN values |-> IF i < period THEN 0 ELSE avg[i]]

LEMMA SmoothedIsAverage ==
  ASSUME NEW values, NEW period \in Nat, NEW num, NEW den, Len(values) \in Nat
  PROVE  \E avg : Follows(avg, values, period, num, den)
<1> DEFINE Recursion(g) ==
             g = [i \in period .. Len(values) |->
                    IF i = period THEN Mean(SubSeq(values, 1, period))
                      ELSE (values[i] * num + g[i - 1] * (den - num)) \div den]
           avg == CHOOSE g : Recursion(g)
<1>1. PICK f : Averages(f, Len(values), values, period, num, den)
  BY AveragesExist
<1>2. \E g : Recursion(g)
  <2> DEFINE g == [i \in period .. Len(values) |-> f[i]]
  <2>1. ASSUME NEW i \in period .. Len(values)
        PROVE  g[i] = IF i = period THEN Mean(SubSeq(values, 1, period))
                        ELSE (values[i] * num + g[i - 1] * (den - num)) \div den
    <3>1. f[i] = IF i = period THEN Mean(SubSeq(values, 1, period))
                   ELSE (values[i] * num + f[i - 1] * (den - num)) \div den
      BY <1>1, Zenon DEF Averages
    <3>2. i # period => i - 1 \in period .. Len(values)
      OBVIOUS
    <3>3. i # period => g[i - 1] = f[i - 1]
      BY <3>2
    <3> QED BY <3>1, <3>3, Zenon
  <2>2. Recursion(g)
    BY <2>1, Zenon
  <2> QED BY <2>2, Zenon
<1>3. Recursion(avg)
  BY <1>2, Zenon
<1>4. Averages(avg, Len(values), values, period, num, den)
  <2> HIDE DEF avg
  <2>1. DOMAIN avg = period .. Len(values)
    BY <1>3, Zenon
  <2>2. \A i \in period .. Len(values) :
          avg[i] = IF i = period THEN Mean(SubSeq(values, 1, period))
                     ELSE (values[i] * num + avg[i - 1] * (den - num)) \div den
    BY <1>3, Zenon
  <2> QED BY <2>1, <2>2, Zenon DEF Averages
<1>5. Smoothed(values, period, num, den) =
        [i \in DOMAIN values |-> IF i < period THEN 0 ELSE avg[i]]
  BY Zenon DEF Smoothed
<1> QED BY <1>4, <1>5, Zenon DEF Follows

(* u and v begin with the same n values. *)
Share(n, u, v, period) ==
  /\ \A i \in 1 .. n : u[i] = v[i]
  /\ SubSeq(u, 1, period) = SubSeq(v, 1, period)

(* An average at a place is the same whatever comes after the place.        *)
LEMMA SamePast ==
  ASSUME NEW u, NEW v, NEW period \in Nat, NEW num, NEW den,
         NEW f, NEW g, NEW n \in Nat, NEW m \in Nat,
         n <= m, period <= n, Share(n, u, v, period),
         Averages(f, n, u, period, num, den), Averages(g, m, v, period, num, den)
  PROVE  f[n] = g[n]
<1> DEFINE Done == {k \in Nat : period + k <= n => f[period + k] = g[period + k]}
<1>1. 0 \in Done
  <2>1. period \in period .. n /\ period \in period .. m
    OBVIOUS
  <2>2. f[period] = Mean(SubSeq(u, 1, period)) /\ g[period] = Mean(SubSeq(v, 1, period))
    BY <2>1, Zenon DEF Averages
  <2>3. f[period] = g[period]
    BY <2>2, Zenon DEF Share
  <2> QED BY <2>3
<1>2. ASSUME NEW k \in Nat, k \in Done PROVE k + 1 \in Done
  <2> SUFFICES ASSUME period + (k + 1) <= n
               PROVE  f[period + (k + 1)] = g[period + (k + 1)]
    OBVIOUS
  <2> DEFINE i == period + (k + 1)
  <2>1. /\ i \in period .. n /\ i \in period .. m /\ i # period
        /\ i \in 1 .. n /\ i - 1 = period + k
    OBVIOUS
  <2>2. f[i - 1] = g[i - 1]
    BY <1>2, <2>1
  <2> HIDE DEF i
  <2>3. /\ f[i] = (u[i] * num + f[i - 1] * (den - num)) \div den
        /\ g[i] = (v[i] * num + g[i - 1] * (den - num)) \div den
    BY <2>1, Zenon DEF Averages
  <2>4. f[i] = g[i]
    BY <2>1, <2>2, <2>3, Zenon DEF Share
  <2> QED BY <2>4 DEF i
<1> HIDE DEF Done
<1>3. n - period \in Done
  BY <1>1, <1>2, Inductive
<1> QED BY <1>3 DEF Done

(* The newest value of a shorter history is the value of the longer one     *)
(* at its place.                                                            *)
LEMMA AverageOfPast ==
  ASSUME NEW Values, NEW values, NEW period \in Nat, NEW num, NEW den, NEW n \in Nat,
         values \in Seq(Values), n \in 1 .. Len(values)
  PROVE  Latest(Smoothed(SubSeq(values, 1, n), period, num, den)) =
           Smoothed(values, period, num, den)[n]
<1> DEFINE u == SubSeq(values, 1, n)
<1>1. /\ Len(u) = n /\ DOMAIN u = 1 .. n /\ DOMAIN values = 1 .. Len(values)
      /\ Len(values) \in Nat /\ \A i \in 1 .. n : u[i] = values[i]
  OBVIOUS
<1>2. period <= n => SubSeq(u, 1, period) = SubSeq(values, 1, period)
  BY SMT
<1> HIDE DEF u
<1>3. PICK f : Follows(f, u, period, num, den)
  <2>1. Len(u) \in Nat
    BY <1>1
  <2> QED BY <2>1, SmoothedIsAverage, Zenon
<1>4. PICK g : Follows(g, values, period, num, den)
  BY <1>1, SmoothedIsAverage, Zenon
<1>5. ASSUME period <= n PROVE f[n] = g[n]
  <2>1. Share(n, u, values, period)
    BY <1>1, <1>2, <1>5 DEF Share
  <2>2. Averages(f, n, u, period, num, den)
    BY <1>1, <1>3 DEF Follows
  <2>3. Averages(g, Len(values), values, period, num, den)
    BY <1>4 DEF Follows
  <2>4. n \in Nat /\ Len(values) \in Nat /\ n <= Len(values)
    BY <1>1
  <2> QED BY <1>5, <2>1, <2>2, <2>3, <2>4, SamePast
<1>6. Len(Smoothed(u, period, num, den)) = n
  BY <1>1, <1>3 DEF Follows
<1>7. /\ Smoothed(u, period, num, den)[n] = IF n < period THEN 0 ELSE f[n]
      /\ Smoothed(values, period, num, den)[n] = IF n < period THEN 0 ELSE g[n]
  BY <1>1, <1>3, <1>4 DEF Follows
<1> QED BY <1>5, <1>6, <1>7 DEF Latest, u

LEMMA SeriesIsAsLong ==
  ASSUME NEW values, NEW period, values = [i \in 1 .. Len(values) |-> values[i]],
         Len(values) \in Nat
  PROVE  Latest(EmaSeries(values, period)) = EmaSeries(values, period)[Len(values)]
<1>1. DOMAIN EmaSeries(values, period) = DOMAIN values
  BY DEF EmaSeries, Smoothed
<1> HIDE DEF EmaSeries
<1>2. DOMAIN EmaSeries(values, period) = 1 .. Len(values)
  BY <1>1
<1>3. Len(EmaSeries(values, period)) = Len(values)
  BY <1>2
<1> QED BY <1>3 DEF Latest

(* v speaks of the last of n closes. *)
Aligned(v, n, close, fast, slow, signal) ==
  LET ema(m, period) == Latest(EmaSeries(SubSeq(close, 1, m), period))
      macd(m) == ema(m, fast) - ema(m, slow)
      past == [j \in 1 .. n - slow + 1 |-> macd(slow + j - 1)]
  IN /\ v.macd = macd(n)
     /\ v.signal = Latest(EmaSeries(past, signal))
     /\ v.histogram = v.macd - v.signal

LEMMA LinesAreAligned ==
  ASSUME NEW Values, NEW close \in Seq(Values),
         NEW fast \in Nat \ {0}, NEW slow \in Nat \ {0}, NEW signal \in Nat \ {0},
         NEW v \in ComputeMACD(close, fast, slow, signal)
  PROVE  Aligned(v, Len(close), close, fast, slow, signal)
<1> DEFINE n == Len(close)
           ema(m, period) == Latest(EmaSeries(SubSeq(close, 1, m), period))
           macd(m) == ema(m, fast) - ema(m, slow)
           past == [j \in 1 .. n - slow + 1 |-> macd(slow + j - 1)]
           fastEMA == EmaSeries(close, fast)
           slowEMA == EmaSeries(close, slow)
           line    == [i \in DOMAIN close |-> IF i < slow THEN 0 ELSE fastEMA[i] - slowEMA[i]]
           series  == EmaSeries(SubSeq(line, slow, Len(line)), signal)
           signals == [i \in DOMAIN close |-> IF i < slow THEN 0 ELSE series[i - slow + 1]]
           histogram == [i \in DOMAIN close |->
                           IF i < slow + signal - 1 THEN 0 ELSE line[i] - signals[i]]
           lines == MacdSeries(close, fast, slow, signal)
<1>1. lines = [macd |-> line, signal |-> signals, histogram |-> histogram]
  BY Zenon DEF MacdSeries
<1>2. /\ n >= slow + signal
      /\ v = [macd |-> Latest(lines.macd), signal |-> Latest(lines.signal),
              histogram |-> Latest(lines.histogram)]
  <2> HIDE DEF lines
  <2> QED BY DEF ComputeMACD, Given, lines
<1>3. n \in Nat /\ n >= 1 /\ DOMAIN close = 1 .. n
  BY <1>2
<1>4. ASSUME NEW m \in 1 .. n PROVE macd(m) = fastEMA[m] - slowEMA[m]
  <2>1. ASSUME NEW period \in Nat PROVE ema(m, period) = EmaSeries(close, period)[m]
    BY <1>3, AverageOfPast DEF EmaSeries
  <2> QED BY <2>1
<1> HIDE DEF fastEMA, slowEMA, macd, n, lines
<1>5. Len(line) = n /\ line \in Seq({line[i] : i \in 1 .. n})
  <2> DEFINE value(i) == IF i < slow THEN 0 ELSE fastEMA[i] - slowEMA[i]
  <2>1. line = [i \in 1 .. n |-> value(i)]
    BY <1>3
  <2> HIDE DEF line, value
  <2> QED BY <1>3, <2>1
<1>6. Len(signals) = n
  <2> HIDE DEF series
  <2> QED BY <1>3
<1>7. Len(histogram) = n
  <2> HIDE DEF line, signals
  <2> QED BY <1>3
<1>8. past = SubSeq(line, slow, n)
  <2>1. \A i \in slow .. n : line[i] = macd(i)
    BY <1>3, <1>4
  <2> HIDE DEF line
  <2>2. /\ SubSeq(line, slow, n) = [j \in 1 .. n - slow + 1 |-> line[slow + j - 1]]
    BY <1>2, <1>3, <1>5
  <2>3. \A j \in 1 .. n - slow + 1 : slow + j - 1 \in slow .. n
    BY <1>3
  <2> QED BY <2>1, <2>2, <2>3
<1>9. series = EmaSeries(past, signal)
  BY <1>5, <1>8
<1>10. Latest(EmaSeries(past, signal)) = EmaSeries(past, signal)[n - slow + 1]
  <2>1. Len(past) = n - slow + 1 /\ n - slow + 1 \in Nat
    BY <1>2, <1>3
  <2> QED BY <2>1, SeriesIsAsLong
<1>11. /\ Latest(line) = line[n] /\ Latest(signals) = signals[n]
      /\ Latest(histogram) = histogram[n]
  BY <1>5, <1>6, <1>7 DEF Latest
<1>12. line[n] = macd(n)
  BY <1>2, <1>3, <1>4
<1>13. signals[n] = series[n - slow + 1]
  <2> HIDE DEF series
  <2> QED BY <1>2, <1>3
<1>14. histogram[n] = line[n] - signals[n]
  <2> HIDE DEF line, signals
  <2> QED BY <1>2, <1>3
<1> HIDE DEF line, signals, histogram, series, past
<1>15. /\ v.macd = macd(n) /\ v.signal = Latest(EmaSeries(past, signal))
       /\ v.histogram = v.macd - v.signal
  BY <1>1, <1>2, <1>9, <1>10, <1>11, <1>12, <1>13, <1>14
<1> QED BY <1>15, Zenon DEF Aligned, past, macd, n

(* indicators.go macdSeries: the three lines are aligned for every file and *)
(* every choice of periods.                                                *)
THEOREM MacdIsAligned ==
  ASSUME MacdFast \in Nat \ {0}, MacdSlow \in Nat \ {0}, MacdSignal \in Nat \ {0}
  PROVE  Spec => []MacdLinesAreAligned
<1> DEFINE Loaded == rows \in Seq(Rows)
<1>1. Init => Loaded
  BY DEF Init
<1>2. Loaded /\ [Next]_vars => Loaded'
  BY SMT DEF Next, vars, Load, Begin, Buy, BuyForNothing, Sell, Hold, Liquidate
<1>3. Loaded => MacdLinesAreAligned
  <2> SUFFICES ASSUME Loaded PROVE MacdLinesAreAligned
    OBVIOUS
  <2> DEFINE close == Closes(rows)
  <2>1. /\ close \in Seq({row.close * Unit : row \in Rows})
        /\ Len(close) = Len(rows)
    BY SMT DEF Closes
  <2> HIDE DEF close
  <2>2. ASSUME NEW v \in ComputeMACD(close, MacdFast, MacdSlow, MacdSignal)
        PROVE  Aligned(v, Len(rows), close, MacdFast, MacdSlow, MacdSignal)
    <3>1. PICK Values : close \in Seq(Values)
      BY <2>1
    <3> QED BY <2>1, <3>1, LinesAreAligned
  <2> QED BY <2>2, Zenon DEF MacdLinesAreAligned, Aligned, close
<1> QED BY <1>1, <1>2, <1>3, PTL DEF Spec

-------------------------------------------------------------------------------
(***************************************************************************)
(* An average is the weighted sum of its values.  As long as no division   *)
(* rounds, every step of the recursions multiplies what is there by its    *)
(* weight and adds the new value's.                                        *)
(***************************************************************************)

(* The running total up to the place n. *)
Totals(sum, n, values) ==
  /\ DOMAIN sum = 0 .. n
  /\ \A i \in 0 .. n : sum[i] = IF i = 0 THEN 0 ELSE sum[i - 1] + values[i]

LEMMA TotalsExist ==
  ASSUME NEW values, NEW n \in Nat
  PROVE  \E sum : Totals(sum, n, values)
<1> DEFINE Done == {k \in Nat : \E sum : Totals(sum, k, values)}
<1>1. 0 \in Done
  <2> DEFINE sum == [i \in 0 .. 0 |-> 0]
  <2>1. Totals(sum, 0, values)
    BY DEF Totals
  <2> QED BY <2>1
<1>2. ASSUME NEW k \in Nat, k \in Done PROVE k + 1 \in Done
  <2>1. PICK f : Totals(f, k, values)
    BY <1>2
  <2> DEFINE sum == [i \in 0 .. k + 1 |-> IF i = k + 1 THEN f[k] + values[i] ELSE f[i]]
  <2>2. ASSUME NEW i \in 0 .. k + 1
        PROVE  sum[i] = IF i = 0 THEN 0 ELSE sum[i - 1] + values[i]
    <3>1. CASE i = k + 1
      <4>1. i # 0 /\ i - 1 = k /\ k \in 0 .. k + 1 /\ k # k + 1
        BY <3>1
      <4>2. sum[i] = f[k] + values[i] /\ sum[i - 1] = f[k]
        BY <3>1, <4>1
      <4> QED BY <4>1, <4>2
    <3>2. CASE i # k + 1
      <4>1. i \in 0 .. k /\ (i # 0 => i - 1 \in 0 .. k + 1 /\ i - 1 # k + 1)
        BY <3>2
      <4>2. f[i] = IF i = 0 THEN 0 ELSE f[i - 1] + values[i]
        BY <2>1, <4>1, Zenon DEF Totals
      <4>3. sum[i] = f[i] /\ (i # 0 => sum[i - 1] = f[i - 1])
        BY <3>2, <4>1
      <4> QED BY <4>2, <4>3
    <3> QED BY <3>1, <3>2
  <2>3. DOMAIN sum = 0 .. k + 1
    OBVIOUS
  <2> HIDE DEF sum
  <2>4. Totals(sum, k + 1, values)
    BY <2>2, <2>3, Zenon DEF Totals
  <2> QED BY <2>4
<1> HIDE DEF Done
<1>3. n \in Done
  BY <1>1, <1>2, Inductive
<1> QED BY <1>3 DEF Done

LEMMA TotalIsLastTotal ==
  ASSUME NEW values, Len(values) \in Nat
  PROVE  \E sum : Totals(sum, Len(values), values) /\ Total(values) = sum[Len(values)]
<1> DEFINE Recursion(g) ==
             g = [i \in 0 .. Len(values) |-> IF i = 0 THEN 0 ELSE g[i - 1] + values[i]]
           sum == CHOOSE g : Recursion(g)
<1>1. PICK f : Totals(f, Len(values), values)
  BY TotalsExist
<1>2. \E g : Recursion(g)
  <2> DEFINE g == [i \in 0 .. Len(values) |-> f[i]]
  <2>1. ASSUME NEW i \in 0 .. Len(values)
        PROVE  g[i] = IF i = 0 THEN 0 ELSE g[i - 1] + values[i]
    <3>1. f[i] = IF i = 0 THEN 0 ELSE f[i - 1] + values[i]
      BY <1>1, Zenon DEF Totals
    <3>2. i # 0 => g[i - 1] = f[i - 1]
      OBVIOUS
    <3> QED BY <3>1, <3>2, Zenon
  <2>2. Recursion(g)
    BY <2>1, Zenon
  <2> QED BY <2>2, Zenon
<1>3. Recursion(sum)
  BY <1>2, Zenon
<1>4. Totals(sum, Len(values), values)
  <2> HIDE DEF sum
  <2>1. DOMAIN sum = 0 .. Len(values)
    BY <1>3, Zenon
  <2>2. \A i \in 0 .. Len(values) : sum[i] = IF i = 0 THEN 0 ELSE sum[i - 1] + values[i]
    BY <1>3, Zenon
  <2> QED BY <2>1, <2>2, Zenon DEF Totals
<1>5. Total(values) = sum[Len(values)]
  BY Zenon DEF Total
<1> QED BY <1>4, <1>5, Zenon

(* The powers of a base up to the exponent n. *)
Powers(power, base, n) ==
  power = [i \in 0 .. n |-> IF i = 0 THEN 1 ELSE base * power[i - 1]]

LEMMA PowersExist ==
  ASSUME NEW base \in Int, NEW n \in Nat
  PROVE  \E power \in [0 .. n -> Int] : Powers(power, base, n)
<1> DEFINE Done == {k \in Nat : \E power \in [0 .. k -> Int] : Powers(power, base, k)}
<1>1. 0 \in Done
  <2> DEFINE power == [i \in 0 .. 0 |-> 1]
  <2>1. power \in [0 .. 0 -> Int]
    OBVIOUS
  <2>2. Powers(power, base, 0)
    BY DEF Powers
  <2> QED BY <2>1, <2>2
<1>2. ASSUME NEW k \in Nat, k \in Done PROVE k + 1 \in Done
  <2>1. PICK f \in [0 .. k -> Int] : Powers(f, base, k)
    BY <1>2
  <2> DEFINE power == [i \in 0 .. k + 1 |-> IF i = k + 1 THEN base * f[k] ELSE f[i]]
  <2>2. power \in [0 .. k + 1 -> Int]
    <3>1. ASSUME NEW i \in 0 .. k + 1
          PROVE  (IF i = k + 1 THEN base * f[k] ELSE f[i]) \in Int
      <4>1. base * f[k] \in Int
        BY SMT
      <4>2. i # k + 1 => i \in 0 .. k
        OBVIOUS
      <4> QED BY <4>1, <4>2
    <3> QED BY <3>1
  <2>3. ASSUME NEW i \in 0 .. k + 1
        PROVE  power[i] = IF i = 0 THEN 1 ELSE base * power[i - 1]
    <3>1. CASE i = k + 1
      <4>1. i # 0 /\ i - 1 = k /\ k \in 0 .. k + 1 /\ k # k + 1
        BY <3>1
      <4> QED BY <3>1, <4>1
    <3>2. CASE i # k + 1
      <4>1. i \in 0 .. k /\ (i # 0 => i - 1 \in 0 .. k + 1 /\ i - 1 # k + 1)
        BY <3>2
      <4>2. f[i] = IF i = 0 THEN 1 ELSE base * f[i - 1]
        BY <2>1, <4>1, Zenon DEF Powers
      <4> QED BY <3>2, <4>1, <4>2
    <3> QED BY <3>1, <3>2
  <2> HIDE DEF power
  <2>4. Powers(power, base, k + 1)
    BY <2>2, <2>3 DEF Powers
  <2> QED BY <2>2, <2>4
<1> HIDE DEF Done
<1>3. n \in Done
  BY <1>1, <1>2, Inductive
<1> QED BY <1>3 DEF Done

LEMMA PowersAgree ==
  ASSUME NEW base \in Int, NEW m \in Nat, NEW n \in Nat, NEW f, NEW g,
         Powers(f, base, m), Powers(g, base, n), NEW k \in Nat, k <= m, k <= n
  PROVE  f[k] = g[k]
<1> DEFINE Done == {i \in Nat : i <= m /\ i <= n => f[i] = g[i]}
<1>1. 0 \in Done
  BY DEF Powers
<1>2. ASSUME NEW i \in Nat, i \in Done PROVE i + 1 \in Done
  <2> SUFFICES ASSUME i + 1 <= m, i + 1 <= n PROVE f[i + 1] = g[i + 1]
    OBVIOUS
  <2>1. i + 1 \in 0 .. m /\ i + 1 \in 0 .. n /\ i + 1 # 0 /\ (i + 1) - 1 = i
    OBVIOUS
  <2>2. f[i] = g[i]
    BY <1>2
  <2>3. f[i + 1] = base * f[i] /\ g[i + 1] = base * g[i]
    BY <2>1 DEF Powers
  <2> QED BY <2>2, <2>3
<1> HIDE DEF Done
<1>3. k \in Done
  BY <1>1, <1>2, Inductive
<1> QED BY <1>3 DEF Done

LEMMA PowerIsLast ==
  ASSUME NEW base \in Int, NEW n \in Nat
  PROVE  \E power \in [0 .. n -> Int] : Powers(power, base, n) /\ Power(base, n) = power[n]
<1> DEFINE power == CHOOSE p : Powers(p, base, n)
<1>1. PICK f \in [0 .. n -> Int] : Powers(f, base, n)
  BY PowersExist
<1>2. Powers(power, base, n)
  BY <1>1
<1>3. Power(base, n) = power[n]
  BY Zenon DEF Power, Powers
<1> HIDE DEF power
<1>4. f[n] = power[n]
  BY <1>1, <1>2, PowersAgree
<1> QED BY <1>1, <1>3, <1>4

LEMMA PowerStep ==
  ASSUME NEW base \in Int, NEW n \in Nat
  PROVE  /\ Power(base, 0) = 1 /\ Power(base, n) \in Int
         /\ Power(base, n + 1) = base * Power(base, n)
<1>1. PICK z \in [0 .. 0 -> Int] : Powers(z, base, 0) /\ Power(base, 0) = z[0]
  BY PowerIsLast
<1>2. PICK f \in [0 .. n -> Int] : Powers(f, base, n) /\ Power(base, n) = f[n]
  BY PowerIsLast
<1>3. PICK g \in [0 .. n + 1 -> Int] :
        Powers(g, base, n + 1) /\ Power(base, n + 1) = g[n + 1]
  <2>1. n + 1 \in Nat
    OBVIOUS
  <2> QED BY <2>1, PowerIsLast
<1>4. f[n] = g[n]
  BY <1>2, <1>3, PowersAgree
<1>5. n + 1 \in 0 .. n + 1 /\ n + 1 # 0 /\ (n + 1) - 1 = n
  OBVIOUS
<1>6. g[n + 1] = base * g[n]
  BY <1>3, <1>5 DEF Powers
<1>7. z[0] = 1
  BY <1>1 DEF Powers
<1> QED BY <1>1, <1>2, <1>3, <1>4, <1>6, <1>7

(* A running total of integers; a total of r times as much and one value.   *)
LEMMA TotalsAreInt ==
  ASSUME NEW values, NEW n \in Nat, NEW sum, Totals(sum, n, values),
         \A i \in 1 .. n : values[i] \in Int
  PROVE  \A i \in 0 .. n : sum[i] \in Int
<1> DEFINE Done == {k \in Nat : k <= n => sum[k] \in Int}
<1>1. 0 \in Done
  BY DEF Totals
<1>2. ASSUME NEW k \in Nat, k \in Done PROVE k + 1 \in Done
  <2> SUFFICES ASSUME k + 1 <= n PROVE sum[k + 1] \in Int
    OBVIOUS
  <2>1. k + 1 \in 0 .. n /\ k + 1 \in 1 .. n /\ k + 1 # 0 /\ (k + 1) - 1 = k
    OBVIOUS
  <2>2. sum[k + 1] = sum[k] + values[k + 1]
    BY <2>1 DEF Totals
  <2> QED BY <1>2, <2>1, <2>2
<1> HIDE DEF Done
<1>3. Nat \subseteq Done
  BY <1>1, <1>2, Inductive
<1> QED BY <1>3 DEF Done

(* v is r times u, and one more term.                                       *)
Extends(v, u, r) == Len(v) = Len(u) + 1 /\ \A i \in 1 .. Len(u) : v[i] = r * u[i]

TotalExtends(v, u, r) == Total(u) \in Int /\ Total(v) = r * Total(u) + v[Len(v)]

LEMMA TotalStep ==
  ASSUME NEW u \in Seq(Int), NEW v \in Seq(Int), NEW r \in Int, Extends(v, u, r)
  PROVE  TotalExtends(v, u, r)
<1> PICK n \in Nat : n = Len(u)
  OBVIOUS
<1>0. Len(v) = n + 1 /\ \A i \in 1 .. n : v[i] = r * u[i]
  BY Zenon DEF Extends
<1>1. PICK f : Totals(f, n, u) /\ Total(u) = f[n]
  BY TotalIsLastTotal
<1>2. PICK g : Totals(g, n + 1, v) /\ Total(v) = g[n + 1]
  BY <1>0, TotalIsLastTotal
<1>3. \A i \in 0 .. n : f[i] \in Int
  BY <1>1, TotalsAreInt
<1> DEFINE Done == {k \in Nat : k <= n => g[k] = r * f[k]}
<1>4. 0 \in Done
  BY <1>1, <1>2 DEF Totals
<1>5. ASSUME NEW k \in Nat, k \in Done PROVE k + 1 \in Done
  <2> SUFFICES ASSUME k + 1 <= n PROVE g[k + 1] = r * f[k + 1]
    OBVIOUS
  <2>1. /\ k + 1 \in 0 .. n /\ k + 1 \in 0 .. n + 1 /\ k + 1 \in 1 .. n
        /\ k + 1 # 0 /\ (k + 1) - 1 = k /\ k \in 0 .. n
    OBVIOUS
  <2>2. f[k + 1] = f[k] + u[k + 1] /\ g[k + 1] = g[k] + v[k + 1]
    BY <1>1, <1>2, <2>1 DEF Totals
  <2>3. g[k] = r * f[k] /\ v[k + 1] = r * u[k + 1]
    BY <1>0, <1>5, <2>1
  <2>4. f[k] \in Int /\ u[k + 1] \in Int
    BY <1>3, <2>1
  <2>5. \A a, b \in Int : r * a + r * b = r * (a + b)
    BY SMT
  <2> QED BY ONLY <2>2, <2>3, <2>4, <2>5
<1> HIDE DEF Done
<1>6. g[n] = r * f[n]
  <2>1. n \in Done
    BY <1>4, <1>5, Inductive
  <2> QED BY <2>1 DEF Done
<1>7. g[n + 1] = g[n] + v[n + 1]
  <2>1. n + 1 \in 0 .. n + 1 /\ n + 1 # 0 /\ (n + 1) - 1 = n
    OBVIOUS
  <2> QED BY <1>2, <2>1 DEF Totals
<1> QED BY <1>0, <1>1, <1>2, <1>3, <1>6, <1>7 DEF TotalExtends

(* x is a whole number of u's, of either sign.                              *)
Whole(x, u) == \E k \in Int : x = u * k

LEMMA WholesAdd ==
  ASSUME NEW x, NEW y, NEW u \in Int, Whole(x, u), Whole(y, u)
  PROVE  Whole(x + y, u) /\ x \in Int
<1>1. PICK k \in Int, l \in Int : x = u * k /\ y = u * l
  BY DEF Whole
<1>2. x + y = u * (k + l) /\ k + l \in Int /\ x \in Int
  BY <1>1, SMT
<1> QED BY <1>2 DEF Whole

LEMMA WholesScale ==
  ASSUME NEW x, NEW u \in Int, NEW c \in Int, Whole(x, u)
  PROVE  Whole(x * c, u) /\ x \in Int
<1>1. PICK k \in Int : x = u * k
  BY DEF Whole
<1>2. k * c \in Int /\ x * c = u * (k * c) /\ x \in Int
  BY <1>1, SMT
<1> QED BY <1>2 DEF Whole

LEMMA WholesOfWholes ==
  ASSUME NEW x, NEW u \in Int, NEW c \in Int, Whole(x, c * u)
  PROVE  Whole(x, u)
<1>1. PICK k \in Int : x = (c * u) * k
  BY DEF Whole
<1>2. c * k \in Int /\ x = u * (c * k)
  BY <1>1, SMT
<1> QED BY <1>2 DEF Whole

LEMMA WholesDivide ==
  ASSUME NEW x, NEW p \in Nat \ {0}, NEW u \in Int, Whole(x, p * u)
  PROVE  Whole(x \div p, u) /\ x = p * (x \div p)
<1>1. PICK k \in Int : x = (p * u) * k
  BY DEF Whole
<1>2. PICK m \in Int : m = u * k
  BY SMT
<1>3. x = p * m
  BY <1>1, <1>2, SMT
<1>4. x \div p = m
  BY <1>3, SMT
<1> QED BY <1>2, <1>3, <1>4 DEF Whole

LEMMA TotalOfWholes ==
  ASSUME NEW values, NEW u \in Int, Len(values) \in Nat,
         \A i \in 1 .. Len(values) : Whole(values[i], u)
  PROVE  Whole(Total(values), u)
<1> PICK n \in Nat : n = Len(values)
  OBVIOUS
<1>1. PICK sum : Totals(sum, n, values) /\ Total(values) = sum[n]
  BY TotalIsLastTotal
<1> DEFINE Done == {k \in Nat : k <= n => Whole(sum[k], u)}
<1>2. 0 \in Done
  <2>1. sum[0] = 0 /\ 0 = u * 0 /\ 0 \in Int
    BY <1>1 DEF Totals
  <2> QED BY <2>1 DEF Whole
<1>3. ASSUME NEW k \in Nat, k \in Done PROVE k + 1 \in Done
  <2> SUFFICES ASSUME k + 1 <= n PROVE Whole(sum[k + 1], u)
    OBVIOUS
  <2>1. k + 1 \in 0 .. n /\ k + 1 # 0 /\ (k + 1) - 1 = k /\ k + 1 \in 1 .. n
    OBVIOUS
  <2>2. sum[k + 1] = sum[k] + values[k + 1]
    BY <1>1, <2>1 DEF Totals
  <2>3. Whole(sum[k], u) /\ Whole(values[k + 1], u)
    BY <1>3, <2>1
  <2> QED BY <2>2, <2>3, WholesAdd
<1> HIDE DEF Done
<1>4. n \in Done
  BY <1>2, <1>3, Inductive
<1> QED BY <1>1, <1>4 DEF Done

(* The unit can be divided by the period once and then so many times by the *)
(* denominator of the weight num / den in lowest terms.                     *)
Fine(part, unit, period, step, times) ==
  /\ part \in [0 .. times -> Nat \ {0}]
  /\ part[0] = unit /\ part[0] = period * part[1]
  /\ \A k \in 2 .. times : part[k - 1] = step * part[k]

Fraction(num, den, common, weight, step) ==
  /\ common \in Nat \ {0} /\ weight \in Nat /\ step \in Nat \ {0}
  /\ num = common * weight /\ den = common * step

LEMMA UnitIsWhole ==
  ASSUME NEW part, NEW unit, NEW period \in Nat \ {0}, NEW step, NEW times \in Nat \ {0},
         Fine(part, unit, period, step, times), step \in Nat \ {0}
  PROVE  \A k \in 1 .. times : part[k] \in Nat \ {0} /\ Whole(unit, part[k])
<1> DEFINE Done == {k \in Nat : k + 1 <= times => Whole(unit, part[k + 1])}
<1>0. \A k \in 1 .. times : part[k] \in Nat \ {0} /\ k \in 0 .. times
  BY DEF Fine
<1>1. 0 \in Done
  <2>1. 1 \in 1 .. times
    OBVIOUS
  <2>2. unit = part[1] * period
    BY <1>0, <2>1, SMT DEF Fine
  <2> QED BY <2>2 DEF Whole
<1>2. ASSUME NEW k \in Nat, k \in Done PROVE k + 1 \in Done
  <2> SUFFICES ASSUME (k + 1) + 1 <= times PROVE Whole(unit, part[(k + 1) + 1])
    OBVIOUS
  <2>1. /\ (k + 1) + 1 \in 2 .. times /\ ((k + 1) + 1) - 1 = k + 1
        /\ (k + 1) + 1 \in 1 .. times /\ k + 1 <= times
    OBVIOUS
  <2>2. part[k + 1] = step * part[(k + 1) + 1] /\ part[(k + 1) + 1] \in Int
    BY <1>0, <2>1 DEF Fine
  <2>3. Whole(unit, part[k + 1])
    BY <1>2, <2>1
  <2>4. Whole(unit, step * part[(k + 1) + 1])
    BY <2>2, <2>3
  <2> QED BY <2>2, <2>4, WholesOfWholes
<1> HIDE DEF Done
<1>3. Nat \subseteq Done
  BY <1>1, <1>2, Inductive
<1>4. ASSUME NEW k \in 1 .. times PROVE Whole(unit, part[k])
  <2>1. k - 1 \in Nat /\ (k - 1) + 1 = k /\ k <= times
    OBVIOUS
  <2>2. k - 1 \in Done
    BY <1>3, <2>1
  <2> QED BY <2>1, <2>2 DEF Done
<1> QED BY <1>0, <1>4

(* One more value, and a division without a rest.                           *)
LEMMA ExactStep ==
  ASSUME NEW x, NEW a, NEW u \in Nat, NEW num, NEW den, NEW common, NEW weight, NEW step,
         Fraction(num, den, common, weight, step),
         Whole(x, step * u), Whole(a, step * u), NEW b, b = (x * num + a * (den - num)) \div den
  PROVE  Whole(b, u) /\ b * den = x * num + a * (den - num)
<1> USE DEF Fraction
<1> DEFINE y == x * weight + a * (step - weight)
<1>1. step * u \in Int /\ step - weight \in Int /\ common \in Int /\ weight \in Int /\ step \in Int
  BY SMT
<1>2. Whole(x * weight, step * u) /\ Whole(a * (step - weight), step * u) /\ x \in Int /\ a \in Int
  BY <1>1, WholesScale
<1>3. Whole(y, step * u)
  BY <1>1, <1>2, WholesAdd
<1>4. y \in Int
  BY <1>1, <1>2, SMT
<1>5. x * num + a * (den - num) = common * y
  <2>1. \A p, q, c, w, t \in Int : p * (c * w) + q * (c * t - c * w) = c * (p * w + q * (t - w))
    BY SMT
  <2> QED BY <1>1, <1>2, <2>1
<1> HIDE DEF y
<1>6. Whole(y \div step, u) /\ y = step * (y \div step)
  BY <1>3, WholesDivide
<1> PICK z \in Int : z = y \div step
  BY <1>4, SMT
<1>7. common * y = den * z /\ den \in Nat \ {0}
  BY <1>1, <1>6, SMT
<1>8. (den * z) \div den = z /\ z * den = den * z
  BY <1>7, SMT
<1>9. b = z
  BY <1>5, <1>7, <1>8
<1> QED BY <1>5, <1>6, <1>7, <1>8, <1>9

(* No step of an average rounds.                                            *)
Exactly(avg, values, period, num, den) ==
  /\ \A i \in period .. Len(values) : avg[i] \in Int
  /\ avg[period] * period = Total(SubSeq(values, 1, period))
  /\ \A i \in period + 1 .. Len(values) :
       avg[i] * den = values[i] * num + avg[i - 1] * (den - num)

LEMMA AverageIsExact ==
  ASSUME NEW values \in Seq(Int), NEW unit, NEW period \in Nat \ {0}, NEW num, NEW den,
         NEW common, NEW weight, NEW step, NEW part, NEW times \in Nat, NEW avg,
         Fraction(num, den, common, weight, step), Fine(part, unit, period, step, times),
         period <= Len(values), Len(values) - period + 1 <= times,
         \A i \in 1 .. Len(values) : Whole(values[i], unit),
         Averages(avg, Len(values), values, period, num, den)
  PROVE  Exactly(avg, values, period, num, den)
<1> PICK n \in Nat : n = Len(values)
  OBVIOUS
<1> DEFINE Good(j) == Whole(avg[period + j], part[j + 1])
           Done == {j \in Nat : period + j <= n => Good(j)}
<1>0. times # 0 /\ step \in Nat \ {0} /\ 1 \in 1 .. times
  BY DEF Fraction
<1>1. \A k \in 1 .. times : part[k] \in Nat \ {0} /\ Whole(unit, part[k])
  BY <1>0, UnitIsWhole
<1>2. Whole(avg[period], part[1]) /\ avg[period] * period = Total(SubSeq(values, 1, period))
  <2> DEFINE first == SubSeq(values, 1, period)
  <2>1. Len(first) = period /\ \A i \in 1 .. period : first[i] = values[i]
    OBVIOUS
  <2>2. period \in period .. n
    OBVIOUS
  <2>3. avg[period] = Mean(first)
    BY <2>2, Zenon DEF Averages
  <2>4. unit = period * part[1] /\ part[1] \in Int
    BY <1>0, <1>1 DEF Fine
  <2> HIDE DEF first
  <2>5. \A i \in 1 .. Len(first) : Whole(first[i], unit)
    BY <2>1
  <2>6. Whole(Total(first), unit)
    <3>1. unit \in Int
      BY <2>4, SMT
    <3> QED BY <2>1, <2>5, <3>1, TotalOfWholes
  <2>7. Whole(Total(first) \div period, part[1]) /\ Total(first) = period * (Total(first) \div period)
    BY <2>4, <2>6, WholesDivide
  <2>8. avg[period] = Total(first) \div period
    BY <2>1, <2>3 DEF Mean
  <2>9. avg[period] \in Int
    BY <2>4, <2>7, <2>8, SMT DEF Whole
  <2> QED BY <2>7, <2>8, <2>9, SMT DEF first
<1>3. 0 \in Done
  BY <1>2
<1>4. ASSUME NEW j \in Nat, Good(j), period + (j + 1) <= n
      PROVE  /\ Good(j + 1)
             /\ avg[period + (j + 1)] * den =
                  values[period + (j + 1)] * num + avg[period + j] * (den - num)
  <2> DEFINE i == period + (j + 1)
  <2>1. /\ i \in period .. n /\ i # period /\ i - 1 = period + j /\ i \in 1 .. n
        /\ j + 2 \in 2 .. times /\ (j + 2) - 1 = j + 1 /\ (j + 1) + 1 = j + 2
        /\ j + 1 \in 1 .. times /\ j + 2 \in 1 .. times
    <3>1. n - period + 1 <= times /\ period + (j + 1) <= n
      BY <1>4
    <3>2. j + 2 <= times
      BY ONLY <3>1, n \in Nat, period \in Nat \ {0}, j \in Nat, times \in Nat
    <3> QED BY ONLY <3>1, <3>2, n \in Nat, period \in Nat \ {0}, j \in Nat, times \in Nat
  <2>2. avg[i] = (values[i] * num + avg[i - 1] * (den - num)) \div den
    BY <2>1, Zenon DEF Averages
  <2>3. part[j + 1] = step * part[j + 2] /\ part[j + 1] \in Nat /\ part[j + 2] \in Nat
    BY <1>1, <2>1 DEF Fine
  <2>4. Whole(values[i], part[j + 1])
    <3>1. PICK k \in Int : values[i] = unit * k
      BY <2>1 DEF Whole
    <3>2. Whole(unit, part[j + 1])
      BY <1>1, <2>1
    <3> QED BY <2>3, <3>1, <3>2, WholesScale
  <2> HIDE DEF i
  <2>5. Whole(values[i], step * part[j + 2]) /\ Whole(avg[i - 1], step * part[j + 2])
    BY <1>4, <2>1, <2>3, <2>4
  <2>6. Whole(avg[i], part[j + 2]) /\ avg[i] * den = values[i] * num + avg[i - 1] * (den - num)
    BY <2>2, <2>3, <2>5, ExactStep
  <2> QED BY <2>1, <2>6 DEF i
<1>5. ASSUME NEW j \in Nat, j \in Done PROVE j + 1 \in Done
  <2>1. period + (j + 1) <= n => period + j <= n
    OBVIOUS
  <2> QED BY <1>4, <1>5, <2>1
<1> HIDE DEF Done
<1>6. Nat \subseteq Done
  BY <1>3, <1>5, Inductive
<1>7. ASSUME NEW i \in period .. n PROVE avg[i] \in Int /\ Good(i - period)
  <2>1. /\ i - period \in Nat /\ period + (i - period) = i /\ period + (i - period) <= n
        /\ (i - period) + 1 \in 1 .. times
    OBVIOUS
  <2>2. Good(i - period)
    BY <1>6, <2>1 DEF Done
  <2>3. part[(i - period) + 1] \in Nat
    BY <1>1, <2>1
  <2> HIDE DEF Good
  <2>4. Whole(avg[i], part[(i - period) + 1])
    BY <2>1, <2>2 DEF Good
  <2>5. avg[i] \in Int
    BY <2>3, <2>4, SMT DEF Whole
  <2> QED BY <2>2, <2>5
<1>8. ASSUME NEW i \in period + 1 .. n
      PROVE  avg[i] * den = values[i] * num + avg[i - 1] * (den - num)
  <2> PICK j \in Nat : j = i - 1 - period
    OBVIOUS
  <2>1. /\ i - 1 \in period .. n /\ (i - 1) - period = j
        /\ period + (j + 1) = i /\ period + j = i - 1 /\ period + (j + 1) <= n
    OBVIOUS
  <2>2. Good(j)
    BY <1>7, <2>1
  <2> HIDE DEF Good
  <2> QED BY <1>4, <2>1, <2>2
<1> QED BY <1>2, <1>7, <1>8 DEF Exactly

(* What late values add to the sum.                                         *)
Terms(values, period, num, den, late) ==
  [j \in 1 .. late |->
     values[period + j] * (num * Power(den - num, late - j) * Power(den, j - 1))]

LEMMA TermsAreInt ==
  ASSUME NEW values \in Seq(Int), NEW period \in Nat, NEW num \in Int, NEW den \in Int,
         NEW late \in Nat, period + late <= Len(values)
  PROVE  /\ Terms(values, period, num, den, late) \in Seq(Int)
         /\ Len(Terms(values, period, num, den, late)) = late
<1>1. ASSUME NEW j \in 1 .. late
      PROVE  values[period + j] * (num * Power(den - num, late - j) * Power(den, j - 1)) \in Int
  <2>1. late - j \in Nat /\ j - 1 \in Nat /\ den - num \in Int /\ values[period + j] \in Int
    OBVIOUS
  <2>2. Power(den - num, late - j) \in Int /\ Power(den, j - 1) \in Int
    BY <2>1, PowerStep
  <2>3. num * Power(den - num, late - j) \in Int
    BY ONLY <2>2, num \in Int, SMT
  <2>4. num * Power(den - num, late - j) * Power(den, j - 1) \in Int
    BY ONLY <2>2, <2>3, SMT
  <2> QED BY ONLY <2>1, <2>4, SMT
<1> QED BY <1>1 DEF Terms

TermsGrow(values, period, num, den, l) ==
  /\ Total(Terms(values, period, num, den, l)) \in Int
  /\ Total(Terms(values, period, num, den, l + 1)) =
       (den - num) * Total(Terms(values, period, num, den, l))
         + values[period + (l + 1)] * (num * Power(den, l))

LEMMA TermsStep ==
  ASSUME NEW values \in Seq(Int), NEW period \in Nat, NEW num \in Int, NEW den \in Int,
         NEW l \in Nat, period + (l + 1) <= Len(values)
  PROVE  TermsGrow(values, period, num, den, l)
<1> PICK r \in Int : r = den - num
  OBVIOUS
<1> DEFINE u == Terms(values, period, num, den, l)
           v == Terms(values, period, num, den, l + 1)
<1>1. u \in Seq(Int) /\ Len(u) = l
  BY TermsAreInt
<1>2. v \in Seq(Int) /\ Len(v) = l + 1
  <2>1. l + 1 \in Nat
    OBVIOUS
  <2> QED BY <2>1, TermsAreInt
<1>3. ASSUME NEW i \in 1 .. l PROVE v[i] = r * u[i]
  <2>1. /\ l - i \in Nat /\ i - 1 \in Nat /\ (l + 1) - i = (l - i) + 1 /\ i \in 1 .. l + 1
        /\ values[period + i] \in Int
    OBVIOUS
  <2>2. /\ Power(r, l - i) \in Int /\ Power(den, i - 1) \in Int
        /\ Power(r, (l + 1) - i) = r * Power(r, l - i)
    BY <2>1, PowerStep
  <2>3. /\ u[i] = values[period + i] * (num * Power(r, l - i) * Power(den, i - 1))
        /\ v[i] = values[period + i] * (num * Power(r, (l + 1) - i) * Power(den, i - 1))
    BY <2>1, Zenon DEF Terms
  <2> PICK x \in Int, q \in Int, d \in Int :
        x = values[period + i] /\ q = Power(r, l - i) /\ d = Power(den, i - 1)
    BY ONLY <2>1, <2>2, Zenon
  <2>4. x * (num * (r * q) * d) = r * (x * (num * q * d))
    BY ONLY x \in Int, q \in Int, d \in Int, num \in Int, r \in Int, SMT
  <2> QED BY ONLY <2>2, <2>3, <2>4, x = values[period + i], q = Power(r, l - i),
                  d = Power(den, i - 1), Zenon
<1>4. v[l + 1] = values[period + (l + 1)] * (num * Power(den, l))
  <2>1. l + 1 \in 1 .. l + 1 /\ (l + 1) - (l + 1) = 0 /\ (l + 1) - 1 = l
    OBVIOUS
  <2>2. Power(r, 0) = 1 /\ Power(den, l) \in Int
    BY PowerStep
  <2>3. v[l + 1] = values[period + (l + 1)]
                     * (num * Power(r, (l + 1) - (l + 1)) * Power(den, (l + 1) - 1))
    BY <2>1, Zenon DEF Terms
  <2>4. num * 1 = num
    OBVIOUS
  <2> QED BY <2>1, <2>2, <2>3, <2>4
<1> HIDE DEF u, v
<1>5. Total(u) \in Int /\ Total(v) = r * Total(u) + v[l + 1]
  <2>1. Extends(v, u, r)
    BY <1>1, <1>2, <1>3, Zenon DEF Extends
  <2>2. TotalExtends(v, u, r)
    BY ONLY <1>1, <1>2, <2>1, r \in Int, TotalStep, Zenon
  <2> QED BY <1>2, <2>2, Zenon DEF TotalExtends
<1> QED BY <1>4, <1>5 DEF u, v, TermsGrow

(* An average a of total weight period * q, made of a seed t at weight p    *)
(* and a sum of later values.                                               *)
Weighs(a, period, q, t, p, sum) == a * period * q = t * p + period * sum

LEMMA WeighStep ==
  ASSUME NEW a \in Int, NEW b \in Int, NEW x \in Int, NEW num \in Int, NEW den \in Int,
         NEW r \in Int, NEW period \in Int, NEW t \in Int, NEW p \in Int, NEW q \in Int,
         NEW sum \in Int,
         b * den = x * num + a * r, Weighs(a, period, q, t, p, sum)
  PROVE  Weighs(b, period, den * q, t, r * p, r * sum + x * (num * q))
<1> USE DEF Weighs
<1>1. PICK y \in Int : y = b * den /\ y = x * num + a * r
  BY SMT
<1>2. b * period * (den * q) = y * (period * q)
  BY <1>1, SMT
<1>3. y * (period * q) = period * (x * (num * q)) + r * (a * period * q)
  BY <1>1, SMT
<1>4. r * (a * period * q) = r * (t * p) + r * (period * sum)
  BY SMT
<1>5. r * (t * p) = t * (r * p) /\ r * (period * sum) = period * (r * sum)
  BY SMT
<1>6. period * (r * sum + x * (num * q)) = period * (r * sum) + period * (x * (num * q))
  BY SMT
<1>7. /\ period * (x * (num * q)) \in Int /\ t * (r * p) \in Int /\ period * (r * sum) \in Int
  BY SMT
<1> QED BY <1>2, <1>3, <1>4, <1>5, <1>6, <1>7

LEMMA ExactIsWeighted ==
  ASSUME NEW values \in Seq(Int), NEW period \in Nat \ {0}, NEW num \in Int, NEW den \in Int,
         NEW avg, Exactly(avg, values, period, num, den), period <= Len(values)
  PROVE  Weighted(avg[Len(values)], values, period, num, den)
<1> PICK n \in Nat : n = Len(values)
  OBVIOUS
<1> PICK r \in Int : r = den - num
  OBVIOUS
<1> PICK t : t = Total(SubSeq(values, 1, period))
  OBVIOUS
<1>0. /\ period \in period .. n /\ avg[period] \in Int /\ avg[period] * period = t /\ t \in Int
  <2>1. period \in period .. n
    OBVIOUS
  <2>2. avg[period] \in Int /\ avg[period] * period = t
    BY <2>1 DEF Exactly
  <2> QED BY <2>1, <2>2, SMT
<1> DEFINE Sum(l) == Total(Terms(values, period, num, den, l))
           Good(l) == avg[period + l] * period * Power(den, l) = t * Power(r, l) + period * Sum(l)
           Done == {l \in Nat : period + l <= n => Good(l)}
<1>1. 0 \in Done
  <2>1. Power(den, 0) = 1 /\ Power(r, 0) = 1
    BY PowerStep
  <2>2. Sum(0) = 0
    <3>1. Terms(values, period, num, den, 0) \in Seq(Int) /\ Len(Terms(values, period, num, den, 0)) = 0
      BY TermsAreInt
    <3>2. PICK sum : Totals(sum, 0, Terms(values, period, num, den, 0)) /\ Sum(0) = sum[0]
      BY <3>1, TotalIsLastTotal
    <3> QED BY <3>2 DEF Totals
  <2> HIDE DEF Sum
  <2>3. Good(0)
    BY <1>0, <2>1, <2>2
  <2> QED BY <2>3
<1>2. ASSUME NEW l \in Nat, l \in Done PROVE l + 1 \in Done
  <2> SUFFICES ASSUME period + (l + 1) <= n PROVE Good(l + 1)
    OBVIOUS
  <2>1. /\ period + (l + 1) \in period + 1 .. n /\ period + l \in period .. n
        /\ period + (l + 1) \in period .. n /\ (period + (l + 1)) - 1 = period + l
        /\ period + (l + 1) \in 1 .. n
    OBVIOUS
  <2> PICK a \in Int, b \in Int, x \in Int :
        /\ a = avg[period + l] /\ b = avg[period + (l + 1)] /\ x = values[period + (l + 1)]
    <3>1. avg[period + l] \in Int /\ avg[period + (l + 1)] \in Int
      BY <2>1 DEF Exactly
    <3>2. values[period + (l + 1)] \in Int
      BY <2>1
    <3> QED BY ONLY <3>1, <3>2, Zenon
  <2>2. b * den = x * num + a * r
    BY <2>1 DEF Exactly
  <2>3. Good(l)
    BY <1>2, <2>1
  <2>4. /\ Power(den, l) \in Int /\ Power(den, l + 1) = den * Power(den, l)
        /\ Power(r, l) \in Int /\ Power(r, l + 1) = r * Power(r, l)
    BY PowerStep
  <2>5. Sum(l) \in Int /\ Sum(l + 1) = r * Sum(l) + x * (num * Power(den, l))
    <3>1. period \in Nat /\ period + (l + 1) <= Len(values)
      OBVIOUS
    <3>2. TermsGrow(values, period, num, den, l)
      BY ONLY <3>1, values \in Seq(Int), num \in Int, den \in Int, l \in Nat, TermsStep
    <3>3. /\ Sum(l) \in Int
          /\ Sum(l + 1) = (den - num) * Sum(l)
                            + values[period + (l + 1)] * (num * Power(den, l))
      BY <3>2, Zenon DEF TermsGrow
    <3> HIDE DEF Sum
    <3> QED BY <3>3, Zenon
  <2> HIDE DEF Sum
  <2>6. Weighs(a, period, Power(den, l), t, Power(r, l), Sum(l))
    BY <2>3 DEF Weighs
  <2>7. Weighs(b, period, den * Power(den, l), t, r * Power(r, l),
               r * Sum(l) + x * (num * Power(den, l)))
    <3> PICK p \in Int, q \in Int, sum \in Int :
          p = Power(r, l) /\ q = Power(den, l) /\ sum = Sum(l)
      BY <2>4, <2>5
    <3>1. period \in Int
      OBVIOUS
    <3>2. Weighs(a, period, q, t, p, sum)
      BY <2>6
    <3>3. Weighs(b, period, den * q, t, r * p, r * sum + x * (num * q))
      BY ONLY <1>0, <2>2, <3>1, <3>2, num \in Int, den \in Int, r \in Int, a \in Int, b \in Int,
              x \in Int, p \in Int, q \in Int, sum \in Int, WeighStep
    <3> QED BY <3>3
  <2> QED BY <2>4, <2>5, <2>7, Zenon DEF Weighs
<1> HIDE DEF Done
<1>3. n - period \in Done
  <2>1. n - period \in Nat
    OBVIOUS
  <2> QED BY <1>1, <1>2, <2>1, Inductive
<1>4. Good(n - period) /\ period + (n - period) = n
  BY <1>3 DEF Done
<1> QED BY <1>4, Zenon DEF Weighted, WeightedSum, Terms

(* What Smoothed returns last.                                              *)
LEMMA SmoothedIsWeighted ==
  ASSUME NEW values \in Seq(Int), NEW unit, NEW period \in Nat \ {0}, NEW num, NEW den,
         NEW common, NEW weight, NEW step, NEW part, NEW times \in Nat,
         Fraction(num, den, common, weight, step), Fine(part, unit, period, step, times),
         period <= Len(values), Len(values) - period + 1 <= times,
         \A i \in 1 .. Len(values) : Whole(values[i], unit)
  PROVE  Weighted(Latest(Smoothed(values, period, num, den)), values, period, num, den)
<1>1. Len(values) \in Nat /\ DOMAIN values = 1 .. Len(values) /\ period \in Nat
  OBVIOUS
<1>2. PICK avg : Follows(avg, values, period, num, den)
  BY <1>1, SmoothedIsAverage, Zenon
<1>3. Averages(avg, Len(values), values, period, num, den)
  BY <1>2 DEF Follows
<1>4. Exactly(avg, values, period, num, den)
  BY <1>3, AverageIsExact
<1>5. num \in Int /\ den \in Int
  BY SMT DEF Fraction
<1>6. Weighted(avg[Len(values)], values, period, num, den)
  BY <1>4, <1>5, ExactIsWeighted
<1>7. Latest(Smoothed(values, period, num, den)) = avg[Len(values)]
  <2>1. Smoothed(values, period, num, den) =
          [i \in 1 .. Len(values) |-> IF i < period THEN 0 ELSE avg[i]]
    BY <1>1, <1>2 DEF Follows
  <2>2. Len(Smoothed(values, period, num, den)) = Len(values)
    BY <1>1, <2>1
  <2>3. Len(values) \in 1 .. Len(values) /\ ~(Len(values) < period)
    BY <1>1
  <2> QED BY <2>1, <2>2, <2>3 DEF Latest
<1> QED BY <1>6, <1>7

LEMMA LastValues ==
  ASSUME NEW values \in Seq(Int), NEW n, NEW p \in Nat, NEW u,
         n = Len(values), p <= n, u = SubSeq(values, n - p + 1, n)
  PROVE  u \in Seq(Int) /\ Len(u) = p /\ \A j \in 1 .. p : u[j] = values[n - p + j]
OBVIOUS

(* The total of a stretch is the difference of two running totals.          *)
Stretch(values, n, p, sum) ==
  /\ Total(SubSeq(values, n - p + 1, n)) = sum[n] - sum[n - p]
  /\ sum[n] \in Int /\ sum[n - p] \in Int

LEMMA TotalOfStretch ==
  ASSUME NEW values \in Seq(Int), NEW n \in Nat, NEW sum, NEW p \in Nat,
         n = Len(values), p <= n, Totals(sum, n, values)
  PROVE  Stretch(values, n, p, sum)
<1> DEFINE u == SubSeq(values, n - p + 1, n)
<1>1. u \in Seq(Int) /\ Len(u) = p /\ \A j \in 1 .. p : u[j] = values[n - p + j]
  BY LastValues
<1> HIDE DEF u
<1>2. PICK f : Totals(f, p, u) /\ Total(u) = f[p]
  BY <1>1, TotalIsLastTotal
<1>3. \A i \in 0 .. n : sum[i] \in Int
  BY TotalsAreInt
<1> DEFINE Done == {k \in Nat : k <= p => f[k] = sum[n - p + k] - sum[n - p]}
<1>4. 0 \in Done
  <2>1. n - p \in 0 .. n /\ n - p + 0 = n - p
    OBVIOUS
  <2>2. f[0] = 0 /\ sum[n - p] \in Int
    BY <1>2, <1>3, <2>1 DEF Totals
  <2> QED BY <2>1, <2>2
<1>5. ASSUME NEW k \in Nat, k \in Done PROVE k + 1 \in Done
  <2> SUFFICES ASSUME k + 1 <= p PROVE f[k + 1] = sum[n - p + (k + 1)] - sum[n - p]
    OBVIOUS
  <2>1. /\ k + 1 \in 0 .. p /\ k + 1 \in 1 .. p /\ k + 1 # 0 /\ (k + 1) - 1 = k
        /\ n - p + (k + 1) \in 0 .. n /\ n - p + (k + 1) \in 1 .. n /\ n - p + (k + 1) # 0
        /\ (n - p + (k + 1)) - 1 = n - p + k /\ n - p + k \in 0 .. n /\ n - p \in 0 .. n
    OBVIOUS
  <2>2. f[k + 1] = f[k] + u[k + 1]
    BY <1>2, <2>1 DEF Totals
  <2>3. sum[n - p + (k + 1)] = sum[n - p + k] + values[n - p + (k + 1)]
    BY <2>1 DEF Totals
  <2>4. u[k + 1] = values[n - p + (k + 1)] /\ values[n - p + (k + 1)] \in Int
    BY <1>1, <2>1
  <2>5. f[k] = sum[n - p + k] - sum[n - p] /\ sum[n - p + k] \in Int /\ sum[n - p] \in Int
    BY <1>3, <1>5, <2>1
  <2> QED BY ONLY <2>2, <2>3, <2>4, <2>5
<1> HIDE DEF Done
<1>6. f[p] = sum[n - p + p] - sum[n - p]
  <2>1. p \in Done
    BY <1>4, <1>5, Inductive
  <2> QED BY <2>1 DEF Done
<1>7. n - p + p = n /\ n \in 0 .. n /\ n - p \in 0 .. n
  OBVIOUS
<1> QED BY <1>1, <1>2, <1>3, <1>6, <1>7 DEF u, Stretch

(* The running sum over the window, and what leaves it at the place i.      *)
Leaves(values, i, period) == IF i > period THEN values[i - period] ELSE 0

Windows(window, n, values, period) ==
  /\ DOMAIN window = 0 .. n
  /\ \A i \in 0 .. n :
       window[i] = IF i = 0 THEN 0
                     ELSE window[i - 1] + values[i] - Leaves(values, i, period)

(* The running sum is a difference of running totals: no value stays in it  *)
(* once the window has passed, and none is taken out twice.                 *)
LEMMA WindowsExist ==
  ASSUME NEW values \in Seq(Int), NEW period \in Nat \ {0}, NEW n \in Nat, n = Len(values),
         NEW sum, Totals(sum, n, values),
         NEW window, window = [i \in 0 .. n |-> sum[i] - (IF i > period THEN sum[i - period] ELSE 0)]
  PROVE  Windows(window, n, values, period)
<1>1. \A i \in 0 .. n : sum[i] \in Int
  BY TotalsAreInt
<1>2. ASSUME NEW i \in 0 .. n
      PROVE  window[i] = IF i = 0 THEN 0
                           ELSE window[i - 1] + values[i] - Leaves(values, i, period)
  <2> USE DEF Leaves
  <2>1. CASE i = 0
    <3>1. sum[0] = 0 /\ ~(0 > period)
      BY <2>1 DEF Totals
    <3> QED BY <2>1, <3>1
  <2>2. CASE i # 0
    <3>1. /\ i \in 1 .. n /\ i - 1 \in 0 .. n
          /\ sum[i] = sum[i - 1] + values[i]
      BY <2>2 DEF Totals
    <3>2. sum[i] \in Int /\ sum[i - 1] \in Int /\ values[i] \in Int /\ sum[0] = 0
      BY <1>1, <3>1 DEF Totals
    <3>3. CASE i > period
      <4>1. /\ i - period \in 1 .. n /\ i - period \in 0 .. n /\ i - period # 0
            /\ (i - period) - 1 \in 0 .. n /\ (i - period) - 1 = (i - 1) - period
        BY <3>3
      <4>2. sum[i - period] = sum[(i - period) - 1] + values[i - period]
        BY <4>1 DEF Totals
      <4>3. window[i] = sum[i] - sum[i - period]
        BY <3>3
      <4>4. window[i - 1] = sum[i - 1] - sum[(i - 1) - period]
        <5>1. CASE i - 1 > period
          BY <3>1, <5>1
        <5>2. CASE ~(i - 1 > period)
          <6>1. (i - 1) - period = 0
            BY <3>3, <5>2
          <6>2. window[i - 1] = sum[i - 1] - 0
            BY <3>1, <5>2
          <6> QED BY <3>2, <6>1, <6>2
        <5> QED BY <5>1, <5>2
      <4>5. values[i - period] \in Int /\ sum[(i - 1) - period] \in Int /\ sum[i - period] \in Int
        BY <1>1, <4>1
      <4>6. sum[(i - period) - 1] = sum[(i - 1) - period]
        BY <4>1
      <4>7. window[i] = window[i - 1] + values[i] - values[i - period]
        BY ONLY <3>1, <3>2, <4>2, <4>3, <4>4, <4>5, <4>6, SMTT(30)
      <4> QED BY <2>2, <3>3, <4>7
    <3>4. CASE ~(i > period)
      <4>1. ~(i - 1 > period)
        BY <3>4
      <4>2. window[i] = sum[i] - 0 /\ window[i - 1] = sum[i - 1] - 0
        BY <3>1, <3>4, <4>1
      <4> QED BY ONLY <2>2, <3>1, <3>2, <3>4, <4>2
    <3> QED BY <3>3, <3>4
  <2> QED BY <2>1, <2>2
<1> QED BY <1>2 DEF Windows

LEMMA WindowsAgree ==
  ASSUME NEW values, NEW period, NEW n \in Nat, NEW f, NEW g,
         Windows(f, n, values, period), Windows(g, n, values, period)
  PROVE  f[n] = g[n]
<1> DEFINE Done == {k \in Nat : k <= n => f[k] = g[k]}
<1>1. 0 \in Done
  BY DEF Windows
<1>2. ASSUME NEW k \in Nat, k \in Done PROVE k + 1 \in Done
  <2> SUFFICES ASSUME k + 1 <= n PROVE f[k + 1] = g[k + 1]
    OBVIOUS
  <2>1. k + 1 \in 0 .. n /\ k + 1 # 0 /\ (k + 1) - 1 = k /\ k <= n
    OBVIOUS
  <2>2. /\ f[k + 1] = f[k] + values[k + 1] - Leaves(values, k + 1, period)
        /\ g[k + 1] = g[k] + values[k + 1] - Leaves(values, k + 1, period)
    BY <2>1 DEF Windows
  <2> QED BY <1>2, <2>1, <2>2
<1> HIDE DEF Done
<1>3. n \in Done
  BY <1>1, <1>2, Inductive
<1> QED BY <1>3 DEF Done

LEMMA SmaIsMean ==
  ASSUME NEW values \in Seq(Int), NEW period \in Nat \ {0}, period <= Len(values)
  PROVE  SmaSeries(values, period)[Len(values)]
           = Total(SubSeq(values, Len(values) - period + 1, Len(values))) \div period
<1> PICK n \in Nat : n = Len(values)
  OBVIOUS
<1>1. PICK sum : Totals(sum, n, values)
  BY TotalsExist
<1> DEFINE Recursion(g) ==
             g = [i \in 0 .. Len(values) |->
                    IF i = 0 THEN 0
                      ELSE g[i - 1] + values[i]
                             - (IF i > period THEN values[i - period] ELSE 0)]
           window == CHOOSE g : Recursion(g)
           known == [i \in 0 .. n |-> sum[i] - (IF i > period THEN sum[i - period] ELSE 0)]
<1>2. Windows(known, n, values, period)
  BY <1>1, WindowsExist
<1>3. Recursion(known)
  <2>1. known = [i \in 0 .. n |-> known[i]]
    OBVIOUS
  <2>2. \A i \in 0 .. n : known[i] = IF i = 0 THEN 0
                     ELSE known[i - 1] + values[i]
                            - (IF i > period THEN values[i - period] ELSE 0)
    BY <1>2, Zenon DEF Windows, Leaves
  <2> HIDE DEF known
  <2> QED BY <2>1, <2>2, Zenon
<1>4. known[n] = Total(SubSeq(values, n - period + 1, n))
  <2>1. /\ Total(SubSeq(values, n - period + 1, n)) = sum[n] - sum[n - period]
        /\ sum[n] \in Int /\ sum[n - period] \in Int
    <3>1. period \in Nat
      OBVIOUS
    <3>2. Stretch(values, n, period, sum)
      BY <1>1, <3>1, TotalOfStretch
    <3> QED BY <3>2 DEF Stretch
  <2>2. ~(n > period) => sum[n - period] = 0
    <3>1. ~(n > period) => n - period = 0
      OBVIOUS
    <3>2. sum[0] = 0
      BY <1>1 DEF Totals
    <3> QED BY <3>1, <3>2
  <2> QED BY <2>1, <2>2
<1> HIDE DEF known
<1>5. Recursion(window)
  BY <1>3, Zenon
<1>6. Windows(window, n, values, period)
  <2> HIDE DEF window
  <2> QED BY <1>5, Zenon DEF Windows, Leaves
<1>7. window[n] = known[n]
  BY <1>2, <1>6, WindowsAgree
<1>8. SmaSeries(values, period) =
        [i \in DOMAIN values |-> IF i < period THEN 0 ELSE window[i] \div period]
  BY Zenon DEF SmaSeries
<1> HIDE DEF window
<1>9. SmaSeries(values, period)[n] = window[n] \div period
  <2>1. n \in DOMAIN values /\ ~(n < period)
    OBVIOUS
  <2> QED BY <1>8, <2>1
<1> QED BY <1>4, <1>7, <1>9

(* The spread about a value m.                                              *)
Spread(d, s, x, m) ==
  /\ Total(d) + 2 * (m * Total(x)) = Total(s) + Len(x) * (m * m)
  /\ Total(d) \in Int /\ Total(x) \in Int /\ Total(s) \in Int

LEMMA SquaresSpread ==
  ASSUME NEW x \in Seq(Int), NEW m \in Int, NEW d, NEW s,
         d = [j \in 1 .. Len(x) |-> (x[j] - m) * (x[j] - m)],
         s = [j \in DOMAIN x |-> x[j] * x[j]]
  PROVE  Spread(d, s, x, m)
<1> PICK n \in Nat : n = Len(x)
  OBVIOUS
<1>1. d = [j \in 1 .. n |-> (x[j] - m) * (x[j] - m)] /\ s = [j \in 1 .. n |-> x[j] * x[j]]
  OBVIOUS
<1>2. \A j \in 1 .. n : x[j] \in Int /\ d[j] \in Int /\ s[j] \in Int
  <2>1. \A a \in Int : (a - m) * (a - m) \in Int /\ a * a \in Int
    BY SMT
  <2> QED BY <1>1, <2>1
<1>3. Len(d) = n /\ Len(s) = n
  BY <1>1
<1>4. PICK dd : Totals(dd, n, d) /\ Total(d) = dd[n]
  BY <1>3, TotalIsLastTotal
<1>5. PICK ss : Totals(ss, n, s) /\ Total(s) = ss[n]
  BY <1>3, TotalIsLastTotal
<1>6. PICK xx : Totals(xx, n, x) /\ Total(x) = xx[n]
  BY TotalIsLastTotal
<1>7. \A i \in 0 .. n : dd[i] \in Int /\ ss[i] \in Int /\ xx[i] \in Int
  BY <1>2, <1>4, <1>5, <1>6, TotalsAreInt
<1> DEFINE Good(k) == dd[k] + 2 * (m * xx[k]) = ss[k] + k * (m * m)
           Done == {k \in Nat : k <= n => Good(k)}
<1>8. 0 \in Done
  <2>1. dd[0] = 0 /\ ss[0] = 0 /\ xx[0] = 0
    <3>1. 0 \in 0 .. n
      OBVIOUS
    <3> QED BY <1>4, <1>5, <1>6, <3>1 DEF Totals
  <2>2. m * 0 = 0 /\ 0 * (m * m) = 0
    BY SMT
  <2> QED BY <2>1, <2>2
<1>9. ASSUME NEW k \in Nat, k \in Done PROVE k + 1 \in Done
  <2> SUFFICES ASSUME k + 1 <= n PROVE Good(k + 1)
    OBVIOUS
  <2>1. k + 1 \in 0 .. n /\ k + 1 \in 1 .. n /\ k + 1 # 0 /\ (k + 1) - 1 = k /\ k \in 0 .. n
    OBVIOUS
  <2>2. /\ dd[k + 1] = dd[k] + d[k + 1] /\ ss[k + 1] = ss[k] + s[k + 1]
        /\ xx[k + 1] = xx[k] + x[k + 1]
    BY <1>4, <1>5, <1>6, <2>1 DEF Totals
  <2> PICK a \in Int : a = x[k + 1]
    BY <1>2, <2>1
  <2>3. d[k + 1] = (a - m) * (a - m) /\ s[k + 1] = a * a
    BY <1>1, <2>1
  <2>4. dd[k] \in Int /\ ss[k] \in Int /\ xx[k] \in Int
    BY <1>7, <2>1
  <2>5. Good(k)
    BY <1>9, <2>1
  <2> PICK mm \in Int, aa \in Int, ma \in Int : mm = m * m /\ aa = a * a /\ ma = m * a
    <3>1. m * m \in Int /\ a * a \in Int /\ m * a \in Int
      BY ONLY m \in Int, a \in Int, SMT
    <3> QED BY ONLY <3>1, Zenon
  <2>6. (a - m) * (a - m) = aa - 2 * ma + mm
    BY ONLY m \in Int, a \in Int, mm = m * m, aa = a * a, ma = m * a, SMT
  <2> PICK px \in Int, km \in Int : px = m * xx[k] /\ km = k * mm
    <3>1. m * xx[k] \in Int /\ k * mm \in Int
      BY ONLY <2>4, m \in Int, k \in Nat, mm \in Int, SMT
    <3> QED BY ONLY <3>1, Zenon
  <2>7. m * xx[k + 1] = px + ma
    <3> PICK p \in Int : p = xx[k]
      BY ONLY <2>4, Zenon
    <3>1. m * (p + a) = m * p + m * a
      BY ONLY m \in Int, p \in Int, a \in Int, SMT
    <3> QED BY ONLY <2>2, <3>1, p = xx[k], a = x[k + 1], px = m * xx[k], ma = m * a, Zenon
  <2>8. (k + 1) * (m * m) = km + mm
    BY ONLY k \in Nat, mm \in Int, mm = m * m, km = k * mm, SMT
  <2>9. dd[k] + 2 * px = ss[k] + km
    BY ONLY <2>5, px = m * xx[k], km = k * mm, mm = m * m
  <2>10. dd[k + 1] = dd[k] + (aa - 2 * ma + mm) /\ ss[k + 1] = ss[k] + aa
    BY ONLY <2>2, <2>3, <2>6, aa = a * a
  <2>11. dd[k + 1] + 2 * (px + ma) = ss[k + 1] + (km + mm)
    <3> PICK D \in Int, S \in Int : D = dd[k] /\ S = ss[k]
      BY ONLY <2>4, Zenon
    <3>1. D + 2 * px = S + km
      BY ONLY <2>9, D = dd[k], S = ss[k]
    <3>2. (D + (aa - 2 * ma + mm)) + 2 * (px + ma) = (S + aa) + (km + mm)
      BY ONLY <3>1, D \in Int, S \in Int, px \in Int, km \in Int, aa \in Int, ma \in Int,
              mm \in Int
    <3> QED BY ONLY <2>10, <3>2, D = dd[k], S = ss[k]
  <2> QED BY ONLY <2>7, <2>8, <2>11
<1> HIDE DEF Done
<1>10. Good(n)
  <2>1. n \in Done
    BY <1>8, <1>9, Inductive
  <2> QED BY <2>1 DEF Done
<1>11. n \in 0 .. n
  OBVIOUS
<1> QED BY <1>4, <1>5, <1>6, <1>7, <1>10, <1>11 DEF Spread

(* The bands: m is the window's mean, and the squared width its spread.     *)
Banded(v, period, s) == period * (v.variance + v.middle * v.middle) = Total(s)

LEMMA BandsAreSpread ==
  ASSUME NEW values \in Seq(Int), NEW unit, NEW period \in Nat \ {0},
         NEW x, NEW s, NEW v,
         period <= Len(values), Whole(unit, period * period), unit \in Nat,
         \A i \in 1 .. Len(values) : Whole(values[i], unit),
         x = SubSeq(values, Len(values) - period + 1, Len(values)),
         s = [j \in DOMAIN x |-> x[j] * x[j]],
         v = Latest(BollingerBands(values, period))
  PROVE  Banded(v, period, s)
<1> PICK n \in Nat : n = Len(values)
  OBVIOUS
<1> PICK m : m = SmaSeries(values, period)[n]
  OBVIOUS
<1> DEFINE d == [j \in 1 .. period |-> (x[j] - m) * (x[j] - m)]
<1>1. x \in Seq(Int) /\ Len(x) = period /\ \A j \in 1 .. period : x[j] = values[n - period + j]
  OBVIOUS
<1>2. Whole(unit, period)
  <2>1. period \in Int
    OBVIOUS
  <2> QED BY <2>1, WholesOfWholes
<1>3. \A j \in 1 .. period : Whole(x[j], period) /\ Whole(x[j], period * period)
  <2> TAKE j \in 1 .. period
  <2>1. n - period + j \in 1 .. n /\ x[j] = values[n - period + j]
    BY <1>1
  <2>2. PICK k \in Int : x[j] = unit * k
    BY <2>1 DEF Whole
  <2>3. period \in Int /\ period * period \in Int
    BY SMT
  <2> QED BY <1>2, <2>2, <2>3, WholesScale
<1>4. Whole(Total(x), period * period)
  <2>1. period * period \in Int
    BY SMT
  <2> QED BY <1>1, <1>3, <2>1, TotalOfWholes
<1>5. Whole(m, period) /\ Total(x) = period * m /\ m \in Int
  <2>1. m = Total(x) \div period
    BY SmaIsMean
  <2>2. period \in Int
    OBVIOUS
  <2>3. Whole(Total(x) \div period, period) /\ Total(x) = period * (Total(x) \div period)
    BY <1>4, <2>2, WholesDivide
  <2>4. Total(x) \div period \in Int
    BY <2>2, <2>3, SMT DEF Whole
  <2> QED BY <2>1, <2>3, <2>4
<1>6. ASSUME NEW j \in 1 .. period PROVE Whole(d[j], period)
  <2>1. Whole(x[j], period) /\ period \in Int /\ d[j] = (x[j] - m) * (x[j] - m)
    BY <1>3
  <2>2. PICK k \in Int, l \in Int : x[j] = period * k /\ m = period * l
    BY <1>5, <2>1 DEF Whole
  <2>3. x[j] - m = period * (k - l) /\ k - l \in Int
    BY ONLY <2>1, <2>2, SMT
  <2>4. (k - l) * (x[j] - m) \in Int
    BY ONLY <2>1, <2>3, SMT
  <2>5. d[j] = period * ((k - l) * (x[j] - m))
    BY ONLY <2>1, <2>3, SMT
  <2> QED BY <2>4, <2>5 DEF Whole
<1>7. Len(d) = period
  OBVIOUS
<1> HIDE DEF d
<1>8. Total(d) = period * (Total(d) \div period) /\ Total(d) \div period \in Int
  <2>1. period \in Int /\ 1 \in Int /\ period * 1 = period
    OBVIOUS
  <2>2. Whole(Total(d), period * 1)
    BY <1>6, <1>7, <2>1, TotalOfWholes
  <2>3. Total(d) = period * (Total(d) \div period) /\ Whole(Total(d) \div period, 1)
    BY <2>2, WholesDivide
  <2> QED BY <2>3, SMT DEF Whole
<1>9. v.middle = m /\ v.variance = Total(d) \div period
  <2> DEFINE band(i) ==
        [middle |-> SmaSeries(values, period)[i],
         variance |-> Mean([j \in 1 .. period |->
                              (values[i - period + j] - SmaSeries(values, period)[i])
                                * (values[i - period + j] - SmaSeries(values, period)[i])])]
  <2>1. BollingerBands(values, period) =
          [i \in DOMAIN values |-> IF i < period THEN [middle |-> 0, variance |-> 0] ELSE band(i)]
    BY Zenon DEF BollingerBands
  <2> HIDE DEF band
  <2>2. v = band(n)
    <3>1. Len(BollingerBands(values, period)) = n
      BY <2>1
    <3>2. n \in DOMAIN values /\ ~(n < period)
      OBVIOUS
    <3> QED BY <2>1, <3>1, <3>2 DEF Latest
  <2>3. d = [j \in 1 .. period |-> (values[n - period + j] - SmaSeries(values, period)[n])
                                * (values[n - period + j] - SmaSeries(values, period)[n])]
    BY <1>1, Zenon DEF d
  <2>4. v.middle = m /\ v.variance = Mean(d)
    BY <2>2, <2>3 DEF band
  <2> QED BY <1>7, <2>4 DEF Mean
<1>10. /\ Total(d) + 2 * (m * Total(x)) = Total(s) + period * (m * m)
       /\ Total(d) \in Int /\ Total(x) \in Int /\ Total(s) \in Int
  <2>1. d = [j \in 1 .. Len(x) |-> (x[j] - m) * (x[j] - m)]
    BY <1>1 DEF d
  <2>2. Spread(d, s, x, m)
    BY <1>1, <1>5, <2>1, SquaresSpread
  <2> QED BY <1>1, <2>2 DEF Spread
<1> PICK q \in Int, mm \in Int : q = Total(d) \div period /\ mm = m * m
  <2>1. Total(d) \div period \in Int /\ m * m \in Int
    BY <1>5, <1>8, SMT
  <2> QED BY ONLY <2>1, Zenon
<1>11. m * Total(x) = period * mm
  BY ONLY <1>5, mm = m * m, period \in Nat \ {0}, SMT
<1>12. period * (q + mm) = period * q + period * mm /\ period * mm \in Int
  BY ONLY period \in Nat \ {0}, q \in Int, mm \in Int, SMT
<1>13. Total(s) = period * q + period * mm
  <2>1. ASSUME NEW D \in Int, NEW S \in Int, NEW P \in Int, D + 2 * P = S + P PROVE S = D + P
    BY ONLY <2>1
  <2>2. Total(d) + 2 * (period * mm) = Total(s) + period * mm
    BY ONLY <1>10, <1>11, mm = m * m
  <2>3. Total(d) = period * q
    BY ONLY <1>8, q = Total(d) \div period
  <2> QED BY ONLY <1>10, <1>12, <2>1, <2>2, <2>3
<1> QED BY <1>9, <1>12, <1>13 DEF Banded

(* The true range: as far as the candle and the close before it reach.      *)
LEMMA RangeReaches ==
  ASSUME NEW h \in Int, NEW l \in Int, NEW c \in Int, NEW u \in Nat, l <= h
  PROVE  Larger(h * u - l * u, Larger(Distance(h * u, c * u), Distance(l * u, c * u)))
           = (Larger(h, c) - (IF l < c THEN l ELSE c)) * u
<1>1. ASSUME NEW a \in Int, NEW b \in Int
      PROVE  a * u \in Int /\ (a <= b => a * u <= b * u) /\ (a - b) * u = a * u - b * u
  <2>1. a * u \in Int /\ b * u \in Int /\ (a - b) * u = a * u - b * u
    BY SMT
  <2>2. ASSUME a <= b PROVE a * u <= b * u
    <3>1. PICK k \in Nat : b = a + k
      <4>1. b - a \in Nat /\ b = a + (b - a)
        BY <2>2
      <4> QED BY <4>1
    <3>2. b * u = a * u + k * u /\ k * u \in Nat
      BY <3>1, SMT
    <3> QED BY <2>1, <3>2
  <2> QED BY <2>1, <2>2
<1> PICK H \in Int, L \in Int, C \in Int : H = h * u /\ L = l * u /\ C = c * u
  <2>1. h * u \in Int /\ l * u \in Int /\ c * u \in Int
    BY <1>1
  <2> QED BY ONLY <2>1, Zenon
<1>2. L <= H /\ (h <= c => H <= C) /\ (c <= h => C <= H) /\ (l <= c => L <= C) /\ (c <= l => C <= L)
  BY <1>1
<1>3. (h - l) * u = H - L /\ (h - c) * u = H - C /\ (c - l) * u = C - L /\ (c - c) * u = C - C
  BY <1>1
<1>4. Larger(H - L, Larger(Distance(H, C), Distance(L, C)))
        = Larger(H, C) - (IF L < C THEN L ELSE C)
  BY ONLY H \in Int, L \in Int, C \in Int, <1>2 DEF Larger, Distance
<1>5. CASE h < c /\ l < c
  <2>1. Larger(h, c) = c /\ (IF l < c THEN l ELSE c) = l
    BY <1>5 DEF Larger
  <2>2. Larger(H, C) = C /\ (IF L < C THEN L ELSE C) = L
    BY <1>2, <1>5 DEF Larger
  <2> QED BY <1>3, <1>4, <2>1, <2>2
<1>6. CASE ~(h < c) /\ l < c
  <2>1. Larger(h, c) = h /\ (IF l < c THEN l ELSE c) = l
    BY <1>6 DEF Larger
  <2>2. Larger(H, C) = H /\ (IF L < C THEN L ELSE C) = L
    BY <1>2, <1>6 DEF Larger
  <2> QED BY <1>3, <1>4, <2>1, <2>2
<1>7. CASE ~(h < c) /\ ~(l < c)
  <2>1. Larger(h, c) = h /\ (IF l < c THEN l ELSE c) = c
    BY <1>7 DEF Larger
  <2>2. Larger(H, C) = H /\ (IF L < C THEN L ELSE C) = C
    BY <1>2, <1>7 DEF Larger
  <2> QED BY <1>3, <1>4, <2>1, <2>2
<1> QED BY <1>5, <1>6, <1>7

(* The prices of candles are whole units.                                   *)
Prices(candles) ==
  \A i \in 1 .. Len(candles) :
    /\ candles[i].low \in Int /\ candles[i].close \in Int /\ candles[i].high \in Int
    /\ candles[i].low <= candles[i].high

Ranges(candles) == [i \in DOMAIN candles |-> TrueRange(candles, i)]

LEMMA PricesAreWhole ==
  ASSUME NEW Candles, NEW candles \in Seq(Candles), Unit \in Nat, Prices(candles)
  PROVE  /\ Closes(candles) \in Seq(Int) /\ Len(Closes(candles)) = Len(candles)
         /\ Ranges(candles) \in Seq(Int) /\ Len(Ranges(candles)) = Len(candles)
         /\ \A i \in 1 .. Len(candles) :
              Whole(Closes(candles)[i], Unit) /\ Whole(Ranges(candles)[i], Unit)
<1> PICK n \in Nat : n = Len(candles) /\ DOMAIN candles = 1 .. n
  OBVIOUS
<1>1. ASSUME NEW x \in Int PROVE Whole(x * Unit, Unit) /\ x * Unit \in Int
  <2>1. x * Unit = Unit * x /\ x * Unit \in Int
    BY SMT
  <2> QED BY <2>1 DEF Whole
<1>2. ASSUME NEW i \in 1 .. n
      PROVE  /\ candles[i].close * Unit \in Int /\ Whole(candles[i].close * Unit, Unit)
             /\ TrueRange(candles, i) \in Int /\ Whole(TrueRange(candles, i), Unit)
  <2>1. candles[i].low \in Int /\ candles[i].close \in Int /\ candles[i].high \in Int
    BY DEF Prices
  <2> DEFINE from == IF i = 1 THEN candles[i].low ELSE candles[i - 1].close
             low  == IF candles[i].low < from THEN candles[i].low ELSE from
  <2>2. from \in Int
    <3>1. i # 1 => i - 1 \in 1 .. n
      OBVIOUS
    <3> QED BY <2>1, <3>1 DEF Prices
  <2>3. Larger(candles[i].high, from) - low \in Int
    BY <2>1, <2>2 DEF Larger
  <2>4. TrueRange(candles, i) = (Larger(candles[i].high, from) - low) * Unit
    BY Zenon DEF TrueRange
  <2> HIDE DEF from, low
  <2> QED BY <1>1, <2>1, <2>3, <2>4
<1>3. Closes(candles) = [i \in 1 .. n |-> candles[i].close * Unit]
  BY Zenon DEF Closes
<1>4. Ranges(candles) = [i \in 1 .. n |-> TrueRange(candles, i)]
  BY Zenon DEF Ranges
<1>5. Closes(candles) \in Seq(Int) /\ Len(Closes(candles)) = n
  BY ONLY <1>2, <1>3, n \in Nat
<1>6. Ranges(candles) \in Seq(Int) /\ Len(Ranges(candles)) = n
  BY ONLY <1>2, <1>4, n \in Nat
<1>7. \A i \in 1 .. n : Whole(Closes(candles)[i], Unit) /\ Whole(Ranges(candles)[i], Unit)
  BY <1>2, <1>3, <1>4
<1> QED BY <1>5, <1>6, <1>7

LEMMA AtrSmoothsRanges ==
  ASSUME NEW Candles, NEW candles \in Seq(Candles), NEW period, Unit \in Nat, Prices(candles)
  PROVE  AtrSeries(Highs(candles), Lows(candles), Closes(candles), period)
           = Smoothed(Ranges(candles), period, 1, period)
<1> PICK n \in Nat : n = Len(candles) /\ DOMAIN candles = 1 .. n
  OBVIOUS
<1> DEFINE high == Highs(candles)
           low == Lows(candles)
           close == Closes(candles)
           range(i) ==
             IF i = 1 THEN Distance(high[i], low[i])
               ELSE Larger(high[i] - low[i], Larger(Distance(high[i], close[i - 1]),
                                                    Distance(low[i], close[i - 1])))
<1>1. /\ high = [i \in 1 .. n |-> candles[i].high * Unit]
      /\ low = [i \in 1 .. n |-> candles[i].low * Unit]
      /\ close = [i \in 1 .. n |-> candles[i].close * Unit]
  BY Zenon DEF Highs, Lows, Closes
<1>2. ASSUME NEW i \in 1 .. n PROVE range(i) = TrueRange(candles, i)
  <2> PICK h \in Int, l \in Int : h = candles[i].high /\ l = candles[i].low /\ l <= h
    BY DEF Prices
  <2>1. high[i] = h * Unit /\ low[i] = l * Unit
    BY <1>1
  <2>2. CASE i = 1
    <3>1. Larger(h * Unit - l * Unit, Larger(Distance(h * Unit, l * Unit), Distance(l * Unit, l * Unit)))
           = (Larger(h, l) - (IF l < l THEN l ELSE l)) * Unit
      BY ONLY h \in Int, l \in Int, l <= h, Unit \in Nat, RangeReaches
    <3>2. ASSUME NEW H \in Int, NEW L \in Int
          PROVE  Larger(H - L, Larger(Distance(H, L), Distance(L, L))) = Distance(H, L)
      BY DEF Larger, Distance
    <3>3. h * Unit \in Int /\ l * Unit \in Int
      BY SMT
    <3>4. range(i) = Distance(h * Unit, l * Unit)
      BY <2>1, <2>2, Zenon
    <3>5. TrueRange(candles, i) = (Larger(h, l) - (IF l < l THEN l ELSE l)) * Unit
      BY <2>2, Zenon DEF TrueRange
    <3> QED BY <3>1, <3>2, <3>3, <3>4, <3>5
  <2>3. CASE i # 1
    <3>1. i - 1 \in 1 .. n
      BY <2>3
    <3> PICK c \in Int : c = candles[i - 1].close
      BY <3>1 DEF Prices
    <3>2. close[i - 1] = c * Unit
      BY <1>1, <3>1
    <3>3. Larger(h * Unit - l * Unit, Larger(Distance(h * Unit, c * Unit), Distance(l * Unit, c * Unit)))
           = (Larger(h, c) - (IF l < c THEN l ELSE c)) * Unit
      BY ONLY h \in Int, l \in Int, c \in Int, l <= h, Unit \in Nat, RangeReaches
    <3>4. range(i) = Larger(h * Unit - l * Unit,
                            Larger(Distance(h * Unit, c * Unit), Distance(l * Unit, c * Unit)))
      BY <2>1, <2>3, <3>2, Zenon
    <3>5. TrueRange(candles, i) = (Larger(h, c) - (IF l < c THEN l ELSE c)) * Unit
      BY <2>3, Zenon DEF TrueRange
    <3> QED BY <3>3, <3>4, <3>5
  <2> QED BY <2>2, <2>3
<1>3. AtrSeries(high, low, close, period)
        = Smoothed([i \in DOMAIN close |-> range(i)], period, 1, period)
  BY Zenon DEF AtrSeries
<1>4. DOMAIN close = 1 .. n
  BY <1>1
<1> HIDE DEF range, high, low, close
<1>5. [i \in DOMAIN close |-> range(i)] = Ranges(candles)
  BY <1>2, <1>4, Zenon DEF Ranges
<1> QED BY <1>3, <1>5, Zenon DEF high, low, close

(* The unit is fine enough: no division of an average leaves a rest in a    *)
(* file of MaxRows rows.                                                    *)
FineUnit(period, num, den) ==
  \E part, common, weight, step :
    /\ Fraction(num, den, common, weight, step)
    /\ Fine(part, Unit, period, step, MaxRows - period + 1)

NoRoundingInAverages ==
  /\ FineUnit(EmaPeriod, 2, EmaPeriod + 1) /\ FineUnit(AtrPeriod, 1, AtrPeriod)
  /\ Whole(Unit, SmaPeriod) /\ Whole(Unit, BollPeriod * BollPeriod)

LEMMA FineIsWeighted ==
  ASSUME NEW values \in Seq(Int), NEW period \in Nat \ {0}, NEW num, NEW den,
         FineUnit(period, num, den), MaxRows - period \in Nat, MaxRows \in Nat,
         period <= Len(values), Len(values) <= MaxRows,
         \A i \in 1 .. Len(values) : Whole(values[i], Unit)
  PROVE  Weighted(Latest(Smoothed(values, period, num, den)), values, period, num, den)
<1> PICK part, common, weight, step :
      /\ Fraction(num, den, common, weight, step)
      /\ Fine(part, Unit, period, step, MaxRows - period + 1)
  BY DEF FineUnit
<1> PICK times \in Nat : times = MaxRows - period + 1
  OBVIOUS
<1>1. Fine(part, Unit, period, step, times) /\ Len(values) - period + 1 <= times
  OBVIOUS
<1> QED BY <1>1, SmoothedIsWeighted

(* What the four averages of n candles promise.                             *)
Averaging(candles) ==
  LET now == Signals(candles)
      close == Closes(candles)
      range == [i \in DOMAIN candles |-> TrueRange(candles, i)]
      last(k) == SubSeq(close, Len(candles) - k + 1, Len(candles))
  IN /\ \A v \in now.sma : v * SmaPeriod = Total(last(SmaPeriod))
     /\ \A v \in now.ema : Weighted(v, close, EmaPeriod, 2, EmaPeriod + 1)
     /\ \A v \in now.atr : Weighted(v, range, AtrPeriod, 1, AtrPeriod)
     /\ \A v \in now.boll :
          LET window == last(BollPeriod)
              squares == [j \in DOMAIN window |-> window[j] * window[j]]
          IN BollPeriod * (v.variance + v.middle * v.middle) = Total(squares)

(* indicators.go smaSeries, emaSeries, atrSeries, bollingerBands: for every *)
(* file, a running window sum never drifts from its window, and a smoothed  *)
(* value is its seed and each later value at its weight.  The candles of a  *)
(* market have no low above their high.                                     *)
THEOREM AveragesAreSums ==
  ASSUME SmaPeriod \in Nat \ {0}, EmaPeriod \in Nat \ {0}, AtrPeriod \in Nat \ {0},
         BollPeriod \in Nat \ {0}, MaxRows \in Nat,
         MaxRows - EmaPeriod \in Nat, MaxRows - AtrPeriod \in Nat,
         Unit \in Nat, NoRoundingInAverages,
         \A row \in Rows : /\ row.low \in Int /\ row.close \in Int /\ row.high \in Int
                           /\ row.low <= row.high
  PROVE  Spec => []AveragesAreWeighted
<1> DEFINE Loaded == rows \in Seq(Rows) /\ Len(rows) <= MaxRows
<1>1. Init => Loaded
  BY DEF Init
<1>2. Loaded /\ [Next]_vars => Loaded'
  BY SMT DEF Next, vars, Load, Begin, Buy, BuyForNothing, Sell, Hold, Liquidate
<1>3. Loaded => AveragesAreWeighted
  <2> SUFFICES ASSUME Loaded PROVE Averaging(rows)
    BY Zenon DEF AveragesAreWeighted, Averaging
  <2> PICK n \in Nat : n = Len(rows) /\ DOMAIN rows = 1 .. n /\ n <= MaxRows
    OBVIOUS
  <2> DEFINE close == Closes(rows)
             range == Ranges(rows)
             last(k) == SubSeq(close, n - k + 1, n)
  <2>1. Prices(rows)
    BY SMT DEF Prices
  <2>2. /\ close \in Seq(Int) /\ Len(close) = n /\ range \in Seq(Int) /\ Len(range) = n
        /\ \A i \in 1 .. n : Whole(close[i], Unit) /\ Whole(range[i], Unit)
    BY <2>1, PricesAreWhole
  <2>3. Smoothed(range, AtrPeriod, 1, AtrPeriod)
          = AtrSeries(Highs(rows), Lows(rows), close, AtrPeriod)
    BY <2>1, AtrSmoothsRanges
  <2> HIDE DEF close, range
  <2>4. ASSUME NEW v \in ComputeSMA(close, SmaPeriod)
        PROVE  v * SmaPeriod = Total(last(SmaPeriod))
    <3>1. v = Latest(SmaSeries(close, SmaPeriod)) /\ SmaPeriod <= n
      BY <2>2 DEF ComputeSMA, Given
    <3>2. Len(SmaSeries(close, SmaPeriod)) = n
      <4>1. DOMAIN SmaSeries(close, SmaPeriod) = DOMAIN close
        BY Zenon DEF SmaSeries
      <4>2. DOMAIN SmaSeries(close, SmaPeriod) = 1 .. n
        BY <2>2, <4>1
      <4> QED BY <4>2
    <3>3. v = Total(last(SmaPeriod)) \div SmaPeriod
      <4>1. SmaSeries(close, SmaPeriod)[n] = Total(last(SmaPeriod)) \div SmaPeriod
        BY <2>2, <3>1, SmaIsMean
      <4> QED BY <3>1, <3>2, <4>1 DEF Latest
    <3>4. Whole(Total(last(SmaPeriod)), SmaPeriod * 1)
      <4>1. Len(last(SmaPeriod)) = SmaPeriod
            /\ \A j \in 1 .. SmaPeriod : last(SmaPeriod)[j] = close[n - SmaPeriod + j]
        <5> PICK p \in Nat : p = SmaPeriod
          OBVIOUS
        <5> PICK u : u = SubSeq(close, n - p + 1, n)
          OBVIOUS
        <5>1. close \in Seq(Int) /\ n = Len(close) /\ p <= n
          BY <2>2, <3>1
        <5>2. Len(u) = p /\ \A j \in 1 .. p : u[j] = close[n - p + j]
          BY ONLY <5>1, p \in Nat, u = SubSeq(close, n - p + 1, n), LastValues
        <5>3. last(SmaPeriod) = u
          OBVIOUS
        <5> HIDE DEF last
        <5> QED BY ONLY <5>2, <5>3, p = SmaPeriod, Zenon
      <4>2. ASSUME NEW j \in 1 .. SmaPeriod PROVE Whole(last(SmaPeriod)[j], SmaPeriod)
        <5>1. n - SmaPeriod + j \in 1 .. n
          BY <3>1
        <5>2. PICK k \in Int : last(SmaPeriod)[j] = Unit * k
          BY <2>2, <4>1, <5>1 DEF Whole
        <5>3. Whole(Unit, SmaPeriod) /\ SmaPeriod \in Int
          BY DEF NoRoundingInAverages
        <5> QED BY <5>2, <5>3, WholesScale
      <4>3. SmaPeriod \in Int /\ SmaPeriod * 1 = SmaPeriod
        OBVIOUS
      <4> HIDE DEF last
      <4> QED BY <4>1, <4>2, <4>3, TotalOfWholes
    <3>5. Whole(v, 1) /\ Total(last(SmaPeriod)) = SmaPeriod * v
      <4>1. 1 \in Int
        OBVIOUS
      <4> QED BY <3>3, <3>4, <4>1, WholesDivide
    <3> HIDE DEF last
    <3> QED BY <3>5, SMT DEF Whole
  <2>5. ASSUME NEW v \in ComputeEMA(close, EmaPeriod)
        PROVE  Weighted(v, close, EmaPeriod, 2, EmaPeriod + 1)
    <3>1. v = Latest(Smoothed(close, EmaPeriod, 2, EmaPeriod + 1)) /\ EmaPeriod <= n
      BY <2>2 DEF ComputeEMA, Given, EmaSeries
    <3>2. FineUnit(EmaPeriod, 2, EmaPeriod + 1)
      BY DEF NoRoundingInAverages
    <3> QED BY <2>2, <3>1, <3>2, FineIsWeighted
  <2>6. ASSUME NEW v \in ComputeATR(Highs(rows), Lows(rows), close, AtrPeriod)
        PROVE  Weighted(v, range, AtrPeriod, 1, AtrPeriod)
    <3>1. v = Latest(Smoothed(range, AtrPeriod, 1, AtrPeriod)) /\ AtrPeriod <= n
      BY <2>2, <2>3 DEF ComputeATR, Given
    <3>2. FineUnit(AtrPeriod, 1, AtrPeriod)
      BY DEF NoRoundingInAverages
    <3> QED BY <2>2, <3>1, <3>2, FineIsWeighted
  <2>7. ASSUME NEW v \in ComputeBollinger(close, BollPeriod), NEW squares,
               squares = [j \in DOMAIN last(BollPeriod) |->
                            last(BollPeriod)[j] * last(BollPeriod)[j]]
        PROVE  BollPeriod * (v.variance + v.middle * v.middle) = Total(squares)
    <3>1. v = Latest(BollingerBands(close, BollPeriod)) /\ BollPeriod <= n
      BY <2>2 DEF ComputeBollinger, Given
    <3>2. Whole(Unit, BollPeriod * BollPeriod)
      BY DEF NoRoundingInAverages
    <3> PICK x : x = last(BollPeriod)
      OBVIOUS
    <3>3. squares = [j \in DOMAIN x |-> x[j] * x[j]]
      BY <2>7
    <3>4. x = SubSeq(close, Len(close) - BollPeriod + 1, Len(close))
      BY <2>2
    <3> HIDE DEF last
    <3>5. Banded(v, BollPeriod, squares)
      BY <2>2, <3>1, <3>2, <3>3, <3>4, BandsAreSpread
    <3> QED BY <3>5 DEF Banded
  <2>8. /\ Signals(rows).sma = ComputeSMA(close, SmaPeriod)
        /\ Signals(rows).ema = ComputeEMA(close, EmaPeriod)
        /\ Signals(rows).atr = ComputeATR(Highs(rows), Lows(rows), close, AtrPeriod)
        /\ Signals(rows).boll = ComputeBollinger(close, BollPeriod)
    BY DEF Signals, close
  <2> QED BY <2>4, <2>5, <2>6, <2>7, <2>8, Zenon DEF Averaging, close, range, Ranges
<1> QED BY <1>1, <1>2, <1>3, PTL DEF Spec

-------------------------------------------------------------------------------
(***************************************************************************)
(* The RSI is the share of the gains: its two averages are the weighted    *)
(* sums of all gains and of all losses, in the same proportion.            *)
(***************************************************************************)

LEMMA TotalScales ==
  ASSUME NEW u \in Seq(Int), NEW v \in Seq(Int), NEW c \in Int,
         Len(v) = Len(u), \A i \in 1 .. Len(u) : v[i] = c * u[i]
  PROVE  Total(u) \in Int /\ Total(v) = c * Total(u)
<1> PICK w \in Seq(Int) :
      Len(w) = Len(v) + 1 /\ w[Len(w)] = 0 /\ \A i \in 1 .. Len(v) : w[i] = v[i]
  <2> PICK w : w = Append(v, 0)
    OBVIOUS
  <2>1. /\ w \in Seq(Int) /\ Len(w) = Len(v) + 1 /\ w[Len(w)] = 0
        /\ \A i \in 1 .. Len(v) : w[i] = v[i]
    BY ONLY v \in Seq(Int), w = Append(v, 0)
  <2> QED BY ONLY <2>1
<1>1. Len(w) = Len(u) + 1 /\ w[Len(w)] = 0 /\ \A i \in 1 .. Len(u) : w[i] = v[i]
  BY Zenon
<1>2. Extends(w, u, c)
  BY ONLY <1>1, \A i \in 1 .. Len(u) : v[i] = c * u[i], Zenon DEF Extends
<1>3. TotalExtends(w, u, c)
  BY <1>2, TotalStep
<1>4. Extends(w, v, 1)
  <2>1. \A i \in 1 .. Len(v) : w[i] = 1 * v[i]
    BY ONLY v \in Seq(Int), \A i \in 1 .. Len(v) : w[i] = v[i]
  <2> QED BY <2>1, Zenon DEF Extends
<1>5. TotalExtends(w, v, 1)
  <2>1. 1 \in Int
    OBVIOUS
  <2> QED BY ONLY <1>4, <2>1, w \in Seq(Int), v \in Seq(Int), TotalStep
<1>6. /\ Total(u) \in Int /\ Total(w) = c * Total(u) + 0
      /\ Total(v) \in Int /\ Total(w) = 1 * Total(v) + 0
  BY ONLY <1>1, <1>3, <1>5, Zenon DEF TotalExtends
<1> PICK x \in Int, y \in Int : x = Total(u) /\ y = Total(v)
  BY ONLY <1>6, Zenon
<1>7. c * x + 0 = 1 * y + 0
  BY ONLY <1>6, x = Total(u), y = Total(v), Zenon
<1>8. c * x \in Int
  BY SMT
<1>9. y = c * x
  BY ONLY <1>7, <1>8, y \in Int, SMT
<1> QED BY ONLY <1>6, <1>9, x = Total(u), y = Total(v), Zenon

LEMMA TotalIsNat ==
  ASSUME NEW values, Len(values) \in Nat, \A i \in 1 .. Len(values) : values[i] \in Nat
  PROVE  Total(values) \in Nat
<1> PICK n \in Nat : n = Len(values)
  OBVIOUS
<1>1. PICK sum : Totals(sum, n, values) /\ Total(values) = sum[n]
  BY TotalIsLastTotal
<1> DEFINE Done == {k \in Nat : k <= n => sum[k] \in Nat}
<1>2. 0 \in Done
  BY <1>1 DEF Totals
<1>3. ASSUME NEW k \in Nat, k \in Done PROVE k + 1 \in Done
  <2> SUFFICES ASSUME k + 1 <= n PROVE sum[k + 1] \in Nat
    OBVIOUS
  <2>1. k + 1 \in 0 .. n /\ k + 1 # 0 /\ (k + 1) - 1 = k /\ k + 1 \in 1 .. n
    OBVIOUS
  <2>2. sum[k + 1] = sum[k] + values[k + 1]
    BY <1>1, <2>1 DEF Totals
  <2> QED BY <1>3, <2>1, <2>2
<1> HIDE DEF Done
<1>4. n \in Done
  BY <1>2, <1>3, Inductive
<1> QED BY <1>1, <1>4 DEF Done

(* The terms of the sum are c times as much as those of the plain values.   *)
Scaled(values, plain, c) == values = [i \in 1 .. Len(plain) |-> c * plain[i]]

LEMMA TermsScale ==
  ASSUME NEW plain \in Seq(Int), NEW values \in Seq(Int), NEW c \in Int, NEW period \in Nat,
         NEW num \in Int, NEW den \in Int, NEW late \in Nat, period + late = Len(plain),
         Scaled(values, plain, c), Len(values) = Len(plain)
  PROVE  /\ Total(Terms(plain, period, num, den, late)) \in Int
         /\ Total(Terms(values, period, num, den, late)) =
              c * Total(Terms(plain, period, num, den, late))
<1> DEFINE u == Terms(plain, period, num, den, late)
           v == Terms(values, period, num, den, late)
<1>1. u \in Seq(Int) /\ Len(u) = late /\ v \in Seq(Int) /\ Len(v) = late
  BY TermsAreInt
<1>2. ASSUME NEW j \in 1 .. late PROVE v[j] = c * u[j]
  <2>1. /\ late - j \in Nat /\ j - 1 \in Nat /\ den - num \in Int
        /\ period + j \in 1 .. Len(plain)
    OBVIOUS
  <2>2. Power(den - num, late - j) \in Int /\ Power(den, j - 1) \in Int
    BY <2>1, PowerStep
  <2> PICK w : w = num * Power(den - num, late - j) * Power(den, j - 1)
    OBVIOUS
  <2>3. w \in Int
    <3>1. num * Power(den - num, late - j) \in Int
      BY ONLY <2>2, num \in Int, SMT
    <3> QED BY ONLY <2>2, <3>1, w = num * Power(den - num, late - j) * Power(den, j - 1), SMT
  <2> PICK x \in Int : x = plain[period + j]
    BY <2>1
  <2>4. values[period + j] = c * x
    BY <2>1, Zenon DEF Scaled
  <2>5. u[j] = x * w /\ v[j] = (c * x) * w
    BY <2>4, Zenon DEF Terms
  <2>6. (c * x) * w = c * (x * w)
    BY ONLY <2>3, c \in Int, x \in Int, SMT
  <2> QED BY ONLY <2>5, <2>6, Zenon
<1> HIDE DEF u, v
<1>3. Len(v) = Len(u) /\ \A j \in 1 .. Len(u) : v[j] = c * u[j]
  BY ONLY <1>1, <1>2
<1>4. Total(u) \in Int /\ Total(v) = c * Total(u)
  BY ONLY <1>1, <1>3, c \in Int, TotalScales
<1> QED BY <1>4 DEF u, v

LEMMA SumScales ==
  ASSUME NEW plain \in Seq(Int), NEW values \in Seq(Int), NEW c \in Int, NEW period \in Nat,
         NEW num \in Int, NEW den \in Int, period <= Len(plain),
         Scaled(values, plain, c), Len(values) = Len(plain)
  PROVE  /\ WeightedSum(plain, period, num, den) \in Int
         /\ WeightedSum(values, period, num, den) = c * WeightedSum(plain, period, num, den)
<1> PICK late \in Nat : late = Len(plain) - period
  BY ONLY plain \in Seq(Int), period \in Nat, period <= Len(plain)
<1> PICK S : S = SubSeq(plain, 1, period)
  OBVIOUS
<1> PICK T : T = SubSeq(values, 1, period)
  OBVIOUS
<1>1. /\ S \in Seq(Int) /\ Len(S) = period /\ T \in Seq(Int) /\ Len(T) = period
      /\ \A i \in 1 .. period : S[i] = plain[i] /\ T[i] = values[i] /\ i \in 1 .. Len(plain)
  BY ONLY plain \in Seq(Int), values \in Seq(Int), period \in Nat, period <= Len(plain),
          Len(values) = Len(plain), S = SubSeq(plain, 1, period), T = SubSeq(values, 1, period)
<1>2. \A i \in 1 .. Len(S) : T[i] = c * S[i]
  BY <1>1, Zenon DEF Scaled
<1>3. Total(S) \in Int /\ Total(T) = c * Total(S)
  <2>1. Len(T) = Len(S)
    BY <1>1, Zenon
  <2> QED BY ONLY <1>1, <1>2, <2>1, c \in Int, TotalScales
<1>4. /\ Total(Terms(plain, period, num, den, late)) \in Int
      /\ Total(Terms(values, period, num, den, late)) =
           c * Total(Terms(plain, period, num, den, late))
  <2>1. period + late = Len(plain)
    OBVIOUS
  <2> QED BY <2>1, TermsScale
<1>5. Power(den - num, late) \in Int
  <2>1. den - num \in Int
    OBVIOUS
  <2> QED BY <2>1, PowerStep
<1> PICK s \in Int, q \in Int, m \in Int :
      s = Total(S) /\ q = Power(den - num, late) /\ m = Total(Terms(plain, period, num, den, late))
  BY ONLY <1>3, <1>4, <1>5, Zenon
<1>6. /\ WeightedSum(plain, period, num, den) = s * q + period * m
      /\ WeightedSum(values, period, num, den) = (c * s) * q + period * (c * m)
  <2>1. late = Len(values) - period
    OBVIOUS
  <2> QED BY <1>3, <1>4, <2>1, Zenon DEF WeightedSum, Terms
<1>7. s * q \in Int /\ period * m \in Int
  BY SMT
<1>8. (c * s) * q = c * (s * q) /\ period * (c * m) = c * (period * m)
  BY SMT
<1>9. c * (s * q) + c * (period * m) = c * (s * q + period * m)
  BY ONLY <1>7, c \in Int, SMT
<1>10. s * q + period * m \in Int
  BY ONLY <1>7, SMT
<1> QED BY ONLY <1>6, <1>8, <1>9, <1>10

(* An average of values that are not negative is not negative.              *)
LEMMA ExactIsNat ==
  ASSUME NEW values \in Seq(Int), NEW period \in Nat \ {0}, NEW avg,
         Exactly(avg, values, period, 1, period), period <= Len(values),
         \A i \in 1 .. Len(values) : values[i] \in Nat
  PROVE  avg[Len(values)] \in Nat
<1> PICK n \in Nat : n = Len(values)
  OBVIOUS
<1>0. ASSUME NEW a \in Int, a * period \in Nat PROVE a \in Nat
  BY <1>0, SMT
<1> DEFINE Done == {j \in Nat : period + j <= n => avg[period + j] \in Nat}
<1>1. 0 \in Done
  <2> PICK first : first = SubSeq(values, 1, period)
    OBVIOUS
  <2>1. Len(first) = period /\ \A i \in 1 .. period : first[i] \in Nat
    OBVIOUS
  <2>2. Total(first) \in Nat
    BY <2>1, TotalIsNat
  <2>3. period \in period .. n
    OBVIOUS
  <2>4. avg[period] \in Int /\ avg[period] * period = Total(first)
    BY <2>3 DEF Exactly
  <2>5. avg[period] \in Nat
    BY <1>0, <2>2, <2>4
  <2> QED BY <2>5
<1>2. ASSUME NEW j \in Nat, j \in Done PROVE j + 1 \in Done
  <2> SUFFICES ASSUME period + (j + 1) <= n PROVE avg[period + (j + 1)] \in Nat
    OBVIOUS
  <2>1. /\ period + (j + 1) \in period + 1 .. n /\ period + (j + 1) \in period .. n
        /\ (period + (j + 1)) - 1 = period + j /\ period + (j + 1) \in 1 .. n
    OBVIOUS
  <2> PICK a \in Nat : a = avg[period + j]
    BY <1>2
  <2> PICK b \in Int : b = avg[period + (j + 1)]
    BY <2>1 DEF Exactly
  <2> PICK x \in Nat : x = values[period + (j + 1)]
    BY <2>1
  <2>2. b * period = x * 1 + a * (period - 1)
    BY <2>1, Zenon DEF Exactly
  <2>3. a * (period - 1) \in Nat
    <3>1. period - 1 \in Nat
      OBVIOUS
    <3> QED BY ONLY <3>1, a \in Nat, SMT
  <2>4. b * period \in Nat
    BY ONLY <2>2, <2>3, x \in Nat, SMT
  <2> QED BY <1>0, <2>4
<1> HIDE DEF Done
<1>3. n - period \in Nat /\ period + (n - period) = n
  OBVIOUS
<1>4. n - period \in Done
  BY <1>1, <1>2, <1>3, Inductive
<1> QED BY <1>3, <1>4 DEF Done

(* The newest of the averages that rsiSeries takes. *)
Averaged(changes, period) == Smoothed(changes, period, 1, period)[Len(changes)]

Gains(values)  == [i \in 1 .. Len(values) - 1 |-> Larger(values[i + 1] - values[i], 0)]
Losses(values) == [i \in 1 .. Len(values) - 1 |-> Larger(values[i] - values[i + 1], 0)]

LEMMA RsiIsStrength ==
  ASSUME NEW values \in Seq(Int), NEW period \in Nat \ {0},
         NEW v \in ComputeRSI(values, period)
  PROVE  /\ Len(values) >= period + 1
         /\ v = Strength(Averaged(Gains(values), period), Averaged(Losses(values), period))
<1> DEFINE n == Len(values)
           gains == Gains(values)
           losses == Losses(values)
           gain == Smoothed(gains, period, 1, period)
           loss == Smoothed(losses, period, 1, period)
           series == [i \in DOMAIN values |->
                        IF i <= period THEN [num |-> 0, den |-> 1]
                          ELSE Strength(gain[i - 1], loss[i - 1])]
<1>1. RsiSeries(values, period) = series
  BY Zenon DEF RsiSeries, Gains, Losses
<1>2. n >= period + 1 /\ v = Latest(RsiSeries(values, period))
  <2> HIDE DEF series
  <2> QED BY DEF ComputeRSI, Given
<1>3. n \in Nat /\ n \in 1 .. n /\ DOMAIN values = 1 .. n /\ ~(n <= period)
  BY <1>2
<1>4. Len(gains) = n - 1 /\ Len(losses) = n - 1
  BY <1>3 DEF Gains, Losses
<1> HIDE DEF n, gains, losses, gain, loss
<1>5. Len(series) = n
  BY <1>3
<1>6. series[n] = Strength(gain[n - 1], loss[n - 1])
  BY <1>3
<1> HIDE DEF series
<1>7. v = Strength(gain[n - 1], loss[n - 1])
  BY <1>1, <1>2, <1>5, <1>6 DEF Latest
<1> QED BY <1>2, <1>4, <1>7 DEF n, gain, loss, gains, losses, Averaged

(* The unit can be divided by the period that often without a rest.         *)
Divides(part, times) == Fine(part, Unit, RsiPeriod, RsiPeriod, times)

(* An average of changes, in proportion to their weighted sum.              *)
InProportion(average, changes, factor) ==
  /\ average \in Nat /\ WeightedSum(changes, RsiPeriod, 1, RsiPeriod) \in Int
  /\ average * factor = Unit * WeightedSum(changes, RsiPeriod, 1, RsiPeriod)

Factor(changes) == RsiPeriod * Power(RsiPeriod, Len(changes) - RsiPeriod)

LEMMA AverageIsShare ==
  ASSUME RsiPeriod \in Nat \ {0}, Unit \in Nat,
         NEW changes \in Seq(Int), NEW values \in Seq(Int), NEW part, NEW times \in Nat,
         Divides(part, times), RsiPeriod <= Len(changes), Len(changes) - RsiPeriod + 1 <= times,
         \A i \in 1 .. Len(changes) : changes[i] \in Nat,
         Scaled(values, changes, Unit), Len(values) = Len(changes)
  PROVE  InProportion(Averaged(values, RsiPeriod), changes, Factor(changes))
<1> PICK p \in Nat \ {0} : p = RsiPeriod
  OBVIOUS
<1> PICK n \in Nat : n = Len(values) /\ n = Len(changes)
  OBVIOUS
<1>1. Fraction(1, p, 1, 1, p)
  BY DEF Fraction
<1>2. \A i \in 1 .. Len(values) : Whole(values[i], Unit) /\ values[i] \in Nat
  <2> SUFFICES ASSUME NEW i \in 1 .. n PROVE Whole(values[i], Unit) /\ values[i] \in Nat
    OBVIOUS
  <2>1. values[i] = Unit * changes[i] /\ changes[i] \in Nat
    BY DEF Scaled
  <2>2. Unit * changes[i] \in Nat /\ changes[i] \in Int
    BY <2>1, SMT
  <2> QED BY <2>1, <2>2, Zenon DEF Whole
<1>3. PICK avg : Follows(avg, values, p, 1, p)
  <2>1. Len(values) \in Nat /\ p \in Nat
    OBVIOUS
  <2> QED BY <2>1, SmoothedIsAverage, Zenon
<1>4. Exactly(avg, values, p, 1, p)
  <2>1. Averages(avg, Len(values), values, p, 1, p)
    BY <1>3 DEF Follows
  <2>2. Fine(part, Unit, p, p, times)
    BY DEF Divides
  <2>3. p <= Len(values) /\ Len(values) - p + 1 <= times
    OBVIOUS
  <2> QED BY <1>1, <1>2, <2>1, <2>2, <2>3, AverageIsExact
<1>5. Weighted(avg[n], values, p, 1, p)
  <2>1. p \in Int /\ 1 \in Int /\ p <= Len(values)
    OBVIOUS
  <2> QED BY <1>4, <2>1, ExactIsWeighted
<1>6. avg[n] \in Nat
  BY <1>2, <1>4, ExactIsNat
<1>7. Averaged(values, p) = avg[n]
  <2>1. n \in 1 .. n /\ ~(n < p) /\ DOMAIN values = 1 .. n
    OBVIOUS
  <2> QED BY <1>3, <2>1 DEF Averaged, Follows
<1>8. /\ WeightedSum(changes, p, 1, p) \in Int
      /\ WeightedSum(values, p, 1, p) = Unit * WeightedSum(changes, p, 1, p)
  <2>1. p \in Nat /\ p \in Int /\ 1 \in Int /\ p <= Len(changes) /\ Unit \in Int
    OBVIOUS
  <2> QED BY <2>1, SumScales
<1>9. avg[n] * p * Power(p, n - p) = Unit * WeightedSum(changes, p, 1, p)
  BY <1>5, <1>8, Zenon DEF Weighted
<1>10. avg[n] * p * Power(p, n - p) = avg[n] * (p * Power(p, n - p))
  <2>1. Power(p, n - p) \in Int
    <3>1. n - p \in Nat /\ p \in Int
      OBVIOUS
    <3> QED BY <3>1, PowerStep
  <2> PICK q \in Int : q = Power(p, n - p)
    BY <2>1
  <2> QED BY ONLY <1>6, p \in Nat \ {0}, q \in Int, q = Power(p, n - p), SMT
<1> QED BY <1>6, <1>7, <1>8, <1>9, <1>10 DEF InProportion, Factor

(* A share of the averages is the share of the sums.                        *)
Shares(v, gained, lost) ==
  /\ v.den > 0
  /\ IF lost = 0 THEN v.num = v.den ELSE v.num * (gained + lost) = v.den * gained

LEMMA StrengthIsShare ==
  ASSUME NEW gain \in Nat, NEW loss \in Nat, NEW gained \in Int, NEW lost \in Int,
         NEW unit \in Nat \ {0}, NEW factor \in Nat \ {0}, NEW v,
         gain * factor = unit * gained, loss * factor = unit * lost, v = Strength(gain, loss)
  PROVE  Shares(v, gained, lost)
<1>1. loss = 0 <=> lost = 0
  BY SMT
<1>2. CASE loss = 0
  BY <1>1, <1>2 DEF Strength, Shares
<1>3. CASE loss # 0
  <2>1. v.num = gain /\ v.den = gain + loss /\ gain + loss > 0
    BY <1>3 DEF Strength
  <2>2. gain * (unit * lost) = loss * (unit * gained)
    <3>1. gain * (loss * factor) = loss * (gain * factor)
      BY ONLY gain \in Nat, loss \in Nat, factor \in Nat \ {0}, SMT
    <3> QED BY <3>1
  <2>3. unit * (gain * lost) = unit * (loss * gained)
    <3>1. /\ gain * (unit * lost) = unit * (gain * lost)
          /\ loss * (unit * gained) = unit * (loss * gained)
      BY ONLY gain \in Nat, loss \in Nat, gained \in Int, lost \in Int, unit \in Nat \ {0}, SMT
    <3> QED BY ONLY <2>2, <3>1
  <2>4. gain * lost = loss * gained
    <3> PICK x \in Int, y \in Int : x = gain * lost /\ y = loss * gained
      BY SMT
    <3>1. unit * x = unit * y
      BY <2>3
    <3>2. x = y
      BY ONLY <3>1, x \in Int, y \in Int, unit \in Nat \ {0}, SMT
    <3> QED BY <3>2
  <2>5. gain * (gained + lost) = gain * gained + gain * lost
    BY ONLY gain \in Nat, gained \in Int, lost \in Int, SMT
  <2>6. (gain + loss) * gained = gain * gained + loss * gained
    BY ONLY gain \in Nat, loss \in Nat, gained \in Int, SMT
  <2>7. gain * (gained + lost) = (gain + loss) * gained
    BY ONLY <2>4, <2>5, <2>6
  <2> QED BY <1>1, <1>3, <2>1, <2>7 DEF Shares
<1> QED BY <1>2, <1>3

(* What rose and what fell, in units.                                       *)
LEMMA ChangeInUnits ==
  ASSUME NEW a \in Int, NEW b \in Int, NEW unit \in Nat
  PROVE  /\ Larger(a - b, 0) \in Nat
         /\ Larger(a * unit - b * unit, 0) = unit * Larger(a - b, 0)
<1>1. a * unit \in Int /\ b * unit \in Int
  BY SMT
<1>2. CASE a >= b
  <2>1. a - b \in Nat /\ unit * (a - b) = a * unit - b * unit
    BY <1>2, SMT
  <2>2. unit * (a - b) \in Nat
    BY <2>1, SMT
  <2>3. Larger(a * unit - b * unit, 0) = unit * (a - b) /\ Larger(a - b, 0) = a - b
    BY <1>1, <2>1, <2>2, SMT DEF Larger
  <2> QED BY <2>1, <2>3
<1>3. CASE b > a
  <2>1. b - a \in Nat /\ unit * (b - a) = b * unit - a * unit
    BY <1>3, SMT
  <2>2. unit * (b - a) \in Nat
    BY <2>1, SMT
  <2>3. Larger(a * unit - b * unit, 0) = 0 /\ Larger(a - b, 0) = 0
    BY <1>1, <1>3, <2>1, <2>2, SMT DEF Larger
  <2>4. 0 = unit * 0
    BY SMT
  <2> QED BY <2>3, <2>4
<1> QED BY <1>2, <1>3

InUnits(values, prices, unit) == values = [i \in 1 .. Len(prices) |-> prices[i] * unit]

LEMMA MovesInUnits ==
  ASSUME NEW prices \in Seq(Int), NEW values, NEW unit \in Nat, Len(prices) >= 1,
         InUnits(values, prices, unit)
  PROVE  /\ values \in Seq(Int) /\ Len(values) = Len(prices)
         /\ Gains(prices) \in Seq(Int) /\ Losses(prices) \in Seq(Int)
         /\ Gains(values) \in Seq(Int) /\ Losses(values) \in Seq(Int)
         /\ Len(Gains(prices)) = Len(prices) - 1 /\ Len(Losses(prices)) = Len(prices) - 1
         /\ Len(Gains(values)) = Len(prices) - 1 /\ Len(Losses(values)) = Len(prices) - 1
         /\ \A i \in 1 .. Len(prices) - 1 : Gains(prices)[i] \in Nat /\ Losses(prices)[i] \in Nat
         /\ Scaled(Gains(values), Gains(prices), unit)
         /\ Scaled(Losses(values), Losses(prices), unit)
<1> PICK n \in Nat : n = Len(prices) - 1 /\ Len(prices) = n + 1
  BY ONLY prices \in Seq(Int), Len(prices) >= 1
<1>1. values \in Seq(Int) /\ Len(values) = n + 1
  <2>1. \A i \in 1 .. n + 1 : prices[i] * unit \in Int
    BY SMT
  <2>2. values = [i \in 1 .. n + 1 |-> prices[i] * unit]
    BY DEF InUnits
  <2> QED BY ONLY <2>1, <2>2, n \in Nat
<1> DEFINE rise(i) == Larger(prices[i + 1] - prices[i], 0)
           fall(i) == Larger(prices[i] - prices[i + 1], 0)
<1>2. ASSUME NEW i \in 1 .. n
      PROVE  /\ rise(i) \in Nat /\ Larger(values[i + 1] - values[i], 0) = unit * rise(i)
             /\ fall(i) \in Nat /\ Larger(values[i] - values[i + 1], 0) = unit * fall(i)
  <2>1. i \in 1 .. Len(prices) /\ i + 1 \in 1 .. Len(prices)
    OBVIOUS
  <2> PICK a \in Int, b \in Int : a = prices[i + 1] /\ b = prices[i]
    BY <2>1
  <2>2. values[i + 1] = a * unit /\ values[i] = b * unit
    BY <2>1, Zenon DEF InUnits
  <2>3. /\ Larger(a - b, 0) \in Nat /\ Larger(a * unit - b * unit, 0) = unit * Larger(a - b, 0)
        /\ Larger(b - a, 0) \in Nat /\ Larger(b * unit - a * unit, 0) = unit * Larger(b - a, 0)
    BY ChangeInUnits
  <2> QED BY ONLY <2>2, <2>3, a = prices[i + 1], b = prices[i]
<1>3. /\ Gains(prices) = [i \in 1 .. n |-> rise(i)]
      /\ Losses(prices) = [i \in 1 .. n |-> fall(i)]
  BY Zenon DEF Gains, Losses
<1>4. /\ Gains(values) = [i \in 1 .. n |-> unit * rise(i)]
      /\ Losses(values) = [i \in 1 .. n |-> unit * fall(i)]
  <2>1. Len(values) - 1 = n
    BY <1>1
  <2>2. /\ Gains(values) = [i \in 1 .. n |-> Larger(values[i + 1] - values[i], 0)]
        /\ Losses(values) = [i \in 1 .. n |-> Larger(values[i] - values[i + 1], 0)]
    BY ONLY <2>1, Zenon DEF Gains, Losses
  <2> HIDE DEF rise, fall
  <2> QED BY ONLY <1>2, <2>2, Zenon
<1>5. \A i \in 1 .. n : /\ rise(i) \in Nat /\ unit * rise(i) \in Int
                        /\ fall(i) \in Nat /\ unit * fall(i) \in Int
  BY <1>2, SMT
<1> HIDE DEF rise, fall
<1>6. /\ Gains(prices) \in Seq(Int) /\ Losses(prices) \in Seq(Int)
      /\ Len(Gains(prices)) = n /\ Len(Losses(prices)) = n
  BY ONLY <1>3, <1>5, n \in Nat
<1>7. /\ Gains(values) \in Seq(Int) /\ Losses(values) \in Seq(Int)
      /\ Len(Gains(values)) = n /\ Len(Losses(values)) = n
  BY ONLY <1>4, <1>5, n \in Nat
<1>8. \A i \in 1 .. n : /\ Gains(prices)[i] = rise(i) /\ Losses(prices)[i] = fall(i)
                        /\ Gains(prices)[i] \in Nat /\ Losses(prices)[i] \in Nat
  BY <1>3, <1>5
<1>9. /\ Scaled(Gains(values), Gains(prices), unit)
      /\ Scaled(Losses(values), Losses(prices), unit)
  BY ONLY <1>4, <1>6, <1>8, Zenon DEF Scaled
<1> QED BY ONLY <1>1, <1>6, <1>7, <1>8, <1>9, n = Len(prices) - 1, Len(prices) = n + 1, Zenon

LEMMA PowerIsPositive ==
  ASSUME NEW base \in Nat \ {0}, NEW n \in Nat
  PROVE  Power(base, n) \in Nat \ {0}
<1> DEFINE Done == {k \in Nat : Power(base, k) \in Nat \ {0}}
<1>0. base \in Int
  OBVIOUS
<1>1. 0 \in Done
  BY <1>0, PowerStep
<1>2. ASSUME NEW k \in Nat, k \in Done PROVE k + 1 \in Done
  <2> PICK q \in Nat \ {0} : q = Power(base, k)
    BY <1>2
  <2>1. Power(base, k + 1) = base * q
    BY <1>0, PowerStep
  <2>2. base * q \in Nat \ {0}
    BY SMT
  <2> QED BY <2>1, <2>2
<1> HIDE DEF Done
<1>3. n \in Done
  BY <1>1, <1>2, Inductive
<1> QED BY <1>3 DEF Done

(* A division by the RSI's period leaves no rest, as often as a file needs. *)
NoRounding == \E part : Divides(part, MaxRows - RsiPeriod)

LEMMA RsiIsShare ==
  ASSUME RsiPeriod \in Nat \ {0}, Unit \in Nat \ {0}, NoRounding, MaxRows - RsiPeriod \in Nat,
         MaxRows \in Nat, NEW prices \in Seq(Int), NEW values, NEW v, Len(prices) <= MaxRows,
         InUnits(values, prices, Unit),
         v \in ComputeRSI(values, RsiPeriod), Len(values) = Len(prices)
  PROVE  Shares(v, WeightedSum(Gains(prices), RsiPeriod, 1, RsiPeriod),
                   WeightedSum(Losses(prices), RsiPeriod, 1, RsiPeriod))
<1> PICK part : Divides(part, MaxRows - RsiPeriod)
  BY DEF NoRounding
<1> PICK times \in Nat : times = MaxRows - RsiPeriod
  OBVIOUS
<1>1. Len(prices) >= RsiPeriod + 1
  BY DEF ComputeRSI, Given
<1>2. Unit \in Nat /\ Len(prices) >= 1
  BY <1>1
<1>3. /\ values \in Seq(Int)
      /\ Gains(prices) \in Seq(Int) /\ Losses(prices) \in Seq(Int)
      /\ Gains(values) \in Seq(Int) /\ Losses(values) \in Seq(Int)
      /\ Len(Gains(prices)) = Len(prices) - 1 /\ Len(Losses(prices)) = Len(prices) - 1
      /\ Len(Gains(values)) = Len(prices) - 1 /\ Len(Losses(values)) = Len(prices) - 1
      /\ \A i \in 1 .. Len(prices) - 1 : Gains(prices)[i] \in Nat /\ Losses(prices)[i] \in Nat
      /\ Scaled(Gains(values), Gains(prices), Unit)
      /\ Scaled(Losses(values), Losses(prices), Unit)
  BY <1>2, MovesInUnits
<1>4. v = Strength(Averaged(Gains(values), RsiPeriod), Averaged(Losses(values), RsiPeriod))
  BY <1>3, RsiIsStrength
<1> PICK factor \in Nat \ {0} :
      factor = Factor(Gains(prices)) /\ factor = Factor(Losses(prices))
  <2>1. Factor(Gains(prices)) = Factor(Losses(prices))
    BY <1>3, Zenon DEF Factor
  <2>2. Len(Gains(prices)) - RsiPeriod \in Nat
    BY <1>1, <1>3
  <2> PICK q \in Nat \ {0} : q = Power(RsiPeriod, Len(Gains(prices)) - RsiPeriod)
    BY <2>2, PowerIsPositive
  <2>3. RsiPeriod * q \in Nat \ {0}
    BY SMT
  <2> QED BY <2>1, <2>3 DEF Factor
<1>5. /\ RsiPeriod <= Len(prices) - 1 /\ Len(prices) - 1 - RsiPeriod + 1 <= times
      /\ Divides(part, times)
  BY <1>1
<1>6. InProportion(Averaged(Gains(values), RsiPeriod), Gains(prices), factor)
  BY <1>2, <1>3, <1>5, AverageIsShare
<1>7. InProportion(Averaged(Losses(values), RsiPeriod), Losses(prices), factor)
  BY <1>2, <1>3, <1>5, AverageIsShare
<1> QED BY <1>4, <1>6, <1>7, StrengthIsShare DEF InProportion

(* indicators.go rsiSeries: for every file, the RSI is the weighted sum of  *)
(* the gains in the weighted sum of all movement.                           *)
THEOREM RsiSharesMovement ==
  ASSUME RsiPeriod \in Nat \ {0}, Unit \in Nat \ {0}, NoRounding,
         MaxRows - RsiPeriod \in Nat, MaxRows \in Nat, \A row \in Rows : row.close \in Int
  PROVE  Spec => []RsiIsShareOfGains
<1> DEFINE Loaded == rows \in Seq(Rows) /\ Len(rows) <= MaxRows
<1>1. Init => Loaded
  BY DEF Init
<1>2. Loaded /\ [Next]_vars => Loaded'
  BY SMT DEF Next, vars, Load, Begin, Buy, BuyForNothing, Sell, Hold, Liquidate
<1>3. Loaded => RsiIsShareOfGains
  <2> SUFFICES ASSUME Loaded, NEW v \in ComputeRSI(Closes(rows), RsiPeriod)
               PROVE  Shares(v,
                        WeightedSum([i \in 1 .. Len(rows) - 1 |->
                                       Larger(rows[i + 1].close - rows[i].close, 0)],
                                    RsiPeriod, 1, RsiPeriod),
                        WeightedSum([i \in 1 .. Len(rows) - 1 |->
                                       Larger(0 - (rows[i + 1].close - rows[i].close), 0)],
                                    RsiPeriod, 1, RsiPeriod))
    BY Zenon DEF RsiIsShareOfGains, Shares
  <2> PICK n \in Nat : n = Len(rows) /\ DOMAIN rows = 1 .. n
    OBVIOUS
  <2> DEFINE prices == [i \in 1 .. n |-> rows[i].close]
  <2>1. \A i \in 1 .. n : rows[i].close \in Int
    BY SMT
  <2>2. prices \in Seq(Int) /\ Len(prices) = n /\ \A i \in 1 .. n : prices[i] = rows[i].close
    BY ONLY <2>1, n \in Nat
  <2>3. InUnits(Closes(rows), prices, Unit)
    BY <2>2, Zenon DEF Closes, InUnits
  <2>4. Len(Closes(rows)) = Len(prices)
    BY <2>2 DEF Closes
  <2> HIDE DEF prices
  <2>5. Gains(prices) = [i \in 1 .. n - 1 |-> Larger(rows[i + 1].close - rows[i].close, 0)]
    <3>1. \A i \in 1 .. n - 1 : i \in 1 .. n /\ i + 1 \in 1 .. n
      OBVIOUS
    <3> QED BY <2>2, <3>1, Zenon DEF Gains
  <2>6. Losses(prices) =
          [i \in 1 .. n - 1 |-> Larger(0 - (rows[i + 1].close - rows[i].close), 0)]
    <3>1. \A i \in 1 .. n - 1 : i \in 1 .. n /\ i + 1 \in 1 .. n
      OBVIOUS
    <3>2. \A i \in 1 .. n - 1 :
            prices[i] - prices[i + 1] = 0 - (rows[i + 1].close - rows[i].close)
      <4>1. \A a, b \in Int : b - a = 0 - (a - b)
        OBVIOUS
      <4> QED BY <2>1, <2>2, <3>1, <4>1
    <3> QED BY <2>2, <3>2, Zenon DEF Losses
  <2>7. Shares(v, WeightedSum(Gains(prices), RsiPeriod, 1, RsiPeriod),
                  WeightedSum(Losses(prices), RsiPeriod, 1, RsiPeriod))
    BY <2>2, <2>3, <2>4, RsiIsShare
  <2> QED BY <2>5, <2>6, <2>7, Zenon
<1> QED BY <1>1, <1>2, <1>3, PTL DEF Spec

-------------------------------------------------------------------------------
(***************************************************************************)
(* A filter gates by what was typed.                                       *)
(***************************************************************************)

(* A recursion over places: base at 0, then one step after the other.       *)
Recurs(f, n, base, step) ==
  f = [i \in 0 .. n |-> IF i = 0 THEN base ELSE step[i][f[i - 1]]]

LEMMA RecursionExists ==
  ASSUME NEW S, NEW base \in S, NEW n \in Nat, NEW step \in [1 .. n -> [S -> S]]
  PROVE  \E f \in [0 .. n -> S] : Recurs(f, n, base, step)
<1> DEFINE Good(f, k) == \A i \in 0 .. k : f[i] = IF i = 0 THEN base ELSE step[i][f[i - 1]]
           Done == {k \in Nat : k <= n => \E f \in [0 .. k -> S] : Good(f, k)}
<1>1. 0 \in Done
  <2> DEFINE f == [i \in 0 .. 0 |-> base]
  <2>1. f \in [0 .. 0 -> S] /\ Good(f, 0)
    OBVIOUS
  <2> HIDE DEF f, Good
  <2> QED BY <2>1
<1>2. ASSUME NEW k \in Nat, k \in Done PROVE k + 1 \in Done
  <2> SUFFICES ASSUME k + 1 <= n PROVE \E f \in [0 .. k + 1 -> S] : Good(f, k + 1)
    OBVIOUS
  <2> PICK g \in [0 .. k -> S] : Good(g, k)
    BY <1>2
  <2> DEFINE last == step[k + 1][g[k]]
             f == [i \in 0 .. k + 1 |-> IF i = k + 1 THEN last ELSE g[i]]
  <2>1. k + 1 \in 1 .. n /\ k \in 0 .. k /\ k + 1 # 0 /\ (k + 1) - 1 = k /\ k # k + 1
    OBVIOUS
  <2>2. last \in S
    <3>1. step[k + 1] \in [S -> S] /\ g[k] \in S
      BY <2>1
    <3> QED BY <3>1
  <2>3. f \in [0 .. k + 1 -> S]
    <3>1. ASSUME NEW i \in 0 .. k + 1, i # k + 1 PROVE i \in 0 .. k
      BY <3>1
    <3> HIDE DEF last
    <3> QED BY <2>2, <3>1
  <2>4. ASSUME NEW i \in 0 .. k + 1
        PROVE  f[i] = IF i = 0 THEN base ELSE step[i][f[i - 1]]
    <3>1. CASE i = k + 1
      <4>1. f[i] = last /\ k \in 0 .. k + 1 /\ f[k] = g[k]
        BY <2>1, <3>1
      <4> HIDE DEF f
      <4> QED BY <2>1, <3>1, <4>1
    <3>2. CASE i # k + 1
      <4>1. i \in 0 .. k /\ (i # 0 => i - 1 \in 0 .. k + 1 /\ i - 1 # k + 1)
        BY <3>2
      <4>2. g[i] = IF i = 0 THEN base ELSE step[i][g[i - 1]]
        BY <4>1
      <4>3. f[i] = g[i] /\ (i # 0 => f[i - 1] = g[i - 1])
        BY <3>2, <4>1
      <4> HIDE DEF f
      <4> QED BY <4>2, <4>3
    <3> QED BY <3>1, <3>2
  <2>5. Good(f, k + 1)
    BY <2>4
  <2> HIDE DEF f, Good
  <2> QED BY <2>3, <2>5
<1> HIDE DEF Done
<1>3. n \in Done
  BY <1>1, <1>2, Inductive
<1> PICK f \in [0 .. n -> S] : Good(f, n)
  BY <1>3 DEF Done
<1>4. f = [i \in 0 .. n |-> f[i]]
  OBVIOUS
<1>5. Recurs(f, n, base, step)
  BY <1>4, Zenon DEF Recurs
<1> QED BY <1>5

Space(typed, i) == i \notin DOMAIN typed \/ typed[i] = " "

EndsAt(typed, i, j) == Space(typed, j + 1) /\ \A k \in i .. j : ~Space(typed, k)

End(typed, i) == CHOOSE j \in i .. Len(typed) : EndsAt(typed, i, j)

(* A word that begins ends.                                                 *)
LEMMA WordEnds ==
  ASSUME NEW T, NEW t \in Seq(T), NEW i \in 1 .. Len(t), ~Space(t, i)
  PROVE  End(t, i) \in i .. Len(t)
<1> DEFINE R == OpToRel(<, Nat)
           B == {j \in Nat : j >= i /\ Space(t, j + 1)}
<1>1. Len(t) \in B
  <2>1. Len(t) + 1 \notin DOMAIN t /\ Len(t) \in Nat /\ Len(t) >= i
    OBVIOUS
  <2> QED BY <2>1 DEF Space
<1>2. IsWellFoundedOn(R, Nat)
  BY NatLessThanWellFounded, Zenon
<1>3. \A x, y \in Nat : x < y => <<x, y>> \in R
  BY Zenon DEF OpToRel
<1>4. B \subseteq Nat /\ B # {}
  BY <1>1
<1> HIDE DEF R, B
<1>5. PICK j \in B : \A k \in B : ~(<<k, j>> \in R)
  BY <1>2, <1>4, WFMin, Zenon
<1>6. j \in Nat /\ j >= i /\ Space(t, j + 1)
  BY <1>5 DEF B
<1>7. \A k \in B : ~(k < j)
  BY <1>3, <1>4, <1>5, <1>6
<1>8. j <= Len(t)
  BY <1>1, <1>6, <1>7
<1>9. ASSUME NEW k \in i .. j PROVE ~Space(t, k)
  <2>1. CASE k = i
    BY <2>1
  <2>2. CASE k # i
    <3>1. k - 1 \in Nat /\ k - 1 >= i /\ (k - 1) + 1 = k /\ k - 1 < j
      BY <1>6, <2>2
    <3>2. k - 1 \notin B
      BY <1>7, <3>1
    <3> QED BY <3>1, <3>2 DEF B
  <2> QED BY <2>1, <2>2
<1>10. EndsAt(t, i, j)
  BY <1>6, <1>9 DEF EndsAt
<1>11. j \in i .. Len(t)
  BY <1>6, <1>8
<1> QED BY <1>10, <1>11 DEF End

(* What is typed is split into words.                                       *)
Splits(fields, t) ==
  fields = [i \in 0 .. Len(t) |->
              IF i = 0 THEN <<>>
              ELSE IF Space(t, i) \/ ~Space(t, i - 1) THEN fields[i - 1]
              ELSE Append(fields[i - 1], SubSeq(t, i, End(t, i)))]

LEMMA FieldsAreWords ==
  ASSUME NEW T, NEW t \in Seq(T)
  PROVE  Fields(t) \in Seq(Seq(T))
<1> PICK n \in Nat : n = Len(t)
  OBVIOUS
<1> DEFINE Texts == Seq(Seq(T))
           step == [i \in 1 .. n |-> [s \in Texts |->
                      IF Space(t, i) \/ ~Space(t, i - 1) THEN s
                      ELSE Append(s, SubSeq(t, i, End(t, i)))]]
           fields == CHOOSE f : Splits(f, t)
<1>1. ASSUME NEW i \in 1 .. n, NEW s \in Texts, ~Space(t, i)
      PROVE  Append(s, SubSeq(t, i, End(t, i))) \in Texts
  <2>1. End(t, i) \in i .. n
    BY <1>1, WordEnds
  <2>2. SubSeq(t, i, End(t, i)) \in Seq(T)
    BY <2>1
  <2> QED BY <2>2
<1>2. step \in [1 .. n -> [Texts -> Texts]]
  BY <1>1
<1>3. <<>> \in Texts
  OBVIOUS
<1>4. PICK f \in [0 .. n -> Texts] : Recurs(f, n, <<>>, step)
  <2> HIDE DEF step, Texts
  <2> QED BY <1>2, <1>3, RecursionExists
<1>5. Splits(f, t)
  <2>1. ASSUME NEW i \in 0 .. n
        PROVE  (IF i = 0 THEN <<>> ELSE step[i][f[i - 1]])
                 = IF i = 0 THEN <<>>
                   ELSE IF Space(t, i) \/ ~Space(t, i - 1) THEN f[i - 1]
                   ELSE Append(f[i - 1], SubSeq(t, i, End(t, i)))
    <3>1. i # 0 => i \in 1 .. n /\ i - 1 \in 0 .. n
      OBVIOUS
    <3>2. i # 0 => f[i - 1] \in Texts
      BY <3>1
    <3> QED BY <3>1, <3>2, Zenon
  <2> HIDE DEF step
  <2> QED BY <1>4, <2>1, Zenon DEF Splits, Recurs
<1>6. Splits(fields, t)
  BY <1>5, Zenon
<1>7. Fields(t) = fields[n]
  BY Zenon DEF Fields, Splits, Space, EndsAt, End
<1> HIDE DEF fields, step
<1> DEFINE Done == {k \in Nat : k <= n => fields[k] \in Texts}
<1>8. 0 \in Done
  <2>1. 0 \in 0 .. Len(t)
    OBVIOUS
  <2>2. fields[0] = <<>>
    BY <1>6, <2>1, Zenon DEF Splits
  <2> QED BY <1>3, <2>2
<1>9. ASSUME NEW k \in Nat, k \in Done PROVE k + 1 \in Done
  <2> SUFFICES ASSUME k + 1 <= n PROVE fields[k + 1] \in Texts
    OBVIOUS
  <2>1. k + 1 \in 0 .. Len(t) /\ k + 1 \in 1 .. n /\ k + 1 # 0 /\ (k + 1) - 1 = k
    OBVIOUS
  <2>2. fields[k + 1] = IF Space(t, k + 1) \/ ~Space(t, (k + 1) - 1) THEN fields[(k + 1) - 1]
                        ELSE Append(fields[(k + 1) - 1], SubSeq(t, k + 1, End(t, k + 1)))
    BY <1>6, <2>1, Zenon DEF Splits
  <2>3. fields[(k + 1) - 1] \in Texts
    BY <1>9, <2>1
  <2> HIDE DEF Texts
  <2> QED BY <1>1, <2>1, <2>2, <2>3, Zenon
<1> HIDE DEF Done
<1>10. n \in Done
  BY <1>8, <1>9, Inductive
<1> QED BY <1>7, <1>10 DEF Done

(* The first place of a token: what SelectInSeq returns.                    *)
Cut(expr, op) == SelectInSeq(expr, LAMBDA t : t = op)

LEMMA CutIsFirst ==
  ASSUME NEW T, NEW expr \in Seq(T), NEW op
  PROVE  /\ Cut(expr, op) \in 0 .. Len(expr)
         /\ Cut(expr, op) = 0 => \A i \in 1 .. Len(expr) : expr[i] # op
         /\ Cut(expr, op) # 0 => /\ expr[Cut(expr, op)] = op
                                 /\ \A i \in 1 .. Cut(expr, op) - 1 : expr[i] # op
<1> DEFINE I == {i \in 1 .. Len(expr) : expr[i] = op}
<1>1. Cut(expr, op) = IF I # {} THEN Min(I) ELSE 0
  BY Zenon DEF Cut, SelectInSeq
<1>2. CASE I = {}
  BY <1>1, <1>2
<1>3. CASE I # {}
  <2>1. \E x \in I : \A y \in I : x <= y
    <3> DEFINE R == OpToRel(<, Nat)
    <3>1. IsWellFoundedOn(R, Nat)
      BY NatLessThanWellFounded, Zenon
    <3>2. \A x, y \in Nat : x < y => <<x, y>> \in R
      BY Zenon DEF OpToRel
    <3>3. I \subseteq Nat
      OBVIOUS
    <3> HIDE DEF R, I
    <3>4. PICK x \in I : \A y \in I : ~(<<y, x>> \in R)
      BY <1>3, <3>1, <3>3, WFMin, Zenon
    <3>5. ASSUME NEW y \in I PROVE x <= y
      <4>1. x \in Nat /\ y \in Nat
        BY <3>3
      <4>2. ~(y < x)
        BY <3>2, <3>4, <4>1, Zenon
      <4> QED BY ONLY <4>1, <4>2
    <3> QED BY <3>5
  <2>2. Min(I) \in I /\ \A y \in I : Min(I) <= y
    <3> HIDE DEF I
    <3> QED BY <2>1, Zenon DEF Min
  <2>3. \A i \in 1 .. Min(I) - 1 : i \notin I
    BY <2>2
  <2>4. Cut(expr, op) = Min(I)
    BY <1>1, <1>3
  <2> HIDE DEF I
  <2>5. Min(I) \in 1 .. Len(expr) /\ expr[Min(I)] = op
    BY <2>2 DEF I
  <2>6. \A i \in 1 .. Min(I) - 1 : expr[i] # op
    <3> TAKE i \in 1 .. Min(I) - 1
    <3>1. i \in 1 .. Len(expr) /\ i \notin I
      BY <2>3, <2>5
    <3> QED BY <3>1 DEF I
  <2> QED BY <2>4, <2>5, <2>6
<1> QED BY <1>2, <1>3

(* What a comparison is read as, if it can be read.                         *)
Reading(expr, op, signals) ==
  Compared(op, SubSeq(expr, 1, Cut(expr, op) - 1),
           SubSeq(expr, Cut(expr, op) + 1, Len(expr)), signals)

LEMMA ReadsOneCut ==
  ASSUME NEW expr, NEW signals
  PROVE  ParseExpression(expr, signals) =
           IF Cut(expr, "<") # 0 THEN Reading(expr, "<", signals)
           ELSE IF Cut(expr, ">") # 0 THEN Reading(expr, ">", signals) ELSE "failed"
BY Zenon DEF ParseExpression, Cut, Reading

(* The comparisons a word may be, and whether one holds.                    *)
Typed(expr, signals) ==
  {c \in Indicators \X {"<", ">"} \X Numerals : expr = c /\ c[1] \in DOMAIN signals}

HoldsOn(c, signals) ==
  /\ ValueOf(c[3]) # NaN
  /\ IF c[2] = "<" THEN signals[c[1]] < ValueOf(c[3]) ELSE signals[c[1]] > ValueOf(c[3])

LEMMA ReadingIsTyped ==
  ASSUME NEW T, NEW expr \in Seq(T), NEW op \in {"<", ">"}, NEW signals,
         DOMAIN signals \subseteq Indicators,
         Cut(expr, op) # 0, Reading(expr, op, signals) # "failed"
  PROVE  Typed(expr, signals) # {}
<1> PICK p : p = Cut(expr, op)
  OBVIOUS
<1> DEFINE lhs == SubSeq(expr, 1, p - 1)
           rhs == SubSeq(expr, p + 1, Len(expr))
<1>1. p \in 1 .. Len(expr) /\ expr[p] = op
  BY CutIsFirst
<1>2. Len(lhs) = p - 1 /\ (p > 1 => lhs[1] = expr[1])
  BY <1>1
<1>3. Len(rhs) = Len(expr) - p /\ (p < Len(expr) => rhs[1] = expr[p + 1])
  BY <1>1
<1>4. Compared(op, lhs, rhs, signals) # "failed"
  BY Zenon DEF Reading
<1> HIDE DEF lhs, rhs
<1>5. Len(rhs) = 1 /\ rhs[1] \in Numerals /\ Len(lhs) = 1 /\ lhs[1] \in DOMAIN signals
  BY <1>4, Zenon DEF Compared
<1>6. p = 2 /\ Len(expr) = 3 /\ expr[1] \in DOMAIN signals /\ expr[3] \in Numerals
  <2> PICK n \in Nat : n = Len(expr)
    OBVIOUS
  <2>1. p - 1 = 1 /\ n - p = 1
    BY ONLY <1>2, <1>3, <1>5, n = Len(expr), Zenon
  <2>2. p = 2 /\ Len(expr) = 3
    <3>1. p \in 1 .. n
      BY <1>1
    <3>2. p = 2 /\ n = 3
      BY ONLY <2>1, <3>1, n \in Nat
    <3> QED BY <3>2
  <2>3. p > 1 /\ p < Len(expr) /\ p + 1 = 3
    BY ONLY <2>2
  <2>4. lhs[1] = expr[1] /\ rhs[1] = expr[3]
    BY <1>2, <1>3, <2>3
  <2> QED BY <1>5, <2>2, <2>4, Zenon
<1>7. expr = <<expr[1], op, expr[3]>>
  <2>1. expr = [i \in 1 .. 3 |-> expr[i]]
    BY <1>6
  <2> QED BY <1>1, <1>6, <2>1
<1>8. <<expr[1], op, expr[3]>> \in Typed(expr, signals)
  <2>1. expr[1] \in Indicators
    BY <1>6
  <2>2. <<expr[1], op, expr[3]>>[1] = expr[1]
    OBVIOUS
  <2>3. <<expr[1], op, expr[3]>> \in Indicators \X {"<", ">"} \X Numerals
    BY <1>6, <2>1
  <2> QED BY <1>6, <1>7, <2>2, <2>3, Zenon DEF Typed
<1> QED BY <1>8

LEMMA TypedIsRead ==
  ASSUME NEW T, NEW expr \in Seq(T), NEW signals,
         \A name \in DOMAIN signals : signals[name] # NaN,
         NEW c \in Typed(expr, signals)
  PROVE  ParseExpression(expr, signals) = IF HoldsOn(c, signals) THEN "allowed" ELSE "blocked"
<1> PICK i \in Indicators, op \in {"<", ">"}, n \in Numerals : c = <<i, op, n>>
  BY DEF Typed
<1>1. expr = <<i, op, n>> /\ i \in DOMAIN signals /\ Len(expr) = 3
  BY DEF Typed
<1>2. expr[1] = i /\ expr[2] = op /\ expr[3] = n
  BY <1>1
<1>3. i # "<" /\ i # ">" /\ n # "<" /\ n # ">"
  BY OperatorsAreNoWords DEF OperatorsAreNoWords
<1>4. Cut(expr, op) = 2
  <2> PICK p : p = Cut(expr, op)
    OBVIOUS
  <2>1. /\ p \in 0 .. Len(expr) /\ (p = 0 => \A k \in 1 .. Len(expr) : expr[k] # op)
        /\ (p # 0 => expr[p] = op)
    BY CutIsFirst
  <2>2. p # 0
    <3>1. 2 \in 1 .. Len(expr)
      BY <1>1
    <3> QED BY <1>2, <2>1, <3>1
  <2>3. p # 1 /\ p # 3
    BY <1>2, <1>3, <2>1
  <2>4. p \in 0 .. 3
    BY <1>1, <2>1
  <2> QED BY <2>2, <2>3, <2>4
<1>5. op = ">" => Cut(expr, "<") = 0
  <2> SUFFICES ASSUME op = ">", Cut(expr, "<") # 0 PROVE FALSE
    OBVIOUS
  <2> PICK p : p = Cut(expr, "<")
    OBVIOUS
  <2>1. p \in 1 .. 3 /\ expr[p] = "<"
    <3>1. Cut(expr, "<") \in 0 .. Len(expr)
      BY CutIsFirst
    <3>2. expr[Cut(expr, "<")] = "<"
      BY CutIsFirst
    <3> QED BY <1>1, <3>1, <3>2
  <2>2. p = 1 \/ p = 2 \/ p = 3
    BY <2>1
  <2> QED BY <1>2, <1>3, <2>1, <2>2
<1>6. ParseExpression(expr, signals) = Reading(expr, op, signals)
  <2>1. CASE op = "<"
    BY <1>4, <2>1, ReadsOneCut
  <2>2. CASE op = ">"
    BY <1>4, <1>5, <2>2, ReadsOneCut
  <2> QED BY <2>1, <2>2
<1>7. /\ Len(SubSeq(expr, 1, 1)) = 1 /\ SubSeq(expr, 1, 1)[1] = i
      /\ Len(SubSeq(expr, 3, Len(expr))) = 1 /\ SubSeq(expr, 3, Len(expr))[1] = n
  BY <1>1, <1>2
<1>8. Reading(expr, op, signals) = Compared(op, SubSeq(expr, 1, 1), SubSeq(expr, 3, Len(expr)), signals)
  <2>1. Cut(expr, op) - 1 = 1 /\ Cut(expr, op) + 1 = 3
    BY <1>4
  <2> QED BY <2>1, Zenon DEF Reading
<1>9. Reading(expr, op, signals) =
        IF Holds(signals[i], op, ValueOf(n)) THEN "allowed" ELSE "blocked"
  BY <1>1, <1>7, <1>8, Zenon DEF Compared
<1>10. HoldsOn(c, signals) <=> Holds(signals[i], op, ValueOf(n))
  <2>1. c[1] = i /\ c[2] = op /\ c[3] = n
    OBVIOUS
  <2> QED BY <1>1, <2>1, Zenon DEF HoldsOn, Holds
<1> QED BY <1>6, <1>9, <1>10, Zenon

LEMMA ExpressionGates ==
  ASSUME NEW T, NEW expr \in Seq(T), NEW signals, DOMAIN signals \subseteq Indicators,
         \A name \in DOMAIN signals : signals[name] # NaN
  PROVE  ParseExpression(expr, signals) =
           IF Typed(expr, signals) = {} THEN "failed"
           ELSE IF \A c \in Typed(expr, signals) : HoldsOn(c, signals) THEN "allowed"
           ELSE "blocked"
<1>1. CASE Typed(expr, signals) = {}
  <2>1. \A op \in {"<", ">"} : Cut(expr, op) # 0 => Reading(expr, op, signals) = "failed"
    BY <1>1, ReadingIsTyped
  <2> QED BY <1>1, <2>1, ReadsOneCut
<1>2. CASE Typed(expr, signals) # {}
  <2> PICK c \in Typed(expr, signals) : TRUE
    BY <1>2
  <2>1. \A d \in Typed(expr, signals) : d = c
    BY DEF Typed
  <2>2. (\A d \in Typed(expr, signals) : HoldsOn(d, signals)) <=> HoldsOn(c, signals)
    BY <2>1, Zenon
  <2>3. ParseExpression(expr, signals) = IF HoldsOn(c, signals) THEN "allowed" ELSE "blocked"
    BY TypedIsRead
  <2> QED BY <1>2, <2>2, <2>3, Zenon
<1> QED BY <1>1, <1>2

Texted == text \in Seq(Tokens)

(* handlers.go handleAutoTrade, main.rs handle_action and filters/mod.rs:   *)
(* whatever is typed and whatever signals there are, a filter lets a trade  *)
(* through or blocks it by the one comparison typed, and fails otherwise.   *)
THEOREM FiltersGateAsTyped == InputsSpec => []GatesOnWhatWasTyped
<1>1. InputsInit => Texted
  BY DEF InputsInit, Texted
<1>2. Texted /\ [GrowReply \/ GrowText \/ Simulate]_inputs => Texted'
  BY SMT DEF Texted, GrowReply, GrowText, Simulate, inputs
<1>3. Texted => GatesOnWhatWasTyped
  <2> SUFFICES ASSUME Texted, NEW service \in Services, NEW filter \in NewFilters(text)
      PROVE  LET word == Fields(text)[1]
                 interval == IF Len(Fields(text)) = 1 THEN <<"1m">> ELSE Fields(text)[2]
                 typed == {c \in Indicators \X {"<", ">"} \X Numerals :
                             word = c /\ interval \in DOMAIN service
                                      /\ c[1] \in DOMAIN service[interval]}
                 holds(c) == LET v == service[interval][c[1]]  t == ValueOf(c[3])
                             IN t # NaN /\ IF c[2] = "<" THEN v < t ELSE v > t
             IN Evaluate(filter, service) =
                  IF typed = {} THEN "failed"
                  ELSE IF \A c \in typed : holds(c) THEN "allowed" ELSE "blocked"
    BY Zenon DEF GatesOnWhatWasTyped
  <2> PICK word, interval : /\ word = Fields(text)[1]
                            /\ interval = IF Len(Fields(text)) = 1 THEN <<"1m">>
                                            ELSE Fields(text)[2]
    OBVIOUS
  <2>1. Fields(text) \in Seq(Seq(Tokens))
    BY FieldsAreWords DEF Texted
  <2>2. Fields(text) # <<>> /\ filter.expression = word /\ filter.interval = interval
    <3>1. /\ Fields(text) # <<>>
          /\ filter = [expression |-> Fields(text)[1],
                       interval |-> IF Len(Fields(text)) > 1 THEN Fields(text)[2] ELSE <<"1m">>]
      BY DEF NewFilters
    <3>2. Len(Fields(text)) > 1 <=> Len(Fields(text)) # 1
      <4> PICK f \in Seq(Seq(Tokens)) : f = Fields(text)
        BY <2>1
      <4>1. Len(f) > 1 <=> Len(f) # 1
        BY <3>1
      <4> QED BY <4>1
    <3> QED BY <3>1, <3>2
  <2>3. word \in Seq(Tokens)
    <3> PICK f \in Seq(Seq(Tokens)) : f = Fields(text)
      BY <2>1
    <3>1. 1 \in 1 .. Len(f)
      BY <2>2
    <3> QED BY <3>1
  <2>4. CASE interval \notin DOMAIN service
    <3>1. Evaluate(filter, service) = "failed"
      BY <2>2, <2>4, Zenon DEF Evaluate
    <3> QED BY <2>4, <3>1, Zenon
  <2>5. CASE interval \in DOMAIN service
    <3>1. Evaluate(filter, service) = ParseExpression(word, service[interval])
      BY <2>2, <2>5, Zenon DEF Evaluate
    <3>2. /\ DOMAIN service[interval] \subseteq Indicators
          /\ \A name \in DOMAIN service[interval] : service[interval][name] # NaN
      BY <2>5, ServicesAnswerNumbers, Zenon DEF ServicesAnswerNumbers
    <3>3. ParseExpression(word, service[interval]) =
            IF Typed(word, service[interval]) = {} THEN "failed"
            ELSE IF \A c \in Typed(word, service[interval]) : HoldsOn(c, service[interval])
              THEN "allowed" ELSE "blocked"
      BY <2>3, <3>2, ExpressionGates
    <3>4. Typed(word, service[interval]) =
            {c \in Indicators \X {"<", ">"} \X Numerals :
               word = c /\ interval \in DOMAIN service /\ c[1] \in DOMAIN service[interval]}
      BY <2>5, Zenon DEF Typed
    <3> QED BY <3>1, <3>3, <3>4, Zenon DEF HoldsOn
  <2> QED BY <2>4, <2>5
<1> QED BY <1>1, <1>2, <1>3, PTL DEF InputsSpec

-------------------------------------------------------------------------------
(***************************************************************************)
(* What is parsed of a reply, in either shape.                             *)
(***************************************************************************)

(* Sequences joined one after the other: what FlattenSeq computes.          *)
Joins(f, n, seqs) == \A i \in 0 .. n : f[i] = IF i = 0 THEN <<>> ELSE f[i - 1] \o seqs[i]

Flattens(g, seqs) ==
  g = [i \in 1 .. Len(seqs) |-> IF i = 1 THEN seqs[i] ELSE g[i - 1] \o seqs[i]]

LEMMA FlattenJoins ==
  ASSUME NEW S, NEW seqs \in Seq(Seq(S)), NEW n \in Nat, n = Len(seqs)
  PROVE  \E f \in [0 .. n -> Seq(S)] : Joins(f, n, seqs) /\ FlattenSeq(seqs) = f[n]
<1> DEFINE step == [i \in 1 .. n |-> [s \in Seq(S) |-> s \o seqs[i]]]
           g == CHOOSE h : Flattens(h, seqs)
<1>0. \A i \in 1 .. n : seqs[i] \in Seq(S)
  OBVIOUS
<1>1. step \in [1 .. n -> [Seq(S) -> Seq(S)]] /\ <<>> \in Seq(S)
  BY <1>0
<1>2. PICK f \in [0 .. n -> Seq(S)] : Recurs(f, n, <<>>, step)
  <2> HIDE DEF step
  <2> QED BY <1>1, RecursionExists
<1>3. Joins(f, n, seqs)
  <2> SUFFICES ASSUME NEW i \in 0 .. n
               PROVE  f[i] = IF i = 0 THEN <<>> ELSE f[i - 1] \o seqs[i]
    BY DEF Joins
  <2>1. f[i] = IF i = 0 THEN <<>> ELSE step[i][f[i - 1]]
    <3> HIDE DEF step
    <3> QED BY <1>2, Zenon DEF Recurs
  <2>2. i # 0 => i \in 1 .. n /\ i - 1 \in 0 .. n
    OBVIOUS
  <2>3. i # 0 => f[i - 1] \in Seq(S)
    BY <2>2
  <2> QED BY <2>1, <2>2, <2>3, Zenon
<1>4. CASE n = 0
  <2>1. seqs = <<>> /\ Len(seqs) = 0 /\ n \in 0 .. n
    <3>1. Len(seqs) = 0 /\ n \in 0 .. n
      BY <1>4
    <3>2. seqs = <<>>
      BY <3>1, EmptySeq
    <3> QED BY <3>1, <3>2
  <2>2. FlattenSeq(seqs) = seqs
    BY <2>1, Zenon DEF FlattenSeq
  <2>3. f[n] = <<>>
    BY <1>3, <1>4, <2>1, Zenon DEF Joins
  <2> QED BY <1>3, <2>1, <2>2, <2>3
<1>5. CASE n # 0
  <2>1. f[1] = seqs[1]
    <3>1. 1 \in 0 .. n /\ 1 \in 1 .. n /\ 0 \in 0 .. n /\ 1 - 1 = 0
      BY <1>5
    <3>2. f[0] = <<>> /\ f[1] = f[0] \o seqs[1]
      BY <1>3, <3>1 DEF Joins
    <3>3. seqs[1] \in Seq(S)
      BY <1>0, <3>1
    <3> QED BY <3>2, <3>3
  <2>2. Flattens([i \in 1 .. n |-> f[i]], seqs)
    <3> DEFINE h == [i \in 1 .. n |-> f[i]]
    <3>1. ASSUME NEW i \in 1 .. n
          PROVE  h[i] = IF i = 1 THEN seqs[i] ELSE h[i - 1] \o seqs[i]
      <4>1. i \in 0 .. n /\ i # 0 /\ (i # 1 => i - 1 \in 1 .. n)
        OBVIOUS
      <4>2. f[i] = f[i - 1] \o seqs[i]
        BY <1>3, <4>1, Zenon DEF Joins
      <4>3. h[i] = f[i] /\ (i # 1 => h[i - 1] = f[i - 1])
        BY <4>1
      <4> HIDE DEF h
      <4> QED BY <2>1, <4>2, <4>3, Zenon
    <3> QED BY <3>1, Zenon DEF Flattens
  <2>3. Flattens(g, seqs)
    BY <2>2, Zenon
  <2>4. FlattenSeq(seqs) = g[n]
    BY <1>5, Zenon DEF FlattenSeq, Flattens
  <2> HIDE DEF g, step
  <2> DEFINE Done == {k \in Nat : k + 1 <= n => g[k + 1] = f[k + 1]}
  <2>5. 0 \in Done
    <3>1. 1 \in 1 .. Len(seqs) /\ 0 + 1 = 1
      BY <1>5
    <3>2. g[1] = seqs[1]
      BY <2>3, <3>1, Zenon DEF Flattens
    <3> QED BY <2>1, <3>1, <3>2
  <2>6. ASSUME NEW k \in Nat, k \in Done PROVE k + 1 \in Done
    <3> SUFFICES ASSUME (k + 1) + 1 <= n PROVE g[(k + 1) + 1] = f[(k + 1) + 1]
      OBVIOUS
    <3>1. /\ (k + 1) + 1 \in 1 .. Len(seqs) /\ (k + 1) + 1 # 1 /\ ((k + 1) + 1) - 1 = k + 1
          /\ (k + 1) + 1 \in 0 .. n /\ (k + 1) + 1 # 0 /\ k + 1 <= n
      OBVIOUS
    <3>2. g[(k + 1) + 1] = g[((k + 1) + 1) - 1] \o seqs[(k + 1) + 1]
      BY <2>3, <3>1, Zenon DEF Flattens
    <3>3. f[(k + 1) + 1] = f[((k + 1) + 1) - 1] \o seqs[(k + 1) + 1]
      BY <1>3, <3>1, Zenon DEF Joins
    <3> QED BY <2>6, <3>1, <3>2, <3>3
  <2> HIDE DEF Done
  <2>7. n - 1 \in Nat /\ (n - 1) + 1 = n
    BY <1>5
  <2>8. n - 1 \in Done
    BY <2>5, <2>6, <2>7, Inductive
  <2>9. g[n] = f[n]
    BY <2>7, <2>8 DEF Done
  <2> QED BY <1>3, <2>4, <2>9
<1> QED BY <1>4, <1>5

(* One sequence, flattened.                                                 *)
LEMMA FlattenOne ==
  ASSUME NEW S, NEW x \in Seq(S), NEW seqs, seqs = [i \in 1 .. 1 |-> x]
  PROVE  FlattenSeq(seqs) = x
<1>1. seqs \in Seq(Seq(S)) /\ Len(seqs) = 1 /\ seqs[1] = x
  OBVIOUS
<1>2. PICK f \in [0 .. 1 -> Seq(S)] : Joins(f, 1, seqs) /\ FlattenSeq(seqs) = f[1]
  <2>1. 1 \in Nat
    OBVIOUS
  <2> QED BY ONLY <1>1, <2>1, FlattenJoins, Zenon
<1>3. 0 \in 0 .. 1 /\ 1 \in 0 .. 1 /\ 1 - 1 = 0 /\ 1 # 0
  OBVIOUS
<1>4. f[0] = <<>> /\ f[1] = f[1 - 1] \o seqs[1]
  BY <1>2, <1>3, Zenon DEF Joins
<1>5. f[1] = <<>> \o x
  BY <1>1, <1>3, <1>4
<1> QED BY <1>2, <1>5

(* The intents among fields, up to a place.                                 *)
Intent == [id : Ids, intent : Words]
Field == Ids \X (Keys \X Words)

IntentOf(field) == [id |-> field[1], intent |-> field[2][2]]

Keeps(kept, n, fields) ==
  \A i \in 0 .. n :
    kept[i] = IF i = 0 THEN <<>>
              ELSE IF ~IsIntent(fields[i][2]) THEN kept[i - 1]
              ELSE Append(kept[i - 1], IntentOf(fields[i]))

Kept(kept, fields) ==
  kept = [i \in 0 .. Len(fields) |->
            IF i = 0 THEN <<>>
            ELSE IF ~IsIntent(fields[i][2]) THEN kept[i - 1]
            ELSE Append(kept[i - 1], IntentOf(fields[i]))]

LEMMA IntentsAreKept ==
  ASSUME NEW fields \in Seq(Field), NEW n \in Nat, n = Len(fields)
  PROVE  \E f \in [0 .. n -> Seq(Intent)] : Keeps(f, n, fields) /\ IntentsAmong(fields) = f[n]
<1> DEFINE step == [i \in 1 .. n |-> [s \in Seq(Intent) |->
                      IF ~IsIntent(fields[i][2]) THEN s ELSE Append(s, IntentOf(fields[i]))]]
           g == CHOOSE h : Kept(h, fields)
<1>1. ASSUME NEW i \in 1 .. n PROVE IntentOf(fields[i]) \in Intent
  <2>1. fields[i] \in Field
    OBVIOUS
  <2> QED BY <2>1 DEF Field, IntentOf, Intent
<1>2. step \in [1 .. n -> [Seq(Intent) -> Seq(Intent)]] /\ <<>> \in Seq(Intent)
  <2>1. ASSUME NEW i \in 1 .. n, NEW s \in Seq(Intent)
        PROVE  Append(s, IntentOf(fields[i])) \in Seq(Intent)
    BY <1>1
  <2> QED BY <2>1
<1>3. PICK f \in [0 .. n -> Seq(Intent)] : Recurs(f, n, <<>>, step)
  <2> HIDE DEF step
  <2> QED BY <1>2, RecursionExists
<1>4. Keeps(f, n, fields)
  <2> SUFFICES ASSUME NEW i \in 0 .. n
               PROVE  f[i] = IF i = 0 THEN <<>>
                             ELSE IF ~IsIntent(fields[i][2]) THEN f[i - 1]
                             ELSE Append(f[i - 1], IntentOf(fields[i]))
    BY Zenon DEF Keeps
  <2>1. f[i] = IF i = 0 THEN <<>> ELSE step[i][f[i - 1]]
    <3> HIDE DEF step
    <3> QED BY <1>3, Zenon DEF Recurs
  <2>2. i # 0 => i \in 1 .. n /\ i - 1 \in 0 .. n
    OBVIOUS
  <2>3. i # 0 => f[i - 1] \in Seq(Intent)
    BY <2>2
  <2> QED BY <2>1, <2>2, <2>3, Zenon
<1> HIDE DEF step
<1>5. Kept(f, fields)
  <2>1. f = [i \in 0 .. n |-> f[i]]
    OBVIOUS
  <2> QED BY <1>4, <2>1, Zenon DEF Keeps, Kept
<1>6. Kept(g, fields)
  BY <1>5, Zenon
<1>7. IntentsAmong(fields) = g[n]
  BY Zenon DEF IntentsAmong, Kept, IntentOf
<1> HIDE DEF g
<1> DEFINE Done == {k \in Nat : k <= n => g[k] = f[k]}
<1>8. 0 \in Done
  <2>1. 0 \in 0 .. n
    OBVIOUS
  <2> QED BY <1>4, <1>6, <2>1, Zenon DEF Keeps, Kept
<1>9. ASSUME NEW k \in Nat, k \in Done PROVE k + 1 \in Done
  <2> SUFFICES ASSUME k + 1 <= n PROVE g[k + 1] = f[k + 1]
    OBVIOUS
  <2> PICK i : i = k + 1
    OBVIOUS
  <2>1. i \in 0 .. n /\ i # 0 /\ i - 1 = k
    OBVIOUS
  <2>2. g[i] = IF ~IsIntent(fields[i][2]) THEN g[i - 1]
               ELSE Append(g[i - 1], IntentOf(fields[i]))
    BY <1>6, <2>1, Zenon DEF Kept
  <2>3. f[i] = IF ~IsIntent(fields[i][2]) THEN f[i - 1]
               ELSE Append(f[i - 1], IntentOf(fields[i]))
    BY <1>4, <2>1, Zenon DEF Keeps
  <2>4. g[i - 1] = f[i - 1]
    BY <1>9, <2>1
  <2> QED BY <2>2, <2>3, <2>4, Zenon
<1> HIDE DEF Done
<1>10. n \in Done
  BY <1>8, <1>9, Inductive
<1> QED BY <1>4, <1>7, <1>10 DEF Done

AppendsLast(S) == \A u, v \in Seq(S), e \in S : Append(u \o v, e) = u \o Append(v, e)

LEMMA AppendToLast == ASSUME NEW S PROVE AppendsLast(S)
BY DEF AppendsLast

(* The intents among joined fields are the joined intents.                  *)
LEMMA IntentsJoin ==
  ASSUME NEW u \in Seq(Field), NEW v \in Seq(Field)
  PROVE  IntentsAmong(u \o v) = IntentsAmong(u) \o IntentsAmong(v)
<1> PICK m \in Nat, n \in Nat, w \in Seq(Field) : m = Len(u) /\ n = Len(v) /\ w = u \o v
  <2>1. u \o v \in Seq(Field) /\ Len(u) \in Nat /\ Len(v) \in Nat
    BY ConcatProperties
  <2> QED BY <2>1, Zenon
<1>1. /\ Len(w) = m + n /\ m + n \in Nat
      /\ \A i \in 1 .. m : w[i] = u[i]
      /\ \A j \in 1 .. n : w[m + j] = v[j]
  OBVIOUS
<1>2. PICK f \in [0 .. m -> Seq(Intent)] : Keeps(f, m, u) /\ IntentsAmong(u) = f[m]
  BY IntentsAreKept
<1>3. PICK g \in [0 .. n -> Seq(Intent)] : Keeps(g, n, v) /\ IntentsAmong(v) = g[n]
  BY IntentsAreKept
<1>4. PICK h \in [0 .. m + n -> Seq(Intent)] : Keeps(h, m + n, w) /\ IntentsAmong(w) = h[m + n]
  BY <1>1, IntentsAreKept
<1> DEFINE First == {k \in Nat : k <= m => h[k] = f[k]}
<1>5. 0 \in First
  <2>1. 0 \in 0 .. m /\ 0 \in 0 .. m + n
    OBVIOUS
  <2>2. f[0] = <<>> /\ h[0] = <<>>
    BY <1>2, <1>4, <2>1, Zenon DEF Keeps
  <2> QED BY <2>2
<1>6. ASSUME NEW k \in Nat, k \in First PROVE k + 1 \in First
  <2> SUFFICES ASSUME k + 1 <= m PROVE h[k + 1] = f[k + 1]
    OBVIOUS
  <2> PICK i : i = k + 1
    OBVIOUS
  <2>1. i \in 0 .. m /\ i \in 0 .. m + n /\ i \in 1 .. m /\ i # 0 /\ i - 1 = k
    OBVIOUS
  <2>2. f[i] = IF ~IsIntent(u[i][2]) THEN f[i - 1] ELSE Append(f[i - 1], IntentOf(u[i]))
    BY <1>2, <2>1, Zenon DEF Keeps
  <2>3. h[i] = IF ~IsIntent(w[i][2]) THEN h[i - 1] ELSE Append(h[i - 1], IntentOf(w[i]))
    BY <1>4, <2>1, Zenon DEF Keeps
  <2>4. w[i] = u[i] /\ h[i - 1] = f[i - 1]
    BY <1>1, <1>6, <2>1
  <2> QED BY <2>2, <2>3, <2>4, Zenon
<1> HIDE DEF First
<1>7. h[m] = f[m]
  <2>1. m \in First
    BY <1>5, <1>6, Inductive
  <2> QED BY <2>1 DEF First
<1> DEFINE Then == {k \in Nat : k <= n => h[m + k] = f[m] \o g[k]}
<1>8. f[m] \in Seq(Intent) /\ \A k \in 0 .. n : g[k] \in Seq(Intent)
  <2>1. m \in 0 .. m
    OBVIOUS
  <2> QED BY <2>1, Zenon
<1>9. 0 \in Then
  <2>1. 0 \in 0 .. n /\ m + 0 = m
    OBVIOUS
  <2>2. g[0] = <<>>
    BY <1>3, <2>1, Zenon DEF Keeps
  <2>3. f[m] \o <<>> = f[m]
    BY <1>8
  <2> QED BY <1>7, <2>1, <2>2, <2>3
<1>10. ASSUME NEW k \in Nat, k \in Then PROVE k + 1 \in Then
  <2> SUFFICES ASSUME k + 1 <= n PROVE h[m + (k + 1)] = f[m] \o g[k + 1]
    OBVIOUS
  <2> PICK i, j : i = k + 1 /\ j = m + (k + 1)
    OBVIOUS
  <2>1. /\ i \in 0 .. n /\ i \in 1 .. n /\ i # 0 /\ i - 1 = k /\ k \in 0 .. n
        /\ j \in 0 .. m + n /\ j # 0 /\ j - 1 = m + k /\ j = m + i
    OBVIOUS
  <2>2. g[i] = IF ~IsIntent(v[i][2]) THEN g[i - 1] ELSE Append(g[i - 1], IntentOf(v[i]))
    BY <1>3, <2>1, Zenon DEF Keeps
  <2>3. h[j] = IF ~IsIntent(w[j][2]) THEN h[j - 1] ELSE Append(h[j - 1], IntentOf(w[j]))
    BY <1>4, <2>1, Zenon DEF Keeps
  <2>4. w[j] = v[i] /\ h[j - 1] = f[m] \o g[i - 1]
    BY <1>1, <1>10, <2>1
  <2>5. g[i - 1] \in Seq(Intent) /\ IntentOf(v[i]) \in Intent
    <3>1. v[i] \in Field
      BY <2>1
    <3> QED BY <1>8, <2>1, <3>1 DEF Field, IntentOf, Intent
  <2>6. Append(f[m] \o g[i - 1], IntentOf(v[i])) = f[m] \o Append(g[i - 1], IntentOf(v[i]))
    <3> PICK a \in Seq(Intent), b \in Seq(Intent), e \in Intent :
          a = f[m] /\ b = g[i - 1] /\ e = IntentOf(v[i])
      BY <1>8, <2>5, Zenon
    <3>1. Append(a \o b, e) = a \o Append(b, e)
      <4>1. AppendsLast(Intent)
        BY AppendToLast, Zenon
      <4> QED BY <4>1, Zenon DEF AppendsLast
    <3> QED BY <3>1
  <2> QED BY <2>2, <2>3, <2>4, <2>6, Zenon
<1> HIDE DEF Then
<1>11. h[m + n] = f[m] \o g[n]
  <2>1. n \in Then
    BY <1>9, <1>10, Inductive
  <2> QED BY <2>1 DEF Then
<1> QED BY <1>2, <1>3, <1>4, <1>11

(* A flat list of m pairs.                                                  *)
Paired(kv, m, key, val) ==
  Len(kv) = 2 * m /\ \A k \in 1 .. m : kv[2 * k - 1] = key[k] /\ kv[2 * k] = val[k]

LEMMA PairsFlatten ==
  ASSUME NEW S, NEW m \in Nat, NEW key, NEW val, NEW pairs,
         \A k \in 1 .. m : key[k] \in S /\ val[k] \in S,
         pairs = [k \in 1 .. m |-> <<key[k], val[k]>>]
  PROVE  FlattenSeq(pairs) \in Seq(S) /\ Paired(FlattenSeq(pairs), m, key, val)
<1>1. pairs \in Seq(Seq(S)) /\ Len(pairs) = m
  <2>1. \A k \in 1 .. m : <<key[k], val[k]>> \in Seq(S)
    OBVIOUS
  <2> PICK T : T = Seq(S)
    OBVIOUS
  <2>2. pairs \in [1 .. m -> T]
    BY <2>1, Zenon
  <2> QED BY ONLY <2>2, T = Seq(S), m \in Nat
<1>2. PICK f \in [0 .. m -> Seq(S)] : Joins(f, m, pairs) /\ FlattenSeq(pairs) = f[m]
  BY <1>1, FlattenJoins
<1> DEFINE Good(s, j) == Paired(s, j, key, val)
           Done == {j \in Nat : j <= m => Good(f[j], j)}
<1>3. 0 \in Done
  <2>1. 0 \in 0 .. m
    OBVIOUS
  <2>2. f[0] = <<>>
    BY <1>2, <2>1, Zenon DEF Joins
  <2>3. Good(<<>>, 0)
    BY DEF Paired
  <2> HIDE DEF Good
  <2> QED BY <2>2, <2>3
<1>4. ASSUME NEW j \in Nat, j \in Done PROVE j + 1 \in Done
  <2> SUFFICES ASSUME j + 1 <= m PROVE Good(f[j + 1], j + 1)
    OBVIOUS
  <2>1. /\ j + 1 \in 0 .. m /\ j + 1 # 0 /\ (j + 1) - 1 = j /\ j \in 0 .. m /\ j + 1 \in 1 .. m
    OBVIOUS
  <2>2. f[j + 1] = f[j] \o pairs[j + 1]
    <3>1. f[j + 1] = IF j + 1 = 0 THEN <<>> ELSE f[(j + 1) - 1] \o pairs[j + 1]
      BY <1>2, <2>1, Zenon DEF Joins
    <3> QED BY <2>1, <3>1
  <2> PICK s \in Seq(S), a \in S, b \in S : s = f[j] /\ a = key[j + 1] /\ b = val[j + 1]
    BY <2>1
  <2> PICK t \in Seq(S) : t = s \o <<a, b>>
    <3>1. <<a, b>> \in Seq(S)
      OBVIOUS
    <3>2. s \o <<a, b>> \in Seq(S)
      BY <3>1, ConcatProperties
    <3> QED BY <3>2, Zenon
  <2>3. f[j + 1] = t
    BY <2>1, <2>2
  <2>4. Good(s, j)
    BY <1>4, <2>1
  <2>4a. Len(s) = 2 * j /\ \A k \in 1 .. j : s[2 * k - 1] = key[k] /\ s[2 * k] = val[k]
    BY <2>4, Zenon DEF Paired
  <2>5. /\ Len(t) = Len(s) + 2 /\ t[Len(s) + 1] = a /\ t[Len(s) + 2] = b
        /\ \A i \in 1 .. Len(s) : t[i] = s[i]
    OBVIOUS
  <2>6. Len(t) = 2 * (j + 1)
    BY ONLY <2>4a, <2>5, j \in Nat
  <2>7. ASSUME NEW k \in 1 .. j + 1 PROVE t[2 * k - 1] = key[k] /\ t[2 * k] = val[k]
    <3>1. CASE k = j + 1
      <4>1. Len(s) + 1 = 2 * k - 1 /\ Len(s) + 2 = 2 * k
        BY ONLY <2>4a, <3>1, j \in Nat
      <4> QED BY <2>5, <3>1, <4>1
    <3>2. CASE k # j + 1
      <4>1. k \in 1 .. j /\ 2 * k - 1 \in 1 .. Len(s) /\ 2 * k \in 1 .. Len(s)
        BY ONLY <2>4a, <3>2, j \in Nat, k \in 1 .. j + 1
      <4> QED BY <2>4a, <2>5, <4>1
    <3> QED BY <3>1, <3>2
  <2>8. Good(t, j + 1)
    BY <2>6, <2>7, Zenon DEF Paired
  <2> HIDE DEF Good
  <2> QED BY <2>3, <2>8
<1> HIDE DEF Done, Good
<1>5. Good(f[m], m) /\ f[m] \in Seq(S)
  <2>1. m \in Done
    BY <1>3, <1>4, Inductive
  <2>2. m \in 0 .. m /\ m <= m
    OBVIOUS
  <2> QED BY <2>1, <2>2 DEF Done
<1> QED BY <1>2, <1>5, Zenon DEF Good

(* The fields of an entry, under its id.                                    *)
Filed(e) == [f \in DOMAIN e.fields |-> <<e.id, e.fields[f]>>]

LEMMA FieldsAreFiled ==
  ASSUME MaxFields \in Nat, NEW e \in StreamEntry
  PROVE  /\ e.fields \in Seq(Keys \X Words) /\ e.id \in Ids
         /\ Filed(e) \in Seq(Field) /\ Len(Filed(e)) = Len(e.fields)
         /\ DOMAIN e.fields = 1 .. Len(e.fields) /\ Len(e.fields) \in Nat
<1>1. e.id \in Ids /\ e.fields \in BoundedSeq(Keys \X Words, MaxFields)
  BY Zenon DEF StreamEntry
<1>2. PICK m \in 0 .. MaxFields : e.fields \in [1 .. m -> Keys \X Words]
  BY <1>1, Zenon DEF BoundedSeq, SeqOf
<1>3. m \in Nat
  OBVIOUS
<1> PICK s \in [1 .. m -> Keys \X Words] : s = e.fields
  BY <1>2
<1>4. s \in Seq(Keys \X Words) /\ Len(s) = m /\ DOMAIN s = 1 .. m
  BY <1>3
<1>5. Filed(e) = [f \in 1 .. m |-> <<e.id, s[f]>>]
  BY <1>4, Zenon DEF Filed
<1>6. \A f \in 1 .. m : <<e.id, s[f]>> \in Field
  BY <1>1 DEF Field
<1>7. Filed(e) \in Seq(Field) /\ Len(Filed(e)) = m
  BY ONLY <1>3, <1>5, <1>6
<1> QED BY <1>1, <1>3, <1>4, <1>7

Datum == {Data(d) : d \in Keys \cup Words}

(* chunks(2): each field becomes one chunk.                                 *)
LEMMA EntryIsParsed ==
  ASSUME MaxFields \in Nat, NEW e \in StreamEntry
  PROVE  EntryIntents(EntryValue(e)) = IntentsAmong(Filed(e))
<1> PICK m \in Nat, s \in Seq(Keys \X Words), fields \in Seq(Field) :
      /\ s = e.fields /\ m = Len(s) /\ DOMAIN s = 1 .. m
      /\ fields = Filed(e) /\ Len(fields) = m
  BY FieldsAreFiled
<1>1. fields = [f \in 1 .. m |-> <<e.id, s[f]>>]
  BY Zenon DEF Filed
<1> DEFINE key == [k \in 1 .. m |-> Data(s[k][1])]
           val == [k \in 1 .. m |-> Data(s[k][2])]
           pairs == [k \in 1 .. m |-> <<key[k], val[k]>>]
           keyvals == FlattenSeq(pairs)
           chunk(k) == IF /\ keyvals[2 * k - 1] = Data("intent")
                          /\ keyvals[2 * k].type = "data"
                          /\ keyvals[2 * k].data \notin Malformed
                         THEN <<[id |-> e.id, intent |-> keyvals[2 * k].data]>> ELSE <<>>
           chunks == [k \in 1 .. m |-> chunk(k)]
<1>2. \A k \in 1 .. m : key[k] \in Datum /\ val[k] \in Datum
  <2> TAKE k \in 1 .. m
  <2>1. s[k] \in Keys \X Words
    OBVIOUS
  <2>2. s[k][1] \in Keys /\ s[k][2] \in Words
    BY <2>1
  <2> QED BY <2>2, Zenon DEF Datum
<1>3. /\ keyvals \in Seq(Datum) /\ Len(keyvals) = 2 * m
      /\ \A k \in 1 .. m : keyvals[2 * k - 1] = key[k] /\ keyvals[2 * k] = val[k]
  <2>1. pairs = [k \in 1 .. m |-> <<key[k], val[k]>>]
    OBVIOUS
  <2> HIDE DEF key, val, pairs
  <2>2. keyvals \in Seq(Datum) /\ Paired(keyvals, m, key, val)
    BY ONLY <1>2, <2>1, m \in Nat, PairsFlatten, Zenon
  <2> QED BY <2>2, Zenon DEF Paired
<1>4. EntryValue(e) = Bulk(<<Data(e.id), Bulk(keyvals)>>)
  <2>1. pairs = [k \in DOMAIN e.fields |-> <<Data(e.fields[k][1]), Data(e.fields[k][2])>>]
    BY Zenon
  <2> HIDE DEF pairs
  <2> QED BY <2>1, Zenon DEF EntryValue
<1> HIDE DEF keyvals
<1>5. EntryIntents(EntryValue(e)) = IntentsOf(e.id, keyvals)
  <2> DEFINE items == <<Data(e.id), Bulk(keyvals)>>
  <2>1. /\ Len(items) >= 2 /\ items[1] = Data(e.id) /\ items[2] = Bulk(keyvals)
    OBVIOUS
  <2> HIDE DEF items
  <2>2. /\ Bulk(items).type = "bulk" /\ Bulk(items).items = items
        /\ Data(e.id).type = "data" /\ Data(e.id).data = e.id
        /\ Bulk(keyvals).type = "bulk" /\ Bulk(keyvals).items = keyvals
    BY DEF Bulk, Data
  <2>3. EntryValue(e) = Bulk(items)
    BY <1>4 DEF items
  <2> QED BY <2>1, <2>2, <2>3, Zenon DEF EntryIntents
<1>6. IntentsOf(e.id, keyvals) = FlattenSeq(chunks)
  <2>1. (2 * m) \div 2 = m
    BY ONLY m \in Nat
  <2>2. Len(keyvals) \div 2 = m
    BY ONLY <1>3, <2>1, Zenon
  <2>3. IntentsOf(e.id, keyvals)
          = FlattenSeq([k \in 1 .. (Len(keyvals) \div 2) |-> chunk(k)])
    BY DEF IntentsOf
  <2> HIDE DEF chunk
  <2> QED BY <2>2, <2>3
<1>7. ASSUME NEW k \in 1 .. m
      PROVE  chunk(k) = IF ~IsIntent(fields[k][2]) THEN <<>> ELSE <<IntentOf(fields[k])>>
  <2>1. keyvals[2 * k - 1] = Data(s[k][1]) /\ keyvals[2 * k] = Data(s[k][2])
    BY <1>3
  <2>2. fields[k] = <<e.id, s[k]>>
    BY <1>1
  <2>3. /\ Data(s[k][1]) = Data("intent") <=> s[k][1] = "intent"
        /\ Data(s[k][2]).type = "data" /\ Data(s[k][2]).data = s[k][2]
    BY DEF Data
  <2>4. fields[k][1] = e.id /\ fields[k][2] = s[k]
    BY <2>2
  <2> QED BY <2>1, <2>3, <2>4, Zenon DEF IntentOf, IsIntent
<1> HIDE DEF chunk
<1>8. ASSUME NEW k \in 1 .. m PROVE IntentOf(fields[k]) \in Intent
  <2>1. fields[k] \in Field
    OBVIOUS
  <2> QED BY <2>1 DEF Field, IntentOf, Intent
<1>9. chunks \in Seq(Seq(Intent)) /\ Len(chunks) = m /\ \A k \in 1 .. m : chunks[k] = chunk(k)
  <2>1. ASSUME NEW k \in 1 .. m PROVE chunk(k) \in Seq(Intent)
    <3>1. ASSUME NEW x \in Intent PROVE <<>> \in Seq(Intent) /\ <<x>> \in Seq(Intent)
      OBVIOUS
    <3> QED BY <1>7, <1>8, <3>1, Zenon
  <2>2. \A k \in 1 .. m : chunks[k] = chunk(k) /\ chunks[k] \in Seq(Intent)
    BY <2>1, Zenon
  <2>3. Len(chunks) = m /\ DOMAIN chunks = 1 .. m
    OBVIOUS
  <2>4. PICK T : T = Seq(Intent)
    OBVIOUS
  <2>5. chunks \in [1 .. m -> T]
    BY <2>1, <2>4, Zenon
  <2>6. chunks \in Seq(T)
    BY ONLY <2>5, m \in Nat
  <2> QED BY <2>2, <2>3, <2>4, <2>6, Zenon
<1> HIDE DEF chunks
<1>10. PICK f \in [0 .. m -> Seq(Intent)] : Joins(f, m, chunks) /\ FlattenSeq(chunks) = f[m]
  BY <1>9, FlattenJoins
<1>11. PICK g \in [0 .. m -> Seq(Intent)] : Keeps(g, m, fields) /\ IntentsAmong(fields) = g[m]
  BY IntentsAreKept
<1> DEFINE Done == {k \in Nat : k <= m => f[k] = g[k]}
<1>12. 0 \in Done
  <2>1. 0 \in 0 .. m
    OBVIOUS
  <2>2. f[0] = <<>> /\ g[0] = <<>>
    BY <1>10, <1>11, <2>1, Zenon DEF Joins, Keeps
  <2> QED BY <2>2
<1>13. ASSUME NEW k \in Nat, k \in Done PROVE k + 1 \in Done
  <2> SUFFICES ASSUME k + 1 <= m PROVE f[k + 1] = g[k + 1]
    OBVIOUS
  <2> PICK i : i = k + 1
    OBVIOUS
  <2>1. i \in 0 .. m /\ i \in 1 .. m /\ i # 0 /\ i - 1 = k /\ k \in 0 .. m
    OBVIOUS
  <2>2. f[i] = f[i - 1] \o chunks[i]
    BY <1>10, <2>1, Zenon DEF Joins
  <2>3. g[i] = IF ~IsIntent(fields[i][2]) THEN g[i - 1]
               ELSE Append(g[i - 1], IntentOf(fields[i]))
    BY <1>11, <2>1, Zenon DEF Keeps
  <2>4. chunks[i] = IF ~IsIntent(fields[i][2]) THEN <<>> ELSE <<IntentOf(fields[i])>>
    BY <1>7, <1>9, <2>1
  <2>5. f[i - 1] = g[i - 1] /\ g[i - 1] \in Seq(Intent)
    BY <1>13, <2>1
  <2>6. ASSUME NEW u \in Seq(Intent), NEW x \in Intent
        PROVE  u \o <<>> = u /\ u \o <<x>> = Append(u, x)
    BY AppendIsConcat, ConcatEmptySeq
  <2> QED BY <1>8, <2>1, <2>2, <2>3, <2>4, <2>5, <2>6, Zenon
<1> HIDE DEF Done
<1>14. f[m] = g[m]
  <2>1. m \in Done
    BY <1>12, <1>13, Inductive
  <2> QED BY <2>1 DEF Done
<1> QED BY <1>5, <1>6, <1>10, <1>11, <1>14

(* A reply is parsed entry by entry.                                        *)
LEMMA ReplyFlattens ==
  ASSUME NEW n \in Nat, NEW parsed \in Seq(Seq(Intent)),
         entries \in Seq(StreamEntry), n = Len(entries), n = Len(parsed),
         \A k \in 1 .. n : parsed[k] = EntryIntents(EntryValue(entries[k]))
  PROVE  ParseStream(FlatReply(entries)) = FlattenSeq(parsed)
<1> DEFINE values == [k \in DOMAIN entries |-> EntryValue(entries[k])]
           shown == <<Bulk(values)>>
           read(s) == FlattenSeq([k \in DOMAIN BulkItems(shown[s]) |->
                                    EntryIntents(BulkItems(shown[s])[k])])
<1>1. DOMAIN entries = 1 .. n /\ DOMAIN values = 1 .. n /\ DOMAIN shown = 1 .. 1 /\ 1 \in 1 .. 1
  <2>1. DOMAIN entries = 1 .. n
    BY ONLY entries \in Seq(StreamEntry), n = Len(entries)
  <2>4. 1 \in 1 .. 1
    BY ONLY TRUE
  <2>2. DOMAIN values = DOMAIN entries
    BY Zenon
  <2>3. DOMAIN shown = 1 .. 1
    <3> HIDE DEF values
    <3> QED OBVIOUS
  <2> QED BY <2>1, <2>4, <2>2, <2>3, Zenon
<1>2. shown[1] = Bulk(values) /\ BulkItems(Bulk(values)) = values
  <2> HIDE DEF values
  <2> QED BY DEF Bulk, BulkItems
<1>3. parsed = [k \in 1 .. n |-> parsed[k]]
  OBVIOUS
<1>4. [k \in DOMAIN values |-> EntryIntents(values[k])] = parsed
  <2>1. \A k \in 1 .. n : values[k] = EntryValue(entries[k])
    BY <1>1, Zenon
  <2> HIDE DEF values
  <2>2. [k \in DOMAIN values |-> EntryIntents(values[k])] = [k \in 1 .. n |-> parsed[k]]
    BY <1>1, <2>1, Zenon
  <2> QED BY <1>3, <2>2, Zenon
<1>5. read(1) = FlattenSeq(parsed)
  <2> HIDE DEF values, shown
  <2> QED BY <1>2, <1>4, Zenon
<1>6. BulkItems(FlatReply(entries)) = shown
  <2>1. FlatReply(entries) = Bulk(shown)
    BY Zenon DEF FlatReply, EntryValues
  <2> HIDE DEF shown
  <2> QED BY <2>1 DEF Bulk, BulkItems
<1>7. ParseStream(FlatReply(entries)) = FlattenSeq([s \in DOMAIN shown |-> read(s)])
  <2> HIDE DEF shown, values
  <2> QED BY <1>6, Zenon DEF ParseStream
<1>8. FlattenSeq(parsed) \in Seq(Intent)
  <2> PICK f \in [0 .. n -> Seq(Intent)] : Joins(f, n, parsed) /\ FlattenSeq(parsed) = f[n]
    BY FlattenJoins
  <2>1. n \in 0 .. n
    OBVIOUS
  <2> QED BY <2>1
<1> HIDE DEF read, shown
<1>9. [s \in DOMAIN shown |-> read(s)] = [s \in 1 .. 1 |-> FlattenSeq(parsed)]
  <2>1. \A s \in 1 .. 1 : s = 1
    OBVIOUS
  <2> QED BY <1>1, <1>5, <2>1, Zenon
<1>10. FlattenSeq([s \in DOMAIN shown |-> read(s)]) = FlattenSeq(parsed)
  BY <1>8, <1>9, FlattenOne
<1> QED BY <1>7, <1>10

(* Joined one by one, the entries' intents are the intents of the fields.   *)
LEMMA IntentsJoined ==
  ASSUME NEW n \in Nat, NEW filed \in Seq(Seq(Field)), n = Len(filed)
  PROVE  FlattenSeq([k \in 1 .. n |-> IntentsAmong(filed[k])])
           = IntentsAmong(FlattenSeq(filed))
<1> DEFINE parsed == [k \in 1 .. n |-> IntentsAmong(filed[k])]
<1>1. ASSUME NEW s \in Seq(Field) PROVE IntentsAmong(s) \in Seq(Intent)
  <2> PICK m \in Nat : m = Len(s) /\ m \in 0 .. m
    OBVIOUS
  <2> PICK f \in [0 .. m -> Seq(Intent)] : Keeps(f, m, s) /\ IntentsAmong(s) = f[m]
    BY IntentsAreKept
  <2> QED BY Zenon
<1>2. \A k \in 1 .. n : filed[k] \in Seq(Field)
  OBVIOUS
<1>3. parsed \in Seq(Seq(Intent)) /\ Len(parsed) = n
  <2> PICK T : T = Seq(Intent)
    OBVIOUS
  <2>1. parsed \in [1 .. n -> T]
    BY <1>1, <1>2, Zenon
  <2> HIDE DEF parsed
  <2> QED BY <2>1
<1>4. \A k \in 1 .. n : parsed[k] = IntentsAmong(filed[k])
  BY Zenon
<1> HIDE DEF parsed
<1>5. PICK a \in [0 .. n -> Seq(Intent)] : Joins(a, n, parsed) /\ FlattenSeq(parsed) = a[n]
  BY <1>3, FlattenJoins
<1>6. PICK b \in [0 .. n -> Seq(Field)] : Joins(b, n, filed) /\ FlattenSeq(filed) = b[n]
  BY FlattenJoins
<1>7. IntentsAmong(<<>>) = <<>>
  <2>1. <<>> \in Seq(Field) /\ Len(<<>>) = 0 /\ 0 \in Nat /\ 0 \in 0 .. 0
    OBVIOUS
  <2> PICK f \in [0 .. 0 -> Seq(Intent)] : Keeps(f, 0, <<>>) /\ IntentsAmong(<<>>) = f[0]
    BY <2>1, IntentsAreKept
  <2> QED BY <2>1, Zenon DEF Keeps
<1> DEFINE Done == {k \in Nat : k <= n => a[k] = IntentsAmong(b[k])}
<1>8. 0 \in Done
  <2>1. 0 \in 0 .. n
    OBVIOUS
  <2>2. a[0] = <<>> /\ b[0] = <<>>
    BY <1>5, <1>6, <2>1, Zenon DEF Joins
  <2> QED BY <1>7, <2>2
<1>9. ASSUME NEW k \in Nat, k \in Done PROVE k + 1 \in Done
  <2> SUFFICES ASSUME k + 1 <= n PROVE a[k + 1] = IntentsAmong(b[k + 1])
    OBVIOUS
  <2> PICK i : i = k + 1
    OBVIOUS
  <2>1. i \in 0 .. n /\ i \in 1 .. n /\ i # 0 /\ i - 1 = k /\ k \in 0 .. n
    OBVIOUS
  <2>2. a[i] = a[i - 1] \o parsed[i] /\ b[i] = b[i - 1] \o filed[i]
    BY <1>5, <1>6, <2>1, Zenon DEF Joins
  <2>3. a[i - 1] = IntentsAmong(b[i - 1])
    BY <1>9, <2>1
  <2>4. b[i - 1] \in Seq(Field) /\ filed[i] \in Seq(Field)
    BY <1>2, <2>1, Zenon
  <2>5. IntentsAmong(b[i - 1] \o filed[i]) = IntentsAmong(b[i - 1]) \o IntentsAmong(filed[i])
    BY <2>4, IntentsJoin
  <2> QED BY <1>4, <2>1, <2>2, <2>3, <2>5, Zenon
<1> HIDE DEF Done
<1>10. a[n] = IntentsAmong(b[n])
  <2>1. n \in Done
    BY <1>8, <1>9, Inductive
  <2> QED BY <2>1 DEF Done
<1>11. FlattenSeq(parsed) = IntentsAmong(FlattenSeq(filed))
  BY <1>5, <1>6, <1>10
<1> QED BY <1>11 DEF parsed

(* Sequences without elements, joined.                                      *)
LEMMA FlattenNothing ==
  ASSUME NEW n \in Nat, NEW seqs, seqs = [i \in 1 .. n |-> <<>>]
  PROVE  FlattenSeq(seqs) = <<>>
<1>1. seqs \in Seq(Seq({})) /\ Len(seqs) = n /\ \A i \in 1 .. n : seqs[i] = <<>>
  <2>1. <<>> \in Seq({})
    OBVIOUS
  <2> PICK T : T = Seq({})
    OBVIOUS
  <2>2. seqs \in [1 .. n -> T]
    BY <2>1, Zenon
  <2> QED BY <2>2
<1>2. PICK f \in [0 .. n -> Seq({})] : Joins(f, n, seqs) /\ FlattenSeq(seqs) = f[n]
  BY <1>1, FlattenJoins
<1>3. n \in 0 .. n
  OBVIOUS
<1>4. f[n] \in Seq({})
  BY <1>3
<1> QED BY <1>2, <1>4

(* The reply as Redis sends it: its one array holds a name and an array of  *)
(* entries, and neither is an entry to parse_stream.                        *)
LEMMA PairHoldsNoEntry ==
  ASSUME entries \in Seq(StreamEntry), NEW name
  PROVE  ParseStream(Resp2Reply(name, entries)) = <<>>
<1> DEFINE values == [k \in DOMAIN entries |-> EntryValue(entries[k])]
           pair == <<Data(name), Bulk(values)>>
           shown == <<Bulk(pair)>>
           read(s) == FlattenSeq([k \in DOMAIN BulkItems(shown[s]) |->
                                    EntryIntents(BulkItems(shown[s])[k])])
<1>1. EntryIntents(Data(name)) = <<>>
  BY DEF EntryIntents, Data
<1>2. EntryIntents(Bulk(values)) = <<>>
  <2>1. CASE Len(values) >= 2
    <3> PICK n \in Nat : n = Len(entries) /\ DOMAIN entries = 1 .. n
      OBVIOUS
    <3>1. Len(values) = n /\ DOMAIN values = 1 .. n
      OBVIOUS
    <3>2. 1 \in 1 .. n
      BY <2>1, <3>1
    <3>3. values[1] = EntryValue(entries[1])
      BY <3>2
    <3>4. values[1].type = "bulk"
      BY <3>3 DEF EntryValue, Bulk
    <3> HIDE DEF values
    <3> QED BY <3>4 DEF EntryIntents, Bulk
  <2>2. CASE ~(Len(values) >= 2)
    <3> HIDE DEF values
    <3> QED BY <2>2 DEF EntryIntents, Bulk
  <2> QED BY <2>1, <2>2
<1> HIDE DEF values
<1>3. BulkItems(shown[1]) = pair /\ DOMAIN pair = 1 .. 2
  BY DEF BulkItems, Bulk
<1>4. pair[1] = Data(name) /\ pair[2] = Bulk(values)
  OBVIOUS
<1>5. [k \in DOMAIN pair |-> EntryIntents(pair[k])] = [k \in 1 .. 2 |-> <<>>]
  <2> HIDE DEF pair
  <2>1. \A k \in 1 .. 2 : k = 1 \/ k = 2
    OBVIOUS
  <2>2. \A k \in 1 .. 2 : EntryIntents(pair[k]) = <<>>
    BY <1>1, <1>2, <1>4, <2>1, Zenon
  <2> QED BY <1>3, <2>2, Zenon
<1>6. read(1) = <<>>
  <2>1. FlattenSeq([k \in 1 .. 2 |-> <<>>]) = <<>>
    BY FlattenNothing
  <2> HIDE DEF pair, shown
  <2> QED BY <1>3, <1>5, <2>1, Zenon
<1>7. DOMAIN shown = 1 .. 1 /\ BulkItems(Resp2Reply(name, entries)) = shown
  <2>1. Resp2Reply(name, entries) = Bulk(shown)
    BY Zenon DEF Resp2Reply, EntryValues, values
  <2> HIDE DEF pair
  <2>2. DOMAIN shown = 1 .. 1
    OBVIOUS
  <2> HIDE DEF shown
  <2> QED BY <2>1, <2>2 DEF Bulk, BulkItems
<1>8. ParseStream(Resp2Reply(name, entries)) = FlattenSeq([s \in DOMAIN shown |-> read(s)])
  <2> HIDE DEF pair, shown
  <2> QED BY <1>7, Zenon DEF ParseStream
<1> HIDE DEF read, shown, pair
<1>9. [s \in DOMAIN shown |-> read(s)] = [s \in 1 .. 1 |-> <<>>]
  <2>1. \A s \in 1 .. 1 : s = 1
    OBVIOUS
  <2> QED BY <1>6, <1>7, <2>1, Zenon
<1>10. FlattenSeq([s \in 1 .. 1 |-> <<>>]) = <<>>
  BY FlattenNothing
<1> QED BY <1>8, <1>9, <1>10

LEMMA ReplyIsParsed ==
  ASSUME MaxFields \in Nat, entries \in Seq(StreamEntry)
  PROVE  IntentsParsedByShape
<1> DEFINE filed == [k \in DOMAIN entries |-> Filed(entries[k])]
           parsed == [k \in 1 .. Len(entries) |-> IntentsAmong(filed[k])]
<1> PICK n \in Nat : n = Len(entries) /\ DOMAIN entries = 1 .. n
  OBVIOUS
<1>1. \A k \in 1 .. n : entries[k] \in StreamEntry
  OBVIOUS
<1>2. \A k \in 1 .. n : filed[k] = Filed(entries[k]) /\ Filed(entries[k]) \in Seq(Field)
  BY <1>1, FieldsAreFiled, Zenon
<1>3. filed \in Seq(Seq(Field)) /\ Len(filed) = n
  <2> PICK T : T = Seq(Field)
    OBVIOUS
  <2>1. filed \in [1 .. n -> T]
    BY <1>2, Zenon
  <2> HIDE DEF filed
  <2> QED BY <2>1
<1>4. \A k \in 1 .. n : EntryIntents(EntryValue(entries[k])) = IntentsAmong(Filed(entries[k]))
  BY <1>1, EntryIsParsed, Zenon
<1> HIDE DEF filed
<1>5. \A k \in 1 .. n : parsed[k] = EntryIntents(EntryValue(entries[k]))
  BY <1>2, <1>4, Zenon
<1>6. parsed \in Seq(Seq(Intent)) /\ Len(parsed) = n
  <2>1. ASSUME NEW k \in 1 .. n PROVE IntentsAmong(filed[k]) \in Seq(Intent)
    <3> PICK s \in Seq(Field), m \in Nat : s = filed[k] /\ m = Len(s) /\ m \in 0 .. m
      BY <1>2
    <3> PICK f \in [0 .. m -> Seq(Intent)] : Keeps(f, m, s) /\ IntentsAmong(s) = f[m]
      BY IntentsAreKept
    <3> QED BY Zenon
  <2> PICK T : T = Seq(Intent)
    OBVIOUS
  <2>2. parsed \in [1 .. n -> T]
    BY <2>1, Zenon
  <2> HIDE DEF parsed
  <2> QED BY <2>2
<1>7. FlattenSeq(parsed) = IntentsAmong(FlattenSeq(filed))
  BY <1>3, IntentsJoined
<1> HIDE DEF parsed
<1>8. ParseStream(FlatReply(entries)) = FlattenSeq(parsed)
  BY <1>5, <1>6, ReplyFlattens
<1>9. ParseStream(Resp2Reply("trade-intents", entries)) = <<>>
  BY PairHoldsNoEntry
<1>10. IntentsParsedByShape <=>
         /\ ParseStream(FlatReply(entries)) = IntentsAmong(FlattenSeq(filed))
         /\ ParseStream(Resp2Reply("trade-intents", entries)) = <<>>
  BY Zenon DEF IntentsParsedByShape, Filed, filed
<1> QED BY <1>7, <1>8, <1>9, <1>10, Zenon

(* main.rs: whatever entries a reply of the stream holds, parse_stream      *)
(* finds every intent that decodes among their fields, in order, and        *)
(* nothing else, if the reply is an array of arrays of entries; and nothing *)
(* at all if it is the array of pairs that Redis sends.                     *)
THEOREM RepliesAreParsed ==
  ASSUME MaxFields \in Nat
  PROVE  InputsSpec => []IntentsParsedByShape
<1> DEFINE Replied == entries \in Seq(StreamEntry)
<1>1. InputsInit => Replied
  BY DEF InputsInit
<1>2. Replied /\ [GrowReply \/ GrowText \/ Simulate]_inputs => Replied'
  <2> SUFFICES ASSUME Replied, [GrowReply \/ GrowText \/ Simulate]_inputs PROVE Replied'
    OBVIOUS
  <2>1. CASE GrowReply
    <3> PICK e \in StreamEntry : entries' = Append(entries, e)
      BY <2>1 DEF GrowReply
    <3> QED OBVIOUS
  <2>2. CASE entries' = entries
    BY <2>2
  <2>3. GrowText \/ Simulate \/ UNCHANGED inputs => entries' = entries
    BY DEF GrowText, Simulate, inputs
  <2> QED BY <2>1, <2>2, <2>3
<1>3. Replied => IntentsParsedByShape
  BY ReplyIsParsed
<1> QED BY <1>1, <1>2, <1>3, PTL DEF InputsSpec
===============================================================================
