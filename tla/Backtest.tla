-------------------------------- MODULE Backtest --------------------------------
(***************************************************************************)
(* The backtest (ta-service/cmd/backtest/main.go): it loads a CSV file and *)
(* walks along its rows, buying and selling on the RSI of the rows so far. *)
(* Quantities and cash are in thousandths, so they are whole numbers, or   *)
(* what a division by a price of 0 makes of them.  A value that does not   *)
(* parse is 0.  The rows are in the order of their timestamps.             *)
(***************************************************************************)
EXTENDS Indicators, Floats

CONSTANTS
  Rows,     \* what a row of the file may hold
  Warmup,   \* rows before the first decision
  Cash,     \* the initial cash
  MaxRows   \* bound: rows of the file

VARIABLES
  rows,      \* candlesData, or what is loaded of it
  cursor,    \* rows decided, 0 while the file is loaded
  cash,      \* a number or NaN
  position,  \* a number, Inf or NaN; a number as long as cash is one
  entry

vars == <<rows, cursor, cash, position, entry>>

Init ==
  /\ rows = <<>> /\ cursor = 0
  /\ cash = Cash /\ position = 0 /\ entry = 0

(* loadCSV *)
Load ==
  /\ cursor = 0 /\ Len(rows) < MaxRows
  /\ \E row \in Rows : rows' = Append(rows, row)
  /\ UNCHANGED <<cursor, cash, position, entry>>

Begin ==
  /\ cursor = 0 /\ Len(rows) > Warmup
  /\ cursor' = Warmup
  /\ UNCHANGED <<rows, cash, position, entry>>

Price == rows[cursor + 1].close

(* sliceSource hands out the rows up to the one under decision.             *)
Rsi == ComputeRSI(Closes(SubSeq(rows, 1, cursor + 1)), RsiPeriod)

Oversold   == \E v \in Rsi : 100 * v.num < 30 * v.den
Overbought == \E v \in Rsi : 100 * v.num > 70 * v.den
StopLoss   == Price * 100 < entry * 95

Deciding == cursor >= Warmup /\ cursor > 0 /\ cursor < Len(rows)
Buys     == position = 0 /\ Oversold
Held     == position = Inf \/ (position \in Int /\ position > 0)
Sells    == Held /\ Rsi # {} /\ (Overbought \/ StopLoss)

(* cash and the price of the position *)
Proceeds(price) == IF cash = NaN THEN NaN ELSE cash + position * price

(* Mutant: the quantity is rounded up. *)
LotsUp(money, price) == (money + price - 1) \div price

(* math.Floor(cash / price * 1000) *)
Lots(money, price) == money \div price

Buy ==
  /\ Deciding /\ Buys /\ cash # NaN /\ Price > 0
  /\ LET qty == Lots(cash, Price)
     IN IF qty > 0
          THEN /\ position' = qty /\ cash' = cash - qty * Price
               /\ entry' = Price
          ELSE UNCHANGED <<cash, position, entry>>
  /\ cursor' = cursor + 1
  /\ UNCHANGED rows

(* cash / 0 is infinite, 0 / 0 no number, nor is anything made of NaN; none *)
(* of these quantities is refused, and none leaves a cash that is a number. *)
BuyForNothing ==
  /\ Deciding /\ Buys /\ (cash = NaN \/ Price = 0)
  /\ position' = IF cash # NaN /\ cash > 0 THEN Inf ELSE NaN
  /\ cash' = NaN /\ entry' = Price
  /\ cursor' = cursor + 1
  /\ UNCHANGED rows

(* Mutant: a sale brings the entry price. *)
SellAtEntry ==
  /\ Deciding /\ Sells
  /\ cash' = Proceeds(entry) /\ position' = 0
  /\ cursor' = cursor + 1
  /\ UNCHANGED <<rows, entry>>

Sell ==
  /\ Deciding /\ Sells
  /\ cash' = Proceeds(Price) /\ position' = 0
  /\ cursor' = cursor + 1
  /\ UNCHANGED <<rows, entry>>

Hold ==
  /\ Deciding /\ ~Buys /\ ~Sells
  /\ cursor' = cursor + 1
  /\ UNCHANGED <<rows, cash, position, entry>>

(* What is left is sold at the last close. *)
Liquidate ==
  /\ cursor > 0 /\ cursor = Len(rows) /\ Held
  /\ cash' = Proceeds(rows[cursor].close) /\ position' = 0
  /\ UNCHANGED <<rows, cursor, entry>>

Next == Load \/ Begin \/ Buy \/ BuyForNothing \/ Sell \/ Hold \/ Liquidate

Spec == Init /\ [][Next]_vars
-------------------------------------------------------------------------------
(* indicators.go, against what an average is: the running window sum never  *)
(* drifts from the window, and a smoothed value is its seed and every later *)
(* value at its weight, none lost and none counted twice.                   *)
Power(base, exponent) ==
  LET power[n \in 0 .. exponent] == IF n = 0 THEN 1 ELSE base * power[n - 1]
  IN power[exponent]

WeightedSum(values, period, num, den) ==
  LET late == Len(values) - period
      weight(j) == num * Power(den - num, late - j) * Power(den, j - 1)
      seed == Total(SubSeq(values, 1, period)) * Power(den - num, late)
  IN seed + period * Total([j \in 1 .. late |-> values[period + j] * weight(j)])

Weighted(v, values, period, num, den) ==
  v * period * Power(den, Len(values) - period) = WeightedSum(values, period, num, den)

TrueRange(candles, i) ==
  LET from == IF i = 1 THEN candles[i].low ELSE candles[i - 1].close
      low  == IF candles[i].low < from THEN candles[i].low ELSE from
  IN (Larger(candles[i].high, from) - low) * Unit

AveragesAreWeighted ==
  cursor = 0 => LET now == Signals(rows)
                    close == Closes(rows)
                    range == [i \in DOMAIN rows |-> TrueRange(rows, i)]
                    last(k) == SubSeq(close, Len(rows) - k + 1, Len(rows)) IN
    /\ \A v \in now.sma : v * SmaPeriod = Total(last(SmaPeriod))
    /\ \A v \in now.ema : Weighted(v, close, EmaPeriod, 2, EmaPeriod + 1)
    /\ \A v \in now.atr : Weighted(v, range, AtrPeriod, 1, AtrPeriod)
    /\ \A v \in now.boll :
         LET window == last(BollPeriod)
             squares == [j \in DOMAIN window |-> window[j] * window[j]]
         IN BollPeriod * (v.variance + v.middle * v.middle) = Total(squares)

(* rsiSeries: the RSI is the share of the gains in all movement, every gain *)
(* and every loss counted once, at the weight of its age; all of it if      *)
(* nothing was lost.                                                        *)
RsiIsShareOfGains ==
  cursor = 0 => LET change(i) == rows[i + 1].close - rows[i].close
                    steps == 1 .. Len(rows) - 1
                    weighed(moves) == WeightedSum(moves, RsiPeriod, 1, RsiPeriod)
                    gained == weighed([i \in steps |-> Larger(change(i), 0)])
                    lost   == weighed([i \in steps |-> Larger(0 - change(i), 0)]) IN
    \A v \in ComputeRSI(Closes(rows), RsiPeriod) :
      /\ v.den > 0
      /\ IF lost = 0 THEN v.num = v.den
                     ELSE v.num * (gained + lost) = v.den * gained

(* macdSeries: MACD, signal and histogram speak of one place: the MACD is   *)
(* the one of all closes, the signal the EMA of the MACDs that shorter and  *)
(* shorter histories had, and the histogram their difference.               *)
MacdLinesAreAligned ==
  cursor = 0 => LET close == Closes(rows)
                    ema(m, period) == Latest(EmaSeries(SubSeq(close, 1, m), period))
                    macd(m) == ema(m, MacdFast) - ema(m, MacdSlow)
                    past == [j \in 1 .. Len(rows) - MacdSlow + 1 |-> macd(MacdSlow + j - 1)] IN
    \A v \in ComputeMACD(close, MacdFast, MacdSlow, MacdSignal) :
      /\ v.macd = macd(Len(rows))
      /\ v.signal = Latest(EmaSeries(past, MacdSignal))
      /\ v.histogram = v.macd - v.signal

(* main: all the cash goes into a position and all of it comes back: what   *)
(* is left over beside a position would not buy the smallest lot, and cash  *)
(* is never negative.  The books are lost only to a row without a price.    *)
FullyInvested ==
  IF cash = NaN
    THEN \E i \in Warmup + 1 .. cursor : rows[i].close = 0
    ELSE /\ cash >= 0 /\ position \in Nat
         /\ position > 0 => cash < entry

(* A decision neither makes nor loses money at the price it is taken at, as *)
(* long as there is a price; without one the books are lost for good.       *)
TradesKeepEquity ==
  [][cursor' = cursor + 1 =>
       IF cash' = NaN THEN cash = NaN \/ Price = 0
       ELSE cash # NaN /\ cash' + position' * Price = cash + position * Price]_vars
===============================================================================
