------------------------------- MODULE Indicators -------------------------------
(***************************************************************************)
(* The indicators of the TA service (ta-service/internal/indicators) over  *)
(* sequences of prices: position i is the code's index i - 1.  A float64   *)
(* is a whole number of units, 1 / Unit each; Unit has divisors enough     *)
(* that no division below leaves a rest.  A series is as long as its input *)
(* and zero before its first value.  A Compute operator yields the set of  *)
(* its result: none where the code returns an error.  The square root of   *)
(* the Bollinger bands is left out: the width is given as its square.      *)
(***************************************************************************)
EXTENDS Integers, Sequences

CONSTANTS
  RsiPeriod, EmaPeriod, SmaPeriod, BollPeriod, AtrPeriod,
  MacdFast, MacdSlow, MacdSignal,
  Unit

Larger(a, b)   == IF a < b THEN b ELSE a
Distance(a, b) == Larger(a - b, b - a)

Total(s) == LET sum[i \in 0 .. Len(s)] == IF i = 0 THEN 0 ELSE sum[i - 1] + s[i]
            IN sum[Len(s)]
Mean(s)  == Total(s) \div Len(s)

(* Computed from at least so many values. *)
Given(values, needed, result) == IF Len(values) < needed THEN {} ELSE {result}

(* Mutant: the running sum drops a value one step late. *)
SmaSeriesLate(values, period) ==
  LET window[i \in 0 .. Len(values)] ==
        IF i = 0 THEN 0
          ELSE window[i - 1] + values[i]
                 - (IF i > period + 1 THEN values[i - period - 1] ELSE 0)
  IN [i \in DOMAIN values |-> IF i < period THEN 0 ELSE window[i] \div period]

(* smaSeries: a running sum over the window. *)
SmaSeries(values, period) ==
  LET window[i \in 0 .. Len(values)] ==
        IF i = 0 THEN 0
          ELSE window[i - 1] + values[i]
                 - (IF i > period THEN values[i - period] ELSE 0)
  IN [i \in DOMAIN values |-> IF i < period THEN 0 ELSE window[i] \div period]

(* What emaSeries, rsiSeries and atrSeries have in common: the mean of the  *)
(* first values, then each further value with weight num / den.             *)
Smoothed(values, period, num, den) ==
  LET avg[i \in period .. Len(values)] ==
        IF i = period THEN Mean(SubSeq(values, 1, period))
          ELSE (values[i] * num + avg[i - 1] * (den - num)) \div den
  IN [i \in DOMAIN values |-> IF i < period THEN 0 ELSE avg[i]]

EmaSeries(values, period) == Smoothed(values, period, 2, period + 1)

(* 100 - 100 / (1 + gain / loss) as a fraction of 100, all of it without    *)
(* losses.                                                                  *)
Strength(gain, loss) ==
  IF loss = 0 THEN [num |-> 1, den |-> 1] ELSE [num |-> gain, den |-> gain + loss]

(* Mutant: every change counts as a loss. *)
RsiSeriesAbsolute(values, period) ==
  LET steps  == 1 .. Len(values) - 1
      gains  == [i \in steps |-> Larger(values[i + 1] - values[i], 0)]
      losses == [i \in steps |-> Distance(values[i + 1], values[i])]
      gain   == Smoothed(gains, period, 1, period)
      loss   == Smoothed(losses, period, 1, period)
  IN [i \in DOMAIN values |->
        IF i <= period THEN [num |-> 0, den |-> 1] ELSE Strength(gain[i - 1], loss[i - 1])]

(* rsiSeries: gains and losses smoothed after Wilder. *)
RsiSeries(values, period) ==
  LET steps  == 1 .. Len(values) - 1
      gains  == [i \in steps |-> Larger(values[i + 1] - values[i], 0)]
      losses == [i \in steps |-> Larger(values[i] - values[i + 1], 0)]
      gain   == Smoothed(gains, period, 1, period)
      loss   == Smoothed(losses, period, 1, period)
  IN [i \in DOMAIN values |->
        IF i <= period THEN [num |-> 0, den |-> 1] ELSE Strength(gain[i - 1], loss[i - 1])]

(* bollingerBands: mean and squared width of each window. *)
BollingerBands(values, period) ==
  LET middle == SmaSeries(values, period)
      square(x) == x * x
      variance(i) == Mean([j \in 1 .. period |->
                       square(values[i - period + j] - middle[i])])
  IN [i \in DOMAIN values |->
        IF i < period THEN [middle |-> 0, variance |-> 0]
          ELSE [middle |-> middle[i], variance |-> variance(i)]]

(* atrSeries: the true range, smoothed after Wilder. *)
AtrSeries(high, low, close, period) ==
  LET range(i) ==
        IF i = 1 THEN Distance(high[i], low[i])
          ELSE Larger(high[i] - low[i], Larger(Distance(high[i], close[i - 1]),
                                               Distance(low[i], close[i - 1])))
  IN Smoothed([i \in DOMAIN close |-> range(i)], period, 1, period)

(* Mutant: the signal line is copied back without its shift. *)
MacdSeriesUnshifted(values, fast, slow, signal) ==
  LET fastEMA == EmaSeries(values, fast)
      slowEMA == EmaSeries(values, slow)
      line    == [i \in DOMAIN values |->
                    IF i < slow THEN 0 ELSE fastEMA[i] - slowEMA[i]]
      series  == EmaSeries(SubSeq(line, slow, Len(line)), signal)
      signals == [i \in DOMAIN values |-> IF i > Len(series) THEN 0 ELSE series[i]]
  IN [macd |-> line, signal |-> signals,
      histogram |-> [i \in DOMAIN values |->
        IF i < slow + signal - 1 THEN 0 ELSE line[i] - signals[i]]]

(* macdSeries: the signal line is an EMA of the MACD line's defined part,   *)
(* shifted back to the places of the values.                                *)
MacdSeries(values, fast, slow, signal) ==
  LET fastEMA == EmaSeries(values, fast)
      slowEMA == EmaSeries(values, slow)
      line    == [i \in DOMAIN values |->
                    IF i < slow THEN 0 ELSE fastEMA[i] - slowEMA[i]]
      series  == EmaSeries(SubSeq(line, slow, Len(line)), signal)
      signals == [i \in DOMAIN values |->
                    IF i < slow THEN 0 ELSE series[i - slow + 1]]
  IN [macd |-> line, signal |-> signals,
      histogram |-> [i \in DOMAIN values |->
        IF i < slow + signal - 1 THEN 0 ELSE line[i] - signals[i]]]

Latest(series) == series[Len(series)]

ComputeSMA(values, period) == Given(values, period, Latest(SmaSeries(values, period)))
ComputeEMA(values, period) == Given(values, period, Latest(EmaSeries(values, period)))
ComputeRSI(values, period) == Given(values, period + 1, Latest(RsiSeries(values, period)))
ComputeBollinger(values, period) ==
  Given(values, period, Latest(BollingerBands(values, period)))
ComputeATR(high, low, close, period) ==
  Given(close, period, Latest(AtrSeries(high, low, close, period)))
ComputeMACD(values, fast, slow, signal) ==
  LET series == MacdSeries(values, fast, slow, signal)
  IN Given(values, slow + signal,
           [macd |-> Latest(series.macd), signal |-> Latest(series.signal),
            histogram |-> Latest(series.histogram)])

(* Service.series: closes, highs and lows of candles, in units.             *)
Closes(candles) == [i \in DOMAIN candles |-> candles[i].close * Unit]
Highs(candles)  == [i \in DOMAIN candles |-> candles[i].high * Unit]
Lows(candles)   == [i \in DOMAIN candles |-> candles[i].low * Unit]

(* Service.Signals: each indicator that there are candles enough for; an    *)
(* error if there is none.                                                  *)
Signals(candles) ==
  LET close == Closes(candles)
  IN [rsi  |-> ComputeRSI(close, RsiPeriod),
      ema  |-> ComputeEMA(close, EmaPeriod),
      sma  |-> ComputeSMA(close, SmaPeriod),
      boll |-> ComputeBollinger(close, BollPeriod),
      atr  |-> ComputeATR(Highs(candles), Lows(candles), close, AtrPeriod),
      macd |-> ComputeMACD(close, MacdFast, MacdSlow, MacdSignal)]
===============================================================================
