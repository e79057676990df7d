\* Replies of up to two entries with up to two fields each; texts of up to
\* five tokens; files of up to six of four rows, short periods.
SPECIFICATION InputsSpec
CONSTANTS
  Ids = {"0-1", "0-2"}
  Keys = {"intent", "trace"}
  Words = {"a", "intent"}
  Malformed = {"intent"}
  MaxReply = 2
  MaxFields = 2
  Indicators = {"rsi"}
  Numerals = {"30", "inf", "nan"}
  ValueOf <- ValueOfNumeral
  NaN = NaN  Inf = Inf
  Tokens = {"rsi", "30", "inf", "nan", "5m", "<", ">", " "}
  MaxText = 5
  Services <- SomeServices
  RsiPeriod = 2  EmaPeriod = 3  SmaPeriod = 3  BollPeriod = 2  AtrPeriod = 3
  MacdFast = 2  MacdSlow = 3  MacdSignal = 3
  Unit = 3888
  Warmup = 3
  Cash = 7
  MaxRows = 6
  Rows <- SomeRows
INVARIANTS
  IntentsParsedByShape
  GatesOnWhatWasTyped
  AveragesAreWeighted
  RsiIsShareOfGains
  MacdLinesAreAligned
  FullyInvested
PROPERTIES
  TradesKeepEquity
\* The inputs and the rows stop growing at their bounds.
CHECK_DEADLOCK FALSE
