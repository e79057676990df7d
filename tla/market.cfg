\* Candles: one symbol, one HTTP handler, a restart.  Hub: two connections.
SPECIFICATION MarketSpec
CONSTANTS
  btc = btc  r1 = r1  c1 = c1  c2 = c2
  Symbols = {btc}
  Readers = {r1}
  Limit = 2
  MaxUpdates = 4
  MaxLives = 2
  Conns = {c1, c2}
  MaxInbox = 2
  MaxLate = 3
INVARIANTS
  TypeOK
  RowsKeepUp
  AnswersAreFresh
  NoOrphans
  TwoLateTicksAtMost
PROPERTIES
  RowsNeverGoBack
  PanicsOnlyWhileStopping
  SlowClientsHurtThemselves
  EndsUnlessQuiet
\* The updates, the connections and the starts are bounded.
CHECK_DEADLOCK FALSE
