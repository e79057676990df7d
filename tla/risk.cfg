\* Four trades in three tokens and a caller that may go astray.
SPECIFICATION Spec
CONSTANTS
  t1 = t1  t2 = t2  t3 = t3  x1 = x1  x2 = x2  x3 = x3  x4 = x4
  Trades = {x1, x2, x3, x4}
  Tokens = {t1, t2, t3}
  Intents <- ThreeTokens
  limits <- TwoListed
  MaxPortfolio = 4
  MaxTime = 4
INVARIANTS
  TypeOK
  ExposureIsOpenNotional
  CooldownSpacing
PROPERTIES
  RefusedForItsOwnToken
SYMMETRY TradeSym
\* The trades and the clock are bounded.
CHECK_DEADLOCK FALSE
