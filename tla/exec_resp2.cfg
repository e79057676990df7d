\* The reply as Redis sends it, one process, no faults.
SPECIFICATION FairSpec
CONSTANTS
  w1 = w1  w2 = w2  g1 = g1  p1 = p1  x1 = x1
  Workers = {w1}
  Groups = {g1}
  GroupOf <- OneGroup
  Principals = {p1}
  Expressions = {x1}
  None = None
  DryRun = FALSE
  ReplyParses <- Resp2Parses
  MaxEntries = 2
  MaxCrashes = 0
  MaxDrops = 0
PROPERTIES
  EveryIntentDecided
\* The stream is bounded and a worker may wait for the next intent forever.
CHECK_DEADLOCK FALSE
