\* Two processes in one consumer group, a crash and a lost connection.
SPECIFICATION Spec
CONSTANTS
  w1 = w1  w2 = w2  g1 = g1  p1 = p1  x1 = x1
  Workers = {w1, w2}
  Groups = {g1}
  GroupOf <- OneGroup
  Principals = {p1}
  Expressions = {x1}
  None = None
  DryRun = FALSE
  ReplyParses = TRUE
  MaxEntries = 3
  MaxCrashes = 1
  MaxDrops = 1
  Group = g1
INVARIANTS
  TypeOK
  AtMostOnce
  NothingLostSilently
  NewestFilterGates
PROPERTIES
  DecisionIsFinal
  ImplementsLedger
\* The stream is bounded and a worker may wait for the next intent forever.
CHECK_DEADLOCK FALSE
