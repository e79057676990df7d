\* Two processes, crashes and lost connections: the group keeps draining.
SPECIFICATION DrainSpec
CONSTANTS
  w1 = w1  w2 = w2  g1 = g1  p1 = p1  x1 = x1
  Workers = {w1, w2}
  Groups = {g1}
  GroupOf <- OneGroup
  Principals = {p1}
  Expressions = {x1}
  None = None
  DryRun = FALSE
  ReplyParses <- FlatParses
  MaxEntries = 5
  MaxCrashes = 1
  MaxDrops = 1
PROPERTIES
  StallsOnlyTogether
\* The stream is bounded and a worker may wait for the next intent forever.
CHECK_DEADLOCK FALSE
