\* Two filter settings and a trade, one exec process, no restarts.
SPECIFICATION FairSpec
CONSTANTS
  x1 = x1  w1 = w1  g1 = g1
  Principal = bot
  Expressions = {x1}
  None = None
  SendFails = FALSE
  Commands <- FilterCommands
  MaxUpdates = 3
  MaxLives = 1
  MaxRetries = 0
  Workers = {w1}
  Groups = {g1}
  GroupOf <- OneGroup
  DryRun = FALSE
  ReplyParses = TRUE
  MaxCrashes = 0
  MaxDrops = 0
INVARIANTS
  ConfirmedFilterGates
PROPERTIES
  SubmittedIsDecided
\* Users may stop sending messages.
CHECK_DEADLOCK FALSE
