\* Two messages, a restart of the bot, a retry of every XADD.
SPECIFICATION FairSpec
CONSTANTS
  x1 = x1
  Principal = bot
  Expressions = {x1}
  None = None
  SendFails = TRUE
  Commands <- FirstThenSecond
  MaxUpdates = 2
  MaxLives = 2
  MaxRetries = 1
INVARIANTS
  TypeOK
  SubmittedIsPublished
  ConfirmedComesFirst
  NoStaleReplay
PROPERTIES
  EveryUpdateAnswered
\* Users may stop sending messages.
CHECK_DEADLOCK FALSE
