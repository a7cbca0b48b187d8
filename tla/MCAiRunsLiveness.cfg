\* Every run ends and gives its reservation back as long as the worker does not
\* crash: a conversation with two messages, and tools that outlive their timeout.
SPECIFICATION FairSpec
CONSTANTS
  MAX_CREDITS_PER_AI_RUN = 3
  WALLET_MAX_CREDITS = 9
  c1 = c1
  c2 = c2
  t1 = t1
  Conversations = {c1}
  Attended = {}
  MaxInbound = 2
  MaxToolRounds = 1
  Modes = {"AUTO_REPLY"}
  StatusTargets = {"CLOSED"}
  TopUps = {}
  TopUpCredits = 3
  InitialCredits = 4
  Crashes = FALSE
  ToolTimeouts = TRUE
  NoRun = NoRun
PROPERTIES
  ActiveRunsEnd
  ReservationsReturn
CHECK_DEADLOCK FALSE
