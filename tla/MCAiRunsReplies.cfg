\* One conversation in which customers, agents, a merchant, tools, both sweeps and
\* workers that may die act at once.
SPECIFICATION Spec
CONSTANTS
  MAX_CREDITS_PER_AI_RUN = 3
  WALLET_MAX_CREDITS = 9
  c1 = c1
  c2 = c2
  t1 = t1
  Conversations = {c1}
  Attended = {c1}
  MaxInbound = 2
  MaxToolRounds = 1
  Modes = {"DISABLED", "AUTO_REPLY"}
  StatusTargets = {"CLOSED"}
  TopUps = {}
  TopUpCredits = 3
  InitialCredits = 6
  Crashes = TRUE
  ToolTimeouts = FALSE
  NoRun = NoRun
CHECK_DEADLOCK FALSE
INVARIANTS
  OneActiveRunPerConversation
  ClaimableMeansIdle
PROPERTIES
  RepliesAreFresh
