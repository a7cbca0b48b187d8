\* Two conversations, one of them attended, compete for one wallet that may be
\* credited, suspended or closed, and that one reservation nearly empties.
SPECIFICATION Spec
CONSTANTS
  MAX_CREDITS_PER_AI_RUN = 3
  WALLET_MAX_CREDITS = 9
  c1 = c1
  c2 = c2
  t1 = t1
  Conversations = {c1, c2}
  Attended = {c1}
  MaxInbound = 1
  MaxToolRounds = 1
  Modes = {"SUGGEST_ONLY"}
  StatusTargets = {"ACTIVE", "SUSPENDED", "CLOSED"}
  TopUps = {t1}
  TopUpCredits = 3
  InitialCredits = 4
  Crashes = FALSE
  ToolTimeouts = FALSE
  NoRun = NoRun
INVARIANTS
  LedgerMatchesUsage
  ReservedIsHeldAndCovered
  FundsConserved
PROPERTIES
  ImplementsCreditAccount
