SPECIFICATION InboxSpec
CONSTANTS
  m1 = m1
  m2 = m2
  t1 = t1
  t2 = t2
  Messages = {}
  MaxDispatches = 1
  JobAttempts = 2
  MaxAccepted = 0
  MaxFaults = 0
  Texts = {t1, t2}
  Reports = {"DELIVERED", "READ", "FAILED"}
  MaxBreaks = 1
  MaxReports = 0
  MaxClaims = 2
  MaxConversations = 2
  StatusTargets = {"RESOLVED", "OPEN", "CLOSED"}
CHECK_DEADLOCK FALSE
INVARIANTS
  UnreadIsUnseen
PROPERTIES
  EventsSettle
