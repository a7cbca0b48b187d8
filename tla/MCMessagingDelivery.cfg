SPECIFICATION Spec
CONSTANTS
  m1 = m1
  m2 = m2
  t1 = t1
  t2 = t2
  Messages = {m1}
  MaxDispatches = 2
  JobAttempts = 2
  MaxAccepted = 2
  MaxFaults = 1
  Texts = {}
  Reports = {"DELIVERED", "READ", "FAILED"}
  MaxBreaks = 0
  MaxReports = 2
  MaxClaims = 2
  MaxConversations = 1
  StatusTargets = {}
CONSTRAINT FewReports
CHECK_DEADLOCK FALSE
INVARIANTS
  SendsNeedFaults
  SomebodyCarries
  ProcessedStatusesAreShown
