\* One top-up and everything that may happen to its payment, with errors, crashes,
\* a wallet that may be closed, and a fair sweep.
SPECIFICATION FairSpec
CONSTANTS
  MAX_CREDITS_PER_AI_RUN = 3
  WALLET_MAX_CREDITS = 9
  t1 = t1
  t2 = t2
  TopUps = {t1}
  Outcomes = {"PROCESSING", "PAID", "FAILED", "REFUNDED"}
  Credits = 3
  InitialCredits = 4
  StatusTargets = {"CLOSED"}
  BatchSize = 1
  Errors = TRUE
  Sweep = Sweep
INVARIANTS
  ProcessedIsApplied
  TopUpFollowsPayment
PROPERTIES
  ImplementsIdealTopUps
  OpenTopUpsEnd
