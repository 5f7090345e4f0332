SPECIFICATION Spec
CONSTANTS
  reader = reader
  trader = trader
  Callers <- ReaderAndTrader
  N = 2
  MaxRetries = 1
  Cooldown = 1
  NoKey = NoKey
  Workload <- TwoWorkloads
INVARIANTS
  TypeOK
  SingleAttemptSentOnce
  SendsWithinBudget
  EverySendPaid
  NotSentOnRefusedKey
  LeavesOnlyRefusedKeys
  CandidateLeft
PROPERTIES
  PrimaryAuthenticated
