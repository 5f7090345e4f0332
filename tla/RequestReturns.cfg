SPECIFICATION FairSpec
CONSTANTS
  reader = reader
  trader = trader
  Callers <- OneCaller
  N = 3
  MaxRetries = 1
  Cooldown = 1
  NoKey = NoKey
  Workload <- EveryWorkload
PROPERTIES
  ImplementsContract
  RequestReturns
