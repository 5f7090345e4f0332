SPECIFICATION Spec
CONSTANTS
  reader = reader
  trader = trader
  Callers <- OneCaller
  N = 2
  MaxRetries = 1
  Cooldown = 2
  NoKey = NoKey
  Workload <- ReadWorkload
PROPERTIES
  TransientFailuresRetried
