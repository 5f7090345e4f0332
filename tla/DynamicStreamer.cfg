SPECIFICATION FairSpec
CONSTANTS
  ui = ui
  feed = feed
  dax = dax
  ftse = ftse
  None = None
  Callers <- TwoCallers
  Epics <- TwoMarkets
  Conns <- ThreeConns
  DoubleStart = FALSE
INVARIANTS
  TypeOK
  RunningIsCurrent
  ConnectedIsTrue
PROPERTIES
  OperationReturns
  FallsSilent
