SPECIFICATION Spec
CONSTANTS
  ui = ui
  feed = feed
  dax = dax
  ftse = ftse
  None = None
  Callers <- TwoCallers
  Epics <- TwoMarkets
  Conns <- ThreeConns
  DoubleStart = FALSE
INVARIANTS
  UpdatedListIsStreamed
