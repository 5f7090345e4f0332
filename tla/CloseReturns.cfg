SPECIFICATION FairSpec
CONSTANTS
  pricer = pricer
  hedger = hedger
  call = call
  put = put
  index = index
  None = None
  Callers <- TwoCallers
  Epics <- ThreeEpics
  Capacity = 2
  Tasks <- ThreeTasks
PROPERTIES
  CloseReturns
