SPECIFICATION FairSpec
CONSTANTS
  reader = reader
  admin = admin
  cfd = cfd
  spread = spread
  isa = isa
  unset = unset
  None = None
  Callers <- TwoCallers
  Accounts <- ThreeAccounts
  Landing = cfd
  Configured = spread
  Unset = unset
  Targets <- OneTarget
  Tokens <- FourTokens
INVARIANTS
  TypeOK
  SessionTellsAccount
  NoLandingLeft
  AccountInForce
PROPERTIES
  LandingOnlyMeanwhile
  OperationReturns
