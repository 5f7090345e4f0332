SPECIFICATION Spec
CONSTANTS
  reader = reader
  admin = admin
  cfd = cfd
  spread = spread
  isa = isa
  unset = unset
  None = None
  Callers <- TwoCallers
  Accounts <- ThreeAccounts
  Landing = spread
  Configured = spread
  Unset = unset
  Targets <- OneTarget
  Tokens <- FourTokens
INVARIANTS
  NeverAMix
