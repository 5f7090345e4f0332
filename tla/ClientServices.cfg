SPECIFICATION Spec
CONSTANTS
  n1 = n1
  n2 = n2
  m1 = m1
  c1 = c1
  c2 = c2
  e1 = e1
  e2 = e2
  e3 = e3
  writer = writer
  other = other
  demo = demo
  live = live
  a1 = a1
  a2 = a2
  v1 = v1
  v2 = v2
  w1 = w1
  k1 = k1
  k2 = k2
  BlankKey = BlankKey
  Null = Null
  Empty = Empty
  Bad = Bad
  NoToken = NoToken
  Unknown = Unknown
  NoRow = NoRow
  Root = Root
  None = None
  Blank = Blank
  BadTime = BadTime
  Nodes = {n1, n2}
  Markets = {m1}
  MaxDepth = 2
  Graphs <- MCGraphs
  Trees <- MCTrees
  Services = {writer, other}
  Exchanges = {demo, live}
  Naming <- MCNaming
  Batch = 2
  Categories = {c1, c2}
  CodeLists <- MCCodeLists
  Epics = {e1, e2, e3}
  Catalogs <- MCCatalogs
  Strays <- MCStrays
  PageSize = 2
  MaxPages = 3
  Concurrency = 2
  Rows = 2
  MaxHistory = 4
  CountWidth = 4
  Procs = {1, 2}
  Databases <- MCDatabases
  Batches <- MCBatches
  Keys <- MCKeys
  Width = 5
  AttemptWidth = 3
  Cap = 12
  Delays = {0, 1, 5, 31}
  Limits = {0, 3, 8}
  MaxSends = 3
  Second = 3
  Budgets <- MCBudgets
  DefaultBurst = 2
  FixedRate = 1
  FixedBurst = 1
  Horizon = 4
  MaxSessions = 2
  MaxTasks = 2
  Numbers = {v1, v2}
  Words = {w1}
  Names = {a1, a2}
  Pinned = a1
  Lives = {1, 3}
  Margin = 1
  Delay = 1
  Longest = 2
  MaxRetries = 1
  Pauses = {2}
  Instruments = {e1}
  Sizes = {1, 2}
  Openings = {3, 6}
  Bids = {4}
  Offers = {5}
  MostPositions = 3
  Years = {0, 23, 24, 25}
  Days = {0, 1, 28, 29, 30, 31, 32}
  Writers = {1, 2}
  Walks <- MCWalks
  Clients = {1, 2}
  ApiKeys = {k1, k2}
  KeyLists <- MCKeyLists
  Holders = {a1, a2}
  Quotes = {1, 2}
  Lowest = 0
  Highest = 3
  Amounts = {10, 15}
  MostOrders = 2
  MaxUpdates = 3
  Assets <- MCAssets
  Strikes <- MCStrikes
  Used = {"walk", "database", "catalog", "sync", "prices", "confirm", "operations", "pacing", "streamer", "updates", "oauth", "netting", "expiry", "filtered", "setup", "orders", "listener", "wire", "names"}
INVARIANTS
  TypeOK
  WalkTells
  WholeRefresh
  RejectedForRepeats
  CatalogTells
  EffectsOnce
  StoresTell
  PausesKept
  ConvertersOwned
  TokenServes
  RecordsTell
  NettingTells
PROPERTIES
  CallsReturn
CHECK_DEADLOCK FALSE
