SPECIFICATION Spec
CONSTANTS
  a = a
  b = b
  c = c
  Accounts = {a, b, c}
  Markets = {m1}
  NoExpiry = 99
  Unbounded = 50
  DropExpiredLimit = 1
  NumSlots = 2
  QueueCap = 2
  BookCap = 2
  Version = 0
  MaxDepth = 1
  MaxTif = 2
  MaxFills = 2
  ValidInterval = 1
  ImpactQuantity = 2
  MakerFee <- MakerRebate
  TakerFee = 2
  RefShares = {}
  RefSurcharges = {}
  LiabWeight = 200
  AssetWeight = 50
  InitLiabWeight = 300
  InitAssetWeight = 25
  Free = Free
  Nobody = Nobody
  Prices = {1, 2}
  Quantities = {1, 2}
  MaxQuotes = {50}
  OrderTypes = {"Limit"}
  AbsoluteExpiries = {1}
  RelativeExpiries = {}
  MatchLimits = {8}
  CancelLimits = {1}
  ConsumeLimits = {1}
  ClientIds = {0}
  ReduceOnly = {TRUE}
  OraclePrices = {200}
  ModeChanges = {}
  InitBase <- OneShort
  InitMode = "CloseOnly"
  MaxSeq = 3
  MaxTime = 2
SYMMETRY LongSymmetry
INVARIANTS
  SlotOwnership
  QuoteConserved
  SimulationExact
PROPERTIES
  CloseOnlyShrinks
  PriceTimePriority
