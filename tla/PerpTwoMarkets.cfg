SPECIFICATION AdvancedSpec
CONSTANTS
  a = a
  b = b
  c = c
  Accounts = {a, b}
  m1 = m1
  m2 = m2
  Markets = {m1, m2}
  NoExpiry = 99
  Unbounded = 50
  DropExpiredLimit = 5
  NumSlots = 2
  QueueCap = 2
  BookCap = 1
  Version = 1
  MaxDepth = 1
  MaxTif = 2
  MaxFills = 2
  ValidInterval = 1
  ImpactQuantity = 1
  MakerFee = 0
  TakerFee = 0
  RefShares = {}
  RefSurcharges = {}
  LiabWeight = 200
  AssetWeight = 50
  InitLiabWeight = 300
  InitAssetWeight = 25
  Free = Free
  Nobody = Nobody
  Prices = {1}
  Quantities = {1}
  MaxQuotes = {}
  OrderTypes = {"Limit"}
  AbsoluteExpiries = {}
  RelativeExpiries = {}
  MatchLimits = {}
  CancelLimits = {1}
  ConsumeLimits = {1}
  ClientIds = {0}
  ReduceOnly = {FALSE}
  OraclePrices = {200}
  ModeChanges = {}
  InitBase <- OneShort
  InitMode = "Active"
  NumAdvanced = 2
  Rent = 1
  OrderFee = 1
  Inactive = Inactive
  TriggerUsers = {b}
  TriggerOrders <- StopLoss
  MaxSeq = 2
  MaxTime = 0
INVARIANTS
  FeesEscrowed
PROPERTIES
  ImplementsLedger
