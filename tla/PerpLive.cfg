SPECIFICATION FairSpec
CONSTANTS
  a = a
  b = b
  c = c
  Accounts = {a, b}
  Markets = {m1}
  NoExpiry = 99
  Unbounded = 50
  DropExpiredLimit = 5
  NumSlots = 2
  QueueCap = 2
  BookCap = 1
  Version = 1
  MaxDepth = 1
  MaxTif = 2
  MaxFills = 2
  ValidInterval = 0
  ImpactQuantity = 9
  MakerFee = 0
  TakerFee = 0
  RefShares = {}
  RefSurcharges = {}
  LiabWeight = 200
  AssetWeight = 50
  InitLiabWeight = 300
  InitAssetWeight = 25
  Free = Free
  Nobody = Nobody
  Prices = {1, 2}
  Quantities = {1}
  MaxQuotes = {}
  OrderTypes = {"Limit"}
  AbsoluteExpiries = {}
  RelativeExpiries = {}
  MatchLimits = {}
  CancelLimits = {1}
  ConsumeLimits = {1}
  ClientIds = {0}
  ReduceOnly = {FALSE}
  OraclePrices = {200}
  ModeChanges = {"Active", "CloseOnly", "ForceCloseOnly"}
  InitBase <- NoPositions
  InitMode = "Default"
  MaxSeq = 3
  MaxTime = 1
PROPERTIES
  QueuedSlotFreed
  LiquidationClears
