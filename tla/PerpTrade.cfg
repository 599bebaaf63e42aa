SPECIFICATION Spec
CONSTANTS
  a = a
  b = b
  c = c
  Accounts = {a, b}
  Markets = {m1}
  NoExpiry = 99
  Unbounded = 50
  DropExpiredLimit = 5
  NumSlots = 2
  QueueCap = 2
  BookCap = 2
  Version = 1
  MaxDepth = 1
  MaxTif = 2
  MaxFills = 2
  ValidInterval = 1
  ImpactQuantity = 1
  MakerFee <- MakerRebate
  TakerFee = 2
  RefShares = {1}
  RefSurcharges = {1}
  LiabWeight = 200
  AssetWeight = 50
  InitLiabWeight = 300
  InitAssetWeight = 25
  Free = Free
  Nobody = Nobody
  Prices = {1, 2}
  Quantities = {1, 2}
  MaxQuotes = {}
  OrderTypes = {"Limit", "ImmediateOrCancel", "PostOnly", "Market", "PostOnlySlide"}
  AbsoluteExpiries = {}
  RelativeExpiries = {}
  MatchLimits = {}
  CancelLimits = {1}
  ConsumeLimits = {1, 8}
  ClientIds = {0}
  ReduceOnly = {FALSE}
  OraclePrices = {200}
  ModeChanges = {}
  InitBase <- NoPositions
  InitMode = "Active"
  MaxSeq = 3
  MaxTime = 0
SYMMETRY AccountSymmetry
INVARIANTS
  QuoteConserved
  NeverStuck
  OnOrdersExact
  DrainSettlesTakers
  PositionsBalance
  BookNotCrossed
