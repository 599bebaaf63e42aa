SPECIFICATION FairSpec
CONSTANTS
  sol = sol
  srm = srm
  usd = usd
  trader = trader
  lender = lender
  Markets = {sol, srm}
  Quote = usd
  One = 4
  OptimalUtil = 2
  OptimalRate = 0
  MaxRate = 0
  MaxBasket = 1
  NumSlots = 2
  Weights <- QuarterWeights
  LowPrice = 2
  None = None
  Prices = {1, 2}
  Quantities = {2}
  CancelLimits = {1}
  Rebates = {1}
  ModeChanges <- SwapOrDelist
  InitNet <- ShortSrm
  InitMode <- OneDelisted
  Lent <- LenderDeposits
  MaxOrders = 2
  MaxMoves = 2
INVARIANTS
  BasketExact
  VaultsBalance
PROPERTIES
  FillsNeverHurt
  ClosingShrinks
  CloseDownEnds
