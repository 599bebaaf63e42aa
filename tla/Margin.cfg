CONSTANTS
  lender = lender
  trader = trader
  other = other
  Accounts = {lender, trader, other}
  Base = Base
  Quote = Quote
  All = All
  One = 64
  OptimalUtil = 32
  OptimalRate = 8
  MaxRate = 32
  DustThreshold = 4
  ValidInterval = 0
  Spot <- Weights
  Perp <- Weights
  Starts <- MCStarts
  Prices <- TwoPrices
  DepositQuantities = {2}
  WithdrawQuantities = {2, 3, All}
  AllowBorrow = {TRUE, FALSE}
  LiabTransfers <- NoLimit
  BaseTransfers <- BothWays
  MaxMoves = 2
  MaxTime = 1
SPECIFICATION FairSpec
INVARIANTS BanksBalance CacheCurrent PositionsExact
PROPERTIES BankruptOnlyDust LendersCovered LiquidationExact ClaimsKept BankruptcyEnds
