SPECIFICATION Spec
CONSTANTS
  Keys = {pda, legacy, dust}
  Dust = dust
  Legacy = legacy
  lender = lender
  Mngo = mngo
  Users = {alice}
  NoKey = NoKey
  One = 4
  OptimalUtil = 2
  OptimalRate = 0
  MaxRate = 0
  DepositIndex = 5
  BorrowIndex = 6
  Bps = 4
  Offers <- TwoOffers
  Finals <- TwoFinals
  Params <- NewParams
  InitParams <- BySize
  LegacyBorrows = 1
  Lent = 8
  Makers = {pda, legacy}
  MngoVault = 3
  MaxAccounts = {1, 2}
  MaxOrders = 2
  MaxMoves = 1
  MaxTime = 2
INVARIANTS
  PeriodBudget
  EmissionExact
  NothingStranded
  MakersExist
PROPERTIES
  FreshStart
CHECK_DEADLOCK FALSE
