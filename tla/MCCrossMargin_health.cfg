\* Loans, withdrawals, swaps, repayments and liquidations as a price moves.
CONSTANTS
  Wad = 100
  SecondsPerYear = 4
  BasisPoints = 10000
  MaxRateCoeff = 1000
  MinInitialShares = 1
  MaxU64 = 60
  MaxU128 = 100000
  X = X
  Y = Y
  Z = Z
  Margins = {m1}
  Assets = {X, Y}
  ReserveConfig <- OneCurve
  Modes = {"Normal"}
  AssetConfigs <- ConfigsXY
  Prices <- PricesXY
  Scale = 2
  Threshold = 110
  MaxAssetsPerMargin = 3
  Supplied <- SuppliedXY
  Amounts = {3, 6, 12}
  Balances <- Balances24
  TransferFee <- NoFee
  GrossUp <- Same
  MaxTime = 1
  Legacy = Legacy
  Rates = {100}
  WordSize = 61
  Donations = {}
CHECK_DEADLOCK FALSE
SPECIFICATION Spec
INVARIANTS
  NoHiddenCollateral
PROPERTIES
  OwnerLeavesHealthy
  LiquidationHelps
  StepsOfPools
