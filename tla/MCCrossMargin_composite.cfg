\* The composite on an asset the account already holds.
CONSTANTS
  Wad = 100
  SecondsPerYear = 4
  BasisPoints = 10000
  MaxRateCoeff = 1000
  MinInitialShares = 1
  MaxU64 = 60
  MaxU128 = 100000
  X = X
  Y = Y
  Z = Z
  Margins = {m1}
  Assets = {X, Y}
  ReserveConfig <- OneCurve
  Modes = {"Normal"}
  AssetConfigs <- ConfigsXY
  Prices <- PricesXY
  Scale = 2
  Threshold = 110
  MaxAssetsPerMargin = 3
  Supplied <- SuppliedXY
  Amounts = {3, 9}
  Balances = {}
  TransferFee <- NoFee
  GrossUp <- Same
  MaxTime = 0
  Legacy = Legacy
  Rates = {100}
  WordSize = 61
  Donations = {}
CHECK_DEADLOCK FALSE
SPECIFICATION Spec
PROPERTIES
  CompositeLeavesHealthy
