\* Three assets and two slots, assets switched off as collateral, donations.
CONSTANTS
  Wad = 100
  SecondsPerYear = 4
  BasisPoints = 10000
  MaxRateCoeff = 1000
  MinInitialShares = 1
  MaxU64 = 8
  MaxU128 = 100000
  X = X
  Y = Y
  Z = Z
  Margins = {m1}
  Assets = {X, Y, Z}
  ReserveConfig <- OneCurve
  Modes = {"Normal", "BorrowPaused"}
  AssetConfigs <- ConfigsXYZ
  Prices <- PricesXYZ
  Scale = 2
  Threshold = 110
  MaxAssetsPerMargin = 2
  Supplied <- SuppliedXYZ
  Amounts = {2}
  Balances = {}
  TransferFee <- NoFee
  GrossUp <- Same
  MaxTime = 0
  Legacy = Legacy
  Rates = {100}
  WordSize = 61
  Donations = {2}
CHECK_DEADLOCK FALSE
SPECIFICATION Spec
INVARIANTS
  NoEmptySlots
  AssetsBounded
