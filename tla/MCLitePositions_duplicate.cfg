\* A second position for an asset.
CONSTANTS
  Wad = 100
  SecondsPerYear = 4
  BasisPoints = 10000
  MaxRateCoeff = 1000
  MinInitialShares = 1
  MaxU64 = 6
  MaxU128 = 100000
  X = X
  Y = Y
  Margins = {m1}
  Assets = {X, Y}
  ReserveConfig <- OneCurve
  Modes = {"Normal"}
  AssetConfigs <- ConfigsXY
  Prices <- PricesXY
  Scale = 2
  Threshold = 110
  MaxAssetsPerMargin = 2
  Supplied <- SuppliedXY
  Amounts = {3}
  Balances = {}
  TransferFee <- NoFee
  GrossUp <- Same
  MaxTime = 0
  Donations = {}
  Legacy = Legacy
  Rates = {100}
  WordSize = 7
  Strategies = {X}
  Equities = {1}
  Leverages = {40000}
  Exits = {5000, 10000}
  Supplies = {3}
  Deltas = {0}
  Byte = 4
  Chosen = {X, Legacy}
CHECK_DEADLOCK FALSE
SPECIFICATION LiteSpec
INVARIANTS
  OnePositionPerAsset
