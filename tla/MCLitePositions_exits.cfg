\* A position of the borrowed asset, opened and wound down in two instructions.
CONSTANTS
  Wad = 100
  SecondsPerYear = 4
  BasisPoints = 10000
  MaxRateCoeff = 1000
  MinInitialShares = 1
  MaxU64 = 6
  MaxU128 = 100000
  X = X
  Y = Y
  Margins = {m1}
  Assets = {Y}
  ReserveConfig <- OneCurve
  Modes = {"Normal"}
  AssetConfigs <- ConfigsY
  Prices <- PricesY
  Scale = 2
  Threshold = 110
  MaxAssetsPerMargin = 2
  Supplied <- SuppliedY
  Amounts = {3}
  Balances = {}
  TransferFee <- NoFee
  GrossUp <- Same
  MaxTime = 1
  Donations = {}
  Legacy = Legacy
  Rates = {100}
  WordSize = 7
  Strategies = {Y}
  Equities = {1}
  Leverages = {40000}
  Exits = {5000, 10000}
  Supplies = {3}
  Deltas = {2}
  Byte = 4
  Chosen = {Y}
CHECK_DEADLOCK FALSE
SPECIFICATION LiteSpec
INVARIANTS
  TypeOK
  
  
PROPERTIES
  LiteLeavesHealthy
  ExitsPayTheirDebt
  PendingKept
