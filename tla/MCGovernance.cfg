\* The administrator changes hands and configuration while prices age.
CONSTANTS
  Feeds = {f1}
  Quotes <- ThreeQuotes
  BasisPoints = 100
  LastPublish = 1
  MaxTime = 3
  Keys = {k1, k2}
  NoKey = NoKey
  Mints = {A, B, C}
  RiskChoices <- Risks
  LimitChoices <- TwoLimits
  Modes = {"Normal", "Halted"}
  MaxAssets = 2
  AssetCounts = {0, 2, 3}
  IndexLimit = 3
  Values = {3, 7, 1000}
CHECK_DEADLOCK FALSE
SPECIFICATION FairSpec
INVARIANTS
  IndexesIdentifyAssets
  SeizureCovered
PROPERTIES
  AssetsKeepIdentity
  HandedOverAsProposed
  RefusedForGood
  SilentFeedsAreRefused
