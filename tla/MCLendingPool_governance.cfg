\* Modes, statuses and configurations change under the feet of the users of a
\* reserve whose mint withholds transfer fees; donations to its vault.
CONSTANTS
  Wad = 4
  SecondsPerYear = 4
  BasisPoints = 10000
  MaxRateCoeff = 40
  MinInitialShares = 2
  MaxU64 = 9
  MaxU128 = 60
  Lenders = {l1}
  Margins = {m1, m2}
  ReserveConfigs <- TwoConfigs
  Modes = {"Normal", "Halted"}
  Amounts = {1, 3, 5}
  TransferFee <- TenthUp
  GrossUp <- GrossTenth
  MaxTime = 1
  MaxDonation = 1
SYMMETRY Symmetric
CHECK_DEADLOCK FALSE
SPECIFICATION Spec
INVARIANTS
  RepayAlwaysOpen
PROPERTIES
  DebtFallsOnlyByPayment
  ConfigChangeIsProspective
