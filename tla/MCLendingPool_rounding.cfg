\* One configuration, classic SPL mint: rounding and interest.
CONSTANTS
  Wad = 4
  SecondsPerYear = 4
  BasisPoints = 10000
  MaxRateCoeff = 40
  MinInitialShares = 2
  MaxU64 = 9
  MaxU128 = 16
  Lenders = {l1}
  Margins = {m1, m2}
  ReserveConfigs <- OneConfig
  Modes = {"Normal"}
  Amounts = {1, 2, 5}
  TransferFee <- NoFee
  GrossUp <- Same
  MaxTime = 2
  MaxDonation = 0
SYMMETRY Symmetric
CHECK_DEADLOCK FALSE
SPECIFICATION Spec
INVARIANTS
  TypeOK
  SharesConserved
  DebtSharesBacked
  
  LendersBacked
  DebtRegistered
  DebtNeverUndercounted
PROPERTIES
  SharePriceNeverFalls
  DebtFallsOnlyByPayment
  BorrowerOwesWhatItTook
  OthersNotCharged
