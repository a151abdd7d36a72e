SPECIFICATION FairSpec
CONSTANTS
  MaxTransfers = 2
  MaxTrbNum = 2
  MaxRounds = 2
  Errors = {"stall", "other"}
  HcMayDie = TRUE
CHECK_DEADLOCK FALSE
INVARIANT TransferInvariant
INVARIANT SuccessIsTruthful
PROPERTY CallReturns
