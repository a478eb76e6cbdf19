SPECIFICATION Spec
CONSTANTS
  dining = dining
  gym = gym
  None = None
  Horizon = 3
  Epsilon = 1
  MaxActions = 2
  Streams = {"daily", "fee", "repair"}
  Categories = {dining, gym}
  Whole = 1000
  Factor <- Factors
  Recurring = {"daily", "fee"}
  Inputs <- MixedInputs
INVARIANTS
  TypeOK
  LedgersAreForecasts
  ChangesNeverHurt
  PlansKeepTheFloor
  InstallmentsKeepTheFloor
  SafeAmountIsLargest
  PlansPayInFull
  NoMissedChance
  AgreesWithBatch
  OlderIsStricter
  RiskTierHolds
  PoliciesWithstandStress
