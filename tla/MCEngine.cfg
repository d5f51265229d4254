SPECIFICATION Spec
CONSTANTS
  A = A
  B = B
  Securities = {A, B}
  Sessions = 3
  InitialCash = 10
  Lot = 2
  MinFee = 1
  FeeUnit = 3
  SameDay = {B}
  Delayed = TRUE
  MaxOrders = 2
  BarsPerDay = 2
  Markets <- MCMarkets
  Slip = 0
  Risky = {A}
  RiskCap = 3
  Halting = {B}
  Actions <- MCActions
  Cent = 2
  Month = 1
  Year = 2
  Intents <- MCIntents
INVARIANTS AccountConsistent OrdersAgree GoalCovered RiskBounded
PROPERTY NoLookahead
CHECK_DEADLOCK FALSE
