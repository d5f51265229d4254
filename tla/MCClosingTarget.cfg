SPECIFICATION Spec
CONSTANTS
  A = A
  B = B
  Securities = {A, B}
  Sessions = 2
  InitialCash = 9
  Lot = 2
  MinFee = 1
  FeeUnit = 3
  SameDay = {B}
  Delayed = TRUE
  MaxOrders = 3
  BarsPerDay = 1
  Markets <- MCMarkets
  Slip = 0
  Risky = {A}
  RiskCap = 4
  Halting = {B}
  Actions <- MCNone
  Cent = 2
  Month = 0
  Year = 2
  Intents <- MCTargets
PROPERTY PromiseKept
CHECK_DEADLOCK FALSE
