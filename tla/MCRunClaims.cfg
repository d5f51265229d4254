SPECIFICATION Spec
CONSTANTS
  MaxRuns = 2
  MaxFence = 2
  MaxLag = 1
  MaxProgress = 1
  MaxItems = 0
  LeaseTicks = 2
  Keys = {k1, k2}
  Configs = {"small", "large"}
  Concurrency = 2
  QueueLimit = 2
  Resources <- MCResources
  Limits <- MCLimits
  Budget <- MCBudget
  Reserve <- MCReserve
  None = None
INVARIANTS ReservationsFit CancelWins ResultOfWinner
PROPERTIES LeaseHonoured LifecycleSpec
CHECK_DEADLOCK FALSE
