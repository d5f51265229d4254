SPECIFICATION Spec
CONSTANTS
  MaxRuns = 3
  MaxFence = 1
  MaxLag = 0
  MaxProgress = 0
  MaxItems = 2
  LeaseTicks = 1
  Keys = {k1, k2}
  Configs = {"small"}
  Concurrency = 2
  QueueLimit = 2
  Resources <- MCResources
  Limits <- MCLimits
  Budget <- MCBudget
  Reserve <- MCReserve
  None = None
INVARIANTS QueueBounded OneLiveAttempt
SYMMETRY KeySymmetry
CHECK_DEADLOCK FALSE
