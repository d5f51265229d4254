SPECIFICATION Spec
CONSTANTS
  MaxRuns = 3
  MaxFence = 2
  MaxLag = 0
  MaxProgress = 0
  MaxItems = 2
  LeaseTicks = 1
  Batches = {b1}
  Configs = {"small", "large"}
  Concurrency = 2
  QueueLimit = 2
  Resources <- MCResources
  Limits <- MCLimits
  Budget <- MCBudget
  Reserve <- MCReserve
CONSTRAINT ReclaimFirst
INVARIANTS HeldAreListed ResultsAreKept RunnableFits
PROPERTY QueueLifecycle
CHECK_DEADLOCK FALSE
