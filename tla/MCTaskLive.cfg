SPECIFICATION RecurringSpec
CONSTANTS
  p1 = p1
  p2 = p2
  Procs = {p1}
  Tasks = {1, 2}
  MaxRuns = 2
  Local = {2}
  Sourced = {}
  Stoppable = {1}
  Once = {}
  Edited = {}
  Halting = {2}
  Queueing = {2}
  Priority <- MCPriority
  Concurrency <- MCConcurrency
  QueueLimit <- MCQueueLimit
  Entries = {e1}
  e1 = e1
  Covers <- MCCovers
  Ages = {"future", "due", "overdue"}
  MaxQueued = 2
  MaxWorkers = 1
  MaxOutages = 2
  MaxLooks = 0
  MaxUnknown = 1
  Unknown = {"claims", "outcomes"}
INVARIANTS
  TruthfulEnd
PROPERTIES
  RunsEnd QueueDrains IntentServed
CHECK_DEADLOCK FALSE
ACTION_CONSTRAINT ForgetFirst
