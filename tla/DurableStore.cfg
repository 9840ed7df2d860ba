SPECIFICATION DurableSpec
CONSTANTS
  r1 = r1
  r2 = r2
  None = None
  Requests <- MCRequests
  JobIds = {1, 2, 3}
  JobOf <- MCJobOf
  Attempts = {1}
  RetryId <- MCRetryId
  ConfigOf <- MCConfigOf
  Configs = {"config"}
  Datasets = {"data"}
  Runs = {0}
  QueueLimit = 2
  MaxRunning = 1
  StorageDeleteMayFail = TRUE
  FailingCalls = {"delete"}
  MaxJobs = 2
  Readers = {"reader"}
INVARIANTS
  AcknowledgedIsDurable
  DeletedIsSeenDeleted
  OnlyDeletionsBreakReads
PROPERTIES
  BytesAwaitTheTombstone
  FileImplementsQueue
CHECK_DEADLOCK FALSE
