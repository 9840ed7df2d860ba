SPECIFICATION Spec
CONSTANTS
  r1 = r1
  r2 = r2
  None = None
  Requests = {r1, r2}
  JobIds = {1, 2}
  JobOf <- MCJobOf
  Attempts = {1}
  RetryId <- MCRetryId
  ConfigOf <- MCConfigOf
  Configs = {"config"}
  Datasets = {"data"}
  Runs = {1}
  QueueLimit = 2
  MaxRunning = 1
  StorageDeleteMayFail = TRUE
INVARIANTS
  TypeOK
  OnlyTombstonesLackRequest
  DiskIsCurrent
  LineageIsSound
PROPERTIES
  HistoryIsStable
  ImplementsQueue
