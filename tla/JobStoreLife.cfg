SPECIFICATION OrderSpec
CONSTANTS
  r1 = r1
  r2 = r2
  r3 = r3
  r4 = r4
  None = None
  Requests = {r1, r2, r3, r4}
  JobIds = {1, 2, 3, 4}
  JobOf <- MCJobOf
  Attempts = {1}
  RetryId <- MCRetryId
  ConfigOf <- MCConfigOf
  Configs = {"config"}
  Datasets = {"data"}
  Runs = {}
  QueueLimit = 3
  MaxRunning = 1
  StorageDeleteMayFail = FALSE
INVARIANTS
  ActiveWithinLimit
PROPERTIES
  ImplementsQueue
  PromotionIsFifo
