SPECIFICATION ServiceSpec
CONSTANTS
  r1 = r1
  r2 = r2
  None = None
  Requests <- MCRequests
  JobIds = {1, 2}
  JobOf <- MCJobOf
  Attempts = {1}
  RetryId <- MCRetryId
  ConfigOf <- MCConfigOf
  Configs = {"config"}
  Datasets = {"data"}
  Runs = {0, 1, 2}
  QueueLimit = 2
  MaxRunning = 1
  StorageDeleteMayFail = FALSE
  Calls = {1, 2}
  GpuJobs = {1, 2}
  FixtureRun = 0
  FixtureDataset = "data"
  Faults = {}
INVARIANTS
  DeletedBytesAreGone
CHECK_DEADLOCK FALSE
