SPECIFICATION FairServiceSpec
CONSTANTS
  r1 = r1
  r2 = r2
  None = None
  Requests <- MCRequests
  JobIds = {1, 2, 3}
  JobOf <- MCJobOf
  Attempts = {1}
  RetryId <- MixedRetryId
  ConfigOf <- MCConfigOf
  Configs = {"config"}
  Datasets = {"data"}
  Runs = {0, 1, 2}
  QueueLimit = 2
  MaxRunning = 1
  StorageDeleteMayFail = FALSE
  Calls = {1, 2}
  GpuJobs = {1, 3}
  FixtureRun = 0
  FixtureDataset = "data"
  Faults = {"training"}
PROPERTIES
  EveryJobSettles
  SucceededIsUploaded
  EveryCallEnds
CHECK_DEADLOCK FALSE
