SPECIFICATION AdmissionSpec
CONSTANTS
  r1 = r1
  r2 = r2
  own = own
  fixture = fixture
  None = None
  NoReason = NoReason
  Requests = {r1, r2}
  JobIds = {1, 2, 3}
  JobOf <- MCJobOf
  Attempts = {1}
  RetryId <- MCRetryId
  ConfigOf <- MCConfigOf
  Configs = {"config"}
  Datasets = {"data"}
  Runs = {}
  QueueLimit = 3
  MaxRunning = 1
  StorageDeleteMayFail = FALSE
  DatasetIds = {own, fixture}
  FixtureIds = {fixture}
  MinRows = 1
  MaxRows = 1
  RowCounts = {1, 2}
  DatasetOf <- MCDatasetOf
INVARIANTS
  JobsKeepTheirApproval
  JobsWereApprovedOnce
