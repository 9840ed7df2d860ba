SPECIFICATION Spec
CONSTANTS
  u1 = u1
  u2 = u2
  None = None
  Artifacts = {1, 2}
  Uploaders <- MCUploaders
  Clients = {"client"}
  ExpiresAt <- MCExpiresAt
  Ttl = 1
  Skew = 1
  Horizon = 4
  CopyMayFail = TRUE
SYMMETRY UploaderSymmetry
INVARIANTS
  LoneUploadIsServedWhole
  DeletionStopsDownloads
  NoUrlPastRetention
  UploadsFailBesideDeletions
CHECK_DEADLOCK FALSE
