SPECIFICATION Spec
CONSTANTS
  own1 = own1
  own2 = own2
  fixture = fixture
  NoReason = NoReason
  DatasetIds = {own1, own2, fixture}
  FixtureIds = {fixture}
  MinRows = 1
  MaxRows = 2
  RowCounts = {0, 1, 2, 3}
INVARIANTS
  TypeOK
  ApprovedIsValidated
  RejectionIsExplained
PROPERTIES
  DecisionIsFinal
