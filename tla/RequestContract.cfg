SPECIFICATION Spec
CONSTANTS
  Absent = Absent
  Bad = Bad
  Refused = Refused
  Payloads <- MCPayloads
INVARIANTS
  ContractIsEnforced
  AcceptedReloads
  AcceptedTrains
CHECK_DEADLOCK FALSE
