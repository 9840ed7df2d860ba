SPECIFICATION Spec
CONSTANTS
  i1 = i1
  i2 = i2
  i3 = i3
  t1 = t1
  None = None
  Ingests = {i1, i2}
  Trainings = {t1}
INVARIANTS
  PackageIsOfOneIngest
CHECK_DEADLOCK FALSE
