SPECIFICATION Spec
CONSTANTS
  Sids = {s1, s2, s3}
  Instances = {i1}
  Tasks = {t1, t2}
  UseRedis = FALSE
  MaxOutages = 0
  MaxFailures = 1
  None = None
SYMMETRY Alike
CHECK_DEADLOCK FALSE
INVARIANTS TypeOK SingleRotation RevocationReaches
