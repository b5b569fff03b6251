SPECIFICATION Spec
CONSTANTS
  Sids = {s1, s2, s3}
  Instances = {i1}
  Tasks = {t1, t2}
  UseRedis = TRUE
  MaxOutages = 0
  MaxFailures = 0
  None = None
SYMMETRY Alike
CHECK_DEADLOCK FALSE
INVARIANT SingleRotation
