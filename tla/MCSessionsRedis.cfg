SPECIFICATION Spec
CONSTANTS
  Sids = {s1, s2, s3}
  Instances = {i1}
  Tasks = {t1, t2}
  UseRedis = TRUE
  MaxOutages = 1
  MaxFailures = 1
  None = None
SYMMETRY Alike
CONSTRAINT OneFault
CHECK_DEADLOCK FALSE
INVARIANTS UsableIsListed RevocationReachesBoth
PROPERTY RevokedIsFinal
