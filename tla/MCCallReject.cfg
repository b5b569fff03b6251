SPECIFICATION Spec
CONSTANTS
  ana = ana
  bob = bob
  c1 = c1
  a1 = a1
  Users = {ana, bob}
  Calls = {c1}
  Attempts = {a1}
  Instances = {i1}
  Tasks = {t1, t2}
  CallId <- MCCallId
  Caller <- MCCaller
  Callee <- MCCallee
  UseMongo = TRUE
  UseRedis = FALSE
  MaxCrashes = 0
  None = None
CONSTRAINT NoBlock
INVARIANT RejectReachesBoth
