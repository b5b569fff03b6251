SPECIFICATION Spec
CONSTANTS
  ana = ana
  bob = bob
  c1 = c1
  c2 = c2
  a1 = a1
  a2 = a2
  a3 = a3
  Users = {ana, bob}
  Calls = {c1, c2}
  Attempts = {a1, a2, a3}
  Instances = {i1}
  Tasks = {t1, t2}
  CallId <- MCCallId
  Caller <- MCCaller
  Callee <- MCCallee
  UseMongo = FALSE
  UseRedis = FALSE
  MaxCrashes = 0
  None = None
PROPERTY AnsweredIsNotMissed
