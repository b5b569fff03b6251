SPECIFICATION PartsSpec
CONSTANTS
  Users = {u1, u2}
  Records = {r1, r2, r3}
  Tasks = {t1, t2}
  UseMongo = FALSE
  Transactions = FALSE
  None = None
  ana = ana
  bob = bob
  k1 = k1
  k2 = k2
SYMMETRY Alike
CHECK_DEADLOCK FALSE
INVARIANTS PartsTypeOK OneOpen BlockedNotFriends ShownAsStored
  FlagFollowsSockets CodesAreSpent GroupIsGoverned
  FilesMatchRecords OneOpenReport ViewersHadAccess MigrationIsSound
  MediaFollowsCall SendIsShown SessionsEndForCause  ServesAsSetUp
PROPERTY ClosedIsFinal
