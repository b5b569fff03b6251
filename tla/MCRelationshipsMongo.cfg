SPECIFICATION Spec
CONSTANTS
  Users = {ana, bob}
  Records = {r1, r2}
  Tasks = {t1, t2}
  UseMongo = TRUE
  Transactions = TRUE
  None = None
SYMMETRY Alike
CHECK_DEADLOCK FALSE
INVARIANT FriendsAreNotBlocked
