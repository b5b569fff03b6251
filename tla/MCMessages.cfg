SPECIFICATION Spec
CONSTANTS
  Users = {ana, bob}
  Emojis = {like}
  Sends = {s1}
  Messages = {m1, m2}
  Tasks = {t1, t2}
  Stores = {"memory", "mongo", "replica"}
  Retries = 2
  MaxPosts = 2
  None = None
SYMMETRY Alike
CHECK_DEADLOCK FALSE
INVARIANTS TypeOK OneMessagePerSend SentIsStored ReadHasReader UnsentIsEmpty
PROPERTIES DeliveryAdvances MarksStay
