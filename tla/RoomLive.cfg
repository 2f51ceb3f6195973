SPECIFICATION FairSpec
CONSTANTS
  None = None
  Users = {u1, u2, u3}
  Slots = {p1}
  Tasks = {t1}
  MaxAge = 1
  MAX_ACTIVE_USERS = 1
  Handlers = {"poll", "free"}
  Faults = {}
PROPERTIES EveryoneGetsIn
CHECK_DEADLOCK FALSE
