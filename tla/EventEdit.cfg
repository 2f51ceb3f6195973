SPECIFICATION EventsSpec
SYMMETRY Symmetry
CONSTANTS
  None = None
  Accounts = {ann}
  Admins = {ann}
  Outside = {"customers"}
  Events = {e1}
  MaxTotal = 2
  MaxGeneration = 3
  Writers = {w1, w2}
  Readers = {r1}
  Faults = {"redis"}
INVARIANTS EventsTypeOK MapServedIsCurrent
PROPERTIES OrderedSeatsStay
CHECK_DEADLOCK FALSE
