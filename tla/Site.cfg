SPECIFICATION Spec
SYMMETRY Symmetry
CONSTRAINT Focus
CONSTANTS
  None = None
  Accounts = {ann, cal}
  Admins = {ann}
  Elsewhere = {cal}
  Newcomers = {cal}
  Outside = {"rival", "reload"}
  Events = {e1}
  MaxTotal = 1
  MaxGeneration = 2
  Writers = {"save", d1, d2}
  Readers = {}
  Faults = {"loss"}
  Deleters = {d1, d2}
  Terms <- MCTerms
  Matching <- MCMatching
  Fetchers = {f1, f2}
  Bookings = {b1}
  Cancellers = {c1, c2}
INVARIANTS TypeOK ShownIsStored EditorAgrees ListFollowsWrites ShownAnswersQuery CancelledIsCancelled NoBookingsIsTrue
CHECK_DEADLOCK FALSE
