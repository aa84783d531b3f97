SPECIFICATION FairSpec
CONSTANTS
  Requests = {r1}
  Sessions = {s1}
  Bookings = {b1, b2}
  ZeroCost = {b2}
  Slots = {t1, t2, t3}
  None = None
  Overlap = FALSE
  Revisit = FALSE
  Fails = {"reserve", "money", "support"}
  Loses = {"reserve", "record", "markCancel"}
CHECK_DEADLOCK FALSE
INVARIANTS ChangeIsForItsBooking
PROPERTIES ChangeSettles
