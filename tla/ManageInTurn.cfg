SPECIFICATION Spec
CONSTANTS
  Requests = {r1}
  Sessions = {s1}
  Bookings = {b1}
  ZeroCost = {}
  Slots = {t1, t2, t3}
  None = None
  Overlap = FALSE
  Revisit = FALSE
  Fails = {"reserve", "mark", "vacate", "occupy", "record", "support", "markCancel", "money", "refundCode", "deleteSlot", "cancelCrm", "probe", "window", "others", "slotExpiry", "time", "sessionExpiry"}
  Loses = {"reserve", "mark", "vacate", "occupy", "record", "markCancel", "money", "cancelCrm", "deleteSlot"}
SYMMETRY Symmetry
CHECK_DEADLOCK FALSE
INVARIANTS ConfirmedHoldsItsSlot
PROPERTIES ImplementsTicket FeeFollowsTheSlotHeld
