SPECIFICATION Spec
CONSTANTS
  Requests = {r1, r2, r3, r4}
  Sessions = {s1}
  Slots = {t1, t2}
  Fundings = {"card"}
  Earlier = {}
  None = None
  Overlap = TRUE
  Revisit = FALSE
  ExistingCheck = TRUE
  Fails = {"create", "initiate", "bind", "paymentCode", "requery", "confirmSlot", "confirmCrm", "delete", "status", "reconfirm", "slotExpiry", "crash"}
  Loses = {"initiate", "bind", "confirmSlot", "confirmCrm"}
SYMMETRY Symmetry
CHECK_DEADLOCK FALSE
INVARIANTS TypeOK ConfirmedIsSecured SecuredIsPaid RightSlot BoundToOwnPayment ConfirmationIsTrue
