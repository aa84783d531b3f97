--------------------------- MODULE MCManageBooking ---------------------------
(* Small instances of ManageBooking for TLC. *)
EXTENDS ManageBooking, TLC

(* Slots and requests are only compared, so they may be renamed.  Bookings   *)
(* are not permuted: one of them may be the one that costs nothing.          *)
Symmetry == Permutations(Requests) \cup Permutations(Slots) \cup Permutations(Sessions)
===============================================================================
