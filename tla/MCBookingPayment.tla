--------------------------- MODULE MCBookingPayment ---------------------------
(* The instances of BookingPayment that TLC checks. *)
EXTENDS BookingPayment, Naturals, TLC

(* Requests are interchangeable, and so are the two slots: sound for safety. *)
Symmetry == Permutations(Requests) \cup Permutations(Slots)

(* The same for a run with fairness, where requests are numbers: a request   *)
(* comes after those of lower number.                                       *)
RequestsInOrder ==
  \A r, q \in Requests : q < r /\ pc[r] # "idle" => pc[q] # "idle"
===============================================================================
