----------------------------- MODULE BookingTicket -----------------------------
(* What managing a booking promises: a booking holds at most one slot, its    *)
(* fee is given back or kept for good at most once, and a booking whose fee   *)
(* has been dealt with never gets a slot again.                               *)
CONSTANTS Bookings, Slots, None

VARIABLES
  place,    \* the slot each booking holds, or None
  returns   \* how often the fee of each booking was refunded or recognised

vars == <<place, returns>>

Init ==
  /\ place \in [Bookings -> Slots]
  /\ \A b, c \in Bookings : place[b] = place[c] => b = c
  /\ returns = [b \in Bookings |-> 0]

Leave(b) ==
  /\ place[b] # None
  /\ place' = [place EXCEPT ![b] = None]
  /\ UNCHANGED returns

Take(b, t) ==
  /\ place[b] = None
  /\ returns[b] = 0
  /\ \A c \in Bookings : place[c] # t
  /\ place' = [place EXCEPT ![b] = t]
  /\ UNCHANGED returns

Return(b) ==
  /\ returns[b] = 0
  /\ returns' = [returns EXCEPT ![b] = 1]
  /\ UNCHANGED place

Next == \E b \in Bookings : Leave(b) \/ Return(b) \/ \E t \in Slots : Take(b, t)

Spec == Init /\ [][Next]_vars
===============================================================================
