--------------------------- MODULE BookingLifecycle ---------------------------
(***************************************************************************)
(* What the booking application promises about one booking: it is opened,  *)
(* its slot is secured only once the booking has been settled, and it then *)
(* becomes booked; or it is closed while the slot is not secured.  A booked *)
(* and a closed booking stay so, and at most one booking is ever booked.   *)
(***************************************************************************)
CONSTANT Bookings

VARIABLES
  stage,    \* where each booking is in its life
  settled   \* the bookings that have been paid for, or need no payment

vars == <<stage, settled>>

(* At most one booking was made before. *)
Init ==
  \E old \in {{}} \cup {{b} : b \in Bookings} :
    /\ stage = [b \in Bookings |-> IF b \in old THEN "booked" ELSE "absent"]
    /\ settled = old

Move(b, from, to) ==
  /\ stage[b] = from
  /\ stage' = [stage EXCEPT ![b] = to]
  /\ UNCHANGED settled

Open(b) == Move(b, "absent", "open")

(* Money may also arrive for a booking that has been closed. *)
Settle(b) ==
  /\ stage[b] # "absent"
  /\ settled' = settled \cup {b}
  /\ UNCHANGED stage

Secure(b) == b \in settled /\ Move(b, "open", "secured")
Book(b) == (\A c \in Bookings : stage[c] # "booked") /\ Move(b, "secured", "booked")
Close(b) == Move(b, "open", "closed")

Next == \E b \in Bookings : Open(b) \/ Settle(b) \/ Secure(b) \/ Book(b) \/ Close(b)

Spec == Init /\ [][Next]_vars
===============================================================================
