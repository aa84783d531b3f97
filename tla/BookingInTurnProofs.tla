------------------------- MODULE BookingInTurnProofs -------------------------
(***************************************************************************)
(* When the requests of the one session of a candidate come one after the  *)
(* other: a candidate never has two Confirmed bookings for a test.  When,  *)
(* besides, the payment service and the scheduling service answer for what *)
(* they did: a booking lives as the abstract BookingLifecycle says, and a  *)
(* page that says cancelled tells the truth.                               *)
(***************************************************************************)
EXTENDS BookingIdentityProofs

InTurn == ~Overlap /\ ~Revisit /\ \A s, t \in Sessions : s = t

(* The payment service tells again what it told before of a payment, the    *)
(* scheduling service accepts a confirmation it has accepted before and its *)
(* answer to the first one arrives, and no server dies with a request.      *)
Answered ==
  /\ {"requery", "reconfirm", "crash"} \cap Fails = {}
  /\ "confirmSlot" \notin Loses

Resting == {"idle", "done"}

-------------------------------------------------------------------------------
(* One Confirmed booking. *)

(* At most one request is in flight, and only a request in flight has a copy. *)
OneInFlight ==
  /\ \A r, q \in Requests : pc[r] \notin Resting /\ pc[q] \notin Resting => r = q
  /\ \A r \in Requests : pc[r] \notin Resting => home[r] \in Sessions
  /\ \A r \in Requests : pc[r] \in Resting => copy[r].booking = None /\ copy[r].receipt = None

(* A handler and the session it has its copy from name the same booking, and *)
(* the session of a handler that is to make a booking names none.            *)
InSync ==
  \A s \in Sessions, r \in Requests :
    /\ session[s].booking # None /\ copy[r].booking # None =>
         /\ session[s].booking = copy[r].booking
         /\ session[s].funding = copy[r].funding
    /\ pc[r] \in {"check", "reserve", "create", "product"} => session[s].booking = None

Booked(b) == crm[b].status = "Confirmed"

(* A booking that is still to be made, or still to be confirmed, is not *)
(* preceded by another that was.                                        *)
FirstBooked ==
  /\ \A r \in Requests : pc[r] \in {"reserve", "create", "product"} =>
       \A b \in Requests : ~Booked(b)
  /\ \A r, b \in Requests : copy[r].booking # None /\ Booked(b) => b = copy[r].booking
  /\ \A s \in Sessions, b \in Requests :
       session[s].booking # None /\ Booked(b) => b = session[s].booking

OrderInv == OneInFlight /\ InSync
TurnInv == FirstBooked /\ OneBookingPerTest

-------------------------------------------------------------------------------
(* What the steps do to the data that the invariant is about. *)

(* A request gets to work when it starts, and works for one session. *)
LEMMA HomeStep ==
  ASSUME BaseInv, [Next]_vars, NEW r \in Requests, pc'[r] \notin Resting
  PROVE  \/ pc[r] \notin Resting /\ home'[r] = home[r]
         \/ \E s \in Sessions : StartSubmit(r, s) \/ StartInitiate(r, s) \/ StartConfirm(r, s)
<1> USE DEF BaseInv, FlowOK, Resting
<1>1. ASSUME NEW q \in Requests, Submit(q) \/ InitiatePayment(q) PROVE home' = home
  BY <1>1 DEF Submit, CheckExisting, Reserve, CreateBooking, CreateProduct, InitiatePayment,
              Initiate, Bind, Proceed, Answer
<1>2. ASSUME NEW q \in Requests, SettleByCard(q) \/ SettleWithoutCard(q) PROVE home' = home
  BY <1>2 DEF SettleByCard, SettleWithoutCard, Proceed, GiveUp, Answer
<1>3. ASSUME NEW q \in Requests, ConfirmSlot(q) \/ ConfirmCrm(q) PROVE home' = home
  BY <1>3 DEF ConfirmSlot, ConfirmCrm, Proceed, GiveUp, Answer
<1>4. ASSUME NEW q \in Requests, Unreserve(q) PROVE home' = home
  BY <1>4 DEF Unreserve, DeleteReservation, SetStatus, StatusFailed, Proceed, GiveUp, Answer
<1>5. ASSUME NEW q \in Requests, Save(q) \/ Crash(q) PROVE q # r /\ home'[r] = home[r]
  BY <1>5 DEF Save, Crash
<1>6. ASSUME NEW q \in Requests, PayAtGateway(q) \/ ExpireReservation(q) PROVE home' = home
  BY <1>6 DEF PayAtGateway, ExpireReservation
<1>7. ASSUME NEW q \in Requests, q # r, NEW s \in Sessions,
             StartSubmit(q, s) \/ StartInitiate(q, s) \/ StartConfirm(q, s)
      PROVE  home'[r] = home[r]
  BY <1>7 DEF StartSubmit, StartInitiate, StartConfirm, Start
<1>8. ASSUME NEW s \in Sessions,
             BeginJourney(s) \/ EditSlot(s) \/ ShowConfirmation(s) \/ ExpireSession(s)
      PROVE  home' = home
  BY <1>8 DEF BeginJourney, EditSlot, ShowConfirmation, ExpireSession
<1>9. \/ home'[r] = home[r]
      \/ \E s \in Sessions : StartSubmit(r, s) \/ StartInitiate(r, s) \/ StartConfirm(r, s)
  BY <1>1, <1>2, <1>3, <1>4, <1>5, <1>6, <1>7, <1>8 DEF Next, vars, Handle, Confirm
<1>10. \/ pc[r] \notin Resting
       \/ \E s \in Sessions : StartSubmit(r, s) \/ StartInitiate(r, s) \/ StartConfirm(r, s)
  <2>1. Submit(r) \/ InitiatePayment(r) => pc[r] \notin Resting
    BY DEF Submit, CheckExisting, Reserve, CreateBooking, CreateProduct, InitiatePayment,
           Initiate, Bind
  <2>2. Confirm(r) \/ Save(r) \/ Crash(r) => pc[r] \notin Resting
    BY DEF Confirm, SettleByCard, SettleWithoutCard, ConfirmSlot, ConfirmCrm, Unreserve,
           DeleteReservation, SetStatus, Save, Crash
  <2>3. QED BY <2>1, <2>2, RequestStep DEF Handle
<1>11. QED BY <1>9, <1>10

(* A handler takes its data from the session when it starts, and adds to it  *)
(* the reservation, the booking and the payment that it makes.               *)
LEMMA DataStep ==
  ASSUME BaseInv, [Next]_vars, NEW r \in Requests
  PROVE  \/ copy'[r] = copy[r]
         \/ copy'[r] = Blank /\ pc'[r] \in {"save", "done"}
         \/ \E s \in Sessions : /\ StartSubmit(r, s) \/ StartInitiate(r, s) \/ StartConfirm(r, s)
                               /\ copy'[r] = session[s] /\ session' = session
         \/ Reserve(r) /\ copy'[r] = [copy[r] EXCEPT !.reservation = r] /\ pc'[r] = "create"
         \/ CreateProduct(r) /\ copy'[r] = [copy[r] EXCEPT !.booking = r] /\ pc'[r] = "save"
         \/ Bind(r) /\ copy'[r] = [copy[r] EXCEPT !.receipt = r] /\ pc'[r] = "save"
<1> USE DEF BaseInv, FlowOK
<1>1. ASSUME NEW s \in Sessions, StartSubmit(r, s) \/ StartInitiate(r, s) \/ StartConfirm(r, s)
      PROVE  copy'[r] = session[s] /\ session' = session
  BY <1>1 DEF StartSubmit, StartInitiate, StartConfirm, Start
<1>2. CASE CheckExisting(r) \/ CreateBooking(r) \/ Initiate(r)
  BY <1>2 DEF CheckExisting, CreateBooking, Initiate, Proceed, Answer
<1>3. CASE Reserve(r)
  BY <1>3 DEF Reserve, Proceed, Answer
<1>4. CASE CreateProduct(r) \/ Bind(r)
  BY <1>4 DEF CreateProduct, Bind, Answer
<1>5. CASE SettleByCard(r) \/ SettleWithoutCard(r)
  BY <1>5 DEF SettleByCard, SettleWithoutCard, Proceed, GiveUp, Answer
<1>6. CASE ConfirmSlot(r) \/ ConfirmCrm(r)
  BY <1>6 DEF ConfirmSlot, ConfirmCrm, Proceed, GiveUp, Answer
<1>7. CASE Unreserve(r)
  BY <1>7 DEF Unreserve, DeleteReservation, SetStatus, StatusFailed, Proceed, GiveUp, Answer
<1>8. CASE Save(r) \/ Crash(r)
  BY <1>8 DEF Save, Crash
<1>9. QED
  BY <1>1, <1>2, <1>3, <1>4, <1>5, <1>6, <1>7, <1>8, RequestStep
     DEF Handle, Submit, InitiatePayment, Confirm

(* The booking of a copy, and how it is to be paid for. *)
LEMMA CopyBookingStep ==
  ASSUME BaseInv, [Next]_vars, NEW r \in Requests
  PROVE  \/ copy'[r].booking = copy[r].booking /\ copy'[r].funding = copy[r].funding
         \/ copy'[r].booking = None
         \/ \E s \in Sessions : /\ StartSubmit(r, s) \/ StartInitiate(r, s) \/ StartConfirm(r, s)
                               /\ copy'[r] = session[s] /\ session' = session
         \/ pc[r] = "product" /\ copy'[r].booking = r
<1>1. copy[r] \in SessionData
  BY DEF BaseInv, FlowOK
<1>2. /\ [copy[r] EXCEPT !.reservation = r].booking = copy[r].booking
      /\ [copy[r] EXCEPT !.reservation = r].funding = copy[r].funding
      /\ [copy[r] EXCEPT !.receipt = r].booking = copy[r].booking
      /\ [copy[r] EXCEPT !.receipt = r].funding = copy[r].funding
      /\ [copy[r] EXCEPT !.booking = r].booking = r
  BY <1>1 DEF SessionData
<1>3. Blank.booking = None
  BY DEF Blank
<1>4. CreateProduct(r) => pc[r] = "product"
  BY DEF CreateProduct
<1>5. QED BY <1>2, <1>3, <1>4, DataStep

(* Every handler but the ones that make something is past. *)
LEMMA HandlesPast ==
  ASSUME NEW r \in Requests, Handle(r)
  PROVE  \/ pc[r] \in Past
         \/ pc[r] = "check" /\ CheckExisting(r)
         \/ pc[r] \in {"reserve", "create", "product"} /\ Submit(r)
         \/ pc[r] = "initiate" /\ Initiate(r)
<1>1. Submit(r) => \/ pc[r] = "check" /\ CheckExisting(r)
                   \/ pc[r] \in {"reserve", "create", "product"}
  BY DEF Submit, CheckExisting, Reserve, CreateBooking, CreateProduct
<1>2. InitiatePayment(r) => \/ pc[r] = "initiate" /\ Initiate(r)
                            \/ pc[r] = "bind"
  BY DEF InitiatePayment, Initiate, Bind
<1>3. Confirm(r) \/ Save(r) => pc[r] \in Past
  BY DEF Confirm, SettleByCard, SettleWithoutCard, ConfirmSlot, ConfirmCrm, Unreserve,
         DeleteReservation, SetStatus, Save, Past
<1>4. "bind" \in Past
  BY DEF Past
<1>5. QED BY <1>1, <1>2, <1>3, <1>4 DEF Handle

(* A session names the booking it named, none, or that of the saved copy. *)
LEMMA SessionStep ==
  ASSUME BaseInv, [Next]_vars, NEW s \in Sessions
  PROVE  \/ /\ session'[s].booking = session[s].booking
            /\ session'[s].receipt = session[s].receipt
            /\ session'[s].funding = session[s].funding
         \/ session'[s].booking = None /\ session'[s].receipt = None
         \/ \E r \in Requests : Save(r) /\ session'[s] = copy[r]
<1> USE DEF BaseInv, FlowOK
<1>1. ASSUME NEW r \in Requests, Save(r)
      PROVE  session'[s] = session[s] \/ session'[s] = copy[r]
  BY <1>1 DEF Save
<1>2. CASE BeginJourney(s)
  <2>1. PICK f \in Fundings, t \in Slots :
          session' = [session EXCEPT ![s] = [Blank EXCEPT !.live = TRUE, !.funding = f, !.slot = t]]
    BY <1>2 DEF BeginJourney
  <2>2. QED BY <2>1 DEF Blank
<1>3. CASE EditSlot(s)
  <2>1. PICK t \in Slots : session' = [session EXCEPT ![s].slot = t]
    BY <1>3 DEF EditSlot
  <2>2. QED BY <2>1 DEF SessionData
<1>4. CASE ShowConfirmation(s) \/ ExpireSession(s)
  BY <1>4 DEF ShowConfirmation, ExpireSession, Blank
<1>5. QED BY <1>1, <1>2, <1>3, <1>4, StoreWriters

(* The status of a booking: created, confirmed or given up by the handler    *)
(* that holds it.                                                            *)
LEMMA StatusStep ==
  ASSUME BaseInv, [Next]_vars, NEW b \in Requests
  PROVE  \/ crm'[b].status = crm[b].status
         \/ CreateBooking(b) /\ crm'[b].status = "Reserved"
         \/ \E r \in Requests : /\ copy[r].booking = b
                               /\ \/ ConfirmCrm(r) /\ crm'[b].status = "Confirmed"
                                  \/ SetStatus(r) /\ crm'[b].status \in UnreservedStatuses
<1> USE DEF BaseInv, WorldOK, Bookings
<1>1. ASSUME NEW r \in Requests, CreateBooking(r)
      PROVE  /\ b # r => crm'[b] = crm[b]
             /\ b = r => crm'[b].status = crm[b].status \/ crm'[b].status = "Reserved"
  BY <1>1 DEF CreateBooking
<1>2. ASSUME NEW r \in Requests, Bind(r) PROVE crm'[b].status = crm[b].status
  BY <1>2 DEF Bind, BoundToPayment
<1>3. ASSUME NEW r \in Requests, ConfirmCrm(r)
      PROVE  \/ crm'[b].status = crm[b].status
             \/ copy[r].booking = b /\ crm'[b].status = "Confirmed"
  BY <1>3 DEF ConfirmCrm
<1>4. ASSUME NEW r \in Requests, SetStatus(r)
      PROVE  \/ crm'[b].status = crm[b].status
             \/ copy[r].booking = b /\ crm'[b].status \in UnreservedStatuses
  <2>1. StatusFor(cause[r]) \in UnreservedStatuses
    BY DEF StatusFor, UnreservedStatuses
  <2>2. QED BY <1>4, <2>1 DEF SetStatus
<1>5. QED BY <1>1, <1>2, <1>3, <1>4, Writers

-------------------------------------------------------------------------------
(* The invariant of one Confirmed booking is kept. *)

(* A request that starts finds no other one at work. *)
LEMMA StartsAlone ==
  ASSUME InTurn, BaseInv, OneInFlight, NEW r \in Requests, NEW s \in Sessions,
         StartSubmit(r, s) \/ StartInitiate(r, s) \/ StartConfirm(r, s)
  PROVE  /\ \A q \in Requests : pc[q] \in Resting
         /\ \A q \in Requests : q # r => pc'[q] = pc[q]
         /\ home'[r] = s
<1>1. /\ ~Busy(s) /\ home'[r] = s
      /\ \A q \in Requests : q # r => pc'[q] = pc[q]
  BY DEF InTurn, MayStart, StartSubmit, StartInitiate, StartConfirm, Start, BaseInv, FlowOK
<1>2. QED BY <1>1 DEF OneInFlight, InTurn, Busy

LEMMA OneInFlightStep ==
  ASSUME InTurn, BaseInv, OneInFlight, [Next]_vars
  PROVE  OneInFlight'
<1>1. ASSUME NEW r \in Requests, NEW q \in Requests, pc'[r] \notin Resting, pc'[q] \notin Resting
      PROVE  r = q
  <2>1. ASSUME NEW s \in Sessions, NEW x \in Requests, NEW y \in Requests,
               StartSubmit(x, s) \/ StartInitiate(x, s) \/ StartConfirm(x, s), pc'[y] \notin Resting
        PROVE  x = y
    BY <2>1, StartsAlone
  <2>2. QED BY <1>1, <2>1, HomeStep DEF OneInFlight
<1>2. ASSUME NEW r \in Requests, pc'[r] \notin Resting PROVE home'[r] \in Sessions
  BY <1>2, HomeStep, StartsAlone DEF OneInFlight
<1>3. ASSUME NEW r \in Requests, pc'[r] \in Resting
      PROVE  copy'[r].booking = None /\ copy'[r].receipt = None
  <2>1. CASE pc'[r] = pc[r] /\ copy'[r] = copy[r]
    BY <1>3, <2>1 DEF OneInFlight
  <2>2. CASE Save(r) \/ Crash(r)
    BY <2>2 DEF Save, Crash, Blank, BaseInv, FlowOK
  <2> USE DEF BaseInv, FlowOK, Resting
  <2>3. ASSUME NEW s \in Sessions, StartSubmit(r, s) \/ StartInitiate(r, s) \/ StartConfirm(r, s)
        PROVE  FALSE
    BY <1>3, <2>3 DEF StartSubmit, StartInitiate, StartConfirm, Start
  <2>4. ~Submit(r) /\ ~InitiatePayment(r)
    BY <1>3 DEF Submit, CheckExisting, Reserve, CreateBooking, CreateProduct, InitiatePayment,
                Initiate, Bind, Proceed, Answer
  <2>5. ~SettleByCard(r) /\ ~SettleWithoutCard(r) /\ ~ConfirmSlot(r) /\ ~ConfirmCrm(r)
    BY <1>3 DEF SettleByCard, SettleWithoutCard, ConfirmSlot, ConfirmCrm, Proceed, GiveUp, Answer
  <2>6. ~Unreserve(r)
    BY <1>3 DEF Unreserve, DeleteReservation, SetStatus, StatusFailed, Proceed, GiveUp, Answer
  <2>7. QED BY <2>1, <2>2, <2>3, <2>4, <2>5, <2>6, RequestStep DEF Handle, Confirm
<1>4. QED BY <1>1, <1>2, <1>3 DEF OneInFlight

(* The booking of a session becomes known by the save of its handler. *)
LEMMA InSyncStep ==
  ASSUME InTurn, BaseInv, OneInFlight, InSync, [Next]_vars
  PROVE  InSync'
<1> USE DEF BaseInv, FlowOK
<1> SUFFICES ASSUME NEW s \in Sessions, NEW r \in Requests, session'[s].booking # None
             PROVE  /\ copy'[r].booking # None =>
                         /\ session'[s].booking = copy'[r].booking
                         /\ session'[s].funding = copy'[r].funding
                    /\ pc'[r] \notin {"check", "reserve", "create", "product"}
  BY DEF InSync
<1>1. CASE session'[s].booking = session[s].booking /\ session'[s].funding = session[s].funding
  <2>1. pc'[r] \notin {"check", "reserve", "create", "product"}
    <3>1. pc[r] \notin {"check", "reserve", "create", "product"}
      BY <1>1 DEF InSync
    <3>2. ASSUME NEW t \in Sessions, StartSubmit(r, t) PROVE FALSE
      <4>1. session[t].booking = None
        BY <3>2 DEF StartSubmit, InTurn
      <4>2. QED BY <4>1, <1>1 DEF InTurn
    <3>3. ASSUME NEW t \in Sessions, StartInitiate(r, t) \/ StartConfirm(r, t)
          PROVE  pc'[r] \in {"initiate", "settle"}
      BY <3>3 DEF StartInitiate, StartConfirm, Start
    <3>4. CASE pc[r] \in Past
      BY <3>4, PastStep DEF Past
    <3>5. CASE Initiate(r)
      BY <3>5 DEF Initiate, Proceed, Answer
    <3>6. CASE pc'[r] = pc[r]
      BY <3>6, <3>1
    <3>7. Crash(r) => pc'[r] = "done"
      BY DEF Crash
    <3>8. Handle(r) => pc[r] \in Past \/ Initiate(r)
      BY <3>1, HandlesPast
    <3>9. QED BY <3>2, <3>3, <3>4, <3>5, <3>6, <3>7, <3>8, RequestStep
  <2>2. ASSUME copy'[r].booking # None
        PROVE  /\ session'[s].booking = copy'[r].booking
               /\ session'[s].funding = copy'[r].funding
    <3>1. CASE \E t \in Sessions : copy'[r] = session[t]
      BY <1>1, <3>1 DEF InTurn
    <3>2. CASE copy'[r].booking = copy[r].booking /\ copy'[r].funding = copy[r].funding
      BY <1>1, <2>2, <3>2 DEF InSync
    <3>3. pc[r] # "product"
      BY <1>1 DEF InSync
    <3>4. QED BY <2>2, <3>1, <3>2, <3>3, CopyBookingStep
  <2>3. QED BY <2>1, <2>2
<1>2. ASSUME NEW q \in Requests, Save(q), session'[s] = copy[q]
      PROVE  /\ copy'[r].booking = None
             /\ pc'[r] \in Resting
  <2>1. pc[q] \notin Resting /\ pc'[q] = "done" /\ copy'[q] = Blank
    BY <1>2 DEF Save, Resting
  <2>2. r # q => pc[r] \in Resting /\ pc'[r] = pc[r] /\ copy'[r] = copy[r]
    BY <1>2, <2>1 DEF OneInFlight, Save
  <2>3. QED BY <2>1, <2>2 DEF OneInFlight, Resting, Blank
<1>3. QED BY <1>1, <1>2, SessionStep DEF Resting

(* What was booked before a step is what the handlers and the sessions name. *)
LEMMA FirstBookedLasts ==
  ASSUME InTurn, ExistingCheck, BaseInv, OneInFlight, FirstBooked, [Next]_vars,
         NEW b \in Requests, Booked(b)
  PROVE  /\ \A r \in Requests : pc'[r] \notin {"reserve", "create", "product"}
         /\ \A r \in Requests : copy'[r].booking # None => b = copy'[r].booking
         /\ \A s \in Sessions : session'[s].booking # None => b = session'[s].booking
<1> USE DEF BaseInv, FlowOK
<1>1. ASSUME NEW r \in Requests PROVE pc'[r] \notin {"reserve", "create", "product"}
  <2>1. pc[r] \notin {"reserve", "create", "product"}
    BY DEF FirstBooked
  <2>2. ASSUME NEW s \in Sessions, StartSubmit(r, s) \/ StartInitiate(r, s) \/ StartConfirm(r, s)
        PROVE  pc'[r] \in {"check", "initiate", "settle"}
    BY <2>2 DEF StartSubmit, StartInitiate, StartConfirm, Start
  <2>3. CASE CheckExisting(r)
    <3>1. HasExistingBooking
      BY DEF HasExistingBooking, Booked
    <3>2. QED BY <2>3, <3>1 DEF CheckExisting, Answer
  <2>4. CASE Initiate(r)
    BY <2>4 DEF Initiate, Proceed, Answer
  <2>5. CASE pc[r] \in Past
    BY <2>5, PastStep DEF Past
  <2>6. Handle(r) => pc[r] \in Past \/ Initiate(r) \/ CheckExisting(r)
    BY <2>1, HandlesPast DEF CheckExisting
  <2>7. Crash(r) => pc'[r] = "done"
    BY DEF Crash
  <2>8. QED BY <2>1, <2>2, <2>3, <2>4, <2>5, <2>6, <2>7, RequestStep
<1>2. ASSUME NEW r \in Requests, copy'[r].booking # None PROVE b = copy'[r].booking
  <2>1. pc[r] # "product"
    BY DEF FirstBooked
  <2>2. QED BY <1>2, <2>1, CopyBookingStep DEF FirstBooked
<1>3. ASSUME NEW s \in Sessions, session'[s].booking # None PROVE b = session'[s].booking
  BY <1>3, SessionStep DEF FirstBooked
<1>4. QED BY <1>1, <1>2, <1>3

(* The booking that a step confirms is the one its handler and the session name. *)
LEMMA FirstBookedStep ==
  ASSUME InTurn, ExistingCheck, BaseInv, OneInFlight, InSync, FirstBooked, OneBookingPerTest,
         [Next]_vars
  PROVE  FirstBooked' /\ OneBookingPerTest'
<1> USE DEF BaseInv, FlowOK
<1>1. ASSUME NEW b \in Requests, Booked(b)', ~Booked(b)
      PROVE  \E q \in Requests : ConfirmCrm(q) /\ copy[q].booking = b /\ b # None
  <2>1. crm'[b].status = "Confirmed" /\ crm[b].status # "Confirmed"
    BY <1>1 DEF Booked
  <2>2. "Confirmed" \notin UnreservedStatuses
    BY DEF UnreservedStatuses
  <2>3. QED BY <2>1, <2>2, StatusStep, ConstantsAssumption
<1>2. ASSUME NEW q \in Requests, ConfirmCrm(q), NEW r \in Requests
      PROVE  /\ pc'[r] \notin {"reserve", "create", "product"}
             /\ copy'[r].booking # None => copy'[r].booking = copy[q].booking
  <2>1. pc[q] = "confirmCrm" /\ pc'[q] = "save" /\ copy'[q] = copy[q]
    BY <1>2 DEF ConfirmCrm, Answer
  <2>2. r # q => pc[r] \in Resting /\ pc'[r] = pc[r] /\ copy'[r] = copy[r]
    BY <1>2, <2>1 DEF OneInFlight, ConfirmCrm, Answer, Resting
  <2>3. QED BY <2>1, <2>2 DEF OneInFlight, Resting
<1>3. ASSUME NEW q \in Requests, ConfirmCrm(q), copy[q].booking # None,
             NEW s \in Sessions, session'[s].booking # None
      PROVE  session'[s].booking = copy[q].booking
  <2>1. session' = session
    BY <1>3 DEF ConfirmCrm, Answer
  <2>2. QED BY <1>3, <2>1 DEF InSync
<1>4. FirstBooked'
  <2> SUFFICES ASSUME NEW b \in Requests, Booked(b)'
               PROVE  /\ \A r \in Requests : pc'[r] \notin {"reserve", "create", "product"}
                      /\ \A r \in Requests : copy'[r].booking # None => b = copy'[r].booking
                      /\ \A s \in Sessions : session'[s].booking # None => b = session'[s].booking
    BY DEF FirstBooked
  <2>1. CASE Booked(b)
    BY <2>1, FirstBookedLasts
  <2>2. CASE ~Booked(b)
    BY <2>2, <1>1, <1>2, <1>3
  <2>3. QED BY <2>1, <2>2
<1>5. OneBookingPerTest'
  <2> SUFFICES ASSUME NEW b \in Requests, NEW c \in Requests, Booked(b)', Booked(c)'
               PROVE  b = c
    BY DEF OneBookingPerTest, Booked
  <2>1. ASSUME NEW x \in Requests, NEW y \in Requests, Booked(x)', ~Booked(x), Booked(y)
        PROVE  x = y
    BY <2>1, <1>1 DEF FirstBooked
  <2>2. ASSUME NEW x \in Requests, NEW y \in Requests, Booked(x)', ~Booked(x), Booked(y)', ~Booked(y)
        PROVE  x = y
    <3>1. PICK q \in Requests : ConfirmCrm(q) /\ copy[q].booking = x /\ x # None
      BY <2>2, <1>1
    <3>2. PICK p \in Requests : ConfirmCrm(p) /\ copy[p].booking = y /\ y # None
      BY <2>2, <1>1
    <3>3. p = q
      BY <3>1, <3>2 DEF ConfirmCrm, OneInFlight, Resting
    <3>4. QED BY <3>1, <3>2, <3>3
  <2>3. Booked(b) /\ Booked(c) => b = c
    BY DEF OneBookingPerTest, Booked
  <2>4. QED BY <2>1, <2>2, <2>3
<1>6. QED BY <1>4, <1>5

LEMMA TurnInit == Init => OrderInv /\ TurnInv
<1> SUFFICES ASSUME Init PROVE OrderInv /\ TurnInv
  OBVIOUS
<1>1. PICK old \in {{}} \cup {{b} : b \in Earlier}, t \in Slots :
        /\ session = [s \in Sessions |-> Blank]
        /\ pc = [r \in Requests |-> IF r \in old THEN "done" ELSE "idle"]
        /\ copy = [r \in Requests |-> Blank]
        /\ crm = [r \in Requests |->
                    IF r \in old THEN [status |-> "Confirmed", slot |-> t, payment |-> None]
                    ELSE [status |-> "none", slot |-> None, payment |-> None]]
  BY DEF Init
<1>2. ASSUME NEW r \in Requests
      PROVE  pc[r] \in Resting /\ copy[r].booking = None /\ copy[r].receipt = None
  BY <1>1 DEF Resting, Blank
<1>3. ASSUME NEW s \in Sessions PROVE session[s].booking = None
  BY <1>1 DEF Blank
<1>4. ASSUME NEW b \in Requests, crm[b].status = "Confirmed" PROVE b \in old
  BY <1>1, <1>4
<1>5. OneBookingPerTest
  BY <1>4 DEF OneBookingPerTest
<1>6. QED
  BY <1>2, <1>3, <1>5 DEF OrderInv, TurnInv, OneInFlight, InSync, FirstBooked, Resting

LEMMA OrderCorrect ==
  ASSUME InTurn
  PROVE  Spec => [](BaseInv /\ SecuredInv /\ IdentityInv /\ OrderInv)
<1>1. BaseInv /\ OrderInv /\ [Next]_vars => OrderInv'
  BY OneInFlightStep, InSyncStep DEF OrderInv
<1>2. Spec => [](BaseInv /\ SecuredInv /\ IdentityInv)
  BY IdentityCorrect DEF InTurn
<1>3. Init => OrderInv
  BY TurnInit
<1>4. QED BY <1>1, <1>2, <1>3, PTL DEF Spec

LEMMA TurnCorrect ==
  ASSUME InTurn, ExistingCheck
  PROVE  Spec => []TurnInv
<1>1. BaseInv /\ OrderInv /\ TurnInv /\ [Next]_vars => TurnInv'
  BY FirstBookedStep DEF OrderInv, TurnInv
<1>2. Init => TurnInv
  BY TurnInit
<1>3. QED BY <1>1, <1>2, OrderCorrect, PTL DEF Spec

(* With the check for an existing booking, and the requests of a candidate   *)
(* one at a time, check-your-answers never lets a second booking for the     *)
(* test become Confirmed, whichever calls fail, lose their answer or are cut *)
(* short by a crash.                                                         *)
THEOREM OneBookingHolds ==
  ASSUME InTurn, ExistingCheck
  PROVE  Spec => []OneBookingPerTest
<1>1. TurnInv => OneBookingPerTest
  BY DEF TurnInv
<1>2. QED BY <1>1, TurnCorrect, PTL

-------------------------------------------------------------------------------
(* The life of a booking. *)

GivingUp == {"delete", "status"}

(* The CRM has a booking from the moment its handler has created it. *)
Untouched ==
  \A r \in Requests :
    /\ pc[r] \in {"idle", "check", "reserve", "create"} => crm[r].status = "none"
    /\ pc[r] = "product" => crm[r].status = "Reserved"

Known(b) == crm[b].status # "none"
Kept(b) == crm[b].status \in {"Reserved", "Confirmed"}

(* The booking of a session has not been given up, unless a request is at it. *)
KeptInUse ==
  /\ \A r \in Requests : copy[r].booking # None =>
       Known(copy[r].booking) /\ (pc[r] \notin GivingUp => Kept(copy[r].booking))
  /\ \A s \in Sessions : session[s].booking # None =>
       /\ Known(session[s].booking)
       /\ \/ Kept(session[s].booking)
          \/ \E r \in Requests : pc[r] \in GivingUp \/ (pc[r] = "save" /\ copy[r] = Blank)

(* What may pay for the booking of d is the payment that d holds, or the one *)
(* that a request is about to save.                                          *)
OwnMoney(d) ==
  d.booking # None =>
    /\ d.funding = "card" => d.booking \notin waived
    /\ \A p \in Requests : page[p] = "gateway" /\ pay[p].for = d.booking =>
         d.receipt = p \/ pc[p] = "save"

MoneyKnown ==
  /\ \A r \in Requests : OwnMoney(copy[r])
  /\ \A s \in Sessions : OwnMoney(session[s])

(* A payment is initiated for a booking that has none, and is made on the    *)
(* page that its request redirects to.                                       *)
MoneyMade ==
  \A p \in Requests :
    /\ pc[p] \in {"initiate", "bind"} => copy[p].receipt = None
    /\ page[p] = "gateway" => pc[p] \in {"save", "done"}
    /\ page[p] = "gateway" /\ pc[p] = "save" => copy[p].receipt = p
    /\ pay[p].status = "captured" => page[p] = "gateway"
    /\ pay[p].for # None => pc[pay[p].for] \in Past /\ Known(pay[p].for)
    /\ p \in waived => pc[p] \in Past /\ Known(p)

(* A slot is confirmed for the booking it was reserved for, and not for one *)
(* that is being given up.                                                  *)
OwnSlot == \A x \in Requests : tcn[x].status = "confirmed" => tcn[x].ref = x

Unsecured ==
  \A r \in Requests : pc[r] \in GivingUp => ~Secures(copy[r].booking, copy[r].booking)

DecisionInv == Untouched /\ KeptInUse /\ MoneyMade /\ MoneyKnown /\ OwnSlot /\ Unsecured

-------------------------------------------------------------------------------
(* How the requests move. *)

(* Before its booking is created a request creates nothing. *)
LEMMA EarlyStep ==
  ASSUME BaseInv, [Next]_vars, NEW r \in Requests
  PROVE  /\ pc'[r] \in {"idle", "check", "reserve", "create"} =>
              pc[r] \in {"idle", "check", "reserve", "create"} /\ ~CreateBooking(r)
         /\ pc'[r] = "product" =>
              \/ pc[r] = "product" /\ ~CreateBooking(r)
              \/ CreateBooking(r) /\ crm'[r].status = "Reserved"
<1> DEFINE Goal ==
      /\ pc'[r] \in {"idle", "check", "reserve", "create"} =>
           pc[r] \in {"idle", "check", "reserve", "create"} /\ ~CreateBooking(r)
      /\ pc'[r] = "product" =>
           \/ pc[r] = "product" /\ ~CreateBooking(r)
           \/ CreateBooking(r) /\ crm'[r].status = "Reserved"
<1> USE DEF BaseInv, FlowOK
<1>0. CreateBooking(r) => pc[r] = "create" /\ pc'[r] \in {"product", "save"}
  BY DEF CreateBooking, Proceed, Answer
<1>1. CASE pc'[r] = pc[r]
  BY <1>0, <1>1
<1>2. ASSUME NEW s \in Sessions, StartSubmit(r, s) \/ StartInitiate(r, s) \/ StartConfirm(r, s)
      PROVE  pc[r] = "idle" /\ pc'[r] # "product"
  BY <1>2 DEF StartSubmit, StartInitiate, StartConfirm, Start
<1>3. CASE CheckExisting(r) \/ Reserve(r)
  BY <1>3, <1>0 DEF CheckExisting, Reserve, Proceed, Answer
<1>4. CASE CreateBooking(r)
  BY <1>4, <1>0 DEF CreateBooking, Proceed, Answer, Effective, WorldOK, Bookings
<1>5. CASE CreateProduct(r) \/ Initiate(r)
  BY <1>5, <1>0 DEF CreateProduct, Initiate, Proceed, Answer
<1>6. CASE pc[r] \in Past
  BY <1>6, PastStep DEF Past
<1>7. CASE Crash(r)
  BY <1>7 DEF Crash
<1>8. Handle(r) => \/ CheckExisting(r) \/ Reserve(r) \/ CreateBooking(r)
                   \/ CreateProduct(r) \/ Initiate(r) \/ pc[r] \in Past
  BY HandlesPast DEF Submit
<1>9. QED BY <1>0, <1>1, <1>2, <1>3, <1>4, <1>5, <1>6, <1>7, <1>8, RequestStep

(* A handler gives its booking up after the payment or after the slot. *)
LEMMA GivingUpStep ==
  ASSUME BaseInv, [Next]_vars, NEW r \in Requests, pc'[r] \in GivingUp
  PROVE  /\ copy'[r] = copy[r]
         /\ pc[r] \in GivingUp \/ SettleByCard(r) \/ ConfirmSlot(r)
<1> USE DEF BaseInv, FlowOK, GivingUp
<1>1. ASSUME NEW s \in Sessions, StartSubmit(r, s) \/ StartInitiate(r, s) \/ StartConfirm(r, s)
      PROVE  FALSE
  BY <1>1 DEF StartSubmit, StartInitiate, StartConfirm, Start
<1>2. ~Submit(r) /\ ~InitiatePayment(r)
  BY DEF Submit, CheckExisting, Reserve, CreateBooking, CreateProduct, InitiatePayment,
         Initiate, Bind, Proceed, Answer
<1>3. SettleByCard(r) \/ ConfirmSlot(r) => copy'[r] = copy[r]
  BY DEF SettleByCard, ConfirmSlot, Proceed, GiveUp
<1>4. ~SettleWithoutCard(r) /\ ~ConfirmCrm(r)
  BY DEF SettleWithoutCard, ConfirmCrm, Proceed, Answer
<1>5. Unreserve(r) => pc[r] \in GivingUp /\ copy'[r] = copy[r]
  BY DEF Unreserve, DeleteReservation, SetStatus, StatusFailed, Proceed, GiveUp, Answer
<1>6. ~Save(r) /\ ~Crash(r)
  BY DEF Save, Crash
<1>7. QED BY <1>1, <1>2, <1>3, <1>4, <1>5, <1>6, RequestStep DEF Handle, Confirm

(* A handler that gives its booking up goes on to, without its data. *)
LEMMA GivenUpStep ==
  ASSUME Answered, BaseInv, [Next]_vars, NEW r \in Requests, pc[r] \in GivingUp
  PROVE  pc'[r] \in GivingUp \/ (pc'[r] = "save" /\ copy'[r] = Blank)
<1> USE DEF BaseInv, FlowOK, GivingUp
<1>1. ASSUME NEW s \in Sessions, StartSubmit(r, s) \/ StartInitiate(r, s) \/ StartConfirm(r, s)
      PROVE  FALSE
  BY <1>1 DEF StartSubmit, StartInitiate, StartConfirm, Start
<1>2. ~Submit(r) /\ ~InitiatePayment(r)
  BY DEF Submit, CheckExisting, Reserve, CreateBooking, CreateProduct, InitiatePayment,
         Initiate, Bind
<1>3. ~SettleByCard(r) /\ ~ConfirmSlot(r) /\ ~SettleWithoutCard(r) /\ ~ConfirmCrm(r)
  BY DEF SettleByCard, ConfirmSlot, SettleWithoutCard, ConfirmCrm
<1>4. CASE Unreserve(r)
  BY <1>4 DEF Unreserve, DeleteReservation, SetStatus, StatusFailed, Proceed, GiveUp, Answer
<1>5. ~Save(r) /\ ~Crash(r)
  BY DEF Save, Crash, Answered
<1>6. QED BY <1>1, <1>2, <1>3, <1>4, <1>5, RequestStep DEF Handle, Confirm

(* A request redirects to the payment page when it has bound the payment. *)
LEMMA GatewayStep ==
  ASSUME Answered, BaseInv, MoneyMade, [Next]_vars, NEW p \in Requests, page'[p] = "gateway"
  PROVE  \/ Bind(p) /\ pc'[p] = "save" /\ copy'[p].receipt = p
         \/ page[p] = "gateway" /\ pc'[p] = pc[p] /\ copy'[p] = copy[p]
         \/ page[p] = "gateway" /\ Save(p)
<1> USE DEF BaseInv, FlowOK
<1>1. ASSUME NEW s \in Sessions, StartSubmit(p, s) \/ StartInitiate(p, s) \/ StartConfirm(p, s)
      PROVE  FALSE
  BY <1>1 DEF StartSubmit, StartInitiate, StartConfirm, Start, MoneyMade
<1>2. CASE Submit(p) \/ Initiate(p)
  BY <1>2 DEF Submit, CheckExisting, Reserve, CreateBooking, CreateProduct, Initiate, Proceed, Answer,
              MoneyMade
<1>3. CASE Bind(p)
  <2>1. pc'[p] = "save" /\ copy'[p] = [copy[p] EXCEPT !.receipt = p]
    BY <1>3 DEF Bind, Answer
  <2>2. copy'[p].receipt = p
    BY <2>1 DEF SessionData
  <2>3. QED BY <1>3, <2>1, <2>2
<1>4. CASE SettleByCard(p) \/ SettleWithoutCard(p) \/ ConfirmSlot(p) \/ ConfirmCrm(p)
  BY <1>4 DEF SettleByCard, SettleWithoutCard, ConfirmSlot, ConfirmCrm, Proceed, GiveUp, Answer,
              MoneyMade
<1>5. CASE Unreserve(p)
  BY <1>5 DEF Unreserve, DeleteReservation, SetStatus, StatusFailed, PageFor, Proceed, GiveUp, Answer,
              MoneyMade
<1>6. CASE Save(p)
  BY <1>6 DEF Save
<1>7. ~Crash(p)
  BY DEF Crash, FlowOK
<1>8. QED
  BY <1>1, <1>2, <1>3, <1>4, <1>5, <1>6, <1>7, RequestStep DEF Handle, InitiatePayment, Confirm

(* A payment is initiated for the booking of a session that has no payment. *)
LEMMA InitiatingStep ==
  ASSUME BaseInv, [Next]_vars, NEW r \in Requests, pc'[r] \in {"initiate", "bind"}
  PROVE  \/ pc[r] \in {"initiate", "bind"} /\ copy'[r] = copy[r]
         \/ \E s \in Sessions : StartInitiate(r, s) /\ copy'[r] = session[s]
<1> USE DEF BaseInv, FlowOK
<1>1. ASSUME NEW s \in Sessions, StartSubmit(r, s) \/ StartInitiate(r, s) \/ StartConfirm(r, s)
      PROVE  StartInitiate(r, s) /\ copy'[r] = session[s]
  BY <1>1 DEF StartSubmit, StartInitiate, StartConfirm, Start
<1>2. ~Submit(r) /\ ~Bind(r)
  BY DEF Submit, CheckExisting, Reserve, CreateBooking, CreateProduct, Bind, Proceed, Answer
<1>3. Initiate(r) => pc[r] = "initiate" /\ copy'[r] = copy[r]
  BY DEF Initiate, Proceed, Answer
<1>4. ~SettleByCard(r) /\ ~SettleWithoutCard(r) /\ ~ConfirmSlot(r) /\ ~ConfirmCrm(r)
  BY DEF SettleByCard, SettleWithoutCard, ConfirmSlot, ConfirmCrm, Proceed, GiveUp, Answer
<1>5. ~Unreserve(r)
  BY DEF Unreserve, DeleteReservation, SetStatus, StatusFailed, Proceed, GiveUp, Answer
<1>6. ~Save(r) /\ ~Crash(r)
  BY DEF Save, Crash
<1>7. QED
  BY <1>1, <1>2, <1>3, <1>4, <1>5, <1>6, RequestStep DEF Handle, InitiatePayment, Confirm

-------------------------------------------------------------------------------
(* The parts of DecisionInv are kept. *)

(* The CRM does not forget a booking. *)
LEMMA KnownLasts ==
  ASSUME BaseInv, [Next]_vars, NEW b \in Requests, Known(b)
  PROVE  Known(b)'
BY StatusStep DEF Known, UnreservedStatuses

LEMMA UntouchedStep ==
  ASSUME BaseInv, IdentityInv, Untouched, [Next]_vars
  PROVE  Untouched'
<1> SUFFICES ASSUME NEW r \in Requests
             PROVE  /\ pc'[r] \in {"idle", "check", "reserve", "create"} => crm'[r].status = "none"
                    /\ pc'[r] = "product" => crm'[r].status = "Reserved"
  BY DEF Untouched
<1>1. pc[r] \notin Past => crm'[r].status = crm[r].status \/ CreateBooking(r)
  <2>1. ASSUME NEW q \in Requests, copy[q].booking = r PROVE pc[r] \in Past
    BY <2>1, ConstantsAssumption DEF IdentityInv, Coherence, Coherent
  <2>2. QED BY <2>1, StatusStep
<1>2. QED BY <1>1, EarlyStep DEF Untouched, Past

(* A booking that a handler or a session holds after a step was held before, *)
(* or is the one that its handler has just created.                          *)
LEMMA KeptStep ==
  ASSUME InTurn, Answered, BaseInv, OneInFlight, IdentityInv, Untouched, KeptInUse, [Next]_vars,
         NEW r \in Requests, copy'[r].booking # None
  PROVE  Known(copy[r].booking)' /\ (pc'[r] \notin GivingUp => Kept(copy[r].booking)')
<1>1. PICK b : b = copy'[r].booking
  OBVIOUS
<1>2. b \in Requests
  BY <1>1, FlowStep DEF BaseInv, FlowOK, SessionData
<1>3. ASSUME NEW d \in SessionData, d.booking = b, Known(b), pc'[r] \notin GivingUp => Kept(b)
      PROVE  Known(copy[r].booking)' /\ (pc'[r] \notin GivingUp => Kept(copy[r].booking)')
  <2>1. Known(b)'
    BY <1>2, <1>3, KnownLasts
  <2>2. ASSUME pc'[r] \notin GivingUp PROVE Kept(b)'
    <3>1. ASSUME NEW q \in Requests, SetStatus(q) PROVE FALSE
      <4>1. pc[q] = "status" /\ pc[q] \in GivingUp
        BY <3>1 DEF SetStatus, GivingUp
      <4>2. pc'[r] \notin Resting
        BY OneInFlightStep DEF OneInFlight
      <4>3. q = r
        BY <4>1, <4>2, HomeStep, StartsAlone DEF OneInFlight, Resting
      <4>4. QED BY <4>1, <4>3, <2>2, GivenUpStep DEF Blank
    <3>2. QED BY <1>2, <1>3, <2>2, <3>1, StatusStep DEF Kept
  <2>3. QED BY <1>1, <2>1, <2>2 DEF Known, Kept
<1>4. CASE copy'[r].booking = copy[r].booking
  <2>1. pc[r] \in GivingUp /\ pc'[r] \notin GivingUp => copy'[r] = Blank
    BY GivenUpStep
  <2>2. Blank.booking = None
    BY DEF Blank
  <2>3. copy[r] \in SessionData
    BY DEF BaseInv, FlowOK
  <2>4. QED BY <1>1, <1>3, <1>4, <2>1, <2>2, <2>3 DEF KeptInUse
<1>5. ASSUME NEW s \in Sessions, copy'[r] = session[s],
             StartSubmit(r, s) \/ StartInitiate(r, s) \/ StartConfirm(r, s)
      PROVE  Known(copy[r].booking)' /\ (pc'[r] \notin GivingUp => Kept(copy[r].booking)')
  <2>1. session[s].booking = b /\ session[s] \in SessionData
    BY <1>1, <1>5 DEF BaseInv, FlowOK
  <2>2. \A q \in Requests : pc[q] \notin GivingUp /\ pc[q] # "save"
    BY <1>5, StartsAlone DEF Resting, GivingUp
  <2>3. Known(b) /\ Kept(b)
    BY <1>1, <2>1, <2>2 DEF KeptInUse
  <2>4. QED BY <1>3, <2>1, <2>3
<1>6. CASE pc[r] = "product" /\ copy'[r].booking = r
  <2>1. crm[r].status = "Reserved"
    BY <1>6 DEF Untouched
  <2>2. PICK d \in SessionData : d = copy'[r]
    BY FlowStep DEF BaseInv, FlowOK
  <2>3. QED BY <1>1, <1>3, <1>6, <2>1, <2>2 DEF Known, Kept
<1>7. QED BY <1>4, <1>5, <1>6, CopyBookingStep

LEMMA KeptInUseStep ==
  ASSUME InTurn, Answered, BaseInv, OneInFlight, InSync, IdentityInv, Untouched, KeptInUse, [Next]_vars
  PROVE  KeptInUse'
<1> USE DEF BaseInv, FlowOK
<1>1. ASSUME NEW r \in Requests, copy'[r].booking # None
      PROVE  Known(copy[r].booking)' /\ (pc'[r] \notin GivingUp => Kept(copy[r].booking)')
  BY <1>1, KeptStep
<1>2. ASSUME NEW s \in Sessions, session'[s].booking # None
      PROVE  /\ Known(session[s].booking)'
             /\ \/ Kept(session[s].booking)'
                \/ \E r \in Requests : pc'[r] \in GivingUp \/ (pc'[r] = "save" /\ copy'[r] = Blank)
  <2>1. PICK b : b = session'[s].booking
    OBVIOUS
  <2>2. b \in Requests
    BY <1>2, <2>1, FlowStep DEF SessionData
  <2>3. CASE session'[s].booking = session[s].booking
    <3>1. Known(b)'
      BY <1>2, <2>1, <2>2, <2>3, KnownLasts DEF KeptInUse
    <3>2. ASSUME NEW q \in Requests, pc[q] \in GivingUp
          PROVE  pc'[q] \in GivingUp \/ (pc'[q] = "save" /\ copy'[q] = Blank)
      BY <3>2, GivenUpStep
    <3>3. ASSUME NEW q \in Requests, pc[q] = "save", copy[q] = Blank
          PROVE  pc'[q] = "save" /\ copy'[q] = Blank
      <4>1. CASE pc'[q] = pc[q] /\ copy'[q] = copy[q]
        BY <3>3, <4>1
      <4>2. CASE Save(q)
        <5>1. home[q] = s
          BY <3>3 DEF OneInFlight, Resting, InTurn
        <5>2. session'[s] = Blank
          BY <3>3, <4>2, <5>1 DEF Save
        <5>3. QED BY <5>2, <1>2 DEF Blank
      <4>3. ~Crash(q)
        BY DEF Crash, Answered
      <4>4. Handle(q) => Save(q)
        BY <3>3 DEF Handle, Submit, CheckExisting, Reserve, CreateBooking, CreateProduct,
                    InitiatePayment, Initiate, Bind, Confirm, SettleByCard, SettleWithoutCard,
                    ConfirmSlot, ConfirmCrm, Unreserve, DeleteReservation, SetStatus
      <4>5. ASSUME NEW t \in Sessions, StartSubmit(q, t) \/ StartInitiate(q, t) \/ StartConfirm(q, t)
            PROVE  FALSE
        BY <3>3, <4>5 DEF StartSubmit, StartInitiate, StartConfirm, Start
      <4>6. QED BY <4>1, <4>2, <4>3, <4>4, <4>5, RequestStep
    <3>4. CASE Kept(b)
      <4>1. ASSUME NEW q \in Requests, SetStatus(q) PROVE pc[q] \in GivingUp
        BY <4>1 DEF SetStatus, GivingUp
      <4>2. Kept(b)' \/ \E q \in Requests : SetStatus(q)
        BY <2>2, <3>4, StatusStep DEF Kept
      <4>3. QED BY <2>1, <3>1, <3>2, <4>1, <4>2 DEF Known, Kept
    <3>5. QED
      BY <1>2, <2>1, <2>3, <3>1, <3>2, <3>3, <3>4 DEF KeptInUse, Known
  <2>4. ASSUME NEW q \in Requests, Save(q), session'[s] = copy[q]
        PROVE  Known(b)' /\ Kept(b)'
    <3>1. pc[q] = "save" /\ crm' = crm
      BY <2>4 DEF Save, world
    <3>2. QED BY <1>2, <2>1, <2>4, <3>1 DEF KeptInUse, Known, Kept, GivingUp
  <2>5. QED BY <1>2, <2>1, <2>3, <2>4, SessionStep DEF Known, Kept
<1>3. QED BY <1>1, <1>2 DEF KeptInUse

(* A request that redirected to the payment page has nothing left to answer. *)
LEMMA GatewayLasts ==
  ASSUME Answered, BaseInv, MoneyMade, [Next]_vars, NEW p \in Requests, page[p] = "gateway"
  PROVE  page'[p] = "gateway"
<1>1. pc[p] \in {"save", "done"}
  BY DEF MoneyMade
<1>2. Handle(p) => Save(p)
  BY <1>1 DEF Handle, Submit, CheckExisting, Reserve, CreateBooking, CreateProduct,
              InitiatePayment, Initiate, Bind, Confirm, SettleByCard, SettleWithoutCard,
              ConfirmSlot, ConfirmCrm, Unreserve, DeleteReservation, SetStatus
<1>3. ~Crash(p)
  BY DEF Crash, Answered
<1>4. ASSUME NEW s \in Sessions, StartSubmit(p, s) \/ StartInitiate(p, s) \/ StartConfirm(p, s)
      PROVE  FALSE
  BY <1>1, <1>4 DEF StartSubmit, StartInitiate, StartConfirm, Start
<1>5. Save(p) => page'[p] = page[p]
  BY DEF Save
<1>6. QED BY <1>2, <1>3, <1>4, <1>5, RequestStep

LEMMA MoneyMadeStep ==
  ASSUME InTurn, Answered, BaseInv, IdentityInv, KeptInUse, MoneyMade, [Next]_vars
  PROVE  MoneyMade'
<1> USE DEF BaseInv, FlowOK
<1> SUFFICES ASSUME NEW p \in Requests
             PROVE  /\ pc'[p] \in {"initiate", "bind"} => copy'[p].receipt = None
                    /\ page'[p] = "gateway" => pc'[p] \in {"save", "done"}
                    /\ page'[p] = "gateway" /\ pc'[p] = "save" => copy'[p].receipt = p
                    /\ pay'[p].status = "captured" => page'[p] = "gateway"
                    /\ pay'[p].for # None => pc'[pay'[p].for] \in Past /\ Known(pay[p].for)'
                    /\ p \in waived' => pc'[p] \in Past /\ Known(p)'
  BY DEF MoneyMade
<1>1. pc'[p] \in {"initiate", "bind"} => copy'[p].receipt = None
  <2>1. ASSUME NEW s \in Sessions, StartInitiate(p, s), copy'[p] = session[s]
        PROVE  copy'[p].receipt = None
    BY <2>1 DEF StartInitiate, InTurn
  <2>2. QED BY <2>1, InitiatingStep DEF MoneyMade
<1>2. /\ page'[p] = "gateway" => pc'[p] \in {"save", "done"}
      /\ page'[p] = "gateway" /\ pc'[p] = "save" => copy'[p].receipt = p
  <2>1. Save(p) => pc'[p] = "done"
    BY DEF Save
  <2>2. QED BY <2>1, GatewayStep DEF MoneyMade
<1>3. ASSUME NEW b \in Requests, pc[b] \in Past, Known(b)
      PROVE  pc'[b] \in Past /\ Known(b)'
  BY <1>3, PastStep, KnownLasts
<1>4. ASSUME NEW r \in Requests, pc[r] \in {"initiate", "settle"}
      PROVE  /\ copy[r].booking \in Requests
             /\ pc[copy[r].booking] \in Past /\ Known(copy[r].booking)
  <2>1. copy[r].booking \in Requests /\ copy[r].booking # None
    BY <1>4, ConstantsAssumption DEF Holding, ConfirmCalls
  <2>2. Coherent(copy[r])
    BY DEF IdentityInv, Coherence
  <2>3. QED BY <2>1, <2>2 DEF Coherent, KeptInUse
<1>5. CASE Initiate(p)
  <2>1. pay'[p] = pay[p] \/ pay'[p] = [status |-> "pending", for |-> copy[p].booking]
    BY <1>5 DEF Initiate, WorldOK
  <2>2. pc[p] = "initiate" /\ waived' = waived
    BY <1>5 DEF Initiate
  <2>3. pay'[p].status = "captured" => page'[p] = "gateway"
    BY <2>1, <2>2 DEF MoneyMade
  <2>4. pay'[p].for # None => pc'[pay'[p].for] \in Past /\ Known(pay[p].for)'
    <3>1. PICK b : b = pay'[p].for
      OBVIOUS
    <3>2. pay[p].for \in Requests \cup {None}
      BY DEF WorldOK, Payments
    <3>3. b # None => b \in Requests /\ pc[b] \in Past /\ Known(b)
      BY <2>1, <2>2, <3>1, <3>2, <1>4 DEF MoneyMade
    <3>4. QED BY <3>1, <3>3, <1>3 DEF Known
  <2>5. QED BY <1>1, <1>2, <1>3, <2>2, <2>3, <2>4 DEF MoneyMade
<1>6. CASE ~Initiate(p)
  <2>1. pay'[p].for = pay[p].for
    BY <1>6, PaymentStep
  <2>2. pay[p].for \in Requests \cup {None}
    BY DEF WorldOK, Payments
  <2>3. pay'[p].for # None => pc'[pay'[p].for] \in Past /\ Known(pay[p].for)'
    BY <2>1, <2>2, <1>3 DEF MoneyMade, Known
  <2>4. ASSUME pay'[p].status = "captured" PROVE page'[p] = "gateway"
    <3>1. CASE pay'[p] = pay[p]
      BY <2>4, <3>1, GatewayLasts DEF MoneyMade
    <3>2. ASSUME NEW q \in Requests, PayAtGateway(q) PROVE pay'[p] = pay[p] \/ page'[p] = "gateway"
      BY <3>2 DEF PayAtGateway, WorldOK
    <3>3. ASSUME NEW q \in Requests, Initiate(q) PROVE pay'[p] = pay[p]
      BY <1>6, <3>3 DEF Initiate, WorldOK
    <3>4. QED BY <3>1, <3>2, <3>3, Writers
  <2>5. ASSUME p \in waived' PROVE pc'[p] \in Past /\ Known(p)'
    <3>1. ASSUME NEW q \in Requests, SettleWithoutCard(q)
          PROVE  p \in waived \/ (p = copy[q].booking /\ pc[q] = "settle")
      BY <2>5, <3>1 DEF SettleWithoutCard
    <3>2. pc[p] \in Past /\ Known(p)
      BY <2>5, <3>1, <1>4, Writers DEF MoneyMade
    <3>3. QED BY <3>2, <1>3
  <2>6. QED BY <1>1, <1>2, <2>3, <2>4, <2>5
<1>7. QED BY <1>5, <1>6

(* Money stays known unless the booking is waived or its payment is saved. *)
LEMMA OwnMoneyLasts ==
  ASSUME Answered, BaseInv, MoneyMade, [Next]_vars, NEW d \in SessionData, OwnMoney(d),
         \A q \in Requests : SettleWithoutCard(q) /\ copy[q].booking = d.booking =>
           d.funding # "card",
         \A p \in Requests : Save(p) /\ page[p] = "gateway" => d.receipt = p
  PROVE  OwnMoney(d)'
<1> SUFFICES ASSUME d.booking # None
             PROVE  /\ d.funding = "card" => d.booking \notin waived'
                    /\ \A p \in Requests : page'[p] = "gateway" /\ pay'[p].for = d.booking =>
                         d.receipt = p \/ pc'[p] = "save"
  BY DEF OwnMoney
<1>1. ASSUME d.funding = "card" PROVE d.booking \notin waived'
  <2>1. d.booking \notin waived
    BY <1>1 DEF OwnMoney
  <2>2. ASSUME NEW q \in Requests, SettleWithoutCard(q)
        PROVE  waived' \subseteq waived \cup {copy[q].booking}
    BY <2>2 DEF SettleWithoutCard
  <2>3. QED BY <1>1, <2>1, <2>2, Writers
<1>2. ASSUME NEW p \in Requests, page'[p] = "gateway", pay'[p].for = d.booking
      PROVE  d.receipt = p \/ pc'[p] = "save"
  <2>1. CASE page[p] = "gateway"
    <3>1. ~Initiate(p)
      BY <2>1 DEF MoneyMade, Initiate
    <3>2. pay[p].for = d.booking
      BY <1>2, <3>1, PaymentStep
    <3>3. d.receipt = p \/ pc[p] = "save"
      BY <2>1, <3>2 DEF OwnMoney
    <3>4. Bind(p) => pc'[p] = "save"
      BY DEF Bind, Answer, BaseInv, FlowOK
    <3>5. QED BY <1>2, <2>1, <3>3, <3>4, GatewayStep
  <2>2. CASE page[p] # "gateway"
    BY <1>2, <2>2, GatewayStep
  <2>3. QED BY <2>1, <2>2
<1>3. QED BY <1>1, <1>2

LEMMA CopyMoneyStep ==
  ASSUME InTurn, Answered, BaseInv, OneInFlight, MoneyMade, MoneyKnown, [Next]_vars,
         NEW r \in Requests
  PROVE  OwnMoney(copy[r])'
<1> USE DEF BaseInv, FlowOK
<1> SUFFICES ASSUME copy'[r].booking # None PROVE OwnMoney(copy[r])'
  BY DEF OwnMoney
<1>1. ASSUME NEW d \in SessionData, OwnMoney(d)',
             copy'[r].booking = d.booking, copy'[r].receipt = d.receipt, copy'[r].funding = d.funding
      PROVE  OwnMoney(copy[r])'
  BY <1>1 DEF OwnMoney
<1>2. ASSUME NEW q \in Requests, pc[q] \notin Resting,
             copy[r].booking # None
      PROVE  q = r
  BY <1>2 DEF OneInFlight
<1>3. ~Save(r)
  BY DEF Save, Blank
<1>4. copy[r] \in SessionData /\ OwnMoney(copy[r])
  BY DEF MoneyKnown
<1>5. ASSUME copy[r].booking # None PROVE OwnMoney(copy[r]) /\ \A d \in {copy[r]} : OwnMoney(d)'
  <2>1. \A q \in Requests : SettleWithoutCard(q) /\ copy[q].booking = copy[r].booking =>
          copy[r].funding # "card"
    BY <1>2, <1>5 DEF SettleWithoutCard, Resting
  <2>2. \A q \in Requests : ~Save(q)
    BY <1>2, <1>3, <1>5 DEF Save, Resting
  <2>3. PICK d \in SessionData : d = copy[r]
    BY <1>4
  <2>4. OwnMoney(d)'
    BY <1>4, <2>1, <2>2, <2>3, OwnMoneyLasts
  <2>5. QED BY <1>4, <2>3, <2>4
<1>6. CASE copy'[r] = copy[r]
  BY <1>1, <1>4, <1>5, <1>6
<1>7. CASE copy'[r] = [copy[r] EXCEPT !.reservation = r]
  <2>1. /\ copy'[r].booking = copy[r].booking
        /\ copy'[r].receipt = copy[r].receipt
        /\ copy'[r].funding = copy[r].funding
    BY <1>4, <1>7 DEF SessionData
  <2>2. QED BY <1>1, <1>4, <1>5, <2>1
<1>8. ASSUME NEW s \in Sessions, copy'[r] = session[s],
             StartSubmit(r, s) \/ StartInitiate(r, s) \/ StartConfirm(r, s)
      PROVE  OwnMoney(copy[r])'
  <2>1. \A q \in Requests : ~SettleWithoutCard(q) /\ ~Save(q)
    BY <1>8, StartsAlone DEF SettleWithoutCard, Save, Resting
  <2>2. PICK d \in SessionData : d = session[s]
    OBVIOUS
  <2>3. OwnMoney(d)'
    BY <2>1, <2>2, OwnMoneyLasts DEF MoneyKnown
  <2>4. QED BY <1>1, <1>8, <2>2, <2>3
<1>9. CASE CreateProduct(r) /\ copy'[r] = [copy[r] EXCEPT !.booking = r]
  <2>1. copy'[r].booking = r
    BY <1>4, <1>9 DEF SessionData
  <2>2. pc[r] \notin Past /\ pay' = pay /\ waived' = waived
    BY <1>9 DEF CreateProduct, world, Past
  <2>3. r \notin waived' /\ \A p \in Requests : pay'[p].for # r
    BY <2>2, ConstantsAssumption DEF MoneyMade
  <2>4. QED BY <2>1, <2>3 DEF OwnMoney
<1>10. CASE Bind(r) /\ copy'[r] = [copy[r] EXCEPT !.receipt = r]
  <2>1. /\ copy'[r].booking = copy[r].booking
        /\ copy'[r].receipt = r
        /\ copy'[r].funding = copy[r].funding
    BY <1>4, <1>10 DEF SessionData
  <2>2. pay' = pay /\ waived' = waived /\ pc[r] = "bind"
    BY <1>10 DEF Bind
  <2>3. ASSUME NEW p \in Requests, p # r, page'[p] = "gateway", pay'[p].for = copy'[r].booking
        PROVE  FALSE
    <3>1. pc[p] \in Resting
      BY <2>2, <2>3 DEF OneInFlight, Resting
    <3>2. ~Bind(p) /\ ~Save(p)
      BY <3>1 DEF Bind, Save, Resting
    <3>3. page[p] = "gateway"
      BY <2>3, <3>2, GatewayStep
    <3>4. copy[r].receipt = None
      BY <2>2 DEF MoneyMade
    <3>5. copy[r].receipt = p
      BY <2>1, <2>2, <2>3, <3>1, <3>3, <1>4 DEF OwnMoney, Resting
    <3>6. QED BY <3>4, <3>5, ConstantsAssumption
  <2>4. QED BY <1>4, <2>1, <2>2, <2>3 DEF OwnMoney
<1>11. copy'[r] # Blank
  BY DEF Blank
<1> HIDE DEF BaseInv, FlowOK
<1>12. QED BY <1>6, <1>7, <1>8, <1>9, <1>10, <1>11, DataStep

LEMMA StoreMoneyStep ==
  ASSUME InTurn, Answered, BaseInv, OneInFlight, InSync, MoneyMade, MoneyKnown, [Next]_vars,
         NEW s \in Sessions
  PROVE  OwnMoney(session[s])'
<1> USE DEF BaseInv, FlowOK
<1> SUFFICES ASSUME session'[s].booking # None PROVE OwnMoney(session[s])'
  BY DEF OwnMoney
<1>1. ASSUME NEW d \in SessionData, OwnMoney(d)', session'[s].booking = d.booking,
             session'[s].receipt = d.receipt, session'[s].funding = d.funding
      PROVE  OwnMoney(session[s])'
  BY <1>1 DEF OwnMoney
<1>2. ASSUME NEW p \in Requests, Save(p)
      PROVE  session'[s] = copy[p] /\ pc[p] \notin Resting
  <2>1. home[p] = s
    BY <1>2 DEF Save, OneInFlight, Resting, InTurn
  <2>2. QED BY <1>2, <2>1 DEF Save, Resting
<1>3. ASSUME NEW p \in Requests, Save(p), page[p] = "gateway" PROVE session'[s].receipt = p
  BY <1>2, <1>3 DEF MoneyMade, Save
<1>4. CASE /\ session'[s].booking = session[s].booking
           /\ session'[s].receipt = session[s].receipt
           /\ session'[s].funding = session[s].funding
  <2>1. PICK d \in SessionData : d = session[s]
    OBVIOUS
  <2>2. \A q \in Requests : SettleWithoutCard(q) /\ copy[q].booking = d.booking => d.funding # "card"
    BY <1>4, <2>1 DEF SettleWithoutCard, InSync
  <2>3. OwnMoney(d)
    BY <2>1 DEF MoneyKnown
  <2>4. OwnMoney(d)'
    BY <1>3, <1>4, <2>1, <2>2, <2>3, OwnMoneyLasts
  <2>5. QED BY <1>1, <1>4, <2>1, <2>4
<1>5. ASSUME NEW q \in Requests, Save(q) PROVE OwnMoney(session[s])'
  <2>1. PICK d \in SessionData : d = copy[q]
    OBVIOUS
  <2>2. session'[s] = d /\ OwnMoney(d)
    BY <1>2, <1>5, <2>1 DEF MoneyKnown
  <2>3. \A x \in Requests : ~SettleWithoutCard(x)
    BY <1>5 DEF Save, SettleWithoutCard, OneInFlight, Resting
  <2>4. OwnMoney(d)'
    BY <1>3, <2>2, <2>3, OwnMoneyLasts
  <2>5. QED BY <1>1, <2>2, <2>4
<1>6. QED BY <1>4, <1>5, SessionStep

(* A slot is confirmed for the booking it was made with. *)
LEMMA OwnSlotStep ==
  ASSUME BaseInv, IdentityInv, OwnSlot, [Next]_vars
  PROVE  OwnSlot'
<1> SUFFICES ASSUME NEW x \in Requests, tcn'[x].status = "confirmed" PROVE tcn'[x].ref = x
  BY DEF OwnSlot
<1>1. ASSUME NEW r \in Requests, ConfirmSlot(r) PROVE copy[r].reservation = copy[r].booking
  BY <1>1, ConstantsAssumption
     DEF ConfirmSlot, BaseInv, Holding, ConfirmCalls, IdentityInv, Coherence, Coherent
<1>2. QED BY <1>1, ReservationStep DEF OwnSlot

(* A card payment that was not captured has not settled its booking. *)
LEMMA NotSettled ==
  ASSUME BaseInv, OneInFlight, MoneyMade, MoneyKnown, NEW r \in Requests,
         pc[r] = "settle", copy[r].funding = "card", pay[copy[r].receipt].status # "captured"
  PROVE  ~Settled(copy[r].booking)
<1>1. copy[r].booking # None
  BY ConstantsAssumption DEF BaseInv, Holding, ConfirmCalls
<1>2. copy[r].booking \notin waived
  BY <1>1 DEF MoneyKnown, OwnMoney
<1>3. ASSUME NEW p \in Requests, pay[p].status = "captured", pay[p].for = copy[r].booking
      PROVE  FALSE
  <2>1. page[p] = "gateway"
    BY <1>3 DEF MoneyMade
  <2>2. copy[r].receipt = p \/ pc[p] = "save"
    BY <1>1, <1>3, <2>1 DEF MoneyKnown, OwnMoney
  <2>3. pc[p] # "save"
    BY DEF OneInFlight, Resting
  <2>4. QED BY <1>3, <2>2, <2>3
<1>4. QED BY <1>2, <1>3 DEF Settled

(* A booking is given up when it is not paid for, or its slot was refused. *)
LEMMA UnsecuredStep ==
  ASSUME InTurn, Answered, BaseInv, IdentityInv, OneInFlight, MoneyMade, MoneyKnown, OwnSlot,
         Unsecured, [Next]_vars
  PROVE  Unsecured'
<1> USE DEF BaseInv, FlowOK
<1> SUFFICES ASSUME NEW r \in Requests, pc'[r] \in GivingUp
             PROVE  ~Secures(copy[r].booking, copy[r].booking)'
  BY DEF Unsecured
<1>1. copy'[r] = copy[r] /\ (pc[r] \in GivingUp \/ SettleByCard(r) \/ ConfirmSlot(r))
  BY GivingUpStep
<1>2. PICK b : b = copy[r].booking
  OBVIOUS
<1>3. b \in Requests /\ copy[r].reservation = b
  <2>1. pc[r] \in ConfirmCalls
    BY <1>1 DEF GivingUp, SettleByCard, ConfirmSlot, ConfirmCalls
  <2>2. b \in Requests
    BY <1>2, <2>1 DEF Holding
  <2>3. QED BY <1>2, <2>2, ConstantsAssumption DEF IdentityInv, Coherence, Coherent
<1> SUFFICES ~Secures(b, b)'
  BY <1>1, <1>2 DEF Secures
<1>4. CASE pc[r] \in GivingUp
  <2>1. ~Secures(b, b)
    BY <1>2, <1>4 DEF Unsecured
  <2>2. \A q \in Requests : ~ConfirmSlot(q)
    BY <1>4 DEF ConfirmSlot, OneInFlight, Resting, GivingUp
  <2>3. QED BY <1>3, <2>1, <2>2, ReservationStep DEF Secures
<1>5. CASE SettleByCard(r)
  <2>1. PICK code \in Codes(r) :
          IF code = "success" THEN Proceed(r, copy[r], "confirmSlot") ELSE GiveUp(r, code)
    BY <1>5 DEF SettleByCard
  <2>2. code # "success"
    BY <2>1 DEF Proceed, GivingUp
  <2>3. ~Secures(b, b)
    <3>1. CASE tcn[b].status = "confirmed"
      <4>1. pay[copy[r].receipt].status # "captured"
        BY <1>3, <2>1, <2>2, <3>1 DEF Codes, Answered
      <4>2. ~Settled(b)
        BY <1>2, <1>5, <4>1, NotSettled DEF SettleByCard
      <4>3. QED BY <1>3, <4>2 DEF IdentityInv, SecuredIsPaid, Secures
    <3>2. QED BY <3>1 DEF Secures
  <2>4. tcn' = tcn
    BY <1>5 DEF SettleByCard, world
  <2>5. QED BY <2>3, <2>4 DEF Secures
<1>6. CASE ConfirmSlot(r)
  <2>1. CASE Confirmable(b, b)
    <3>1. PICK o \in Outcomes("confirmSlot") :
            /\ o = "ok" \/ tcn[b].status # "confirmed" \/ "reconfirm" \in Fails
            /\ tcn' = IF Effective(o)
                      THEN [tcn EXCEPT ![b].status = "confirmed", ![b].ref = b]
                      ELSE tcn
            /\ IF o = "ok" THEN Proceed(r, copy[r], "confirmCrm") ELSE GiveUp(r, "slot")
      BY <1>2, <1>3, <1>6, <2>1 DEF ConfirmSlot
    <3>2. o # "ok"
      BY <3>1 DEF Proceed, GivingUp
    <3>3. tcn' = tcn /\ tcn[b].status # "confirmed"
      BY <3>1, <3>2 DEF Outcomes, Answered, Effective
    <3>4. QED BY <3>3 DEF Secures
  <2>2. CASE ~Confirmable(b, b)
    <3>1. tcn' = tcn
      BY <1>2, <1>3, <1>6, <2>2 DEF ConfirmSlot, world
    <3>2. QED BY <2>2, <3>1 DEF Confirmable, Secures
  <2>3. QED BY <2>1, <2>2
<1>7. QED BY <1>1, <1>4, <1>5, <1>6

LEMMA DecisionInit == Init => DecisionInv
<1> SUFFICES ASSUME Init PROVE DecisionInv
  OBVIOUS
<1>1. PICK old \in {{}} \cup {{b} : b \in Earlier}, t \in Slots :
        /\ session = [s \in Sessions |-> Blank]
        /\ pc = [r \in Requests |-> IF r \in old THEN "done" ELSE "idle"]
        /\ copy = [r \in Requests |-> Blank]
        /\ page = [r \in Requests |-> "none"]
        /\ tcn = [r \in Requests |->
                    IF r \in old THEN [status |-> "confirmed", slot |-> t, ref |-> r]
                    ELSE [status |-> "none", slot |-> None, ref |-> None]]
        /\ crm = [r \in Requests |->
                    IF r \in old THEN [status |-> "Confirmed", slot |-> t, payment |-> None]
                    ELSE [status |-> "none", slot |-> None, payment |-> None]]
        /\ pay = [r \in Requests |-> [status |-> "none", for |-> None]]
        /\ waived = old
  BY DEF Init
<1>2. Untouched
  BY <1>1 DEF Untouched
<1>3. KeptInUse /\ MoneyKnown
  BY <1>1 DEF KeptInUse, MoneyKnown, OwnMoney, Blank
<1>4. MoneyMade
  BY <1>1 DEF MoneyMade, Past, Known
<1>5. OwnSlot
  BY <1>1 DEF OwnSlot
<1>6. Unsecured
  BY <1>1 DEF Unsecured, GivingUp
<1>7. QED BY <1>2, <1>3, <1>4, <1>5, <1>6 DEF DecisionInv

LEMMA DecisionCorrect ==
  ASSUME InTurn, Answered
  PROVE  Spec => []DecisionInv
<1>1. BaseInv /\ IdentityInv /\ OrderInv /\ DecisionInv /\ [Next]_vars => DecisionInv'
  <2> SUFFICES ASSUME BaseInv, IdentityInv, OrderInv, DecisionInv, [Next]_vars
               PROVE  DecisionInv'
    OBVIOUS
  <2> USE DEF OrderInv, DecisionInv
  <2>1. Untouched' /\ KeptInUse' /\ MoneyMade' /\ OwnSlot' /\ Unsecured'
    BY UntouchedStep, KeptInUseStep, MoneyMadeStep, OwnSlotStep, UnsecuredStep
  <2>2. MoneyKnown'
    BY CopyMoneyStep, StoreMoneyStep DEF MoneyKnown
  <2>3. QED BY <2>1, <2>2
<1>2. QED BY <1>1, DecisionInit, OrderCorrect, PTL DEF Spec

-------------------------------------------------------------------------------
(* A page that says the booking or the order has been cancelled. *)

(* Such a page is the answer to the status update of a booking given up. *)
LEMMA CancelledStep ==
  ASSUME "status" \notin Fails, BaseInv, [Next]_vars, NEW r \in Requests,
         pc[r] # "save", pc'[r] = "save", page'[r] \in CancelledPages
  PROVE  /\ pc[r] = "status" /\ tcn' = tcn
         /\ crm'[copy[r].booking].status \in UnreservedStatuses
<1> USE DEF BaseInv, FlowOK
<1>1. ASSUME NEW s \in Sessions, StartSubmit(r, s) \/ StartInitiate(r, s) \/ StartConfirm(r, s)
      PROVE  FALSE
  BY <1>1 DEF StartSubmit, StartInitiate, StartConfirm, Start
<1>2. ~Submit(r) /\ ~InitiatePayment(r)
  BY DEF Submit, CheckExisting, Reserve, CreateBooking, CreateProduct, InitiatePayment,
         Initiate, Bind, Proceed, Answer, CancelledPages
<1>3. ~SettleByCard(r) /\ ~SettleWithoutCard(r) /\ ~ConfirmSlot(r) /\ ~ConfirmCrm(r)
  BY DEF SettleByCard, SettleWithoutCard, ConfirmSlot, ConfirmCrm, Proceed, GiveUp, Answer,
         CancelledPages
<1>4. ~DeleteReservation(r) /\ ~Save(r) /\ ~Crash(r)
  BY DEF DeleteReservation, Save, Crash, Proceed
<1>5. CASE SetStatus(r)
  <2> DEFINE b == copy[r].booking
             payment == IF cause[r] = "cancelled" THEN copy[r].receipt ELSE crm[b].payment
  <2>1. PICK o \in Outcomes("status") :
          crm' = IF Effective(o)
                 THEN [crm EXCEPT ![b].status = StatusFor(cause[r]), ![b].payment = payment]
                 ELSE crm
    BY <1>5 DEF SetStatus
  <2>2. Effective(o)
    BY <2>1 DEF Outcomes, Effective
  <2>3. b \in Requests
    BY <1>5 DEF SetStatus, Holding, ConfirmCalls
  <2> HIDE DEF b, payment
  <2>4. crm'[b].status = StatusFor(cause[r])
    BY <2>1, <2>2, <2>3 DEF WorldOK, Bookings
  <2>5. crm'[b].status \in UnreservedStatuses
    BY <2>4 DEF StatusFor, UnreservedStatuses
  <2>6. QED BY <1>5, <2>5 DEF SetStatus, b
<1>6. QED BY <1>1, <1>2, <1>3, <1>4, <1>5, RequestStep DEF Handle, Confirm, Unreserve

(* Requests of the candidate one at a time, the services answering for what  *)
(* they did and the status update reaching the CRM: a page of                *)
(* payment-confirmation that says cancelled is answered only when the CRM no *)
(* longer holds the booking open and its slot is not confirmed.              *)
THEOREM CancelledIsReleased ==
  ASSUME InTurn, Answered, "status" \notin Fails
  PROVE  Spec => CancelledMeansReleased
<1>1. BaseInv /\ IdentityInv /\ DecisionInv /\ [Next]_vars =>
        [\A r \in Requests : pc[r] # "save" /\ pc'[r] = "save" /\ page'[r] \in CancelledPages =>
           /\ crm'[copy[r].booking].status \in UnreservedStatuses
           /\ tcn'[copy[r].reservation].status # "confirmed"]_vars
  <2> SUFFICES ASSUME BaseInv, IdentityInv, DecisionInv, [Next]_vars, NEW r \in Requests,
                      pc[r] # "save", pc'[r] = "save", page'[r] \in CancelledPages
               PROVE  /\ crm'[copy[r].booking].status \in UnreservedStatuses
                      /\ tcn'[copy[r].reservation].status # "confirmed"
    OBVIOUS
  <2>1. /\ pc[r] = "status" /\ tcn' = tcn
        /\ crm'[copy[r].booking].status \in UnreservedStatuses
    BY CancelledStep
  <2>2. copy[r].booking \in Requests /\ copy[r].reservation = copy[r].booking
    BY <2>1, ConstantsAssumption
       DEF BaseInv, Holding, ConfirmCalls, IdentityInv, Coherence, Coherent
  <2>3. tcn[copy[r].booking].status # "confirmed"
    BY <2>1, <2>2 DEF DecisionInv, Unsecured, GivingUp, OwnSlot, Secures
  <2>4. QED BY <2>1, <2>2, <2>3
<1>2. QED BY <1>1, OrderCorrect, DecisionCorrect, PTL DEF Spec, CancelledMeansReleased

-------------------------------------------------------------------------------
(* The refinement of BookingLifecycle. *)

LifeInv == BaseInv /\ SecuredInv /\ IdentityInv /\ OrderInv /\ TurnInv /\ DecisionInv

(* The stage of a booking depends on its status and on its own reservation. *)
LEMMA StageOf ==
  ASSUME BaseInv, OwnSlot, NEW b \in Requests
  PROVE  /\ crm[b].status = "none" => Stage(b) = "absent"
         /\ crm[b].status = "Confirmed" => Stage(b) = "booked"
         /\ crm[b].status \in UnreservedStatuses => Stage(b) = "closed"
         /\ crm[b].status = "Reserved" =>
              Stage(b) = IF Secures(b, b) THEN "secured" ELSE "open"
<1>1. (\E x \in Requests : Secures(x, b)) <=> Secures(b, b)
  BY DEF OwnSlot, Secures
<1>2. QED BY <1>1 DEF Stage, UnreservedStatuses

LEMMA StageOfNext ==
  ASSUME BaseInv', OwnSlot', NEW b \in Requests
  PROVE  /\ crm'[b].status = "none" => Stage(b)' = "absent"
         /\ crm'[b].status = "Confirmed" => Stage(b)' = "booked"
         /\ crm'[b].status \in UnreservedStatuses => Stage(b)' = "closed"
         /\ crm'[b].status = "Reserved" =>
              Stage(b)' = IF Secures(b, b)' THEN "secured" ELSE "open"
<1>1. (\E x \in Requests : Secures(x, b)') <=> Secures(b, b)'
  BY DEF OwnSlot, Secures
<1>2. QED BY <1>1 DEF Stage, UnreservedStatuses

(* Nothing about the stage of a booking changes with its status and its slot. *)
LEMMA StageKept ==
  ASSUME BaseInv, OwnSlot, BaseInv', OwnSlot', NEW b \in Requests,
         crm'[b].status = crm[b].status, Secures(b, b)' <=> Secures(b, b)
  PROVE  Stage(b)' = Stage(b)
<1>1. crm[b].status \in {"none", "Reserved", "Confirmed"} \cup UnreservedStatuses
  BY DEF BaseInv, WorldOK, Bookings
<1>2. QED BY <1>1, StageOf, StageOfNext

(* A step that moves the stage of one booking, or settles one. *)
LEMMA OneMoves ==
  ASSUME NEW b \in Requests, NEW from, NEW to, Stage(b) = from, Stage(b)' = to,
         \A c \in Requests : c # b => Stage(c)' = Stage(c),
         \A c \in Requests : Settled(c)' <=> Settled(c)
  PROVE  Lifecycle!Move(b, from, to)
BY DEF Lifecycle!Move

LEMMA OneSettles ==
  ASSUME NEW b \in Requests, Stage(b) # "absent",
         \A c \in Requests : Stage(c)' = Stage(c),
         \A c \in Requests : Settled(c)' <=> Settled(c) \/ c = b
  PROVE  Lifecycle!Settle(b)
BY DEF Lifecycle!Settle

LEMMA NoneMoves ==
  ASSUME \A c \in Requests : Stage(c)' = Stage(c),
         \A c \in Requests : Settled(c)' <=> Settled(c)
  PROVE  UNCHANGED Lifecycle!vars
BY DEF Lifecycle!vars

(* The creation of a booking opens it. *)
LEMMA CreateOpens ==
  ASSUME LifeInv, BaseInv', OwnSlot', NEW r \in Requests, CreateBooking(r)
  PROVE  [Lifecycle!Next]_(Lifecycle!vars)
<1> USE DEF LifeInv, DecisionInv
<1>1. /\ pc[r] = "create" /\ tcn' = tcn /\ pay' = pay /\ waived' = waived
      /\ \/ crm' = crm
         \/ crm' = [crm EXCEPT ![r].status = "Reserved", ![r].slot = copy[r].slot]
  BY DEF CreateBooking
<1>2. \A c \in Requests : Settled(c)' <=> Settled(c)
  BY <1>1 DEF Settled
<1>3. \A c \in Requests : c # r => Stage(c)' = Stage(c)
  BY <1>1, StageKept DEF BaseInv, WorldOK, Secures
<1>4. CASE crm' = crm
  BY <1>1, <1>2, <1>4, StageKept, NoneMoves DEF Secures
<1>5. CASE crm' = [crm EXCEPT ![r].status = "Reserved", ![r].slot = copy[r].slot]
  <2>1. crm[r].status = "none" /\ crm'[r].status = "Reserved"
    BY <1>1, <1>5 DEF Untouched, BaseInv, WorldOK, Bookings
  <2>2. ~Secures(r, r)
    BY <1>1 DEF IdentityInv, Named, Past, Secures
  <2>3. Stage(r) = "absent" /\ Stage(r)' = "open"
    BY <1>1, <2>1, <2>2, StageOf, StageOfNext DEF Secures
  <2>4. Lifecycle!Open(r)
    BY <1>2, <1>3, <2>3, OneMoves DEF Lifecycle!Open
  <2>5. QED BY <2>4 DEF Lifecycle!Next
<1>6. QED BY <1>1, <1>4, <1>5

(* What a handler that confirms or gives up holds is one booking's own. *)
LEMMA OwnBooking ==
  ASSUME LifeInv, NEW r \in Requests, pc[r] \in ConfirmCalls
  PROVE  /\ copy[r].booking \in Requests /\ copy[r].booking # None
         /\ copy[r].reservation = copy[r].booking
         /\ crm[copy[r].booking].status # "none"
         /\ pc[r] \notin GivingUp => crm[copy[r].booking].status \in {"Reserved", "Confirmed"}
         /\ crm[copy[r].booking].status = "Confirmed" => Secures(copy[r].booking, copy[r].booking)
<1>1. copy[r].booking \in Requests /\ copy[r].booking # None
  BY ConstantsAssumption DEF LifeInv, BaseInv, Holding
<1>2. copy[r].reservation = copy[r].booking
  BY <1>1 DEF LifeInv, IdentityInv, Coherence, Coherent
<1>3. /\ crm[copy[r].booking].status # "none"
      /\ pc[r] \notin GivingUp => crm[copy[r].booking].status \in {"Reserved", "Confirmed"}
  BY <1>1 DEF LifeInv, DecisionInv, KeptInUse, Known, Kept
<1>4. crm[copy[r].booking].status = "Confirmed" => Secures(copy[r].booking, copy[r].booking)
  BY <1>1 DEF LifeInv, SecuredInv, ConfirmedIsSecured, DecisionInv, OwnSlot, Secures
<1>5. QED BY <1>1, <1>2, <1>3, <1>4

(* The confirmation of a slot secures a booking that has been settled. *)
LEMMA SlotSecures ==
  ASSUME LifeInv, BaseInv', OwnSlot', NEW r \in Requests, ConfirmSlot(r)
  PROVE  [Lifecycle!Next]_(Lifecycle!vars)
<1> USE DEF LifeInv, DecisionInv
<1>1. PICK b : b = copy[r].booking
  OBVIOUS
<1>2. /\ b \in Requests /\ copy[r].reservation = b
      /\ crm[b].status \in {"Reserved", "Confirmed"}
      /\ crm[b].status = "Confirmed" => Secures(b, b)
  BY <1>1, OwnBooking DEF ConfirmSlot, ConfirmCalls, GivingUp
<1>3. /\ pc[r] = "confirmSlot" /\ crm' = crm /\ pay' = pay /\ waived' = waived
      /\ \/ tcn' = tcn
         \/ tcn' = [tcn EXCEPT ![b].status = "confirmed", ![b].ref = b]
  BY <1>1, <1>2 DEF ConfirmSlot, world
<1>4. \A c \in Requests : Settled(c)' <=> Settled(c)
  BY <1>3 DEF Settled
<1>5. \A c \in Requests : c # b => Stage(c)' = Stage(c)
  BY <1>2, <1>3, StageKept DEF BaseInv, WorldOK, Secures
<1>6. CASE tcn' = tcn \/ Secures(b, b)
  <2>1. Secures(b, b)' <=> Secures(b, b)
    BY <1>2, <1>3, <1>6 DEF Secures, BaseInv, WorldOK, Reservations
  <2>2. Stage(b)' = Stage(b)
    BY <1>2, <1>3, <2>1, StageKept
  <2>3. QED BY <1>4, <1>5, <2>2, NoneMoves
<1>7. CASE tcn' = [tcn EXCEPT ![b].status = "confirmed", ![b].ref = b] /\ ~Secures(b, b)
  <2>1. crm[b].status = "Reserved" /\ crm'[b].status = "Reserved"
    BY <1>2, <1>3, <1>7
  <2>2. Secures(b, b)'
    BY <1>2, <1>7 DEF Secures, BaseInv, WorldOK, Reservations
  <2>3. Stage(b) = "open" /\ Stage(b)' = "secured"
    BY <1>2, <1>7, <2>1, <2>2, StageOf, StageOfNext
  <2>4. Settled(b)
    BY <1>1, <1>3 DEF IdentityInv, Submitting
  <2>5. Lifecycle!Secure(b)
    BY <1>2, <1>4, <1>5, <2>3, <2>4, OneMoves DEF Lifecycle!Secure
  <2>6. QED BY <1>2, <2>5 DEF Lifecycle!Next
<1>8. QED BY <1>3, <1>6, <1>7

(* The CRM update books a secured booking, when none is booked. *)
LEMMA ConfirmBooks ==
  ASSUME LifeInv, BaseInv', OwnSlot', NEW r \in Requests, ConfirmCrm(r)
  PROVE  [Lifecycle!Next]_(Lifecycle!vars)
<1> USE DEF LifeInv, DecisionInv
<1>1. PICK b, payment :
        /\ b = copy[r].booking
        /\ \/ crm' = crm
           \/ crm' = [crm EXCEPT ![b].status = "Confirmed", ![b].payment = payment]
  BY DEF ConfirmCrm
<1>2. pc[r] = "confirmCrm" /\ tcn' = tcn /\ pay' = pay /\ waived' = waived
  BY DEF ConfirmCrm
<1>3. /\ b \in Requests /\ b # None /\ copy[r].reservation = b
      /\ crm[b].status \in {"Reserved", "Confirmed"}
  BY <1>1, <1>2, OwnBooking DEF ConfirmCalls, GivingUp
<1>4. Secures(b, b)
  BY <1>1, <1>2, <1>3 DEF SecuredInv, SlotFirst
<1>5. \A c \in Requests : Settled(c)' <=> Settled(c)
  BY <1>2 DEF Settled
<1>6. \A c \in Requests : c # b => Stage(c)' = Stage(c)
  BY <1>1, <1>2, <1>3, StageKept DEF BaseInv, WorldOK, Secures
<1>7. CASE crm' = crm \/ crm[b].status = "Confirmed"
  <2>1. crm'[b].status = crm[b].status
    BY <1>1, <1>3, <1>7 DEF BaseInv, WorldOK, Bookings
  <2>2. Stage(b)' = Stage(b)
    BY <1>2, <1>3, <2>1, StageKept DEF Secures
  <2>3. QED BY <1>5, <1>6, <2>2, NoneMoves
<1>8. CASE /\ crm' = [crm EXCEPT ![b].status = "Confirmed", ![b].payment = payment]
           /\ crm[b].status = "Reserved"
  <2>1. crm'[b].status = "Confirmed"
    BY <1>3, <1>8 DEF BaseInv, WorldOK, Bookings
  <2>2. Stage(b) = "secured" /\ Stage(b)' = "booked"
    BY <1>3, <1>4, <1>8, <2>1, StageOf, StageOfNext
  <2>3. ASSUME NEW c \in Requests PROVE Stage(c) # "booked"
    <3>1. ~Booked(c)
      BY <1>1, <1>3, <1>8 DEF TurnInv, FirstBooked, Booked
    <3>2. crm[c].status \in {"none", "Reserved"} \cup UnreservedStatuses
      BY <3>1 DEF Booked, BaseInv, WorldOK, Bookings
    <3>3. QED BY <3>2, StageOf
  <2>4. Lifecycle!Book(b)
    BY <1>3, <1>5, <1>6, <2>2, <2>3, OneMoves DEF Lifecycle!Book
  <2>5. QED BY <1>3, <2>4 DEF Lifecycle!Next
<1>9. QED BY <1>1, <1>3, <1>7, <1>8

(* The status update closes a booking that is given up. *)
LEMMA StatusCloses ==
  ASSUME LifeInv, BaseInv', OwnSlot', NEW r \in Requests, SetStatus(r)
  PROVE  [Lifecycle!Next]_(Lifecycle!vars)
<1> USE DEF LifeInv, DecisionInv
<1>1. PICK b, payment :
        /\ b = copy[r].booking
        /\ \/ crm' = crm
           \/ crm' = [crm EXCEPT ![b].status = StatusFor(cause[r]), ![b].payment = payment]
  BY DEF SetStatus
<1>2. pc[r] = "status" /\ tcn' = tcn /\ pay' = pay /\ waived' = waived
  BY DEF SetStatus
<1>3. /\ b \in Requests /\ b # None /\ crm[b].status # "none"
      /\ crm[b].status = "Confirmed" => Secures(b, b)
  BY <1>1, <1>2, OwnBooking DEF ConfirmCalls
<1>4. ~Secures(b, b)
  BY <1>1, <1>2 DEF Unsecured, GivingUp
<1>5. \A c \in Requests : Settled(c)' <=> Settled(c)
  BY <1>2 DEF Settled
<1>6. \A c \in Requests : c # b => Stage(c)' = Stage(c)
  BY <1>1, <1>2, <1>3, StageKept DEF BaseInv, WorldOK, Secures
<1>7. CASE crm' = crm
  BY <1>2, <1>3, <1>5, <1>6, <1>7, StageKept, NoneMoves DEF Secures
<1>8. CASE crm' = [crm EXCEPT ![b].status = StatusFor(cause[r]), ![b].payment = payment]
  <2>1. StatusFor(cause[r]) \in UnreservedStatuses
    BY DEF StatusFor, UnreservedStatuses
  <2>2. crm'[b].status \in UnreservedStatuses
    BY <1>3, <1>8, <2>1 DEF BaseInv, WorldOK, Bookings
  <2>3. Stage(b)' = "closed"
    BY <1>3, <2>2, StageOfNext
  <2>4. CASE crm[b].status \in UnreservedStatuses
    <3>1. Stage(b) = "closed"
      BY <1>3, <2>4, StageOf
    <3>2. QED BY <1>5, <1>6, <2>3, <3>1, NoneMoves
  <2>5. CASE crm[b].status = "Reserved"
    <3>1. Stage(b) = "open"
      BY <1>3, <1>4, <2>5, StageOf
    <3>2. Lifecycle!Close(b)
      BY <1>3, <1>5, <1>6, <2>3, <3>1, OneMoves DEF Lifecycle!Close
    <3>3. QED BY <1>3, <3>2 DEF Lifecycle!Next
  <2>6. crm[b].status \in UnreservedStatuses \cup {"Reserved"}
    BY <1>3, <1>4 DEF BaseInv, WorldOK, Bookings
  <2>7. QED BY <2>4, <2>5, <2>6
<1>9. QED BY <1>1, <1>7, <1>8

(* A compensation settles the booking that its handler holds. *)
LEMMA WaivingSettles ==
  ASSUME LifeInv, BaseInv', OwnSlot', NEW r \in Requests, SettleWithoutCard(r)
  PROVE  [Lifecycle!Next]_(Lifecycle!vars)
<1> USE DEF LifeInv, DecisionInv
<1>1. PICK b : /\ b = copy[r].booking
               /\ waived' = waived \/ waived' = waived \cup {b}
  BY DEF SettleWithoutCard
<1>2. pc[r] = "settle" /\ tcn' = tcn /\ crm' = crm /\ pay' = pay
  BY DEF SettleWithoutCard
<1>3. b \in Requests /\ crm[b].status \in {"Reserved", "Confirmed"}
  BY <1>1, <1>2, OwnBooking DEF ConfirmCalls, GivingUp
<1>4. \A c \in Requests : Stage(c)' = Stage(c)
  BY <1>2, StageKept DEF Secures
<1>5. CASE waived' = waived
  BY <1>2, <1>4, <1>5, NoneMoves DEF Settled
<1>6. CASE waived' = waived \cup {b}
  <2>1. \A c \in Requests : Settled(c)' <=> Settled(c) \/ c = b
    BY <1>2, <1>6 DEF Settled
  <2>2. Stage(b) # "absent"
    BY <1>3, StageOf
  <2>3. Lifecycle!Settle(b)
    BY <1>3, <1>4, <2>1, <2>2, OneSettles
  <2>4. QED BY <1>3, <2>3 DEF Lifecycle!Next
<1>7. QED BY <1>1, <1>5, <1>6

(* A payment that is captured settles the booking it was made for. *)
LEMMA PayingSettles ==
  ASSUME LifeInv, BaseInv', OwnSlot', NEW r \in Requests, PayAtGateway(r)
  PROVE  [Lifecycle!Next]_(Lifecycle!vars)
<1> USE DEF LifeInv, DecisionInv
<1>1. PICK outcome \in {"captured", "declined", "cancelled"} :
        pay' = [pay EXCEPT ![r].status = outcome]
  BY DEF PayAtGateway
<1>2. pay[r].status = "pending" /\ tcn' = tcn /\ crm' = crm /\ waived' = waived
  BY DEF PayAtGateway
<1>3. /\ \A p \in Requests : p # r => pay'[p] = pay[p]
      /\ pay'[r].status = outcome /\ pay'[r].for = pay[r].for
  BY <1>1 DEF BaseInv, WorldOK, Payments
<1>4. \A c \in Requests : Stage(c)' = Stage(c)
  BY <1>2, StageKept DEF Secures
<1>5. CASE outcome = "captured" /\ pay[r].for # None
  <2>1. PICK b : b = pay[r].for
    OBVIOUS
  <2>2. b \in Requests /\ crm[b].status # "none"
    BY <1>5, <2>1 DEF MoneyMade, Known, BaseInv, WorldOK, Payments
  <2>3. \A c \in Requests : Settled(c)' <=> Settled(c) \/ c = b
    BY <1>2, <1>3, <1>5, <2>1 DEF Settled
  <2>4. crm[b].status \in {"Reserved", "Confirmed"} \cup UnreservedStatuses
    BY <2>2 DEF BaseInv, WorldOK, Bookings
  <2>5. Stage(b) # "absent"
    BY <2>2, <2>4, StageOf
  <2>6. Lifecycle!Settle(b)
    BY <1>4, <2>2, <2>3, <2>5, OneSettles
  <2>7. QED BY <2>2, <2>6 DEF Lifecycle!Next
<1>6. CASE outcome # "captured" \/ pay[r].for = None
  <2>1. \A c \in Requests : Settled(c)' <=> Settled(c)
    BY <1>2, <1>3, <1>6, ConstantsAssumption DEF Settled
  <2>2. QED BY <1>4, <2>1, NoneMoves
<1>7. QED BY <1>5, <1>6

(* The other steps move no booking. *)
LEMMA OthersStutter ==
  ASSUME LifeInv, BaseInv', OwnSlot', [Next]_vars,
         \A r \in Requests : /\ ~CreateBooking(r) /\ ~ConfirmSlot(r) /\ ~ConfirmCrm(r)
                             /\ ~SetStatus(r) /\ ~SettleWithoutCard(r) /\ ~PayAtGateway(r)
  PROVE  UNCHANGED Lifecycle!vars
<1> USE DEF LifeInv, DecisionInv, BaseInv, WorldOK
<1>1. ASSUME NEW c \in Requests PROVE crm'[c].status = crm[c].status
  BY <1>1, StatusStep
<1>2. ASSUME NEW c \in Requests PROVE Secures(c, c)' <=> Secures(c, c)
  <2>1. Secures(c, c) => Secures(c, c)'
    BY SlotStep DEF SecuredInv, Secures
  <2>2. Secures(c, c)' => Secures(c, c)
    BY ReservationStep DEF Secures
  <2>3. QED BY <2>1, <2>2
<1>3. \A c \in Requests : Stage(c)' = Stage(c)
  BY <1>1, <1>2, StageKept
<1>4. ASSUME NEW p \in Requests
      PROVE  \/ pay'[p] = pay[p]
             \/ pay'[p].status # "captured" /\ pay[p].status # "captured"
  <2>1. ASSUME NEW r \in Requests, Initiate(r)
        PROVE  \/ pay'[p] = pay[p]
               \/ pay'[p].status # "captured" /\ pay[p].status # "captured"
    <3>1. p # r => pay'[p] = pay[p]
      BY <2>1 DEF Initiate
    <3>2. pay'[r] = pay[r] \/ pay'[r].status = "pending"
      BY <2>1 DEF Initiate
    <3>3. pay[r].status = "none"
      BY <2>1 DEF Initiate, IdentityInv, Submitting, Past
    <3>4. QED BY <3>1, <3>2, <3>3
  <2>2. QED BY <2>1, Writers
<1>5. waived' = waived
  BY Writers
<1>6. \A c \in Requests : Settled(c)' <=> Settled(c)
  BY <1>4, <1>5 DEF Settled
<1>7. QED BY <1>3, <1>6, NoneMoves

LEMMA LifecycleStep ==
  ASSUME LifeInv, LifeInv', [Next]_vars
  PROVE  [Lifecycle!Next]_(Lifecycle!vars)
<1>1. BaseInv' /\ OwnSlot'
  BY DEF LifeInv, DecisionInv
<1>2. QED
  BY <1>1, CreateOpens, SlotSecures, ConfirmBooks, StatusCloses, WaivingSettles, PayingSettles,
     OthersStutter

LEMMA LifecycleInit == Init => Lifecycle!Init
<1> SUFFICES ASSUME Init PROVE Lifecycle!Init
  OBVIOUS
<1>1. PICK old \in {{}} \cup {{b} : b \in Earlier}, t \in Slots :
        /\ crm = [r \in Requests |->
                    IF r \in old THEN [status |-> "Confirmed", slot |-> t, payment |-> None]
                    ELSE [status |-> "none", slot |-> None, payment |-> None]]
        /\ pay = [r \in Requests |-> [status |-> "none", for |-> None]]
        /\ waived = old
  BY DEF Init
<1>2. old \in {{}} \cup {{b} : b \in Requests}
  BY ConstantsAssumption
<1>3. ASSUME NEW b \in Requests
      PROVE  /\ Stage(b) = IF b \in old THEN "booked" ELSE "absent"
             /\ Settled(b) <=> b \in old
  <2>1. Settled(b) <=> b \in old
    BY <1>1 DEF Settled
  <2>2. CASE b \in old
    <3>1. crm[b].status = "Confirmed"
      BY <1>1, <2>2
    <3>2. QED BY <2>1, <2>2, <3>1 DEF Stage, UnreservedStatuses
  <2>3. CASE b \notin old
    <3>1. crm[b].status = "none"
      BY <1>1, <2>3
    <3>2. QED BY <2>1, <2>3, <3>1 DEF Stage, UnreservedStatuses
  <2>4. QED BY <2>2, <2>3
<1>4. {b \in Requests : Settled(b)} = old
  BY <1>2, <1>3
<1>5. [b \in Requests |-> Stage(b)] = [b \in Requests |-> IF b \in old THEN "booked" ELSE "absent"]
  BY <1>3
<1>6. QED BY <1>2, <1>4, <1>5 DEF Lifecycle!Init

(* Requests of the candidate one at a time, with the check for an existing   *)
(* booking and the services answering for what they did: creating, paying    *)
(* for, confirming and giving up a booking implement the abstract            *)
(* BookingLifecycle, for any number of requests and slots.                   *)
THEOREM LifecycleIsImplemented ==
  ASSUME InTurn, ExistingCheck, Answered
  PROVE  Spec => ImplementsLifecycle
<1>1. LifeInv /\ LifeInv' /\ [Next]_vars => [Lifecycle!Next]_(Lifecycle!vars)
  BY LifecycleStep
<1>2. Spec => []LifeInv
  BY OrderCorrect, TurnCorrect, DecisionCorrect, PTL DEF LifeInv
<1>3. QED
  BY <1>1, <1>2, LifecycleInit, PTL DEF Spec, ImplementsLifecycle, Lifecycle!Spec
=============================================================================
