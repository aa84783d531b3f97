------------------------ MODULE BookingIdentityProofs ------------------------
(***************************************************************************)
(* When nobody goes back to a page that has done its work, the slot, the   *)
(* booking and the payment that a session holds belong together, however   *)
(* many requests overlap: what is confirmed is paid for, shown with the    *)
(* right slot and bound to its own payment.                                *)
(***************************************************************************)
EXTENDS BookingPaymentProofs

(* A request that will not reserve a slot, create a booking or initiate a *)
(* payment any more.                                                      *)
Past == {"bind", "settle", "confirmSlot", "confirmCrm", "delete", "status", "save", "done"}

(* A session's data, in the store or in a handler's copy. *)
Coherent(d) ==
  /\ d.booking # None =>
       /\ pc[d.booking] \in Past
       /\ d.reservation = d.booking
       /\ crm[d.booking].slot = d.slot
       /\ tcn[d.booking].slot = d.slot
  /\ d.receipt # None =>
       /\ d.booking # None
       /\ pc[d.receipt] \in Past
       /\ pay[d.receipt].for = d.booking

Coherence ==
  /\ \A s \in Sessions : Coherent(session[s])
  /\ \A r \in Requests : Coherent(copy[r])

(* What a handler has done so far. *)
Submitting ==
  \A r \in Requests :
    /\ pc[r] \in {"check", "reserve", "create", "product"} => copy[r].booking = None
    /\ pc[r] \in {"create", "product"} =>
         copy[r].reservation = r /\ tcn[r].slot = copy[r].slot
    /\ pc[r] = "product" => crm[r].slot = copy[r].slot
    /\ pc[r] = "bind" => pay[r].for = copy[r].booking
    /\ pc[r] = "confirmSlot" => Settled(copy[r].booking)
    /\ pc[r] \notin Past => pay[r].status = "none"

(* What the services hold names requests that are past. *)
Named ==
  /\ \A x \in Requests : tcn[x].status = "confirmed" =>
       tcn[x].ref \in Requests /\ pc[tcn[x].ref] \in Past /\ pc[x] \in Past
  /\ \A b \in Requests : crm[b].payment # None => pc[crm[b].payment] \in Past

Confirming ==
  \A r \in Requests : pc[r] = "save" /\ page[r] = "confirmed" => copy[r].booking # None

IdentityInv ==
  /\ Coherence /\ Submitting /\ Named /\ Confirming
  /\ SecuredIsPaid /\ RightSlot /\ BoundToOwnPayment /\ ConfirmationIsTrue

-------------------------------------------------------------------------------
(* Who writes what. *)

(* A step leaves a request alone, or it is a step of that request. *)
LEMMA RequestStep ==
  ASSUME BaseInv, [Next]_vars, NEW r \in Requests
  PROVE  \/ pc'[r] = pc[r] /\ copy'[r] = copy[r] /\ page'[r] = page[r]
         \/ \E s \in Sessions : StartSubmit(r, s) \/ StartInitiate(r, s) \/ StartConfirm(r, s)
         \/ Handle(r) \/ Crash(r)
<1> DEFINE Same == pc'[r] = pc[r] /\ copy'[r] = copy[r] /\ page'[r] = page[r]
<1> USE DEF BaseInv, FlowOK
<1>1. ASSUME NEW q \in Requests, q # r, Submit(q) \/ InitiatePayment(q) PROVE Same
  BY <1>1 DEF Submit, CheckExisting, Reserve, CreateBooking, CreateProduct, InitiatePayment,
              Initiate, Bind, Proceed, Answer
<1>2. ASSUME NEW q \in Requests, q # r, SettleByCard(q) \/ SettleWithoutCard(q) PROVE Same
  BY <1>2 DEF SettleByCard, SettleWithoutCard, Proceed, GiveUp, Answer
<1>3. ASSUME NEW q \in Requests, q # r, ConfirmSlot(q) \/ ConfirmCrm(q) PROVE Same
  BY <1>3 DEF ConfirmSlot, ConfirmCrm, Proceed, GiveUp, Answer
<1>4. ASSUME NEW q \in Requests, q # r, Unreserve(q) PROVE Same
  BY <1>4 DEF Unreserve, DeleteReservation, SetStatus, StatusFailed, Proceed, GiveUp, Answer
<1>5. ASSUME NEW q \in Requests, q # r, Save(q) \/ Crash(q) PROVE Same
  BY <1>5 DEF Save, Crash
<1>6. ASSUME NEW q \in Requests, PayAtGateway(q) \/ ExpireReservation(q) PROVE Same
  BY <1>6 DEF PayAtGateway, ExpireReservation
<1>7. ASSUME NEW q \in Requests, q # r, NEW s \in Sessions,
             StartSubmit(q, s) \/ StartInitiate(q, s) \/ StartConfirm(q, s)
      PROVE  Same
  BY <1>7 DEF StartSubmit, StartInitiate, StartConfirm, Start
<1>8. ASSUME NEW s \in Sessions,
             BeginJourney(s) \/ EditSlot(s) \/ ShowConfirmation(s) \/ ExpireSession(s)
      PROVE  Same
  BY <1>8 DEF BeginJourney, EditSlot, ShowConfirmation, ExpireSession
<1>9. CASE UNCHANGED vars
  BY <1>9 DEF vars
<1>10. QED
  BY <1>1, <1>2, <1>3, <1>4, <1>5, <1>6, <1>7, <1>8, <1>9 DEF Next, Handle, Confirm

(* A request that is past a stage does not come back to it. *)
LEMMA PastStep ==
  ASSUME BaseInv, [Next]_vars, NEW r \in Requests, pc[r] \in Past
  PROVE  pc'[r] \in Past
<1> USE DEF Past, BaseInv, FlowOK
<1>1. CASE \E s \in Sessions : StartSubmit(r, s) \/ StartInitiate(r, s) \/ StartConfirm(r, s)
  BY <1>1 DEF StartSubmit, StartInitiate, StartConfirm, Start
<1>2. CASE Submit(r) \/ InitiatePayment(r)
  BY <1>2 DEF Submit, CheckExisting, Reserve, CreateBooking, CreateProduct, InitiatePayment,
              Initiate, Bind, Proceed, Answer
<1>3. CASE SettleByCard(r) \/ SettleWithoutCard(r)
  BY <1>3 DEF SettleByCard, SettleWithoutCard, Proceed, GiveUp, Answer
<1>4. CASE ConfirmSlot(r) \/ ConfirmCrm(r)
  BY <1>4 DEF ConfirmSlot, ConfirmCrm, Proceed, GiveUp, Answer
<1>5. CASE Unreserve(r)
  BY <1>5 DEF Unreserve, DeleteReservation, SetStatus, StatusFailed, Proceed, GiveUp, Answer
<1>6. CASE Save(r) \/ Crash(r)
  BY <1>6 DEF Save, Crash
<1>7. QED
  BY <1>1, <1>2, <1>3, <1>4, <1>5, <1>6, RequestStep DEF Handle, Confirm

(* Which actions write what the services hold. *)
LEMMA Writers ==
  ASSUME [Next]_vars
  PROVE  /\ \/ tcn' = tcn
            \/ \E r \in Requests : Reserve(r) \/ ConfirmSlot(r) \/ DeleteReservation(r)
                                     \/ ExpireReservation(r)
         /\ \/ crm' = crm
            \/ \E r \in Requests : CreateBooking(r) \/ Bind(r) \/ ConfirmCrm(r) \/ SetStatus(r)
         /\ pay' = pay \/ \E r \in Requests : Initiate(r) \/ PayAtGateway(r)
         /\ waived' = waived \/ \E r \in Requests : SettleWithoutCard(r)
<1> DEFINE Kept == UNCHANGED world
<1>1. ASSUME NEW s \in Sessions,
             BeginJourney(s) \/ EditSlot(s) \/ ShowConfirmation(s) \/ ExpireSession(s)
      PROVE  Kept
  BY <1>1 DEF world, BeginJourney, EditSlot, ShowConfirmation, ExpireSession
<1>2. ASSUME NEW r \in Requests, NEW s \in Sessions,
             StartSubmit(r, s) \/ StartInitiate(r, s) \/ StartConfirm(r, s)
      PROVE  Kept
  BY <1>2 DEF world, StartSubmit, StartInitiate, StartConfirm, Start
<1>3. ASSUME NEW r \in Requests,
             CheckExisting(r) \/ CreateProduct(r) \/ SettleByCard(r) \/ Save(r) \/ Crash(r)
      PROVE  Kept
  BY <1>3 DEF world, CheckExisting, CreateProduct, SettleByCard, Save, Crash
<1>4. ASSUME NEW r \in Requests,
             Reserve(r) \/ ConfirmSlot(r) \/ DeleteReservation(r) \/ ExpireReservation(r)
      PROVE  UNCHANGED <<crm, pay, waived>>
  BY <1>4 DEF world, Reserve, ConfirmSlot, DeleteReservation, ExpireReservation
<1>5. ASSUME NEW r \in Requests,
             CreateBooking(r) \/ Bind(r) \/ ConfirmCrm(r) \/ SetStatus(r)
      PROVE  UNCHANGED <<tcn, pay, waived>>
  BY <1>5 DEF CreateBooking, Bind, ConfirmCrm, SetStatus
<1>6. ASSUME NEW r \in Requests, Initiate(r) \/ PayAtGateway(r)
      PROVE  UNCHANGED <<tcn, crm, waived>>
  BY <1>6 DEF Initiate, PayAtGateway
<1>7. ASSUME NEW r \in Requests, SettleWithoutCard(r) PROVE UNCHANGED <<tcn, crm, pay>>
  BY <1>7 DEF SettleWithoutCard
<1>8. CASE UNCHANGED vars
  BY <1>8 DEF vars, world
<1> HIDE DEF Kept
<1>9. Kept => tcn' = tcn /\ crm' = crm /\ pay' = pay /\ waived' = waived
  BY DEF Kept, world
<1>10. QED
  BY <1>1, <1>2, <1>3, <1>4, <1>5, <1>6, <1>7, <1>8, <1>9
  DEF Next, Handle, Submit, InitiatePayment, Confirm, Unreserve

(* A session is written by the save of a request and by the pages of the journey. *)
LEMMA StoreWriters ==
  ASSUME BaseInv, [Next]_vars, NEW s \in Sessions
  PROVE  \/ session'[s] = session[s]
         \/ \E r \in Requests : Save(r)
         \/ BeginJourney(s) \/ EditSlot(s) \/ ShowConfirmation(s) \/ ExpireSession(s)
<1> USE DEF BaseInv, FlowOK
<1>1. ASSUME NEW q \in Sessions, q # s,
             BeginJourney(q) \/ EditSlot(q) \/ ShowConfirmation(q) \/ ExpireSession(q)
      PROVE  session'[s] = session[s]
  BY <1>1 DEF BeginJourney, EditSlot, ShowConfirmation, ExpireSession
<1>2. ASSUME NEW q \in Requests, Submit(q) \/ InitiatePayment(q) PROVE session' = session
  BY <1>2 DEF Submit, CheckExisting, Reserve, CreateBooking, CreateProduct, InitiatePayment,
              Initiate, Bind, Proceed, Answer
<1>3. ASSUME NEW q \in Requests, SettleByCard(q) \/ SettleWithoutCard(q) PROVE session' = session
  BY <1>3 DEF SettleByCard, SettleWithoutCard, Proceed, GiveUp, Answer
<1>4. ASSUME NEW q \in Requests, ConfirmSlot(q) \/ ConfirmCrm(q) PROVE session' = session
  BY <1>4 DEF ConfirmSlot, ConfirmCrm, Proceed, GiveUp, Answer
<1>5. ASSUME NEW q \in Requests, Unreserve(q) PROVE session' = session
  BY <1>5 DEF Unreserve, DeleteReservation, SetStatus, StatusFailed, Proceed, GiveUp, Answer
<1>6. ASSUME NEW q \in Requests, PayAtGateway(q) \/ ExpireReservation(q) \/ Crash(q)
      PROVE  session' = session
  BY <1>6 DEF PayAtGateway, ExpireReservation, Crash
<1>7. ASSUME NEW q \in Requests, NEW u \in Sessions,
             StartSubmit(q, u) \/ StartInitiate(q, u) \/ StartConfirm(q, u)
      PROVE  session' = session
  BY <1>7 DEF StartSubmit, StartInitiate, StartConfirm, Start
<1>8. QED
  BY <1>1, <1>2, <1>3, <1>4, <1>5, <1>6, <1>7 DEF Next, vars, Handle, Confirm

(* A reservation's slot is written when it is made; it is confirmed by the *)
(* handler that holds it, for the booking that handler holds.              *)
LEMMA ReservationStep ==
  ASSUME BaseInv, [Next]_vars, NEW x \in Requests
  PROVE  /\ tcn'[x].slot = tcn[x].slot \/ Reserve(x)
         /\ tcn'[x].status = "confirmed" =>
              \/ tcn[x].status = "confirmed" /\ tcn'[x].ref = tcn[x].ref
              \/ \E r \in Requests : /\ ConfirmSlot(r)
                                     /\ copy[r].reservation = x
                                     /\ tcn'[x].ref = copy[r].booking
<1> USE DEF BaseInv, WorldOK, Reservations
<1>1. ASSUME NEW r \in Requests, Reserve(r)
      PROVE  /\ x # r => tcn'[x] = tcn[x]
             /\ x = r => tcn'[x] = tcn[x] \/ tcn'[x].status = "reserved"
  BY <1>1 DEF Reserve, world
<1>2. ASSUME NEW r \in Requests, ConfirmSlot(r)
      PROVE  /\ tcn'[x].slot = tcn[x].slot
             /\ copy[r].reservation # x => tcn'[x] = tcn[x]
             /\ copy[r].reservation = x => tcn'[x] = tcn[x] \/ tcn'[x].ref = copy[r].booking
  BY <1>2 DEF ConfirmSlot, world
<1>3. ASSUME NEW r \in Requests, DeleteReservation(r) \/ ExpireReservation(r)
      PROVE  /\ tcn'[x].slot = tcn[x].slot
             /\ tcn'[x] = tcn[x] \/ tcn'[x].status = "released"
  BY <1>3 DEF DeleteReservation, ExpireReservation
<1>4. QED BY <1>1, <1>2, <1>3, Writers

(* A booking's slot is written when it is created; its payment is the one  *)
(* that a handler which holds the booking has made, or holds.              *)
LEMMA BookingStep ==
  ASSUME BaseInv, [Next]_vars, NEW b \in Requests
  PROVE  /\ crm'[b].slot = crm[b].slot \/ CreateBooking(b)
         /\ \/ crm'[b].payment = crm[b].payment
            \/ \E r \in Requests :
                 /\ copy[r].booking = b
                 /\ \/ Bind(r) /\ crm'[b].payment = r
                    \/ crm'[b].payment = copy[r].receipt
<1> USE DEF BaseInv, WorldOK, Bookings
<1>1. ASSUME NEW r \in Requests, CreateBooking(r)
      PROVE  /\ b # r => crm'[b] = crm[b]
             /\ crm'[b].payment = crm[b].payment
  BY <1>1 DEF CreateBooking
<1>2. ASSUME NEW r \in Requests, Bind(r)
      PROVE  /\ crm'[b].slot = crm[b].slot
             /\ crm'[b].payment = crm[b].payment \/ (copy[r].booking = b /\ crm'[b].payment = r)
  BY <1>2 DEF Bind, BoundToPayment
<1>3. ASSUME NEW r \in Requests, ConfirmCrm(r)
      PROVE  /\ crm'[b].slot = crm[b].slot
             /\ \/ crm'[b].payment = crm[b].payment
                \/ copy[r].booking = b /\ crm'[b].payment = copy[r].receipt
  BY <1>3 DEF ConfirmCrm
<1>4. ASSUME NEW r \in Requests, SetStatus(r)
      PROVE  /\ crm'[b].slot = crm[b].slot
             /\ \/ crm'[b].payment = crm[b].payment
                \/ copy[r].booking = b /\ crm'[b].payment = copy[r].receipt
  BY <1>4 DEF SetStatus
<1>5. QED BY <1>1, <1>2, <1>3, <1>4, Writers

(* A payment is made once for one booking, and is final once it is captured. *)
LEMMA PaymentStep ==
  ASSUME BaseInv, [Next]_vars, NEW p \in Requests
  PROVE  \/ pay'[p] = pay[p]
         \/ Initiate(p)
         \/ /\ pc[p] = "done" /\ pay[p].status = "pending"
            /\ pay'[p].for = pay[p].for
<1> USE DEF BaseInv, WorldOK, Payments
<1>1. ASSUME NEW r \in Requests, Initiate(r), r # p PROVE pay'[p] = pay[p]
  BY <1>1 DEF Initiate
<1>2. ASSUME NEW r \in Requests, PayAtGateway(r)
      PROVE  /\ r # p => pay'[p] = pay[p]
             /\ r = p => pc[p] = "done" /\ pay[p].status = "pending" /\ pay'[p].for = pay[p].for
  BY <1>2 DEF PayAtGateway
<1>3. QED BY <1>1, <1>2, Writers

-------------------------------------------------------------------------------
(* What lasts: the part of each service that a past request stands for. *)

(* What a past request has made keeps its slot and its payment's booking. *)
LEMMA PastLasts ==
  ASSUME BaseInv, [Next]_vars, NEW x \in Requests, pc[x] \in Past
  PROVE  /\ pc'[x] \in Past
         /\ tcn'[x].slot = tcn[x].slot
         /\ crm'[x].slot = crm[x].slot
         /\ pay'[x].for = pay[x].for
<1>1. ~Reserve(x) /\ ~CreateBooking(x) /\ ~Initiate(x)
  BY DEF Reserve, CreateBooking, Initiate, Past
<1>2. QED BY <1>1, PastStep, ReservationStep, BookingStep, PaymentStep

(* A captured payment stays captured, and a settled booking settled. *)
LEMMA SettledLasts ==
  ASSUME BaseInv, Submitting, [Next]_vars, NEW b, Settled(b)
  PROVE  Settled(b)'
<1>1. CASE b \in waived
  BY <1>1, Writers DEF Settled, SettleWithoutCard
<1>2. ASSUME NEW p \in Requests, pay[p].status = "captured", pay[p].for = b
      PROVE  pay'[p] = pay[p]
  <2>1. ~Initiate(p)
    BY <1>2 DEF Initiate, Submitting, Past
  <2>2. QED BY <1>2, <2>1, PaymentStep
<1>3. QED BY <1>1, <1>2 DEF Settled

(* Data that belongs together goes on doing so. *)
LEMMA CoherentLasts ==
  ASSUME BaseInv, [Next]_vars, NEW d \in SessionData, Coherent(d)
  PROVE  Coherent(d)'
<1>1. ASSUME d.booking # None
      PROVE  /\ pc'[d.booking] \in Past
             /\ d.reservation = d.booking
             /\ crm'[d.booking].slot = d.slot
             /\ tcn'[d.booking].slot = d.slot
  <2>1. d.booking \in Requests
    BY <1>1 DEF SessionData
  <2>2. QED BY <1>1, <2>1, PastLasts DEF Coherent
<1>2. ASSUME d.receipt # None
      PROVE  d.booking # None /\ pc'[d.receipt] \in Past /\ pay'[d.receipt].for = d.booking
  <2>1. d.receipt \in Requests
    BY <1>2 DEF SessionData
  <2>2. QED BY <1>2, <2>1, PastLasts DEF Coherent
<1>3. QED BY <1>1, <1>2 DEF Coherent

LEMMA EmptyCoherent ==
  ASSUME NEW d, d.booking = None, d.receipt = None
  PROVE  Coherent(d) /\ Coherent(d)'
BY DEF Coherent

-------------------------------------------------------------------------------
(* What a request holds after one of its own steps. *)

(* A handler before the product of its booking holds no booking. *)
LEMMA SubmittingStep ==
  ASSUME ~Revisit, BaseInv, Coherence, Submitting, [Next]_vars, NEW r \in Requests
  PROVE  /\ pc'[r] \in {"check", "reserve", "create", "product"} => copy'[r].booking = None
         /\ pc'[r] \in {"create", "product"} =>
              copy'[r].reservation = r /\ tcn'[r].slot = copy'[r].slot
         /\ pc'[r] = "product" => crm'[r].slot = copy'[r].slot
<1> DEFINE Goal ==
      /\ pc'[r] \in {"check", "reserve", "create", "product"} => copy'[r].booking = None
      /\ pc'[r] \in {"create", "product"} =>
           copy'[r].reservation = r /\ tcn'[r].slot = copy'[r].slot
      /\ pc'[r] = "product" => crm'[r].slot = copy'[r].slot
<1> USE DEF BaseInv, FlowOK
<1>1. CASE pc'[r] = pc[r] /\ copy'[r] = copy[r]
  <2>1. pc[r] \in {"create", "product"} => ~Reserve(r)
    BY DEF Reserve
  <2>2. pc[r] = "product" => ~CreateBooking(r)
    BY DEF CreateBooking
  <2>3. QED BY <1>1, <2>1, <2>2, ReservationStep, BookingStep DEF Submitting
<1>2. ASSUME NEW s \in Sessions, StartSubmit(r, s) \/ StartInitiate(r, s) \/ StartConfirm(r, s)
      PROVE  Goal
  BY <1>2 DEF StartSubmit, StartInitiate, StartConfirm, Start
<1>3. CASE CheckExisting(r)
  BY <1>3 DEF CheckExisting, Proceed, Answer, Submitting
<1>4. CASE Reserve(r)
  <2>1. CASE pc'[r] = "save"
    BY <2>1
  <2>2. CASE /\ tcn' = [tcn EXCEPT ![r].status = "reserved", ![r].slot = copy[r].slot]
             /\ Proceed(r, [copy[r] EXCEPT !.reservation = r], "create")
    <3>1. copy[r].booking = None
      BY <1>4 DEF Reserve, Submitting
    <3>2. copy'[r] = [copy[r] EXCEPT !.reservation = r] /\ pc'[r] = "create"
      BY <2>2 DEF Proceed
    <3>3. /\ copy'[r].reservation = r
          /\ copy'[r].slot = copy[r].slot
          /\ copy'[r].booking = copy[r].booking
      BY <3>2, CopyType DEF SessionData
    <3>4. tcn'[r].slot = copy[r].slot
      BY <2>2 DEF WorldOK, Reservations
    <3>5. QED BY <3>1, <3>2, <3>3, <3>4
  <2>3. QED BY <1>4, <2>1, <2>2 DEF Reserve, Answer, Effective
<1>5. CASE CreateBooking(r)
  <2>1. CASE pc'[r] = "save"
    BY <2>1
  <2>2. CASE /\ crm' = [crm EXCEPT ![r].status = "Reserved", ![r].slot = copy[r].slot]
             /\ Proceed(r, copy[r], "product")
    <3>1. crm'[r].slot = copy[r].slot
      BY <2>2 DEF WorldOK, Bookings
    <3>2. copy'[r] = copy[r] /\ pc'[r] = "product" /\ tcn' = tcn /\ pc[r] = "create"
      BY <1>5, <2>2 DEF Proceed, CreateBooking
    <3>3. QED BY <3>1, <3>2 DEF Submitting
  <2>3. QED BY <1>5, <2>1, <2>2 DEF CreateBooking, Answer, Effective
<1>6. CASE CreateProduct(r) \/ InitiatePayment(r)
  BY <1>6 DEF CreateProduct, InitiatePayment, Initiate, Bind, Proceed, Answer
<1>7. CASE SettleByCard(r) \/ SettleWithoutCard(r)
  BY <1>7 DEF SettleByCard, SettleWithoutCard, Proceed, GiveUp, Answer
<1>8. CASE ConfirmSlot(r) \/ ConfirmCrm(r)
  BY <1>8 DEF ConfirmSlot, ConfirmCrm, Proceed, GiveUp, Answer
<1>9. CASE Unreserve(r)
  BY <1>9 DEF Unreserve, DeleteReservation, SetStatus, StatusFailed, Proceed, GiveUp, Answer
<1>10. CASE Save(r) \/ Crash(r)
  BY <1>10 DEF Save, Crash
<1>11. QED
  BY <1>1, <1>2, <1>3, <1>4, <1>5, <1>6, <1>7, <1>8, <1>9, <1>10, RequestStep
     DEF Handle, Submit, Confirm

(* A payment to bind is the booking's own; a slot to confirm is settled. *)
LEMMA PayingStep ==
  ASSUME BaseInv, Coherence, Submitting, [Next]_vars, NEW r \in Requests
  PROVE  /\ pc'[r] = "bind" => pay'[r].for = copy'[r].booking
         /\ pc'[r] = "confirmSlot" => Settled(copy[r].booking)'
         /\ pc'[r] \notin Past => pay'[r].status = "none"
<1> DEFINE Goal == /\ pc'[r] = "bind" => pay'[r].for = copy'[r].booking
                   /\ pc'[r] = "confirmSlot" => Settled(copy[r].booking)'
<1> USE DEF BaseInv, FlowOK
<1>0. pc'[r] \notin Past => pay'[r].status = "none"
  <2>1. Initiate(r) => pc'[r] \in Past
    BY DEF Initiate, Proceed, Answer, Past
  <2>2. pc'[r] \notin Past => pc[r] \notin Past
    BY PastStep
  <2>3. QED BY <2>1, <2>2, PaymentStep DEF Submitting, Past
<1> SUFFICES Goal
  BY <1>0
<1>1. CASE pc'[r] = pc[r] /\ copy'[r] = copy[r]
  <2>1. pc[r] = "bind" => pay'[r].for = copy[r].booking
    BY PastLasts DEF Past, Submitting
  <2>2. pc[r] = "confirmSlot" => Settled(copy[r].booking)'
    <3>1. ASSUME NEW b, b = copy[r].booking, pc[r] = "confirmSlot" PROVE Settled(b)'
      BY <3>1, SettledLasts DEF Submitting
    <3>2. QED BY <1>1, <3>1 DEF Settled
  <2>3. QED BY <1>1, <2>1, <2>2 DEF Settled
<1>2. ASSUME NEW s \in Sessions, StartSubmit(r, s) \/ StartInitiate(r, s) \/ StartConfirm(r, s)
      PROVE  Goal
  BY <1>2 DEF StartSubmit, StartInitiate, StartConfirm, Start
<1>3. CASE Submit(r) \/ Bind(r)
  BY <1>3 DEF Submit, CheckExisting, Reserve, CreateBooking, CreateProduct, Bind, Proceed, Answer
<1>4. CASE Initiate(r)
  <2>1. CASE pc'[r] = "save"
    BY <2>1
  <2>2. CASE /\ pay' = [pay EXCEPT ![r] = [status |-> "pending", for |-> copy[r].booking]]
             /\ Proceed(r, copy[r], "bind")
    BY <2>2 DEF Proceed, WorldOK, Payments
  <2>3. QED BY <1>4, <2>1, <2>2 DEF Initiate, Answer, Effective
<1>5. CASE SettleByCard(r)
  <2>1. PICK code \in Codes(r) :
          IF code = "success" THEN Proceed(r, copy[r], "confirmSlot") ELSE GiveUp(r, code)
    BY <1>5 DEF SettleByCard
  <2>2. CASE code # "success"
    BY <2>1, <2>2 DEF GiveUp
  <2>3. CASE code = "success"
    <3>1. pay[copy[r].receipt].status = "captured"
      BY <2>3 DEF Codes
    <3>2. copy[r].receipt \in Requests /\ copy[r].receipt # None
      BY <1>5, ConstantsAssumption DEF SettleByCard, Holding, ConfirmCalls
    <3>3. Settled(copy[r].booking)
      BY <3>1, <3>2 DEF Settled, Coherence, Coherent
    <3>4. pay' = pay /\ waived' = waived /\ copy'[r] = copy[r] /\ pc'[r] = "confirmSlot"
      BY <1>5, <2>1, <2>3 DEF SettleByCard, Proceed, world
    <3>5. QED BY <3>3, <3>4 DEF Settled
  <2>4. QED BY <2>2, <2>3
<1>6. CASE SettleWithoutCard(r)
  <2>1. CASE pc'[r] = "save"
    BY <2>1
  <2>2. CASE waived' = waived \cup {copy[r].booking} /\ Proceed(r, copy[r], "confirmSlot")
    BY <2>2 DEF Proceed, Settled
  <2>3. QED BY <1>6, <2>1, <2>2 DEF SettleWithoutCard, Answer, Effective
<1>7. CASE ConfirmSlot(r) \/ ConfirmCrm(r)
  BY <1>7 DEF ConfirmSlot, ConfirmCrm, Proceed, GiveUp, Answer
<1>8. CASE Unreserve(r)
  BY <1>8 DEF Unreserve, DeleteReservation, SetStatus, StatusFailed, Proceed, GiveUp, Answer
<1>9. CASE Save(r) \/ Crash(r)
  BY <1>9 DEF Save, Crash
<1>10. QED
  BY <1>1, <1>2, <1>3, <1>4, <1>5, <1>6, <1>7, <1>8, <1>9, RequestStep
     DEF Handle, InitiatePayment, Confirm

(* A handler that writes into its copy writes what belongs together. *)
LEMMA CopyStep ==
  ASSUME BaseInv, Coherence, Submitting, [Next]_vars, NEW r \in Requests
  PROVE  Coherent(copy[r])'
<1> USE DEF BaseInv, FlowOK
<1>1. ASSUME NEW d \in SessionData, Coherent(d), copy'[r] = d PROVE Coherent(copy[r])'
  BY <1>1, CoherentLasts DEF Coherent
<1>2. ASSUME NEW d \in SessionData, d.booking = None, d.receipt = None, copy'[r] = d
      PROVE  Coherent(copy[r])'
  BY <1>2 DEF Coherent
<1>3. Coherent(copy[r]) /\ copy[r] \in SessionData
  BY DEF Coherence
<1>4. ASSUME copy'[r] = Blank PROVE Coherent(copy[r])'
  BY <1>4, <1>2, BlankIsData DEF Blank
<1>5. ASSUME NEW s \in Sessions, StartSubmit(r, s) \/ StartInitiate(r, s) \/ StartConfirm(r, s)
      PROVE  Coherent(copy[r])'
  <2>1. copy'[r] = session[s] /\ Coherent(session[s]) /\ session[s] \in SessionData
    BY <1>5 DEF StartSubmit, StartInitiate, StartConfirm, Start, Coherence
  <2>2. QED BY <2>1, <1>1
<1>6. CASE Reserve(r)
  <2>1. copy[r].booking = None /\ copy[r].receipt = None
    BY <1>6, <1>3 DEF Reserve, Submitting, Coherent
  <2>2. copy'[r] = copy[r] \/ copy'[r] = [copy[r] EXCEPT !.reservation = r]
    BY <1>6 DEF Reserve, Proceed, Answer
  <2>3. PICK d \in SessionData : d = copy'[r]
    BY <2>2, CopyType
  <2>4. d.booking = copy[r].booking /\ d.receipt = copy[r].receipt
    BY <2>2, <2>3, <1>3 DEF SessionData
  <2>5. QED BY <2>1, <2>3, <2>4, <1>2
<1>7. CASE CreateProduct(r)
  <2>1. CASE copy'[r] = copy[r]
    BY <2>1, <1>1, <1>3
  <2>2. CASE copy'[r] = [copy[r] EXCEPT !.booking = r] /\ pc'[r] = "save"
    <3>1. /\ copy[r].booking = None /\ copy[r].receipt = None
          /\ copy[r].reservation = r
          /\ tcn[r].slot = copy[r].slot /\ crm[r].slot = copy[r].slot
      BY <1>7, <1>3 DEF CreateProduct, Submitting, Coherent
    <3>2. /\ copy'[r].booking = r /\ copy'[r].reservation = copy[r].reservation
          /\ copy'[r].slot = copy[r].slot /\ copy'[r].receipt = copy[r].receipt
      BY <2>2, CopyType DEF SessionData
    <3>3. tcn' = tcn /\ crm' = crm
      BY <1>7 DEF CreateProduct, world
    <3>4. QED BY <2>2, <3>1, <3>2, <3>3 DEF Coherent, Past
  <2>3. QED BY <1>7, <2>1, <2>2 DEF CreateProduct, Answer
<1>8. CASE Bind(r)
  <2>1. copy'[r] = [copy[r] EXCEPT !.receipt = r] /\ pc'[r] = "save" /\ pay' = pay /\ pc[r] = "bind"
    BY <1>8 DEF Bind, Answer
  <2>2. /\ copy'[r].booking = copy[r].booking /\ copy'[r].reservation = copy[r].reservation
        /\ copy'[r].slot = copy[r].slot /\ copy'[r].receipt = r
    BY <2>1, CopyType DEF SessionData
  <2>3. PICK d \in SessionData : d = copy[r]
    BY <1>3
  <2>4. Coherent(d)'
    BY <2>3, <1>3, CoherentLasts
  <2>5. copy'[r].booking = d.booking /\ copy'[r].reservation = d.reservation /\ copy'[r].slot = d.slot
    BY <2>2, <2>3
  <2>6. d.booking # None /\ pay[r].for = d.booking
    BY <2>1, <2>3, ConstantsAssumption DEF Holding, Submitting
  <2>7. QED BY <2>1, <2>2, <2>4, <2>5, <2>6 DEF Coherent, Past
<1>9. CASE CheckExisting(r) \/ CreateBooking(r) \/ Initiate(r)
  <2>1. copy'[r] = copy[r]
    BY <1>9 DEF CheckExisting, CreateBooking, Initiate, Proceed, Answer
  <2>2. QED BY <2>1, <1>1, <1>3
<1>10. CASE SettleByCard(r) \/ SettleWithoutCard(r)
  <2>1. copy'[r] = copy[r]
    BY <1>10 DEF SettleByCard, SettleWithoutCard, Proceed, GiveUp, Answer
  <2>2. QED BY <2>1, <1>1, <1>3
<1>11. CASE ConfirmSlot(r) \/ ConfirmCrm(r)
  <2>1. copy'[r] = copy[r]
    BY <1>11 DEF ConfirmSlot, ConfirmCrm, Proceed, GiveUp, Answer
  <2>2. QED BY <2>1, <1>1, <1>3
<1>12. CASE Unreserve(r)
  <2>1. copy'[r] = copy[r] \/ copy'[r] = Blank
    BY <1>12 DEF Unreserve, DeleteReservation, SetStatus, StatusFailed, Proceed, GiveUp, Answer
  <2>2. QED BY <2>1, <1>1, <1>3, <1>4
<1>13. CASE Save(r) \/ Crash(r)
  BY <1>13, <1>4 DEF Save, Crash
<1>14. CASE copy'[r] = copy[r]
  BY <1>14, <1>1, <1>3
<1>15. QED
  BY <1>5, <1>6, <1>7, <1>8, <1>9, <1>10, <1>11, <1>12, <1>13, <1>14, RequestStep
     DEF Handle, Submit, InitiatePayment, Confirm

(* The store takes a handler's copy, or what the pages of the journey choose. *)
LEMMA StoreStep ==
  ASSUME ~Revisit, BaseInv, Coherence, [Next]_vars, NEW s \in Sessions
  PROVE  Coherent(session[s])'
<1> USE DEF BaseInv, FlowOK
<1>1. ASSUME NEW d \in SessionData, Coherent(d), session'[s] = d PROVE Coherent(session[s])'
  BY <1>1, CoherentLasts DEF Coherent
<1>2. ASSUME session'[s].booking = None, session'[s].receipt = None PROVE Coherent(session[s])'
  BY <1>2 DEF Coherent
<1>3. Coherent(session[s]) /\ session[s] \in SessionData
  BY DEF Coherence
<1>4. CASE session'[s] = session[s]
  BY <1>1, <1>3, <1>4
<1>5. ASSUME NEW r \in Requests, Save(r) PROVE Coherent(session[s])'
  <2>1. session'[s] = session[s] \/ session'[s] = copy[r]
    BY <1>5 DEF Save
  <2>2. Coherent(copy[r]) /\ copy[r] \in SessionData
    BY DEF Coherence
  <2>3. QED BY <2>1, <2>2, <1>1, <1>4
<1>6. CASE BeginJourney(s)
  <2>1. PICK f \in Fundings, t \in Slots :
          session' = [session EXCEPT ![s] = [Blank EXCEPT !.live = TRUE, !.funding = f, !.slot = t]]
    BY <1>6 DEF BeginJourney
  <2>2. QED BY <2>1, <1>2 DEF Blank
<1>7. CASE EditSlot(s)
  <2>1. PICK t \in Slots : session' = [session EXCEPT ![s].slot = t]
    BY <1>7 DEF EditSlot
  <2>2. session[s].booking = None /\ session[s].receipt = None
    BY <1>7, <1>3 DEF EditSlot, Coherent
  <2>3. QED BY <2>1, <2>2, <1>2, <1>3 DEF SessionData
<1>8. CASE ShowConfirmation(s) \/ ExpireSession(s)
  BY <1>8, <1>2 DEF ShowConfirmation, ExpireSession, Blank
<1>9. QED BY <1>4, <1>5, <1>6, <1>7, <1>8, StoreWriters

-------------------------------------------------------------------------------
(* The properties. *)

(* A slot is confirmed for the booking it was reserved for, once settled. *)
LEMMA ConfirmedStep ==
  ASSUME BaseInv, IdentityInv, [Next]_vars, NEW x \in Requests, tcn'[x].status = "confirmed"
  PROVE  /\ tcn'[x].ref \in Requests /\ pc'[tcn'[x].ref] \in Past /\ pc'[x] \in Past
         /\ Settled(tcn[x].ref)'
         /\ crm'[tcn'[x].ref].slot = tcn'[x].slot
<1> USE DEF BaseInv, FlowOK, IdentityInv
<1>1. PICK b : b = tcn'[x].ref
  OBVIOUS
<1>2. /\ b \in Requests /\ pc[b] \in Past /\ pc[x] \in Past
      /\ Settled(b)
      /\ crm[b].slot = tcn[x].slot
  <2>1. CASE tcn[x].status = "confirmed" /\ tcn'[x].ref = tcn[x].ref
    BY <1>1, <2>1 DEF Named, SecuredIsPaid, RightSlot
  <2>2. ASSUME NEW r \in Requests, ConfirmSlot(r), copy[r].reservation = x, tcn'[x].ref = copy[r].booking
        PROVE  /\ b \in Requests /\ pc[b] \in Past /\ pc[x] \in Past
               /\ Settled(b)
               /\ crm[b].slot = tcn[x].slot
    <3>1. b = copy[r].booking /\ b \in Requests /\ b # None
      BY <1>1, <2>2, ConstantsAssumption DEF ConfirmSlot, Holding, ConfirmCalls
    <3>2. Settled(b)
      BY <2>2, <3>1 DEF ConfirmSlot, Submitting
    <3>3. Coherent(copy[r])
      BY DEF Coherence
    <3>4. QED BY <2>2, <3>1, <3>2, <3>3 DEF Coherent
  <2>3. QED BY <2>1, <2>2, ReservationStep
<1>3. Settled(b)'
  BY <1>2, SettledLasts
<1>4. QED BY <1>1, <1>2, <1>3, PastLasts DEF Settled

(* A booking is bound to a payment made for it. *)
LEMMA BoundStep ==
  ASSUME BaseInv, IdentityInv, [Next]_vars, NEW b \in Requests, crm'[b].payment # None
  PROVE  pc'[crm'[b].payment] \in Past /\ pay'[crm'[b].payment].for = b
<1> USE DEF BaseInv, FlowOK, IdentityInv
<1>1. PICK p : p = crm'[b].payment
  OBVIOUS
<1>2. p \in Requests
  BY <1>1, WorldStep DEF WorldOK, Bookings
<1>3. CASE crm'[b].payment = crm[b].payment
  BY <1>1, <1>2, <1>3, PastLasts DEF Named, BoundToOwnPayment
<1>4. ASSUME NEW r \in Requests, Bind(r), copy[r].booking = b, p = r
      PROVE  pc[p] \in Past /\ pay[p].for = b
  BY <1>4 DEF Bind, Past, Submitting
<1>5. ASSUME NEW r \in Requests, copy[r].booking = b, p = copy[r].receipt
      PROVE  pc[p] \in Past /\ pay[p].for = b
  BY <1>1, <1>5 DEF Coherence, Coherent
<1>6. QED BY <1>1, <1>2, <1>3, <1>4, <1>5, BookingStep, PastLasts

(* The confirmation names the slot that is confirmed for its booking. *)
LEMMA ConfirmationStep ==
  ASSUME BaseInv, SecuredInv, IdentityInv, [Next]_vars
  PROVE  ConfirmationIsTrue' /\ Confirming'
<1> USE DEF BaseInv, FlowOK, IdentityInv
<1> SUFFICES ASSUME NEW r \in Requests, pc'[r] = "save", page'[r] = "confirmed"
             PROVE  /\ copy'[r].booking # None
                    /\ Secures(copy[r].reservation, copy[r].booking)'
                    /\ tcn'[copy'[r].reservation].slot = copy'[r].slot
  BY DEF ConfirmationIsTrue, Confirming
<1>1. ASSUME copy'[r] = copy[r], copy[r].booking # None,
             Secures(copy[r].reservation, copy[r].booking)
      PROVE  /\ copy'[r].booking # None
             /\ Secures(copy[r].reservation, copy[r].booking)'
             /\ tcn'[copy'[r].reservation].slot = copy'[r].slot
  <2>1. /\ copy[r].reservation = copy[r].booking
        /\ copy[r].reservation \in Requests
        /\ pc[copy[r].reservation] \in Past
        /\ tcn[copy[r].reservation].slot = copy[r].slot
    <3>1. copy[r].booking \in Requests
      BY <1>1, CopyType
    <3>2. Coherent(copy[r])
      BY DEF Coherence
    <3>3. QED BY <1>1, <3>1, <3>2 DEF Coherent
  <2>2. Secures(copy[r].reservation, copy[r].booking)'
    BY <1>1, <2>1, SlotStep DEF SecuredInv, Secures
  <2>3. QED BY <1>1, <2>1, <2>2, PastLasts
<1>2. CASE pc'[r] = pc[r] /\ copy'[r] = copy[r] /\ page'[r] = page[r]
  BY <1>1, <1>2 DEF ConfirmationIsTrue, Confirming
<1>3. CASE ConfirmCrm(r)
  <2>1. copy'[r] = copy[r] /\ pc[r] = "confirmCrm"
    BY <1>3 DEF ConfirmCrm, Answer
  <2>2. QED BY <2>1, <1>1, ConstantsAssumption DEF SecuredInv, SlotFirst, Holding, ConfirmCalls
<1>4. QED
  <2>1. ASSUME NEW s \in Sessions, StartSubmit(r, s) \/ StartInitiate(r, s) \/ StartConfirm(r, s)
        PROVE  FALSE
    BY <2>1 DEF StartSubmit, StartInitiate, StartConfirm, Start
  <2>2. ~Submit(r) /\ ~InitiatePayment(r)
    BY DEF Submit, CheckExisting, Reserve, CreateBooking, CreateProduct, InitiatePayment,
           Initiate, Bind, Proceed, Answer
  <2>3. ~SettleByCard(r) /\ ~SettleWithoutCard(r) /\ ~ConfirmSlot(r)
    BY DEF SettleByCard, SettleWithoutCard, ConfirmSlot, Proceed, GiveUp, Answer
  <2>4. ~Unreserve(r)
    BY DEF Unreserve, DeleteReservation, SetStatus, StatusFailed, PageFor, Proceed, GiveUp, Answer
  <2>5. ~Save(r) /\ ~Crash(r)
    BY DEF Save, Crash
  <2>6. QED BY <1>2, <1>3, <2>1, <2>2, <2>3, <2>4, <2>5, RequestStep DEF Handle, Confirm

LEMMA IdentityStep ==
  ASSUME ~Revisit, BaseInv, SecuredInv, IdentityInv, [Next]_vars
  PROVE  IdentityInv'
<1> USE DEF IdentityInv
<1>1. Coherence'
  BY CopyStep, StoreStep DEF Coherence
<1>2. Submitting'
  <2> SUFFICES ASSUME NEW r \in Requests
               PROVE  /\ pc'[r] \in {"check", "reserve", "create", "product"} => copy'[r].booking = None
                      /\ pc'[r] \in {"create", "product"} =>
                           copy'[r].reservation = r /\ tcn'[r].slot = copy'[r].slot
                      /\ pc'[r] = "product" => crm'[r].slot = copy'[r].slot
                      /\ pc'[r] = "bind" => pay'[r].for = copy'[r].booking
                      /\ pc'[r] = "confirmSlot" => Settled(copy[r].booking)'
                      /\ pc'[r] \notin Past => pay'[r].status = "none"
    BY DEF Submitting
  <2>1. QED BY SubmittingStep, PayingStep
<1>3. Named' /\ SecuredIsPaid' /\ RightSlot' /\ BoundToOwnPayment'
  BY ConfirmedStep, BoundStep DEF Named, SecuredIsPaid, RightSlot, BoundToOwnPayment
<1>4. ConfirmationIsTrue' /\ Confirming'
  BY ConfirmationStep
<1>5. QED BY <1>1, <1>2, <1>3, <1>4

LEMMA IdentityInit == Init => IdentityInv
<1> SUFFICES ASSUME Init PROVE IdentityInv
  OBVIOUS
<1>1. PICK old \in {{}} \cup {{b} : b \in Earlier}, t \in Slots :
        /\ session = [s \in Sessions |-> Blank]
        /\ pc = [r \in Requests |-> IF r \in old THEN "done" ELSE "idle"]
        /\ copy = [r \in Requests |-> Blank]
        /\ tcn = [r \in Requests |->
                    IF r \in old THEN [status |-> "confirmed", slot |-> t, ref |-> r]
                    ELSE [status |-> "none", slot |-> None, ref |-> None]]
        /\ crm = [r \in Requests |->
                    IF r \in old THEN [status |-> "Confirmed", slot |-> t, payment |-> None]
                    ELSE [status |-> "none", slot |-> None, payment |-> None]]
        /\ pay = [r \in Requests |-> [status |-> "none", for |-> None]]
        /\ waived = old
  BY DEF Init
<1>2. Coherence
  BY <1>1 DEF Coherence, Coherent, Blank
<1>3. Submitting /\ Confirming
  BY <1>1 DEF Submitting, Confirming, Past, Blank
<1>4. ASSUME NEW x \in Requests, tcn[x].status = "confirmed"
      PROVE  /\ tcn[x].ref = x /\ x \in waived /\ pc[x] \in Past
             /\ crm[x].slot = tcn[x].slot
  BY <1>1, <1>4 DEF Past
<1>5. ASSUME NEW b \in Requests PROVE crm[b].payment = None
  BY <1>1
<1>6. ConfirmationIsTrue
  BY <1>1 DEF ConfirmationIsTrue
<1>7. QED
  BY <1>2, <1>3, <1>4, <1>5, <1>6
     DEF IdentityInv, Named, SecuredIsPaid, RightSlot, BoundToOwnPayment, Settled

LEMMA IdentityCorrect ==
  ASSUME ~Revisit
  PROVE  Spec => [](BaseInv /\ SecuredInv /\ IdentityInv)
<1>1. Init => SecuredInv /\ IdentityInv
  BY SecuredInit, IdentityInit
<1>2. BaseInv /\ SecuredInv /\ IdentityInv /\ [Next]_vars => SecuredInv' /\ IdentityInv'
  BY SecuredStep, IdentityStep
<1>3. QED BY <1>1, <1>2, BaseCorrect, PTL DEF Spec

(* When no page that did its work is visited again, a slot is confirmed only *)
(* for a booking that was settled itself, whatever overlaps, fails or is     *)
(* lost.                                                                     *)
THEOREM SecuredIsPaidFor ==
  ASSUME ~Revisit
  PROVE  Spec => []SecuredIsPaid
<1>1. IdentityInv => SecuredIsPaid
  BY DEF IdentityInv
<1>2. QED BY <1>1, IdentityCorrect, PTL

(* The slot that is confirmed is the slot the booking shows. *)
THEOREM SlotIsRight ==
  ASSUME ~Revisit
  PROVE  Spec => []RightSlot
<1>1. IdentityInv => RightSlot
  BY DEF IdentityInv
<1>2. QED BY <1>1, IdentityCorrect, PTL

(* A booking is bound to a payment that was made for it. *)
THEOREM PaymentIsOwn ==
  ASSUME ~Revisit
  PROVE  Spec => []BoundToOwnPayment
<1>1. IdentityInv => BoundToOwnPayment
  BY DEF IdentityInv
<1>2. QED BY <1>1, IdentityCorrect, PTL

(* A booking about to be answered as confirmed is shown with its own slot. *)
THEOREM ConfirmationsAreTrue ==
  ASSUME ~Revisit
  PROVE  Spec => []ConfirmationIsTrue
<1>1. IdentityInv => ConfirmationIsTrue
  BY DEF IdentityInv
<1>2. QED BY <1>1, IdentityCorrect, PTL
===============================================================================
