------------------------- MODULE BookingPaymentProofs -------------------------
(* What is proved of BookingPayment for all values of its constants. *)
EXTENDS BookingPayment, TLAPS

(* The part of the type invariant about requests and sessions. *)
FlowOK ==
  /\ session \in [Sessions -> SessionData]
  /\ pc \in [Requests -> Calls \cup {"idle", "save", "done"}]
  /\ home \in [Requests -> Sessions \cup {None}]
  /\ copy \in [Requests -> SessionData]
  /\ cause \in [Requests -> Causes \cup {"none"}]
  /\ page \in [Requests -> Pages]

(* The part about the services. *)
WorldOK ==
  /\ tcn \in [Requests -> Reservations]
  /\ crm \in [Requests -> Bookings]
  /\ pay \in [Requests -> Payments]
  /\ waived \subseteq Requests

(* A handler past the guards of its controller has what the guards ask for. *)
ConfirmCalls == {"settle", "confirmSlot", "confirmCrm", "delete", "status"}

Holding ==
  \A r \in Requests :
    /\ pc[r] \in ConfirmCalls \cup {"initiate", "bind"} => copy[r].booking \in Requests
    /\ pc[r] \in ConfirmCalls =>
         /\ copy[r].reservation \in Requests
         /\ copy[r].funding = "card" => copy[r].receipt \in Requests

LEMMA TypeParts == TypeOK <=> FlowOK /\ WorldOK
  BY DEF TypeOK, FlowOK, WorldOK

LEMMA BlankIsData == Blank \in SessionData
  BY DEF Blank, SessionData, AllFundings

(* The three ways a handler goes on keep the types of the requests. *)
LEMMA ProceedType ==
  ASSUME FlowOK, NEW r \in Requests, NEW d \in SessionData, NEW call \in Calls,
         Proceed(r, d, call)
  PROVE  FlowOK'
  BY DEF FlowOK, Proceed

LEMMA AnswerType ==
  ASSUME FlowOK, NEW r \in Requests, NEW d \in SessionData, NEW p \in Pages,
         Answer(r, d, p)
  PROVE  FlowOK'
  BY DEF FlowOK, Answer

LEMMA GiveUpType ==
  ASSUME FlowOK, NEW r \in Requests, NEW why \in Causes, GiveUp(r, why)
  PROVE  FlowOK'
  BY DEF FlowOK, GiveUp, Calls

LEMMA CopyType ==
  ASSUME FlowOK, NEW r \in Requests
  PROVE  /\ copy[r] \in SessionData
         /\ [copy[r] EXCEPT !.reservation = r] \in SessionData
         /\ [copy[r] EXCEPT !.booking = r] \in SessionData
         /\ [copy[r] EXCEPT !.receipt = r] \in SessionData
         /\ copy[r].slot \in Slots \cup {None}
         /\ copy[r].receipt \in Requests \cup {None}
         /\ copy[r].booking \in Requests \cup {None}
         /\ copy[r].reservation \in Requests \cup {None}
  BY DEF FlowOK, SessionData

(* The steps of the journey keep the types of the requests ... *)
LEMMA JourneyFlow ==
  ASSUME FlowOK, NEW s \in Sessions,
         BeginJourney(s) \/ EditSlot(s) \/ ShowConfirmation(s) \/ ExpireSession(s)
  PROVE  FlowOK'
<1>1. CASE BeginJourney(s)
  <2>1. PICK f \in AllFundings, t \in Slots :
          session' = [session EXCEPT ![s] = [Blank EXCEPT !.live = TRUE, !.funding = f, !.slot = t]]
    BY <1>1, ConstantsAssumption DEF BeginJourney
  <2>2. [Blank EXCEPT !.live = TRUE, !.funding = f, !.slot = t] \in SessionData
    BY DEF Blank, SessionData
  <2>3. QED BY <1>1, <2>1, <2>2 DEF BeginJourney, FlowOK
<1>2. CASE EditSlot(s)
  <2>1. PICK t \in Slots : session' = [session EXCEPT ![s].slot = t]
    BY <1>2 DEF EditSlot
  <2>2. session' \in [Sessions -> SessionData]
    BY <2>1 DEF FlowOK, SessionData
  <2>3. QED BY <1>2, <2>2 DEF EditSlot, FlowOK
<1>3. CASE ShowConfirmation(s) \/ ExpireSession(s)
  BY <1>3, BlankIsData DEF ShowConfirmation, ExpireSession, FlowOK
<1>4. QED BY <1>1, <1>2, <1>3

(* ... and so do the start of a request, its end and what happens meanwhile ... *)
LEMMA StartFlow ==
  ASSUME FlowOK, NEW s \in Sessions, NEW r \in Requests,
         StartSubmit(r, s) \/ StartInitiate(r, s) \/ StartConfirm(r, s)
  PROVE  FlowOK'
<1>1. PICK call \in Calls : Start(r, s, call)
  BY DEF StartSubmit, StartInitiate, StartConfirm, Calls
<1>2. QED BY <1>1 DEF Start, FlowOK

LEMMA EndFlow ==
  ASSUME FlowOK, NEW r \in Requests,
         PayAtGateway(r) \/ Crash(r) \/ ExpireReservation(r) \/ Save(r)
  PROVE  FlowOK'
<1>1. CASE PayAtGateway(r) \/ ExpireReservation(r)
  BY <1>1 DEF PayAtGateway, ExpireReservation, FlowOK
<1>2. CASE Crash(r)
  BY <1>2, BlankIsData DEF Crash, FlowOK, Pages
<1>3. CASE Save(r)
  BY <1>3, BlankIsData DEF Save, FlowOK
<1>4. QED BY <1>1, <1>2, <1>3

(* ... and so do the steps of the handlers. *)
LEMMA HandlerFlow ==
  ASSUME FlowOK, NEW r \in Requests, Submit(r) \/ InitiatePayment(r) \/ Confirm(r)
  PROVE  FlowOK'
<1>0. /\ {"error", "exists", "slotTaken", "continue", "initiationError", "gateway", "confirmed"} \subseteq Pages
      /\ {PageFor(why) : why \in Causes \cup {"none"}} \subseteq Pages
      /\ {"reserve", "create", "product", "bind", "confirmSlot", "confirmCrm", "status"} \subseteq Calls
      /\ {"slot", "unknown"} \subseteq Causes
      /\ cause[r] \in Causes \cup {"none"}
  BY DEF Pages, CancelledPages, PageFor, Calls, Causes, FlowOK
<1>1. CASE CheckExisting(r)
  BY <1>1, <1>0, CopyType, ProceedType, AnswerType DEF CheckExisting
<1>2. CASE Reserve(r)
  BY <1>2, <1>0, CopyType, ProceedType, AnswerType DEF Reserve
<1>3. CASE CreateBooking(r)
  BY <1>3, <1>0, CopyType, ProceedType, AnswerType DEF CreateBooking
<1>4. CASE CreateProduct(r)
  BY <1>4, <1>0, CopyType, AnswerType DEF CreateProduct
<1>5. CASE Initiate(r)
  BY <1>5, <1>0, CopyType, ProceedType, AnswerType DEF Initiate
<1>6. CASE Bind(r)
  BY <1>6, <1>0, CopyType, AnswerType DEF Bind
<1>7. CASE SettleByCard(r)
  <2>1. PICK code \in Codes(r) :
          IF code = "success" THEN Proceed(r, copy[r], "confirmSlot") ELSE GiveUp(r, code)
    BY <1>7 DEF SettleByCard
  <2>2. code = "success" \/ code \in Causes
    BY DEF Codes, Causes
  <2>3. QED BY <2>1, <2>2, <1>0, CopyType, ProceedType, GiveUpType
<1>8. CASE SettleWithoutCard(r)
  BY <1>8, <1>0, CopyType, ProceedType, AnswerType DEF SettleWithoutCard
<1>9. CASE ConfirmSlot(r)
  BY <1>9, <1>0, CopyType, ProceedType, GiveUpType DEF ConfirmSlot
<1>10. CASE ConfirmCrm(r)
  BY <1>10, <1>0, CopyType, AnswerType DEF ConfirmCrm
<1>11. CASE DeleteReservation(r)
  BY <1>11, <1>0, CopyType, ProceedType DEF DeleteReservation
<1>12. CASE SetStatus(r)
  <2>1. \/ Answer(r, Blank, PageFor(cause[r])) \/ GiveUp(r, "unknown")
        \/ Answer(r, Blank, PageFor("slot")) \/ Answer(r, Blank, "error")
    BY <1>12 DEF SetStatus, StatusFailed
  <2>2. QED BY <2>1, <1>0, BlankIsData, AnswerType, GiveUpType
<1>13. QED
  BY <1>1, <1>2, <1>3, <1>4, <1>5, <1>6, <1>7, <1>8, <1>9, <1>10, <1>11, <1>12
     DEF Submit, InitiatePayment, Confirm, Unreserve

LEMMA HoldingStep ==
  ASSUME FlowOK, Holding, [Next]_vars
  PROVE  Holding'
<1> USE DEF Holding, ConfirmCalls
<1>1. ASSUME NEW r \in Requests, Crash(r) \/ Save(r) PROVE Holding'
  BY <1>1 DEF Crash, Save, FlowOK
<1>4. ASSUME NEW s \in Sessions,
             BeginJourney(s) \/ EditSlot(s) \/ ShowConfirmation(s) \/ ExpireSession(s)
      PROVE  Holding'
  BY <1>4 DEF BeginJourney, EditSlot, ShowConfirmation, ExpireSession
<1>5. ASSUME NEW r \in Requests, PayAtGateway(r) \/ ExpireReservation(r)
      PROVE  Holding'
  BY <1>5 DEF PayAtGateway, ExpireReservation
<1>6. ASSUME NEW r \in Requests, NEW s \in Sessions,
             StartSubmit(r, s) \/ StartInitiate(r, s) \/ StartConfirm(r, s)
      PROVE  Holding'
  BY <1>6 DEF StartSubmit, StartInitiate, StartConfirm, Start, FlowOK, SessionData
<1>7. ASSUME NEW r \in Requests, Initiate(r) PROVE Holding'
  BY <1>7 DEF Initiate, Proceed, Answer, FlowOK
<1>8. ASSUME NEW r \in Requests, Bind(r) PROVE Holding'
  BY <1>8 DEF Bind, BoundToPayment, Answer, FlowOK
<1>9. ASSUME NEW r \in Requests, Submit(r) PROVE Holding'
  BY <1>9 DEF Submit, CheckExisting, Reserve, CreateBooking, CreateProduct, Proceed, Answer, FlowOK
<1>10. ASSUME NEW r \in Requests, SettleByCard(r) \/ SettleWithoutCard(r) PROVE Holding'
  BY <1>10 DEF SettleByCard, SettleWithoutCard, Proceed, GiveUp, Answer, FlowOK
<1>11. ASSUME NEW r \in Requests, ConfirmSlot(r) \/ ConfirmCrm(r) PROVE Holding'
  BY <1>11 DEF ConfirmSlot, ConfirmCrm, Proceed, GiveUp, Answer, FlowOK
<1>12. ASSUME NEW r \in Requests, Unreserve(r) PROVE Holding'
  BY <1>12 DEF Unreserve, DeleteReservation, SetStatus, StatusFailed, Proceed, GiveUp, Answer, FlowOK
<1>13. CASE UNCHANGED vars
  BY <1>13 DEF vars
<1>14. QED
  BY <1>1, <1>4, <1>5, <1>6, <1>7, <1>8, <1>9, <1>10, <1>11, <1>12, <1>13
     DEF Next, Handle, InitiatePayment, Confirm

(* No step stores a record of another shape in a service. *)
LEMMA WorldStep ==
  ASSUME FlowOK, WorldOK, Holding, [Next]_vars
  PROVE  WorldOK'
<1>1. ASSUME UNCHANGED world PROVE WorldOK'
  BY <1>1 DEF WorldOK, world
<1>2. ASSUME NEW r \in Requests, Reserve(r) PROVE WorldOK'
  <2>1. [tcn[r] EXCEPT !.status = "reserved", !.slot = copy[r].slot] \in Reservations
    <3>1. tcn[r] \in Reservations /\ copy[r].slot \in Slots \cup {None}
      BY CopyType DEF WorldOK
    <3>2. QED BY <3>1 DEF Reservations
  <2>2. [tcn EXCEPT ![r].status = "reserved", ![r].slot = copy[r].slot] \in [Requests -> Reservations]
    BY <2>1 DEF WorldOK
  <2>3. QED BY <1>2, <1>1, <2>2 DEF Reserve, WorldOK
<1>3. ASSUME NEW r \in Requests, CreateBooking(r) PROVE WorldOK'
  <2>1. PICK o \in Outcomes("create") :
          crm' = IF Effective(o)
                 THEN [crm EXCEPT ![r].status = "Reserved", ![r].slot = copy[r].slot]
                 ELSE crm
    BY <1>3 DEF CreateBooking
  <2>2. [crm[r] EXCEPT !.status = "Reserved", !.slot = copy[r].slot] \in Bookings
    <3>1. crm[r] \in Bookings /\ copy[r].slot \in Slots \cup {None}
      BY CopyType DEF WorldOK
    <3>2. QED BY <3>1 DEF Bookings
  <2>3. [crm EXCEPT ![r].status = "Reserved", ![r].slot = copy[r].slot] \in [Requests -> Bookings]
    BY <2>2 DEF WorldOK
  <2>4. QED BY <1>3, <2>1, <2>3 DEF CreateBooking, WorldOK
<1>4. ASSUME NEW r \in Requests, Initiate(r) PROVE WorldOK'
  <2>1. [pay EXCEPT ![r] = [status |-> "pending", for |-> copy[r].booking]] \in [Requests -> Payments]
    BY CopyType DEF WorldOK, Payments
  <2>2. QED BY <1>4, <2>1 DEF Initiate, WorldOK
<1>5. ASSUME NEW r \in Requests, Bind(r) PROVE WorldOK'
  <2>1. [crm EXCEPT ![copy[r].booking].payment = r] \in [Requests -> Bookings]
    BY DEF WorldOK, Bookings
  <2>2. QED BY <1>5, <2>1 DEF Bind, BoundToPayment, WorldOK
<1>6. ASSUME NEW r \in Requests, PayAtGateway(r) PROVE WorldOK'
  <2>1. PICK outcome \in {"captured", "declined", "cancelled"} :
          pay' = [pay EXCEPT ![r].status = outcome]
    BY <1>6 DEF PayAtGateway
  <2>2. pay' \in [Requests -> Payments]
    BY <2>1 DEF WorldOK, Payments
  <2>3. QED BY <1>6, <2>2 DEF PayAtGateway, WorldOK
<1>7. ASSUME NEW r \in Requests, SettleWithoutCard(r) PROVE WorldOK'
  BY <1>7 DEF SettleWithoutCard, WorldOK, Holding, ConfirmCalls
<1>8. ASSUME NEW r \in Requests, ConfirmSlot(r) PROVE WorldOK'
  <2> DEFINE x == copy[r].reservation
  <2>1. ASSUME x \in Requests
        PROVE  [tcn[x] EXCEPT !.status = "confirmed", !.ref = copy[r].booking] \in Reservations
    <3>1. tcn[x] \in Reservations /\ copy[r].booking \in Requests \cup {None}
      BY <2>1, CopyType DEF WorldOK
    <3>2. QED BY <3>1 DEF Reservations
  <2>2. [tcn EXCEPT ![x].status = "confirmed", ![x].ref = copy[r].booking] \in [Requests -> Reservations]
    BY <2>1 DEF WorldOK
  <2>3. QED BY <1>8, <1>1, <2>2 DEF ConfirmSlot, WorldOK
<1>9. ASSUME NEW r \in Requests, ConfirmCrm(r) PROVE WorldOK'
  <2> DEFINE b == copy[r].booking
             payment == IF copy[r].funding = "card" THEN copy[r].receipt ELSE crm[b].payment
  <2>1. [crm EXCEPT ![b].status = "Confirmed", ![b].payment = payment] \in [Requests -> Bookings]
    <3>1. b \in Requests => payment \in Requests \cup {None}
      BY CopyType DEF WorldOK, Bookings
    <3> HIDE DEF b, payment
    <3>2. QED BY <3>1 DEF WorldOK, Bookings
  <2>2. QED BY <1>9, <2>1 DEF ConfirmCrm, WorldOK
<1>10. ASSUME NEW r \in Requests, DeleteReservation(r) PROVE WorldOK'
  <2>1. [tcn EXCEPT ![copy[r].reservation].status = "released"] \in [Requests -> Reservations]
    BY DEF WorldOK, Reservations
  <2>2. QED BY <1>10, <2>1 DEF DeleteReservation, WorldOK
<1>11. ASSUME NEW r \in Requests, SetStatus(r) PROVE WorldOK'
  <2> DEFINE b == copy[r].booking
             payment == IF cause[r] = "cancelled" THEN copy[r].receipt ELSE crm[b].payment
             status == StatusFor(cause[r])
  <2>1. [crm EXCEPT ![b].status = status, ![b].payment = payment] \in [Requests -> Bookings]
    <3>1. b \in Requests => payment \in Requests \cup {None}
      BY CopyType DEF WorldOK, Bookings
    <3>2. status \in UnreservedStatuses
      BY DEF StatusFor, UnreservedStatuses
    <3> HIDE DEF b, payment, status
    <3>3. QED BY <3>1, <3>2 DEF WorldOK, Bookings
  <2>2. QED BY <1>11, <2>1 DEF SetStatus, WorldOK
<1>12. ASSUME NEW x \in Requests, ExpireReservation(x) PROVE WorldOK'
  BY <1>12 DEF ExpireReservation, WorldOK, Reservations
<1>13. ASSUME NEW s \in Sessions,
              BeginJourney(s) \/ EditSlot(s) \/ ShowConfirmation(s) \/ ExpireSession(s)
       PROVE  WorldOK'
  BY <1>13, <1>1 DEF BeginJourney, EditSlot, ShowConfirmation, ExpireSession
<1>14. ASSUME NEW s \in Sessions, NEW r \in Requests,
              StartSubmit(r, s) \/ StartInitiate(r, s) \/ StartConfirm(r, s)
       PROVE  WorldOK'
  BY <1>14, <1>1 DEF StartSubmit, StartInitiate, StartConfirm, Start
<1>15. ASSUME NEW r \in Requests,
              Save(r) \/ Crash(r) \/ CheckExisting(r) \/ CreateProduct(r) \/ SettleByCard(r)
       PROVE  WorldOK'
  BY <1>15, <1>1 DEF Save, Crash, CheckExisting, CreateProduct, SettleByCard
<1>16. CASE UNCHANGED vars
  BY <1>16, <1>1 DEF vars, world
<1>17. QED
  BY <1>2, <1>3, <1>4, <1>5, <1>6, <1>7, <1>8, <1>9, <1>10, <1>11, <1>12, <1>13, <1>14, <1>15, <1>16
     DEF Next, Handle, Submit, InitiatePayment, Confirm, Unreserve

LEMMA FlowStep ==
  ASSUME FlowOK, [Next]_vars
  PROVE  FlowOK'
<1>1. CASE UNCHANGED vars
  BY <1>1 DEF FlowOK, vars
<1>2. CASE Next
  BY <1>2, JourneyFlow, StartFlow, EndFlow, HandlerFlow DEF Next, Handle
<1>3. QED BY <1>1, <1>2

(* The invariant the rest builds on. *)
BaseInv == FlowOK /\ WorldOK /\ Holding

LEMMA BaseCorrect == Spec => []BaseInv
<1>1. Init => BaseInv
  <2>1. Init => FlowOK
    BY BlankIsData DEF Init, FlowOK, Calls, Causes, Pages
  <2>2. Init => WorldOK
    <3> SUFFICES ASSUME NEW old \in {{}} \cup {{b} : b \in Earlier}, NEW t \in Slots, Init,
                        tcn = [r \in Requests |->
                                IF r \in old THEN [status |-> "confirmed", slot |-> t, ref |-> r]
                                ELSE [status |-> "none", slot |-> None, ref |-> None]],
                        crm = [r \in Requests |->
                                IF r \in old THEN [status |-> "Confirmed", slot |-> t, payment |-> None]
                                ELSE [status |-> "none", slot |-> None, payment |-> None]],
                        pay = [r \in Requests |-> [status |-> "none", for |-> None]],
                        waived = old
                 PROVE  WorldOK
      BY DEF Init
    <3>1. tcn \in [Requests -> Reservations]
      BY DEF Reservations
    <3>2. crm \in [Requests -> Bookings]
      BY DEF Bookings
    <3>3. pay \in [Requests -> Payments]
      BY DEF Payments
    <3>4. waived \subseteq Requests
      BY ConstantsAssumption
    <3>5. QED BY <3>1, <3>2, <3>3, <3>4 DEF WorldOK
  <2>3. Init => Holding
    <3> SUFFICES ASSUME NEW old, pc = [r \in Requests |-> IF r \in old THEN "done" ELSE "idle"]
                 PROVE  Holding
      BY Zenon DEF Init
    <3>1. \A r \in Requests : pc[r] \in {"idle", "done"}
      OBVIOUS
    <3>2. QED BY <3>1 DEF Holding, ConfirmCalls
  <2>4. QED BY <2>1, <2>2, <2>3 DEF BaseInv
<1>2. BaseInv /\ [Next]_vars => BaseInv'
  BY FlowStep, WorldStep, HoldingStep DEF BaseInv
<1>3. QED BY <1>1, <1>2, PTL DEF Spec

(* Every variable keeps its type: the handlers of check-your-answers,        *)
(* payment-initiation and payment-confirmation store nothing else.           *)
THEOREM TypeCorrect == Spec => []TypeOK
<1>1. BaseInv => TypeOK
  BY TypeParts DEF BaseInv
<1>2. QED BY <1>1, BaseCorrect, PTL

-------------------------------------------------------------------------------
(* A Confirmed booking is secured.  The invariant is inductive once it says *)
(* that a request which has not reserved yet has no reservation, so that no *)
(* step overwrites a confirmed one, and that the CRM update is made only    *)
(* with the slot confirmed.                                                 *)
Unreserved == \A r \in Requests :
  pc[r] \in {"idle", "check", "reserve"} => tcn[r].status = "none"
SlotFirst == \A r \in Requests :
  pc[r] = "confirmCrm" => Secures(copy[r].reservation, copy[r].booking)

SecuredInv == Unreserved /\ SlotFirst /\ ConfirmedIsSecured

(* What a step may do to a reservation: a confirmed one is never touched. *)
LEMMA SlotStep ==
  ASSUME BaseInv, Unreserved, [Next]_vars, NEW x \in Requests
  PROVE  /\ \A b : Secures(x, b) => Secures(x, b)'
         /\ tcn[x].status = "none" => tcn'[x].status = "none" \/ (pc[x] = "reserve" /\ Reserve(x))
<1> USE DEF Secures
<1>1. ASSUME NEW r \in Requests, Reserve(r)
      PROVE  tcn[r].status = "none" /\ (x # r => tcn'[x] = tcn[x])
  <2>1. \/ tcn' = tcn
        \/ tcn' = [tcn EXCEPT ![r].status = "reserved", ![r].slot = copy[r].slot]
    BY <1>1 DEF Reserve, world
  <2>2. x # r => tcn'[x] = tcn[x]
    BY <2>1 DEF BaseInv, WorldOK
  <2>3. QED BY <1>1, <2>2 DEF Reserve, Unreserved
<1>2. ASSUME NEW r \in Requests, ConfirmSlot(r)
      PROVE  /\ \A b : Secures(x, b) => Secures(x, b)'
             /\ tcn[x].status = "none" => tcn'[x].status = "none"
  <2> DEFINE y == copy[r].reservation
  <2>1. CASE tcn' = tcn
    BY <2>1
  <2>2. CASE /\ Confirmable(y, copy[r].booking)
             /\ tcn' = [tcn EXCEPT ![y].status = "confirmed", ![y].ref = copy[r].booking]
    <3>1. x # y => tcn'[x] = tcn[x]
      BY <2>2 DEF BaseInv, WorldOK
    <3>2. x = y => tcn'[x].status = "confirmed" /\ tcn'[x].ref = copy[r].booking
      BY <2>2 DEF BaseInv, WorldOK, Reservations
    <3> HIDE DEF y
    <3>3. QED BY <2>2, <3>1, <3>2 DEF Confirmable
  <2>3. QED BY <1>2, <2>1, <2>2 DEF ConfirmSlot, world
<1>3. ASSUME NEW r \in Requests, DeleteReservation(r) \/ ExpireReservation(r)
      PROVE  /\ \A b : Secures(x, b) => Secures(x, b)'
             /\ tcn[x].status = "none" => tcn'[x].status = "none"
  BY <1>3 DEF DeleteReservation, ExpireReservation, BaseInv, WorldOK, Reservations
<1>4. \/ tcn' = tcn
      \/ \E r \in Requests : Reserve(r) \/ ConfirmSlot(r) \/ DeleteReservation(r) \/ ExpireReservation(r)
  BY DEF Next, vars, world, BeginJourney, EditSlot, ShowConfirmation, ExpireSession, StartSubmit,
         StartInitiate, StartConfirm, Start, Handle, Submit, InitiatePayment, Confirm, Unreserve,
         CheckExisting, CreateBooking, CreateProduct, Initiate, Bind, SettleByCard,
         SettleWithoutCard, ConfirmCrm, SetStatus, Save, PayAtGateway, Crash
<1>5. ASSUME NEW r \in Requests, Reserve(r) PROVE pc[r] = "reserve"
  BY <1>5 DEF Reserve
<1>6. QED BY <1>1, <1>2, <1>3, <1>4, <1>5

LEMMA UnreservedStep ==
  ASSUME BaseInv, Unreserved, [Next]_vars
  PROVE  Unreserved'
<1> SUFFICES ASSUME NEW x \in Requests, pc'[x] \in {"idle", "check", "reserve"}
             PROVE  tcn'[x].status = "none"
  BY DEF Unreserved
<1>1. pc[x] \in {"idle", "check", "reserve"}
  <2> USE DEF BaseInv, FlowOK
  <2>1. ASSUME NEW r \in Requests, Submit(r) PROVE pc'[x] = pc[x] \/ x = r
    BY <2>1 DEF Submit, CheckExisting, Reserve, CreateBooking, CreateProduct, Proceed, Answer
  <2>2. ASSUME NEW r \in Requests, Submit(r) PROVE pc[r] \in {"check", "reserve"} \/ pc'[r] \in {"product", "save"}
    BY <2>2 DEF Submit, CheckExisting, Reserve, CreateBooking, CreateProduct, Proceed, Answer
  <2>3. ASSUME NEW r \in Requests, InitiatePayment(r) \/ SettleByCard(r) \/ SettleWithoutCard(r)
        PROVE  pc'[x] = pc[x] \/ pc'[x] \in {"bind", "save", "confirmSlot", "delete"}
    BY <2>3 DEF InitiatePayment, Initiate, Bind, SettleByCard, SettleWithoutCard, Proceed, Answer, GiveUp
  <2>4. ASSUME NEW r \in Requests, ConfirmSlot(r) \/ ConfirmCrm(r) \/ Unreserve(r)
        PROVE  pc'[x] = pc[x] \/ pc'[x] \in {"confirmCrm", "save", "status", "delete"}
    BY <2>4 DEF ConfirmSlot, ConfirmCrm, Unreserve, DeleteReservation, SetStatus, StatusFailed,
                Proceed, Answer, GiveUp
  <2>5. ASSUME NEW r \in Requests, Save(r) \/ Crash(r) \/ PayAtGateway(r) \/ ExpireReservation(r)
        PROVE  pc'[x] = pc[x] \/ pc'[x] = "done"
    BY <2>5 DEF Save, Crash, PayAtGateway, ExpireReservation
  <2>6. ASSUME NEW r \in Requests, NEW s \in Sessions,
               StartSubmit(r, s) \/ StartInitiate(r, s) \/ StartConfirm(r, s)
        PROVE  pc'[x] = pc[x] \/ pc[x] = "idle"
    BY <2>6 DEF StartSubmit, StartInitiate, StartConfirm, Start
  <2>7. ASSUME NEW s \in Sessions,
               BeginJourney(s) \/ EditSlot(s) \/ ShowConfirmation(s) \/ ExpireSession(s)
        PROVE  pc' = pc
    BY <2>7 DEF BeginJourney, EditSlot, ShowConfirmation, ExpireSession
  <2>8. QED
    BY <2>1, <2>2, <2>3, <2>4, <2>5, <2>6, <2>7 DEF Next, vars, Handle, Confirm
<1>2. ~Reserve(x)
  BY DEF Reserve, Proceed, Answer, BaseInv, FlowOK
<1>3. QED BY <1>1, <1>2, SlotStep DEF Unreserved

LEMMA SlotFirstStep ==
  ASSUME BaseInv, Unreserved, SlotFirst, [Next]_vars
  PROVE  SlotFirst'
<1> SUFFICES ASSUME NEW r \in Requests, pc'[r] = "confirmCrm"
             PROVE  Secures(copy[r].reservation, copy[r].booking)'
  BY DEF SlotFirst
<1>1. CASE pc[r] = "confirmCrm" /\ copy'[r] = copy[r]
  <2>1. copy[r].reservation \in Requests
    BY <1>1 DEF BaseInv, Holding, ConfirmCalls
  <2>2. Secures(copy[r].reservation, copy[r].booking)
    BY <1>1 DEF SlotFirst
  <2>3. QED BY <1>1, <2>1, <2>2, SlotStep DEF Secures
<1>2. CASE ConfirmSlot(r)
  <2>1. copy[r].reservation \in Requests
    BY <1>2 DEF ConfirmSlot, BaseInv, Holding, ConfirmCalls
  <2>2. PICK o \in Outcomes("confirmSlot") : o = "ok" /\
          tcn' = IF Effective(o)
                 THEN [tcn EXCEPT ![copy[r].reservation].status = "confirmed",
                                  ![copy[r].reservation].ref = copy[r].booking]
                 ELSE tcn
    BY <1>2 DEF ConfirmSlot, GiveUp, BaseInv, FlowOK
  <2>3. copy' = copy
    BY <1>2 DEF ConfirmSlot, Proceed, GiveUp, BaseInv, FlowOK
  <2>4. QED BY <2>1, <2>2, <2>3 DEF Effective, Secures, BaseInv, WorldOK, Reservations
<1>3. QED
  <2> USE DEF BaseInv, FlowOK
  <2>1. ASSUME NEW q \in Requests, Submit(q) \/ InitiatePayment(q) PROVE pc[r] = "confirmCrm" /\ copy'[r] = copy[r]
    BY <2>1 DEF Submit, CheckExisting, Reserve, CreateBooking, CreateProduct, InitiatePayment, Initiate, Bind, Proceed, Answer
  <2>2. ASSUME NEW q \in Requests, q # r, ConfirmSlot(q) PROVE pc[r] = "confirmCrm" /\ copy'[r] = copy[r]
    BY <2>2 DEF ConfirmSlot, Proceed, GiveUp
  <2>3. ASSUME NEW q \in Requests, SettleByCard(q) \/ SettleWithoutCard(q) \/ ConfirmCrm(q) PROVE pc[r] = "confirmCrm" /\ copy'[r] = copy[r]
    BY <2>3 DEF SettleByCard, SettleWithoutCard, ConfirmCrm, Proceed, GiveUp, Answer
  <2>4. ASSUME NEW q \in Requests, Unreserve(q) PROVE pc[r] = "confirmCrm" /\ copy'[r] = copy[r]
    BY <2>4 DEF Unreserve, DeleteReservation, SetStatus, StatusFailed, Proceed, GiveUp, Answer
  <2>5. ASSUME NEW q \in Requests, Save(q) \/ Crash(q) \/ PayAtGateway(q) \/ ExpireReservation(q)
        PROVE pc[r] = "confirmCrm" /\ copy'[r] = copy[r]
    BY <2>5 DEF Save, Crash, PayAtGateway, ExpireReservation
  <2>6. ASSUME NEW q \in Requests, NEW s \in Sessions,
               StartSubmit(q, s) \/ StartInitiate(q, s) \/ StartConfirm(q, s)
        PROVE pc[r] = "confirmCrm" /\ copy'[r] = copy[r]
    BY <2>6 DEF StartSubmit, StartInitiate, StartConfirm, Start
  <2>7. ASSUME NEW s \in Sessions,
               BeginJourney(s) \/ EditSlot(s) \/ ShowConfirmation(s) \/ ExpireSession(s)
        PROVE pc[r] = "confirmCrm" /\ copy'[r] = copy[r]
    BY <2>7 DEF BeginJourney, EditSlot, ShowConfirmation, ExpireSession
  <2>8. QED
    BY <1>1, <1>2, <2>1, <2>2, <2>3, <2>4, <2>5, <2>6, <2>7 DEF Next, vars, Handle, Confirm

LEMMA SecuredInit == Init => SecuredInv
<1> SUFFICES ASSUME Init PROVE SecuredInv
  OBVIOUS
<1>1. ASSUME NEW r \in Requests PROVE pc[r] \in {"idle", "done"}
  BY DEF Init
<1>2. ASSUME NEW r \in Requests, pc[r] = "idle" PROVE tcn[r].status = "none"
  BY <1>2 DEF Init
<1>3. ASSUME NEW b \in Requests, crm[b].status = "Confirmed" PROVE Secures(b, b)
  BY <1>3 DEF Init, Secures
<1>4. QED BY <1>1, <1>2, <1>3 DEF SecuredInv, Unreserved, SlotFirst, ConfirmedIsSecured

(* The CRM update is the only step that makes a booking Confirmed. *)
LEMMA ConfirmedStaysSecured ==
  ASSUME BaseInv, SecuredInv, [Next]_vars
  PROVE  ConfirmedIsSecured'
<1> SUFFICES ASSUME NEW b \in Requests, crm'[b].status = "Confirmed"
             PROVE  \E x \in Requests : Secures(x, b)'
  BY DEF ConfirmedIsSecured
<1>1. \/ crm[b].status = "Confirmed"
      \/ \E r \in Requests : ConfirmCrm(r) /\ copy[r].booking = b
  <2> USE DEF BaseInv, WorldOK, Bookings
  <2>1. ASSUME NEW r \in Requests, CreateBooking(r) PROVE crm[b].status = "Confirmed"
    BY <2>1 DEF CreateBooking
  <2>2. ASSUME NEW r \in Requests, Bind(r) PROVE crm[b].status = "Confirmed"
    BY <2>2 DEF Bind, BoundToPayment
  <2>3. ASSUME NEW r \in Requests, ConfirmCrm(r)
        PROVE  crm[b].status = "Confirmed" \/ copy[r].booking = b
    BY <2>3 DEF ConfirmCrm
  <2>4. ASSUME NEW r \in Requests, SetStatus(r) PROVE crm[b].status = "Confirmed"
    <3>1. StatusFor(cause[r]) # "Confirmed"
      BY DEF StatusFor
    <3>2. QED BY <2>4, <3>1 DEF SetStatus
  <2>5. \/ crm' = crm
        \/ \E r \in Requests : CreateBooking(r) \/ Bind(r) \/ ConfirmCrm(r) \/ SetStatus(r)
    BY DEF Next, vars, world, BeginJourney, EditSlot, ShowConfirmation, ExpireSession,
           StartSubmit, StartInitiate, StartConfirm, Start, Handle, Submit, InitiatePayment,
           Confirm, Unreserve, CheckExisting, Reserve, CreateProduct, Initiate, SettleByCard,
           SettleWithoutCard, ConfirmSlot, DeleteReservation, Save, PayAtGateway, Crash,
           ExpireReservation
  <2>6. QED BY <2>1, <2>2, <2>3, <2>4, <2>5
<1>2. \E x \in Requests : Secures(x, b)
  <2>1. CASE crm[b].status = "Confirmed"
    BY <2>1 DEF SecuredInv, ConfirmedIsSecured
  <2>2. ASSUME NEW r \in Requests, ConfirmCrm(r), copy[r].booking = b
        PROVE  \E x \in Requests : Secures(x, b)
    BY <2>2 DEF ConfirmCrm, SecuredInv, SlotFirst, BaseInv, Holding, ConfirmCalls
  <2>3. QED BY <1>1, <2>1, <2>2
<1>3. QED BY <1>2, SlotStep DEF SecuredInv

LEMMA SecuredStep ==
  ASSUME BaseInv, SecuredInv, [Next]_vars
  PROVE  SecuredInv'
BY UnreservedStep, SlotFirstStep, ConfirmedStaysSecured DEF SecuredInv

(* A booking the CRM holds as Confirmed has its slot confirmed in the        *)
(* scheduling service, for any number of requests and sessions, with any     *)
(* interleaving, any revisits and any call failing or losing its answer.     *)
THEOREM SecuredCorrect == Spec => []ConfirmedIsSecured
<1>1. BaseInv /\ SecuredInv /\ [Next]_vars => SecuredInv'
  BY SecuredStep
<1>2. SecuredInv => ConfirmedIsSecured
  BY DEF SecuredInv
<1>3. QED BY <1>1, <1>2, SecuredInit, BaseCorrect, PTL DEF Spec
===============================================================================
