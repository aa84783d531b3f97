---------------------------- MODULE BookingPayment ----------------------------
(***************************************************************************)
(* Creating, paying for and confirming a standard booking.                 *)
(*                                                                         *)
(* One HTTP request is one member of Requests.  Its handler runs as a      *)
(* sequence of awaited calls to the scheduling service (TCN), the CRM and  *)
(* the payment service (CPMS); between two calls the steps of any other    *)
(* request may happen.  The handler works on the copy of the session that  *)
(* was loaded when the request started, and the whole copy is written back *)
(* when its response ends: the last response wins.                         *)
(*                                                                         *)
(* A reservation, a booking and a payment are named by the request that    *)
(* made them, so Requests also names those three.  A call ends as "ok", as *)
(* "fail" (refused, no effect) or as "lost" (it took effect, the caller    *)
(* sees an error).  Fails and Loses say which calls may end so.            *)
(***************************************************************************)
CONSTANTS
  Requests,       \* HTTP requests; also the reservations, bookings, payments
  Sessions,       \* browser sessions of one candidate, for one test type
  Slots,          \* appointment slots, one place each
  Fundings,       \* how the bookings of this model are settled
  Earlier,        \* the booking, if any, made for the test in an earlier session
  None,
  Overlap,        \* may a session have two requests in flight?
  Revisit,        \* may a candidate go back to a page that did its work?
  ExistingCheck,  \* the feature toggle enableExistingBookingValidation
  Fails,          \* calls that may be refused, and faults that may happen
  Loses           \* calls whose answer may be lost

AllFundings == {"card", "compensation", "zeroCost"}

ASSUME ConstantsAssumption ==
  /\ None \notin Requests \cup Slots \cup Sessions
  /\ Fundings \subseteq AllFundings
  /\ Earlier \subseteq Requests
  /\ {Overlap, Revisit, ExistingCheck} \subseteq BOOLEAN

VARIABLES
  session,  \* what the session store holds
  pc,       \* the call a request is about to make
  home,     \* the session a request belongs to while it is in flight
  copy,     \* the request's own copy of the session
  cause,    \* why the request is giving the booking up
  page,     \* what the request answers
  tcn,      \* reservations, in the scheduling service
  crm,      \* bookings, in the CRM
  pay,      \* card payments, in the payment service
  waived    \* bookings settled by compensation or marked as zero cost

vars == <<session, pc, home, copy, cause, page, tcn, crm, pay, waived>>
world == <<tcn, crm, pay, waived>>

-------------------------------------------------------------------------------
Calls == {"check", "reserve", "create", "product", "initiate", "bind", "settle",
          "confirmSlot", "confirmCrm", "delete", "status"}
Causes == {"declined", "other", "cancelled", "gateway", "system", "unknown", "slot"}
CancelledPages == {"unsuccessful", "confirmationError", "cancelled", "slotError"}
Pages == CancelledPages \cup {"none", "continue", "exists", "slotTaken", "error",
          "gateway", "initiationError", "systemError", "confirmed", "lost"}
UnreservedStatuses == {"Draft", "Abandoned", "SystemError"}

(* A session that holds no candidate and no booking. *)
Blank == [live |-> FALSE, funding |-> "card", slot |-> None,
          reservation |-> None, booking |-> None, receipt |-> None]

SessionData == [live: BOOLEAN, funding: AllFundings, slot: Slots \cup {None},
                reservation: Requests \cup {None}, booking: Requests \cup {None},
                receipt: Requests \cup {None}]

(* A reservation's ref is the booking it was confirmed for. *)
Reservations == [status: {"none", "reserved", "confirmed", "released"},
                 slot: Slots \cup {None}, ref: Requests \cup {None}]
Bookings == [status: {"none", "Reserved", "Confirmed"} \cup UnreservedStatuses,
             slot: Slots \cup {None}, payment: Requests \cup {None}]
Payments == [status: {"none", "pending", "captured", "declined", "cancelled"},
             for: Requests \cup {None}]

TypeOK ==
  /\ session \in [Sessions -> SessionData]
  /\ pc \in [Requests -> Calls \cup {"idle", "save", "done"}]
  /\ home \in [Requests -> Sessions \cup {None}]
  /\ copy \in [Requests -> SessionData]
  /\ cause \in [Requests -> Causes \cup {"none"}]
  /\ page \in [Requests -> Pages]
  /\ tcn \in [Requests -> Reservations]
  /\ crm \in [Requests -> Bookings]
  /\ pay \in [Requests -> Payments]
  /\ waived \subseteq Requests

(* A booking of an earlier session was made without a card, and is Confirmed. *)
Init ==
  \E old \in {{}} \cup {{b} : b \in Earlier}, t \in Slots :
    /\ session = [s \in Sessions |-> Blank]
    /\ pc = [r \in Requests |-> IF r \in old THEN "done" ELSE "idle"]
    /\ home = [r \in Requests |-> None]
    /\ copy = [r \in Requests |-> Blank]
    /\ cause = [r \in Requests |-> "none"]
    /\ page = [r \in Requests |-> "none"]
    /\ tcn = [r \in Requests |->
                IF r \in old THEN [status |-> "confirmed", slot |-> t, ref |-> r]
                ELSE [status |-> "none", slot |-> None, ref |-> None]]
    /\ crm = [r \in Requests |->
                IF r \in old THEN [status |-> "Confirmed", slot |-> t, payment |-> None]
                ELSE [status |-> "none", slot |-> None, payment |-> None]]
    /\ pay = [r \in Requests |-> [status |-> "none", for |-> None]]
    /\ waived = old

-------------------------------------------------------------------------------
(* The outcomes of a call, and the outcomes that took effect. *)
Outcomes(call) == {o \in {"ok", "fail", "lost"} :
                     /\ o = "fail" => call \in Fails
                     /\ o = "lost" => call \in Loses}
Effective(o) == o \in {"ok", "lost"}

Busy(s) == \E r \in Requests : home[r] = s
MayStart(s) == Overlap \/ ~Busy(s)

(* The handler of r goes on to its next call with this copy of the session. *)
Proceed(r, data, call) ==
  /\ pc' = [pc EXCEPT ![r] = call]
  /\ copy' = [copy EXCEPT ![r] = data]
  /\ UNCHANGED <<session, home, cause, page>>

(* The handler of r ends: its answer is ready, its session is about to be saved. *)
Answer(r, data, p) ==
  /\ pc' = [pc EXCEPT ![r] = "save"]
  /\ copy' = [copy EXCEPT ![r] = data]
  /\ page' = [page EXCEPT ![r] = p]
  /\ UNCHANGED <<session, home, cause>>

(* Faulty variant: the branch of a cancelled payment does not unreserve. *)
GiveUpUnlessCancelled(r, why) ==
  IF why = "cancelled" THEN Answer(r, Blank, "cancelled")
  ELSE /\ pc' = [pc EXCEPT ![r] = "delete"]
       /\ cause' = [cause EXCEPT ![r] = why]
       /\ UNCHANGED <<session, home, copy, page>>

(* The handler of r starts to give its booking up. *)
GiveUp(r, why) ==
  /\ pc' = [pc EXCEPT ![r] = "delete"]
  /\ cause' = [cause EXCEPT ![r] = why]
  /\ UNCHANGED <<session, home, copy, page>>

(* The response of r ends and the store takes the request's whole copy. *)
Save(r) ==
  /\ pc[r] = "save"
  /\ session' = [session EXCEPT ![home[r]] = copy[r]]
  /\ pc' = [pc EXCEPT ![r] = "done"]
  /\ home' = [home EXCEPT ![r] = None]
  /\ copy' = [copy EXCEPT ![r] = Blank]
  /\ cause' = [cause EXCEPT ![r] = "none"]
  /\ UNCHANGED <<page, world>>

(* The server dies while it handles r: nothing is saved, nothing is answered. *)
Crash(r) ==
  /\ "crash" \in Fails
  /\ pc[r] \notin {"idle", "done"}
  /\ pc' = [pc EXCEPT ![r] = "done"]
  /\ home' = [home EXCEPT ![r] = None]
  /\ copy' = [copy EXCEPT ![r] = Blank]
  /\ cause' = [cause EXCEPT ![r] = "none"]
  /\ page' = [page EXCEPT ![r] = "lost"]
  /\ UNCHANGED <<session, world>>

-------------------------------------------------------------------------------
(* The journey before the answers are submitted, and the requests' starts. *)

(* The candidate signs in and the pages of the journey choose a slot. *)
BeginJourney(s) ==
  /\ ~session[s].live
  /\ MayStart(s)
  /\ \E f \in Fundings, t \in Slots :
       session' = [session EXCEPT ![s] = [Blank EXCEPT !.live = TRUE, !.funding = f, !.slot = t]]
  /\ UNCHANGED <<pc, home, copy, cause, page, world>>

(* An edited location and time is merged into the booking when the answers *)
(* are shown again.                                                        *)
EditSlot(s) ==
  /\ session[s].live
  /\ Revisit \/ session[s].booking = None
  /\ MayStart(s)
  /\ \E t \in Slots \ {session[s].slot} :
       session' = [session EXCEPT ![s].slot = t]
  /\ UNCHANGED <<pc, home, copy, cause, page, world>>

(* The auth middleware lets r in, on the session as it is now. *)
Start(r, s, call) ==
  /\ pc[r] = "idle"
  /\ session[s].live
  /\ MayStart(s)
  /\ pc' = [pc EXCEPT ![r] = call]
  /\ home' = [home EXCEPT ![r] = s]
  /\ copy' = [copy EXCEPT ![r] = session[s]]
  /\ UNCHANGED <<session, cause, page, world>>

StartSubmit(r, s) ==
  /\ Revisit \/ session[s].booking = None
  /\ Start(r, s, IF ExistingCheck THEN "check" ELSE "reserve")

StartInitiate(r, s) ==
  /\ session[s].booking # None
  /\ Revisit \/ session[s].receipt = None
  /\ Start(r, s, "initiate")

StartConfirm(r, s) ==
  /\ session[s].booking # None
  /\ session[s].reservation # None
  /\ session[s].funding = "card" => session[s].receipt # None
  /\ Start(r, s, "settle")

(* The confirmation page takes what it shows and resets the session. *)
ShowConfirmation(s) ==
  /\ session[s].live
  /\ MayStart(s)
  /\ session' = [session EXCEPT ![s] = Blank]
  /\ UNCHANGED <<pc, home, copy, cause, page, world>>

-------------------------------------------------------------------------------
(* POST check-your-answers: look for a booking, reserve the slot, create the *)
(* booking and its product.                                                  *)

(* Faulty variant: the query selects the wrong booking status. *)
HasReservedBooking == \E b \in Requests : crm[b].status = "Reserved"

HasExistingBooking == \E b \in Requests : crm[b].status = "Confirmed"

CheckExisting(r) ==
  /\ pc[r] = "check"
  /\ \/ "check" \in Fails /\ Answer(r, copy[r], "error")
     \/ HasExistingBooking /\ Answer(r, copy[r], "exists")
     \/ ~HasExistingBooking /\ Proceed(r, copy[r], "reserve")
  /\ UNCHANGED world

Taken(t) == \E x \in Requests : tcn[x].status \in {"reserved", "confirmed"} /\ tcn[x].slot = t

Reserve(r) ==
  /\ pc[r] = "reserve"
  /\ \/ Taken(copy[r].slot) /\ Answer(r, copy[r], "slotTaken") /\ UNCHANGED world
     \/ /\ ~Taken(copy[r].slot)
        /\ \E o \in Outcomes("reserve") :
             /\ tcn' = IF Effective(o)
                       THEN [tcn EXCEPT ![r].status = "reserved", ![r].slot = copy[r].slot]
                       ELSE tcn
             /\ IF o = "ok" THEN Proceed(r, [copy[r] EXCEPT !.reservation = r], "create")
                            ELSE Answer(r, copy[r], "error")
        /\ UNCHANGED <<crm, pay, waived>>

(* Faulty variant: the booking is created from the session as it is now. *)
CreateBookingFromStore(r) ==
  /\ pc[r] = "create"
  /\ \E o \in Outcomes("create") :
       /\ crm' = IF Effective(o)
                 THEN [crm EXCEPT ![r].status = "Reserved", ![r].slot = session[home[r]].slot]
                 ELSE crm
       /\ IF o = "ok" THEN Proceed(r, copy[r], "product") ELSE Answer(r, copy[r], "error")
  /\ UNCHANGED <<tcn, pay, waived>>

CreateBooking(r) ==
  /\ pc[r] = "create"
  /\ \E o \in Outcomes("create") :
       /\ crm' = IF Effective(o)
                 THEN [crm EXCEPT ![r].status = "Reserved", ![r].slot = copy[r].slot]
                 ELSE crm
       /\ IF o = "ok" THEN Proceed(r, copy[r], "product") ELSE Answer(r, copy[r], "error")
  /\ UNCHANGED <<tcn, pay, waived>>

(* Only now does the session learn the booking: after a failure it holds the *)
(* new reservation next to the booking and the receipt it held before.       *)
CreateProduct(r) ==
  /\ pc[r] = "product"
  /\ \E o \in Outcomes("product") :
       IF o = "ok" THEN Answer(r, [copy[r] EXCEPT !.booking = r], "continue")
                   ELSE Answer(r, copy[r], "error")
  /\ UNCHANGED world

-------------------------------------------------------------------------------
(* GET payment-initiation, and what happens at the payment gateway. *)

Initiate(r) ==
  /\ pc[r] = "initiate"
  /\ \E o \in Outcomes("initiate") :
       /\ pay' = IF Effective(o)
                 THEN [pay EXCEPT ![r] = [status |-> "pending", for |-> copy[r].booking]]
                 ELSE pay
       /\ IF o = "ok" THEN Proceed(r, copy[r], "bind") ELSE Answer(r, copy[r], "initiationError")
  /\ UNCHANGED <<tcn, crm, waived>>

(* createBindBetweenBookingAndPayment. *)
BoundToPayment(b, p) == [crm EXCEPT ![b].payment = p]

(* Faulty variant: the bind reads the booking from the session as it is now. *)
BindFromStore(r) ==
  /\ pc[r] = "bind"
  /\ \E o \in Outcomes("bind") :
       crm' = IF Effective(o) THEN [crm EXCEPT ![session[home[r]].booking].payment = r] ELSE crm
  /\ Answer(r, [copy[r] EXCEPT !.receipt = r], "gateway")
  /\ UNCHANGED <<tcn, pay, waived>>

(* A failure to bind the payment to the booking is swallowed. *)
Bind(r) ==
  /\ pc[r] = "bind"
  /\ \E o \in Outcomes("bind") :
       crm' = IF Effective(o) THEN BoundToPayment(copy[r].booking, r) ELSE crm
  /\ Answer(r, [copy[r] EXCEPT !.receipt = r], "gateway")
  /\ UNCHANGED <<tcn, pay, waived>>

(* The candidate pays, is refused or cancels, on the page r redirected to. *)
PayAtGateway(r) ==
  /\ pc[r] = "done" /\ page[r] = "gateway"
  /\ pay[r].status = "pending"
  /\ \E outcome \in {"captured", "declined", "cancelled"} :
       pay' = [pay EXCEPT ![r].status = outcome]
  /\ UNCHANGED <<session, pc, home, copy, cause, page, tcn, crm, waived>>

-------------------------------------------------------------------------------
(* GET payment-confirmation. *)

(* The answers CPMS may give about the payment of r: one that was not captured *)
(* is reported in the response ("declined") or as an error ("other").  The     *)
(* service may fail to say what became of it (fault "paymentCode"), also when  *)
(* it said so before and the slot was then confirmed (fault "requery").        *)
Codes(r) ==
  LET status == pay[copy[r].receipt].status
      fault == IF tcn[copy[r].reservation].status = "confirmed" THEN "requery" ELSE "paymentCode"
  IN  (IF fault \in Fails THEN {"gateway", "system", "unknown"} ELSE {}) \cup
      CASE status = "captured"  -> {"success"}
        [] status = "cancelled" -> {"cancelled"}
        [] OTHER                -> {"declined", "other"}

(* Faulty variant: the code of a response that is no error is not looked at. *)
SettleByCardUnchecked(r) ==
  /\ pc[r] = "settle" /\ copy[r].funding = "card"
  /\ \E code \in Codes(r) :
       IF code \in {"success", "declined"}
       THEN Proceed(r, copy[r], "confirmSlot") ELSE GiveUp(r, code)
  /\ UNCHANGED world

SettleByCard(r) ==
  /\ pc[r] = "settle" /\ copy[r].funding = "card"
  /\ \E code \in Codes(r) :
       IF code = "success" THEN Proceed(r, copy[r], "confirmSlot") ELSE GiveUp(r, code)
  /\ UNCHANGED world

(* CPMS compensates the booking, or the CRM marks it as zero cost. *)
SettleWithoutCard(r) ==
  /\ pc[r] = "settle" /\ copy[r].funding # "card"
  /\ \E o \in Outcomes("settle") :
       /\ waived' = IF Effective(o) THEN waived \cup {copy[r].booking} ELSE waived
       /\ IF o = "ok" THEN Proceed(r, copy[r], "confirmSlot") ELSE Answer(r, copy[r], "error")
  /\ UNCHANGED <<tcn, crm, pay>>

(* A reservation is confirmed once; to confirm it again for the same booking *)
(* may be accepted or refused.                                               *)
Confirmable(x, b) == \/ tcn[x].status = "reserved"
                     \/ tcn[x].status = "confirmed" /\ tcn[x].ref = b

(* Faulty variant: a slot that could not be confirmed does not end it. *)
ConfirmSlotUnchecked(r) ==
  LET x == copy[r].reservation
      b == copy[r].booking
  IN  /\ pc[r] = "confirmSlot"
      /\ tcn' = IF Confirmable(x, b)
                THEN [tcn EXCEPT ![x].status = "confirmed", ![x].ref = b] ELSE tcn
      /\ Proceed(r, copy[r], "confirmCrm")
      /\ UNCHANGED <<crm, pay, waived>>

ConfirmSlot(r) ==
  LET x == copy[r].reservation
      b == copy[r].booking
      refusable == tcn[x].status # "confirmed" \/ "reconfirm" \in Fails
  IN  /\ pc[r] = "confirmSlot"
      /\ \/ /\ Confirmable(x, b)
            /\ \E o \in Outcomes("confirmSlot") :
                 /\ o = "ok" \/ refusable
                 /\ tcn' = IF Effective(o)
                           THEN [tcn EXCEPT ![x].status = "confirmed", ![x].ref = b]
                           ELSE tcn
                 /\ IF o = "ok" THEN Proceed(r, copy[r], "confirmCrm") ELSE GiveUp(r, "slot")
            /\ UNCHANGED <<crm, pay, waived>>
         \/ ~Confirmable(x, b) /\ GiveUp(r, "slot") /\ UNCHANGED world

(* Faulty variant: a failed CRM update unreserves the confirmed booking. *)
ConfirmCrmOrGiveUp(r) ==
  /\ pc[r] = "confirmCrm"
  /\ \E o \in Outcomes("confirmCrm") :
       /\ crm' = IF Effective(o) THEN [crm EXCEPT ![copy[r].booking].status = "Confirmed"] ELSE crm
       /\ IF o = "ok" THEN Answer(r, copy[r], "confirmed") ELSE GiveUp(r, "slot")
  /\ UNCHANGED <<tcn, pay, waived>>

(* The booking becomes Confirmed and is bound to the payment.  A failure is *)
(* answered with the generic error page and the session is kept.            *)
ConfirmCrm(r) ==
  LET b == copy[r].booking
      payment == IF copy[r].funding = "card" THEN copy[r].receipt ELSE crm[b].payment
  IN  /\ pc[r] = "confirmCrm"
      /\ \E o \in Outcomes("confirmCrm") :
           /\ crm' = IF Effective(o)
                     THEN [crm EXCEPT ![b].status = "Confirmed", ![b].payment = payment]
                     ELSE crm
           /\ Answer(r, copy[r], IF o = "ok" THEN "confirmed" ELSE "error")
      /\ UNCHANGED <<tcn, pay, waived>>

-------------------------------------------------------------------------------
(* Giving a booking up: delete the reservation, then set the CRM status. *)

(* Faulty variant: the slot is deleted even when it has been confirmed. *)
DeleteSlot(r) ==
  LET x == copy[r].reservation
  IN  /\ pc[r] = "delete"
      /\ \E o \in Outcomes("delete") :
           tcn' = IF Effective(o) THEN [tcn EXCEPT ![x].status = "released"] ELSE tcn
      /\ Proceed(r, copy[r], "status")
      /\ UNCHANGED <<crm, pay, waived>>

(* A reservation that is gone is tolerated and any other failure swallowed. *)
DeleteReservation(r) ==
  LET x == copy[r].reservation
  IN  /\ pc[r] = "delete"
      /\ \E o \in Outcomes("delete") :
           tcn' = IF Effective(o) /\ tcn[x].status = "reserved"
                  THEN [tcn EXCEPT ![x].status = "released"] ELSE tcn
      /\ Proceed(r, copy[r], "status")
      /\ UNCHANGED <<crm, pay, waived>>

(* Faulty variants: the cause is written as the status; a booking whose slot *)
(* was refused stays Reserved.                                               *)
StatusIsCause(why) == why
StatusKeptForSlot(why) == CASE why = "cancelled"             -> "Abandoned"
                            [] why \in {"gateway", "system"} -> "SystemError"
                            [] why = "slot"                  -> "Reserved"
                            [] OTHER                         -> "Draft"

StatusFor(why) == CASE why = "cancelled"             -> "Abandoned"
                    [] why \in {"gateway", "system"} -> "SystemError"
                    [] OTHER                         -> "Draft"

PageFor(why) == CASE why = "cancelled" -> "cancelled"
                  [] why = "system"    -> "systemError"
                  [] why = "unknown"   -> "confirmationError"
                  [] why = "slot"      -> "slotError"
                  [] OTHER             -> "unsuccessful"

(* What the handler does when the status update throws.  After a declined   *)
(* payment the error is caught by the handler of unknown errors, which gives *)
(* the booking up again; after a refused slot completeBooking swallows it;  *)
(* otherwise it is the answer.                                              *)
StatusFailed(r) ==
  CASE cause[r] = "declined" -> GiveUp(r, "unknown")
    [] cause[r] = "slot"     -> Answer(r, Blank, PageFor("slot"))
    [] OTHER                 -> Answer(r, Blank, "error")

SetStatus(r) ==
  LET b == copy[r].booking
      payment == IF cause[r] = "cancelled" THEN copy[r].receipt ELSE crm[b].payment
  IN  /\ pc[r] = "status"
      /\ \E o \in Outcomes("status") :
           /\ crm' = IF Effective(o)
                     THEN [crm EXCEPT ![b].status = StatusFor(cause[r]), ![b].payment = payment]
                     ELSE crm
           /\ IF o = "ok" THEN Answer(r, Blank, PageFor(cause[r])) ELSE StatusFailed(r)
      /\ UNCHANGED <<tcn, pay, waived>>

-------------------------------------------------------------------------------
(* Reservations and sessions that run out. *)

ExpireReservation(x) ==
  /\ "slotExpiry" \in Fails
  /\ tcn[x].status = "reserved"
  /\ tcn' = [tcn EXCEPT ![x].status = "released"]
  /\ UNCHANGED <<session, pc, home, copy, cause, page, crm, pay, waived>>

ExpireSession(s) ==
  /\ "sessionExpiry" \in Fails
  /\ session[s].live
  /\ session' = [session EXCEPT ![s] = Blank]
  /\ UNCHANGED <<pc, home, copy, cause, page, world>>

-------------------------------------------------------------------------------
Submit(r) == CheckExisting(r) \/ Reserve(r) \/ CreateBooking(r) \/ CreateProduct(r)
InitiatePayment(r) == Initiate(r) \/ Bind(r)
Unreserve(r) == DeleteReservation(r) \/ SetStatus(r)
Confirm(r) == \/ SettleByCard(r) \/ SettleWithoutCard(r)
              \/ ConfirmSlot(r) \/ ConfirmCrm(r) \/ Unreserve(r)

(* The steps a request takes on its own, once it has started. *)
Handle(r) == Submit(r) \/ InitiatePayment(r) \/ Confirm(r) \/ Save(r)

Next ==
  \/ \E s \in Sessions : BeginJourney(s) \/ EditSlot(s) \/ ShowConfirmation(s) \/ ExpireSession(s)
  \/ \E r \in Requests, s \in Sessions :
       StartSubmit(r, s) \/ StartInitiate(r, s) \/ StartConfirm(r, s)
  \/ \E r \in Requests : Handle(r) \/ PayAtGateway(r) \/ Crash(r) \/ ExpireReservation(r)

Spec == Init /\ [][Next]_vars

(* A handler that waits for a call always gets an answer or a timeout, so it *)
(* goes on; nothing obliges a candidate to do anything.                      *)
FairSpec == Spec /\ \A r \in Requests : WF_vars(Handle(r))

-------------------------------------------------------------------------------
(* Properties.  Those marked (no revisits) need ~Revisit. *)

Settled(b) == \/ b \in waived
              \/ \E p \in Requests : pay[p].status = "captured" /\ pay[p].for = b

Secures(x, b) == tcn[x].status = "confirmed" /\ tcn[x].ref = b

(* A booking the CRM holds as Confirmed has its slot confirmed in the       *)
(* scheduling service: completeBooking never reaches the CRM update without *)
(* the slot, whatever overlaps, fails or is lost.                           *)
ConfirmedIsSecured ==
  \A b \in Requests : crm[b].status = "Confirmed" => \E x \in Requests : Secures(x, b)

(* A slot is confirmed only for a booking that was itself settled: a card   *)
(* payment captured for that booking, a compensation or a zero cost mark    *)
(* (no revisits).                                                           *)
SecuredIsPaid ==
  \A x \in Requests : tcn[x].status = "confirmed" => Settled(tcn[x].ref)

(* The slot that is confirmed is the slot the CRM booking shows             *)
(* (no revisits).                                                           *)
RightSlot ==
  \A x \in Requests : tcn[x].status = "confirmed" => crm[tcn[x].ref].slot = tcn[x].slot

(* A booking is only ever bound to a payment that was made for it, whether  *)
(* by the bind, by the confirmation or by the cancellation (no revisits).   *)
BoundToOwnPayment ==
  \A b \in Requests : crm[b].payment # None => pay[crm[b].payment].for = b

(* When the confirmation is about to be answered, and its e-mail sent from  *)
(* the session's data, the slot it names is the one confirmed for that      *)
(* booking (no revisits).                                                   *)
ConfirmationIsTrue ==
  \A r \in Requests : pc[r] = "save" /\ page[r] = "confirmed" =>
    /\ Secures(copy[r].reservation, copy[r].booking)
    /\ tcn[copy[r].reservation].slot = copy[r].slot

(* A page that says the booking or the order has been cancelled is answered *)
(* only when the CRM no longer holds the booking open or confirmed and its  *)
(* slot is not confirmed (requests of a session one at a time).             *)
CancelledMeansReleased ==
  [][\A r \in Requests : pc[r] # "save" /\ pc'[r] = "save" /\ page'[r] \in CancelledPages =>
       /\ crm'[copy[r].booking].status \in UnreservedStatuses
       /\ tcn'[copy[r].reservation].status # "confirmed"]_vars

(* A candidate never holds two Confirmed bookings for the same test: "You   *)
(* cannot book this test while an identical booking exists".                *)
OneBookingPerTest ==
  \A b, c \in Requests : crm[b].status = "Confirmed" /\ crm[c].status = "Confirmed" => b = c

(* The stage of a booking, read off the scheduling service and the CRM. *)
Stage(b) ==
  CASE crm[b].status = "none"               -> "absent"
    [] crm[b].status = "Confirmed"          -> "booked"
    [] crm[b].status \in UnreservedStatuses -> "closed"
    [] OTHER -> IF \E x \in Requests : Secures(x, b) THEN "secured" ELSE "open"

(* Once the payment service has been asked about a booking paid by card, the *)
(* booking does not stay open, whatever the answer was and whichever call    *)
(* after it failed: it is given up or it has its slot.  (Without a card, a   *)
(* failure before the slot is confirmed leaves the booking to run out.)      *)
AnswerDecides ==
  \A b \in Requests :
    (\E r \in Requests :
       pc[r] = "settle" /\ copy[r].booking = b /\ copy[r].funding = "card")
      ~> (Stage(b) # "open")

Lifecycle == INSTANCE BookingLifecycle WITH
  Bookings <- Requests,
  stage <- [b \in Requests |-> Stage(b)],
  settled <- {b \in Requests : Settled(b)}

(* One request at a time, a booking lives as BookingLifecycle says. *)
ImplementsLifecycle == Lifecycle!Spec
===============================================================================
