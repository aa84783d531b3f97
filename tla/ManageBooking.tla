----------------------------- MODULE ManageBooking -----------------------------
(***************************************************************************)
(* Changing, cancelling and refunding a booking that already exists.       *)
(*                                                                         *)
(* As in BookingPayment, a member of Requests is one HTTP request, its     *)
(* handler is a sequence of awaited calls that any other request may come  *)
(* between, it works on its own copy of the session and the copy is        *)
(* written back when the response ends.  Requests are used again once they *)
(* are answered.                                                           *)
(*                                                                         *)
(* The pages decide on the list of the candidate's bookings as it was when *)
(* it was last loaded from the CRM.  A call ends as "ok", "fail" (no       *)
(* effect) or "lost" (it took effect, the caller sees an error).           *)
(***************************************************************************)
EXTENDS Naturals

CONSTANTS
  Requests,   \* HTTP requests in flight
  Sessions,   \* browser sessions of one candidate
  Bookings,   \* the candidate's bookings
  ZeroCost,   \* those that cost nothing
  Slots,      \* appointment slots, one place each
  None,
  Overlap,    \* may a session have two requests in flight?
  Revisit,    \* may a candidate post a page his list no longer offers?
  Fails,      \* calls that may be refused, and faults that may happen
  Loses       \* calls whose answer may be lost

ASSUME ConstantsAssumption ==
  /\ None \notin Requests \cup Sessions \cup Bookings \cup Slots
  /\ "support" \notin Slots \cup {None}
  /\ "other" \notin Requests \cup {None}
  /\ ZeroCost \subseteq Bookings
  /\ {Overlap, Revisit} \subseteq BOOLEAN

VARIABLES
  session,   \* what the session store holds
  pc,        \* the call a request is about to make
  home,      \* the session a request belongs to while it is in flight
  copy,      \* the request's own copy of the session
  subject,   \* the booking the request is about
  page,      \* what the request is going to answer
  rows,      \* the bookings the home page is going to list as valid
  tcn,       \* the slot each booking holds in the scheduling service
  held,      \* who holds the reservation of each slot
  crm,       \* the bookings in the CRM
  returns,   \* how often the fee of a booking was refunded or recognised
  age        \* how near the day of each slot is

vars == <<session, pc, home, copy, subject, page, rows, tcn, held, crm, returns, age>>
request == <<pc, home, copy, subject, page, rows>>
world == <<tcn, held, crm, returns, age>>

-------------------------------------------------------------------------------
ChangeCalls == {"reserve", "mark", "vacate", "occupy", "record"}
CancelCalls == {"markCancel", "money", "deleteSlot", "cancelCrm"}
Calls == ChangeCalls \cup CancelCalls \cup
         {"login", "list", "probe", "view", "support", "reload", "refund", "recognise", "reloadList"}
Pages == {"none", "home", "view", "changed", "supported", "changeError", "slotTaken", "noRetry",
          "cancelled", "cancelError", "refundSent", "error"}

Statuses == {"Confirmed", "ChangeInProgress", "CancellationInProgress", "Cancelled"}

(* A booking as the session lists it: dated says that the last day to refund *)
(* or to change it is known, settled that its fee is known to be dealt with. *)
Entries == [status: Statuses \cup {"unlisted"}, slot: Slots \cup {None},
            dated: BOOLEAN, settled: BOOLEAN]
Unlisted == [status |-> "unlisted", slot |-> None, dated |-> FALSE, settled |-> FALSE]

(* The booking last looked at and the change chosen; chosenFor, which the code *)
(* does not keep, is the booking whose page the change was chosen on.          *)
SessionData == [live: BOOLEAN, list: [Bookings -> Entries], current: Bookings \cup {None},
                edit: Slots \cup {None, "support"}, chosenFor: Bookings \cup {None}]
Blank == [live |-> FALSE, list |-> [b \in Bookings |-> Unlisted],
          current |-> None, edit |-> None, chosenFor |-> None]

CrmBookings == [status: Statuses, slot: Slots, owed: BOOLEAN]

TypeOK ==
  /\ session \in [Sessions -> SessionData]
  /\ pc \in [Requests -> Calls \cup {"idle", "save"}]
  /\ home \in [Requests -> Sessions \cup {None}]
  /\ copy \in [Requests -> SessionData]
  /\ subject \in [Requests -> Bookings \cup {None}]
  /\ page \in [Requests -> Pages]
  /\ rows \in [Requests -> SUBSET Bookings]
  /\ tcn \in [Bookings -> Slots \cup {None}]
  /\ held \in [Slots -> Requests \cup {None, "other"}]
  /\ crm \in [Bookings -> CrmBookings]
  /\ returns \in [Bookings -> 0..2]
  /\ age \in [Slots -> {"early", "late", "today"}]

(* Bookings that were paid for and confirmed, each with a slot of its own. *)
Init ==
  /\ session = [s \in Sessions |-> Blank]
  /\ pc = [r \in Requests |-> "idle"]
  /\ home = [r \in Requests |-> None]
  /\ copy = [r \in Requests |-> Blank]
  /\ subject = [r \in Requests |-> None]
  /\ page = [r \in Requests |-> "none"]
  /\ rows = [r \in Requests |-> {}]
  /\ tcn \in [Bookings -> Slots]
  /\ \A b, c \in Bookings : tcn[b] = tcn[c] => b = c
  /\ held = [t \in Slots |-> None]
  /\ crm = [b \in Bookings |-> [status |-> "Confirmed", slot |-> tcn[b], owed |-> FALSE]]
  /\ returns = [b \in Bookings |-> 0]
  /\ age = [t \in Slots |-> "early"]

-------------------------------------------------------------------------------
(* The outcomes of a call, and the outcomes that took effect. *)
Outcomes(call) == {o \in {"ok", "fail", "lost"} :
                     /\ o = "fail" => call \in Fails
                     /\ o = "lost" => call \in Loses}
Effective(o) == o \in {"ok", "lost"}

Busy(s) == \E r \in Requests : home[r] = s
MayStart(s) == Overlap \/ ~Busy(s)

(* The handler of r goes on to its next call. *)
Proceed(r, call) ==
  /\ pc' = [pc EXCEPT ![r] = call]
  /\ UNCHANGED <<session, home, copy, subject, page, rows>>

(* The handler of r knows its answer and first makes this call. *)
ProceedTo(r, call, p) ==
  /\ pc' = [pc EXCEPT ![r] = call]
  /\ page' = [page EXCEPT ![r] = p]
  /\ UNCHANGED <<session, home, copy, subject, rows>>

(* The handler of r ends with this copy of the session and this answer. *)
Answer(r, data, p) ==
  /\ pc' = [pc EXCEPT ![r] = "save"]
  /\ copy' = [copy EXCEPT ![r] = data]
  /\ page' = [page EXCEPT ![r] = p]
  /\ UNCHANGED <<session, home, subject, rows>>

Forget(r) ==
  /\ pc' = [pc EXCEPT ![r] = "idle"]
  /\ home' = [home EXCEPT ![r] = None]
  /\ copy' = [copy EXCEPT ![r] = Blank]
  /\ subject' = [subject EXCEPT ![r] = None]
  /\ page' = [page EXCEPT ![r] = "none"]
  /\ rows' = [rows EXCEPT ![r] = {}]

(* The response of r ends and the store takes the request's whole copy. *)
Save(r) ==
  /\ pc[r] = "save"
  /\ session' = [session EXCEPT ![home[r]] = copy[r]]
  /\ Forget(r)
  /\ UNCHANGED world

(* The server dies while it handles r. *)
Crash(r) ==
  /\ "crash" \in Fails
  /\ pc[r] # "idle"
  /\ Forget(r)
  /\ UNCHANGED <<session, world>>

(* A request of session s about booking b starts, on this copy of the session. *)
Start(r, s, b, data, call) ==
  /\ pc[r] = "idle"
  /\ MayStart(s)
  /\ pc' = [pc EXCEPT ![r] = call]
  /\ home' = [home EXCEPT ![r] = s]
  /\ copy' = [copy EXCEPT ![r] = data]
  /\ subject' = [subject EXCEPT ![r] = b]
  /\ UNCHANGED <<session, page, rows, world>>

-------------------------------------------------------------------------------
(* The list of bookings. *)

(* What the CRM lists of b.  The payment of a booking is looked up only while *)
(* it is being cancelled, and the CRM may learn of it late.                   *)
Listed(b, lagging) ==
  IF crm[b].status = "Cancelled" /\ ~crm[b].owed THEN Unlisted
  ELSE [status |-> crm[b].status, slot |-> crm[b].slot, dated |-> FALSE,
        settled |-> crm[b].status = "CancellationInProgress" /\ returns[b] > 0 /\ ~lagging]

Lags == IF "financeLag" \in Fails THEN BOOLEAN ELSE {FALSE}
Loaded(lagging) == [b \in Bookings |-> Listed(b, lagging)]

(* Faulty variant: the payment of a booking being cancelled is not looked at. *)
ViewableUnpaid(e) == e.status \in {"Confirmed", "ChangeInProgress", "CancellationInProgress", "Cancelled"}

Viewable(e) == \/ e.status \in {"Confirmed", "ChangeInProgress", "Cancelled"}
               \/ e.status = "CancellationInProgress" /\ ~e.settled

IsListed(data, b) == data.live /\ data.list[b].status # "unlisted"
HasCurrent(data) == data.current # None /\ IsListed(data, data.current)

StartLogin(r, s) ==
  /\ ~session[s].live
  /\ Start(r, s, None, Blank, "login")

LogIn(r) ==
  /\ pc[r] = "login"
  /\ \/ \E lagging \in Lags :
          Answer(r, [Blank EXCEPT !.live = TRUE, !.list = Loaded(lagging)], "home")
     \/ "load" \in Fails /\ Answer(r, Blank, "error")
  /\ UNCHANGED world

StartHome(r, s) ==
  /\ session[s].live
  /\ Start(r, s, None, session[s], "list")

ListBookings(r) ==
  /\ pc[r] = "list"
  /\ \/ \E lagging \in Lags :
          /\ pc' = [pc EXCEPT ![r] = "probe"]
          /\ copy' = [copy EXCEPT ![r].list = Loaded(lagging)]
          /\ UNCHANGED <<session, home, subject, page, rows>>
     \/ "load" \in Fails /\ Answer(r, copy[r], "error")
  /\ UNCHANGED world

(* A booking whose change is in progress is listed as valid when the          *)
(* scheduling service still knows it.                                         *)
ProbeChanges(r) ==
  LET list == copy[r].list
      viewable == {b \in Bookings : Viewable(list[b])}
      changing == {b \in viewable : list[b].status = "ChangeInProgress"}
  IN  /\ pc[r] = "probe"
      /\ \E unanswered \in SUBSET changing :
           /\ unanswered # {} => "probe" \in Fails
           /\ rows' = [rows EXCEPT ![r] = viewable \ {b \in changing : b \in unanswered \/ tcn[b] = None}]
      /\ pc' = [pc EXCEPT ![r] = "save"]
      /\ page' = [page EXCEPT ![r] = "home"]
      /\ UNCHANGED <<session, home, copy, subject, world>>

NoChange(data) == [data EXCEPT !.edit = None, !.chosenFor = None]

(* Faulty variant: a change chosen before is kept. *)
StartViewKeepingEdits(r, s, b) ==
  /\ IsListed(session[s], b)
  /\ Viewable(session[s].list[b])
  /\ Start(r, s, b, [session[s] EXCEPT !.current = b], "view")

(* The page of one booking: it becomes the current one and a change chosen    *)
(* before is dropped.  The last day to change it is asked for when missing.   *)
StartView(r, s, b) ==
  /\ IsListed(session[s], b)
  /\ Viewable(session[s].list[b])
  /\ Start(r, s, b, [NoChange(session[s]) EXCEPT !.current = b], "view")

ViewBooking(r) ==
  LET b == subject[r]
      e == copy[r].list[b]
  IN  /\ pc[r] = "view"
      /\ \/ Answer(r, [copy[r] EXCEPT !.list[b].dated = e.dated \/ age[e.slot] # "today"], "view")
         \/ "window" \in Fails /\ ~e.dated /\ age[e.slot] # "today" /\ Answer(r, copy[r], "view")
      /\ UNCHANGED world

Taken(t) == held[t] # None \/ \E b \in Bookings : tcn[b] = t

(* The pages of the change: a slot that is offered, or other support options. *)
(* A page left open may have been shown for another booking.                  *)
ChooseChange(s) ==
  /\ HasCurrent(session[s])
  /\ MayStart(s)
  /\ \E change \in {t \in Slots : ~Taken(t)} \cup {"support"}, b \in Bookings :
       /\ Revisit \/ b = session[s].current
       /\ session' = [session EXCEPT ![s] = [session[s] EXCEPT !.edit = change, !.chosenFor = b]]
  /\ UNCHANGED <<request, world>>

Finished(data) == [NoChange(data) EXCEPT !.current = None]

(* The candidate drops the change. *)
ResetChange(s) ==
  /\ HasCurrent(session[s])
  /\ MayStart(s)
  /\ session' = [session EXCEPT ![s] = Finished(session[s])]
  /\ UNCHANGED <<request, world>>

-------------------------------------------------------------------------------
(* POST manage-booking/check-change. *)

Reschedulable(e) == e.dated /\ age[e.slot] = "early"

(* The home page links to the pages of these bookings; the handlers that      *)
(* change and cancel a booking do not look at its status.                     *)
Offered(e) == Viewable(e) /\ e.status # "Cancelled"

(* An edited slot comes before the other edits. *)
StartChange(r, s) ==
  LET data == session[s]
      b == data.current
      e == data.list[b]
  IN  /\ HasCurrent(data)
      /\ Revisit \/ Offered(e)
      /\ \/ data.edit \in Slots /\ Reschedulable(e) /\ Start(r, s, b, data, "reserve")
         \/ data.edit = "support" /\ Start(r, s, b, data, "support")

(* A handler that makes no call before it knows its answer. *)
StartDecided(r, s, data, call, p) ==
  /\ pc[r] = "idle"
  /\ MayStart(s)
  /\ pc' = [pc EXCEPT ![r] = call]
  /\ home' = [home EXCEPT ![r] = s]
  /\ copy' = [copy EXCEPT ![r] = data]
  /\ subject' = [subject EXCEPT ![r] = session[s].current]
  /\ page' = [page EXCEPT ![r] = p]
  /\ UNCHANGED <<session, rows, world>>

(* A booking that may not be moved, or whose last day is not known, is an     *)
(* error after a reload; without any edit the change counts as made.          *)
StartUndone(r, s) ==
  LET data == session[s]
      e == data.list[data.current]
  IN  /\ HasCurrent(data)
      /\ Revisit \/ Offered(e)
      /\ \/ data.edit \in Slots /\ ~Reschedulable(e) /\ StartDecided(r, s, data, "reload", "error")
         \/ data.edit = None /\ StartDecided(r, s, Finished(data), "save", "changed")

(* What the CRM holds after each of the updates that concern a booking. *)
UpdatedStatus(b, status) == [crm EXCEPT ![b].status = status]
RescheduledAndConfirmed(b, t) == [crm EXCEPT ![b].status = "Confirmed", ![b].slot = t]
MarkedCancelled(b) == UpdatedStatus(b, "Cancelled")

ReserveNewSlot(r) ==
  LET t == copy[r].edit
  IN  /\ pc[r] = "reserve"
      /\ \/ Taken(t) /\ ProceedTo(r, "reload", "slotTaken") /\ UNCHANGED held
         \/ /\ ~Taken(t)
            /\ \E o \in Outcomes("reserve") :
                 /\ held' = IF Effective(o) THEN [held EXCEPT ![t] = r] ELSE held
                 /\ IF o = "ok" THEN Proceed(r, "mark") ELSE ProceedTo(r, "reload", "changeError")
      /\ UNCHANGED <<tcn, crm, returns, age>>

MarkChanging(r) ==
  /\ pc[r] = "mark"
  /\ \E o \in Outcomes("mark") :
       /\ crm' = IF Effective(o) THEN UpdatedStatus(subject[r], "ChangeInProgress") ELSE crm
       /\ IF o = "ok" THEN Proceed(r, "vacate") ELSE ProceedTo(r, "reload", "changeError")
  /\ UNCHANGED <<tcn, held, returns, age>>

(* Faulty variant: a booking that the scheduling service does not know is no  *)
(* error, as for a reservation.                                               *)
VacateTolerant(r) ==
  /\ pc[r] = "vacate"
  /\ \E o \in Outcomes("vacate") :
       /\ tcn' = IF Effective(o) THEN [tcn EXCEPT ![subject[r]] = None] ELSE tcn
       /\ IF o = "ok" THEN Proceed(r, "occupy") ELSE ProceedTo(r, "reload", "changeError")
  /\ UNCHANGED <<held, crm, returns, age>>

(* The old slot is given up; a booking the scheduling service does not know   *)
(* is an error.                                                               *)
VacateOldSlot(r) ==
  LET b == subject[r]
  IN  /\ pc[r] = "vacate"
      /\ \/ tcn[b] = None /\ ProceedTo(r, "reload", "changeError") /\ UNCHANGED tcn
         \/ /\ tcn[b] # None
            /\ \E o \in Outcomes("vacate") :
                 /\ tcn' = IF Effective(o) THEN [tcn EXCEPT ![b] = None] ELSE tcn
                 /\ IF o = "ok" THEN Proceed(r, "occupy") ELSE ProceedTo(r, "reload", "changeError")
      /\ UNCHANGED <<held, crm, returns, age>>

(* Faulty variant: a slot that could not be confirmed does not end the change. *)
OccupyUnchecked(r) ==
  LET t == copy[r].edit
  IN  /\ pc[r] = "occupy"
      /\ \E o \in Outcomes("occupy") :
           /\ tcn' = IF Effective(o) /\ held[t] = r THEN [tcn EXCEPT ![subject[r]] = t] ELSE tcn
           /\ held' = IF Effective(o) /\ held[t] = r THEN [held EXCEPT ![t] = None] ELSE held
      /\ Proceed(r, "record")
      /\ UNCHANGED <<crm, returns, age>>

OccupyNewSlot(r) ==
  LET t == copy[r].edit
  IN  /\ pc[r] = "occupy"
      /\ \/ held[t] # r /\ ProceedTo(r, "reload", "noRetry") /\ UNCHANGED <<tcn, held>>
         \/ /\ held[t] = r
            /\ \E o \in Outcomes("occupy") :
                 /\ tcn' = IF Effective(o) THEN [tcn EXCEPT ![subject[r]] = t] ELSE tcn
                 /\ held' = IF Effective(o) THEN [held EXCEPT ![t] = None] ELSE held
                 /\ IF o = "ok" THEN Proceed(r, "record") ELSE ProceedTo(r, "reload", "noRetry")
      /\ UNCHANGED <<crm, returns, age>>

(* Faulty variant: the slot is written and the status is not. *)
RecordSlotOnly(r) ==
  /\ pc[r] = "record"
  /\ \E o \in Outcomes("record") :
       crm' = IF Effective(o) THEN [crm EXCEPT ![subject[r]].slot = copy[r].edit] ELSE crm
  /\ ProceedTo(r, "reload", "changed")
  /\ UNCHANGED <<tcn, held, returns, age>>

(* Faulty variant: the chosen slot is read after the changes were reset. *)
RecordAfterReset(r) ==
  /\ pc[r] = "record"
  /\ crm' = [crm EXCEPT ![subject[r]].status = "Confirmed",
                        ![subject[r]].slot = NoChange(copy[r]).edit]
  /\ ProceedTo(r, "reload", "changed")
  /\ UNCHANGED <<tcn, held, returns, age>>

(* The CRM takes the new slot and the booking is Confirmed again.  A failure  *)
(* is not fatal: the change is answered as made.                              *)
RecordChange(r) ==
  LET b == subject[r]
  IN  /\ pc[r] = "record"
      /\ \E o \in Outcomes("record") :
           crm' = IF Effective(o) THEN RescheduledAndConfirmed(b, copy[r].edit) ELSE crm
      /\ ProceedTo(r, "reload", "changed")
      /\ UNCHANGED <<tcn, held, returns, age>>

(* Language, voiceover or sign language: the CRM alone is updated. *)
UpdateSupport(r) ==
  /\ pc[r] = "support"
  /\ \E o \in Outcomes("support") :
       ProceedTo(r, "reload", IF o = "ok" THEN "supported" ELSE "changeError")
  /\ UNCHANGED world

(* Faulty variant: after a change the list is not taken over. *)
AfterReloadKeepingList(data, p, b, list, dated) ==
  CASE p = "noRetry" -> Blank
    [] p \in {"changed", "supported"} -> Finished(data)
    [] OTHER -> [data EXCEPT !.list = [list EXCEPT ![b].dated = dated]]

(* The session after the bookings were loaded again: the error that cannot be *)
(* retried resets it, a change that was made forgets the current booking.     *)
AfterReload(data, p, b, list, dated) ==
  LET fresh == [data EXCEPT !.list = [list EXCEPT ![b].dated = dated]]
  IN  CASE p = "noRetry" -> Blank
        [] p \in {"changed", "supported"} -> Finished(fresh)
        [] OTHER -> fresh

(* The last day to change the booking is asked for with the reload, but not   *)
(* on the day itself and not when its language was changed.                   *)
Dates(b, list, edit) ==
  IF list[b].status = "unlisted" \/ age[list[b].slot] = "today" THEN {FALSE}
  ELSE IF "window" \in Fails \/ edit = "support" THEN BOOLEAN ELSE {TRUE}

Reload(r) ==
  LET b == subject[r]
  IN  /\ pc[r] = "reload"
      /\ \E lagging \in Lags :
           LET list == Loaded(lagging)
           IN  \E dated \in Dates(b, list, copy[r].edit) :
                 Answer(r, AfterReload(copy[r], page[r], b, list, dated),
                        IF page[r] = "supported" THEN "changed" ELSE page[r])
      /\ UNCHANGED world

(* A reload that fails ends in the handler around it: one more reload and     *)
(* another answer, except after a change of slot, where it is not fatal.      *)
ReloadFails(r) ==
  /\ pc[r] = "reload"
  /\ "load" \in Fails
  /\ CASE page[r] = "changed" -> Answer(r, Finished(copy[r]), "changed")
       [] page[r] = "error"   -> Answer(r, copy[r], "error")
       [] page[r] \in {"noRetry", "supported"} -> ProceedTo(r, "reload", "changeError")
       [] OTHER -> ProceedTo(r, "reload", "error")
  /\ UNCHANGED world

-------------------------------------------------------------------------------
(* POST manage-booking/:ref/cancel. *)

StartCancel(r, s, b) ==
  LET e == session[s].list[b]
  IN  /\ IsListed(session[s], b)
      /\ Revisit \/ Offered(e)
      /\ age[e.slot] # "today"
      /\ Start(r, s, b, session[s], "markCancel")

MarkCancelling(r) ==
  LET b == subject[r]
  IN  /\ pc[r] = "markCancel"
      /\ \E o \in Outcomes("markCancel") :
           /\ crm' = IF Effective(o) THEN UpdatedStatus(b, "CancellationInProgress") ELSE crm
           /\ IF o # "ok" THEN ProceedTo(r, "reloadList", "cancelError")
              ELSE Proceed(r, IF b \in ZeroCost THEN "deleteSlot" ELSE "money")
      /\ UNCHANGED <<tcn, held, returns, age>>

(* Two returns are as bad as more. *)
Returned(b) == [returns EXCEPT ![b] = IF returns[b] < 2 THEN returns[b] + 1 ELSE 2]

Refundable(e) == age[e.slot] = "early"

(* Faulty variant: an error of the payment service does not end the cancelling. *)
SettleUnchecked(r) ==
  /\ pc[r] = "money"
  /\ \E o \in Outcomes("money") :
       returns' = IF Effective(o) THEN Returned(subject[r]) ELSE returns
  /\ Proceed(r, "deleteSlot")
  /\ UNCHANGED <<tcn, held, crm, age>>

(* A refund before the last day, else the income is recognised.  When that    *)
(* day is not known the handler throws.  A refund that is answered with       *)
(* another code than success is only logged.                                  *)
SettleFee(r) ==
  LET b == subject[r]
      e == copy[r].list[b]
      known == e.dated \/ age[e.slot] = "today"
  IN  /\ pc[r] = "money"
      /\ \/ ~known /\ ProceedTo(r, "reloadList", "cancelError") /\ UNCHANGED returns
         \/ /\ known
            /\ \E o \in Outcomes("money") :
                 /\ returns' = IF Effective(o) THEN Returned(b) ELSE returns
                 /\ IF o = "ok" THEN Proceed(r, "deleteSlot")
                    ELSE ProceedTo(r, "reloadList", "cancelError")
         \/ /\ known /\ Refundable(e) /\ "refundCode" \in Fails
            /\ Proceed(r, "deleteSlot")
            /\ UNCHANGED returns
      /\ UNCHANGED <<tcn, held, crm, age>>

(* A failure to delete the slot or to update the CRM is swallowed. *)
DeleteScheduledSlot(r) ==
  /\ pc[r] = "deleteSlot"
  /\ \E o \in Outcomes("deleteSlot") :
       tcn' = IF Effective(o) THEN [tcn EXCEPT ![subject[r]] = None] ELSE tcn
  /\ Proceed(r, "cancelCrm")
  /\ UNCHANGED <<held, crm, returns, age>>

CancelInCrm(r) ==
  /\ pc[r] = "cancelCrm"
  /\ \E o \in Outcomes("cancelCrm") :
       crm' = IF Effective(o) THEN MarkedCancelled(subject[r]) ELSE crm
  /\ ProceedTo(r, "reloadList", "cancelled")
  /\ UNCHANGED <<tcn, held, returns, age>>

(* The list is loaded again before the answer; a failure is the answer. *)
ReloadList(r) ==
  /\ pc[r] = "reloadList"
  /\ \/ \E lagging \in Lags :
          Answer(r, [copy[r] EXCEPT !.list = Loaded(lagging)], page[r])
     \/ "load" \in Fails /\ Answer(r, copy[r], "error")
  /\ UNCHANGED world

-------------------------------------------------------------------------------
(* POST manage-booking/request-refund, for a booking the agency cancelled. *)

StartRefund(r, s, b) ==
  /\ IsListed(session[s], b)
  /\ session[s].list[b].status = "Cancelled"
  /\ b \notin ZeroCost
  /\ Start(r, s, b, session[s], "refund")

(* The code a refund is answered with is not looked at. *)
RequestRefund(r) ==
  /\ pc[r] = "refund"
  /\ \/ \E o \in Outcomes("money") :
          /\ returns' = IF Effective(o) THEN Returned(subject[r]) ELSE returns
          /\ IF o = "ok" THEN Proceed(r, "recognise") ELSE Answer(r, copy[r], "error")
     \/ "refundCode" \in Fails /\ Proceed(r, "recognise") /\ UNCHANGED returns
  /\ UNCHANGED <<tcn, held, crm, age>>

(* Then the CRM is told that the compensation is no longer owed. *)
RecogniseCompensation(r) ==
  /\ pc[r] = "recognise"
  /\ \E o \in Outcomes("recognise") :
       /\ crm' = IF Effective(o) THEN [crm EXCEPT ![subject[r]].owed = FALSE] ELSE crm
       /\ IF o = "ok" THEN ProceedTo(r, "reloadList", "refundSent") ELSE Answer(r, copy[r], "error")
  /\ UNCHANGED <<tcn, held, returns, age>>

-------------------------------------------------------------------------------
(* What happens outside. *)

(* The agency cancels a test and owes the candidate another one. *)
AgencyCancels(b) ==
  /\ "agency" \in Fails
  /\ crm[b].status = "Confirmed"
  /\ crm' = [crm EXCEPT ![b].status = "Cancelled", ![b].owed = TRUE]
  /\ tcn' = [tcn EXCEPT ![b] = None]
  /\ UNCHANGED <<session, request, held, returns, age>>

(* Another candidate takes a slot; a reservation runs out or is given up. *)
OtherTakes(t) ==
  /\ "others" \in Fails
  /\ ~Taken(t)
  /\ held' = [held EXCEPT ![t] = "other"]
  /\ UNCHANGED <<session, request, tcn, crm, returns, age>>

ReleaseSlot(t) ==
  /\ held[t] # None
  /\ held[t] = "other" \/ "slotExpiry" \in Fails
  /\ held' = [held EXCEPT ![t] = None]
  /\ UNCHANGED <<session, request, tcn, crm, returns, age>>

DayComes(t) ==
  /\ "time" \in Fails
  /\ age[t] # "today"
  /\ age' = [age EXCEPT ![t] = IF age[t] = "early" THEN "late" ELSE "today"]
  /\ UNCHANGED <<session, request, tcn, held, crm, returns>>

ExpireSession(s) ==
  /\ "sessionExpiry" \in Fails
  /\ session[s].live
  /\ session' = [session EXCEPT ![s] = Blank]
  /\ UNCHANGED <<request, world>>

-------------------------------------------------------------------------------
Look(r) == LogIn(r) \/ ListBookings(r) \/ ProbeChanges(r) \/ ViewBooking(r)
Move(r) == \/ ReserveNewSlot(r) \/ MarkChanging(r) \/ VacateOldSlot(r)
           \/ OccupyNewSlot(r) \/ RecordChange(r)
Change(r) == Move(r) \/ UpdateSupport(r) \/ Reload(r) \/ ReloadFails(r)
Cancel(r) == \/ MarkCancelling(r) \/ SettleFee(r) \/ DeleteScheduledSlot(r)
             \/ CancelInCrm(r) \/ ReloadList(r)
Refund(r) == RequestRefund(r) \/ RecogniseCompensation(r)

(* The steps a request takes on its own, once it has started. *)
Handle(r) == Look(r) \/ Change(r) \/ Cancel(r) \/ Refund(r) \/ Save(r)

StartRequest(r, s) ==
  \/ StartLogin(r, s) \/ StartHome(r, s) \/ StartChange(r, s) \/ StartUndone(r, s)
  \/ \E b \in Bookings : StartView(r, s, b) \/ StartCancel(r, s, b) \/ StartRefund(r, s, b)

Next ==
  \/ \E s \in Sessions : ChooseChange(s) \/ ResetChange(s) \/ ExpireSession(s)
  \/ \E r \in Requests, s \in Sessions : StartRequest(r, s)
  \/ \E r \in Requests : Handle(r) \/ Crash(r)
  \/ \E b \in Bookings : AgencyCancels(b)
  \/ \E t \in Slots : OtherTakes(t) \/ ReleaseSlot(t) \/ DayComes(t)

Spec == Init /\ [][Next]_vars

(* A handler that waits for a call always gets an answer or a timeout, so it *)
(* goes on; nothing obliges a candidate to do anything.                      *)
FairSpec == Spec /\ \A r \in Requests : WF_vars(Handle(r))

-------------------------------------------------------------------------------
(* Properties. *)

(* Between the end of the old slot and the new one the booking has no slot,  *)
(* and no second request has given up a slot of the same booking: however    *)
(* changes overlap, a booking is never confirmed into two slots.             *)
OneMover ==
  \A q \in Requests : pc[q] = "occupy" =>
    /\ tcn[subject[q]] = None
    /\ \A r \in Requests : pc[r] = "occupy" /\ subject[r] = subject[q] => r = q

(* A booking the CRM holds as Cancelled with nothing owed had its fee        *)
(* refunded or recognised, or cost nothing: no failure of the payment        *)
(* service is passed over, and a compensation is recognised only after its   *)
(* refund was asked for (the payment service answering without doing it, a   *)
(* code other than success, excepted).                                       *)
CancelledIsPaidBack ==
  \A b \in Bookings : crm[b].status = "Cancelled" /\ ~crm[b].owed =>
    returns[b] > 0 \/ b \in ZeroCost

(* A Confirmed booking holds, in the scheduling service, the slot the CRM    *)
(* shows (requests one at a time, in any number of sessions).                *)
ConfirmedHoldsItsSlot ==
  \A b \in Bookings : crm[b].status = "Confirmed" => tcn[b] = crm[b].slot

(* When the CRM and the scheduling service agree on the slot of a booking,   *)
(* its fee is dealt with by the day of that slot, not of one it had before:  *)
(* it is refunded when the slot is still early and kept as income when it is *)
(* not (requests one at a time, the list loaded whenever it is asked for).   *)
FeeFollowsTheSlotHeld ==
  [][\A r \in Requests :
       LET b == subject[r]
       IN  pc[r] = "money" /\ returns' # returns /\ tcn[b] = crm[b].slot =>
             (Refundable(copy[r].list[b]) <=> age[tcn[b]] = "early")]_vars

(* A slot chosen for one booking never moves another (no revisits).          *)
ChangeIsForItsBooking ==
  \A r \in Requests : pc[r] \in ChangeCalls => copy[r].chosenFor = subject[r]

(* A booking is not left in change: when the services take the change it is  *)
(* Confirmed again.                                                          *)
ChangeSettles ==
  \A b \in Bookings : (crm[b].status = "ChangeInProgress") ~> (crm[b].status # "ChangeInProgress")

(* The home page shows as booked, among the bookings in change, only those   *)
(* that are not in a bad state: the slot shown is the slot held.             *)
ShownSlotIsHeld ==
  [][\A r \in Requests : pc[r] = "probe" /\ pc'[r] = "save" =>
       \A b \in rows'[r] : copy[r].list[b].status = "ChangeInProgress" =>
         tcn[b] = copy[r].list[b].slot]_vars

Ticket == INSTANCE BookingTicket WITH place <- tcn

(* One request at a time, from pages that are offered: a booking moves from  *)
(* slot to slot, its fee goes once, and then it never gets a slot again.     *)
ImplementsTicket == Ticket!Spec
===============================================================================
