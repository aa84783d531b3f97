------------------------- MODULE ManageBookingProofs -------------------------
(* What is proved of ManageBooking for all values of its constants. *)
EXTENDS ManageBooking, TLAPS

(* The updates of the CRM stand for what they leave in it, everywhere. *)
USE DEF UpdatedStatus, RescheduledAndConfirmed, MarkedCancelled

(* The part of the type invariant about requests and sessions. *)
FlowOK ==
  /\ session \in [Sessions -> SessionData]
  /\ pc \in [Requests -> Calls \cup {"idle", "save"}]
  /\ home \in [Requests -> Sessions \cup {None}]
  /\ copy \in [Requests -> SessionData]
  /\ subject \in [Requests -> Bookings \cup {None}]
  /\ page \in [Requests -> Pages]
  /\ rows \in [Requests -> SUBSET Bookings]

(* The part about the services and the calendar. *)
WorldOK ==
  /\ tcn \in [Bookings -> Slots \cup {None}]
  /\ held \in [Slots -> Requests \cup {None, "other"}]
  /\ crm \in [Bookings -> CrmBookings]
  /\ returns \in [Bookings -> 0..2]
  /\ age \in [Slots -> {"early", "late", "today"}]

(* A handler past the guards of its controller is about a booking, and one    *)
(* that changes the slot has been given a slot.                               *)
Equipped ==
  \A r \in Requests :
    /\ pc[r] \in ChangeCalls \cup CancelCalls \cup {"view", "support", "reload", "refund", "recognise"} =>
         subject[r] \in Bookings
    /\ pc[r] \in ChangeCalls => copy[r].edit \in Slots

LEMMA TypeParts == TypeOK <=> FlowOK /\ WorldOK
  BY DEF TypeOK, FlowOK, WorldOK

LEMMA BlankIsData == Blank \in SessionData /\ Unlisted \in Entries
  BY DEF Blank, SessionData, Unlisted, Entries

LEMMA CallsKnown ==
  /\ {"reserve", "mark", "vacate", "occupy", "record", "support", "reload", "markCancel", "money",
      "deleteSlot", "cancelCrm", "reloadList", "refund", "recognise", "login", "list", "probe",
      "view"} = Calls
  /\ {"home", "view", "changed", "supported", "changeError", "slotTaken", "noRetry", "cancelled",
      "cancelError", "refundSent", "error", "none"} = Pages
  BY DEF Calls, ChangeCalls, CancelCalls, Pages

(* The ways a handler goes on keep the types of the requests. *)
LEMMA ProceedType ==
  ASSUME FlowOK, NEW r \in Requests, NEW call \in Calls, Proceed(r, call)
  PROVE  FlowOK'
  BY DEF FlowOK, Proceed

LEMMA ProceedToType ==
  ASSUME FlowOK, NEW r \in Requests, NEW call \in Calls, NEW p \in Pages, ProceedTo(r, call, p)
  PROVE  FlowOK'
  BY DEF FlowOK, ProceedTo

LEMMA AnswerType ==
  ASSUME FlowOK, NEW r \in Requests, NEW d \in SessionData, NEW p \in Pages, Answer(r, d, p)
  PROVE  FlowOK'
  BY DEF FlowOK, Answer

LEMMA StartType ==
  ASSUME FlowOK, NEW r \in Requests, NEW s \in Sessions, NEW b \in Bookings \cup {None},
         NEW d \in SessionData, NEW call \in Calls, Start(r, s, b, d, call)
  PROVE  FlowOK'
  BY DEF FlowOK, Start

LEMMA LoadedType ==
  ASSUME WorldOK, NEW lagging \in BOOLEAN
  PROVE  Loaded(lagging) \in [Bookings -> Entries]
<1>1. ASSUME NEW b \in Bookings PROVE Listed(b, lagging) \in Entries
  BY BlankIsData DEF WorldOK, CrmBookings, Entries, Listed
<1>2. QED BY <1>1 DEF Loaded

LEMMA DataType ==
  ASSUME NEW d \in SessionData
  PROVE  /\ NoChange(d) \in SessionData
         /\ Finished(d) \in SessionData
         /\ d.list \in [Bookings -> Entries]
         /\ d.current \in Bookings \cup {None}
         /\ \A b \in Bookings : [d EXCEPT !.current = b] \in SessionData
         /\ \A list \in [Bookings -> Entries] : [d EXCEPT !.list = list] \in SessionData
  BY DEF SessionData, NoChange, Finished

LEMMA ChosenType ==
  ASSUME NEW d \in SessionData, NEW change \in Slots \cup {"support"}, NEW b \in Bookings
  PROVE  [d EXCEPT !.edit = change, !.chosenFor = b] \in SessionData
<1>1. change \in Slots \cup {None, "support"} /\ b \in Bookings \cup {None}
  OBVIOUS
<1>2. QED BY <1>1 DEF SessionData

LEMMA DatedType ==
  ASSUME NEW list \in [Bookings -> Entries], NEW b, NEW dated \in BOOLEAN
  PROVE  [list EXCEPT ![b].dated = dated] \in [Bookings -> Entries]
  BY DEF Entries

(* The steps of the candidate between two requests. *)
LEMMA BetweenFlow ==
  ASSUME FlowOK, NEW s \in Sessions, ChooseChange(s) \/ ResetChange(s) \/ ExpireSession(s)
  PROVE  FlowOK'
<1>1. CASE ChooseChange(s)
  <2>1. PICK change \in Slots \cup {"support"}, b \in Bookings :
          session' = [session EXCEPT ![s] = [session[s] EXCEPT !.edit = change, !.chosenFor = b]]
    BY <1>1 DEF ChooseChange
  <2>2. [session[s] EXCEPT !.edit = change, !.chosenFor = b] \in SessionData
    BY ChosenType DEF FlowOK
  <2>3. QED BY <1>1, <2>1, <2>2 DEF ChooseChange, FlowOK, request
<1>2. CASE ResetChange(s)
  <2>1. Finished(session[s]) \in SessionData
    BY DataType DEF FlowOK
  <2>2. QED BY <1>2, <2>1 DEF ResetChange, FlowOK, request
<1>3. CASE ExpireSession(s)
  BY <1>3, BlankIsData DEF ExpireSession, FlowOK, request
<1>4. QED BY <1>1, <1>2, <1>3

LEMMA StartFlow ==
  ASSUME FlowOK, NEW r \in Requests, NEW s \in Sessions, StartRequest(r, s)
  PROVE  FlowOK'
<1>0. session[s] \in SessionData /\ session[s].current \in Bookings \cup {None}
  BY DataType DEF FlowOK
<1>1. CASE StartLogin(r, s) \/ StartHome(r, s)
  BY <1>0, <1>1, StartType, BlankIsData, CallsKnown DEF StartLogin, StartHome
<1>2. CASE StartChange(r, s)
  BY <1>0, <1>2, StartType, CallsKnown DEF StartChange
<1>3. CASE StartUndone(r, s)
  <2>1. PICK d \in SessionData, call \in Calls \cup {"save"}, p \in Pages : StartDecided(r, s, d, call, p)
    BY <1>0, <1>3, DataType, CallsKnown DEF StartUndone
  <2>2. QED BY <1>0, <2>1 DEF StartDecided, FlowOK
<1>4. ASSUME NEW b \in Bookings, StartView(r, s, b) PROVE FlowOK'
  <2>1. [NoChange(session[s]) EXCEPT !.current = b] \in SessionData
    BY <1>0, DataType
  <2>2. QED BY <1>4, <2>1, StartType, CallsKnown DEF StartView
<1>5. ASSUME NEW b \in Bookings, StartCancel(r, s, b) \/ StartRefund(r, s, b) PROVE FlowOK'
  BY <1>0, <1>5, StartType, CallsKnown DEF StartCancel, StartRefund
<1>6. QED BY <1>1, <1>2, <1>3, <1>4, <1>5 DEF StartRequest

(* The steps of the handlers. *)
LEMMA LookFlow ==
  ASSUME FlowOK, WorldOK, Equipped, NEW r \in Requests, Look(r)
  PROVE  FlowOK'
<1>0. copy[r] \in SessionData
  BY DEF FlowOK
<1>1. CASE LogIn(r)
  <2>1. ASSUME NEW lagging \in BOOLEAN
        PROVE  [Blank EXCEPT !.live = TRUE, !.list = Loaded(lagging)] \in SessionData
    BY LoadedType, BlankIsData DEF Blank, SessionData
  <2>2. Lags \subseteq BOOLEAN
    BY DEF Lags
  <2>3. QED BY <1>1, <2>1, <2>2, AnswerType, BlankIsData, CallsKnown DEF LogIn
<1>2. CASE ListBookings(r)
  <2>1. ASSUME NEW lagging \in Lags, copy' = [copy EXCEPT ![r].list = Loaded(lagging)]
        PROVE  copy' \in [Requests -> SessionData]
    <3>1. [copy[r] EXCEPT !.list = Loaded(lagging)] \in SessionData
      BY <1>0, LoadedType, DataType DEF Lags
    <3>2. QED BY <2>1, <3>1 DEF FlowOK
  <2>2. QED BY <1>0, <1>2, <2>1, AnswerType, CallsKnown DEF ListBookings, FlowOK
<1>3. CASE ProbeChanges(r)
  <2>1. rows' \in [Requests -> SUBSET Bookings]
    BY <1>3 DEF ProbeChanges, FlowOK
  <2>2. QED BY <1>3, <2>1, CallsKnown DEF ProbeChanges, FlowOK
<1>4. CASE ViewBooking(r)
  <2> DEFINE list == copy[r].list
             dated == list[subject[r]].dated \/ age[list[subject[r]].slot] # "today"
  <2>1. subject[r] \in Bookings
    BY <1>4 DEF ViewBooking, Equipped
  <2>2. dated \in BOOLEAN
    BY <1>0, <2>1 DEF SessionData, Entries
  <2>3. [list EXCEPT ![subject[r]].dated = dated] \in [Bookings -> Entries]
    <3>1. list \in [Bookings -> Entries]
      BY <1>0, DataType
    <3> HIDE DEF dated, list
    <3>2. QED BY <2>2, <3>1, DatedType
  <2>4. [copy[r] EXCEPT !.list[subject[r]].dated = dated] \in SessionData
    <3>1. [copy[r] EXCEPT !.list[subject[r]].dated = dated]
            = [copy[r] EXCEPT !.list = [list EXCEPT ![subject[r]].dated = dated]]
      BY <1>0 DEF SessionData
    <3> HIDE DEF dated, list
    <3>2. QED BY <1>0, <2>3, <3>1, DataType
  <2>5. QED BY <1>0, <1>4, <2>4, AnswerType, CallsKnown DEF ViewBooking
<1>5. QED BY <1>1, <1>2, <1>3, <1>4 DEF Look

LEMMA ChangeFlow ==
  ASSUME FlowOK, WorldOK, NEW r \in Requests, Change(r)
  PROVE  FlowOK'
<1>0. copy[r] \in SessionData /\ page[r] \in Pages
  BY DEF FlowOK
<1>1. CASE Move(r)
  BY <1>1, ProceedType, ProceedToType, CallsKnown
     DEF Move, ReserveNewSlot, MarkChanging, VacateOldSlot, OccupyNewSlot, RecordChange
<1>2. CASE UpdateSupport(r)
  BY <1>2, ProceedToType, CallsKnown DEF UpdateSupport
<1>3. CASE Reload(r)
  <2>1. PICK lagging \in Lags : \E dated \in Dates(subject[r], Loaded(lagging), copy[r].edit) :
          Answer(r, AfterReload(copy[r], page[r], subject[r], Loaded(lagging), dated),
                 IF page[r] = "supported" THEN "changed" ELSE page[r])
    BY <1>3 DEF Reload
  <2> DEFINE list == Loaded(lagging)
  <2>2. list \in [Bookings -> Entries]
    BY LoadedType DEF Lags
  <2> HIDE DEF list
  <2>3. PICK dated \in BOOLEAN :
          Answer(r, AfterReload(copy[r], page[r], subject[r], list, dated),
                 IF page[r] = "supported" THEN "changed" ELSE page[r])
    BY <2>1 DEF Dates, list
  <2> DEFINE fresh == [copy[r] EXCEPT !.list = [list EXCEPT ![subject[r]].dated = dated]]
  <2>4. fresh \in SessionData
    BY <1>0, <2>2, DatedType, DataType
  <2>5. AfterReload(copy[r], page[r], subject[r], list, dated) \in {Blank, Finished(fresh), fresh}
    BY DEF AfterReload
  <2> HIDE DEF fresh
  <2>6. AfterReload(copy[r], page[r], subject[r], list, dated) \in SessionData
    BY <2>4, <2>5, DataType, BlankIsData
  <2>7. QED BY <1>0, <2>3, <2>6, AnswerType, CallsKnown
<1>4. CASE ReloadFails(r)
  <2>1. \/ Answer(r, Finished(copy[r]), "changed") \/ Answer(r, copy[r], "error")
        \/ ProceedTo(r, "reload", "changeError") \/ ProceedTo(r, "reload", "error")
    BY <1>4 DEF ReloadFails
  <2>2. QED BY <1>0, <2>1, DataType, AnswerType, ProceedToType, CallsKnown
<1>5. QED BY <1>1, <1>2, <1>3, <1>4 DEF Change

LEMMA CancelFlow ==
  ASSUME FlowOK, WorldOK, NEW r \in Requests, Cancel(r) \/ Refund(r)
  PROVE  FlowOK'
<1>0. copy[r] \in SessionData /\ page[r] \in Pages
  BY DEF FlowOK
<1>1. CASE MarkCancelling(r) \/ SettleFee(r) \/ DeleteScheduledSlot(r) \/ CancelInCrm(r)
  BY <1>1, ProceedType, ProceedToType, CallsKnown
     DEF MarkCancelling, SettleFee, DeleteScheduledSlot, CancelInCrm
<1>2. CASE ReloadList(r)
  <2>1. ASSUME NEW lagging \in Lags PROVE [copy[r] EXCEPT !.list = Loaded(lagging)] \in SessionData
    BY <1>0, LoadedType, DataType DEF Lags
  <2>2. QED BY <1>0, <1>2, <2>1, AnswerType, CallsKnown DEF ReloadList
<1>3. CASE Refund(r)
  BY <1>0, <1>3, ProceedType, ProceedToType, AnswerType, CallsKnown
     DEF Refund, RequestRefund, RecogniseCompensation
<1>4. QED BY <1>1, <1>2, <1>3 DEF Cancel

LEMMA FlowStep ==
  ASSUME FlowOK, WorldOK, Equipped, [Next]_vars
  PROVE  FlowOK'
<1>1. ASSUME NEW r \in Requests, Save(r) \/ Crash(r) PROVE FlowOK'
  BY <1>1, BlankIsData, CallsKnown DEF Save, Crash, Forget, FlowOK
<1>2. ASSUME NEW b \in Bookings, AgencyCancels(b) PROVE FlowOK'
  BY <1>2 DEF AgencyCancels, request, FlowOK
<1>3. ASSUME NEW t \in Slots, OtherTakes(t) \/ ReleaseSlot(t) \/ DayComes(t) PROVE FlowOK'
  BY <1>3 DEF OtherTakes, ReleaseSlot, DayComes, request, FlowOK
<1>4. CASE UNCHANGED vars
  BY <1>4 DEF vars, FlowOK
<1>5. QED
  BY <1>1, <1>2, <1>3, <1>4, BetweenFlow, StartFlow, LookFlow, ChangeFlow, CancelFlow DEF Next, Handle

-------------------------------------------------------------------------------
(* What a request does next, and that it leaves the other requests alone. *)
Own(r) == Handle(r) \/ Crash(r) \/ \E s \in Sessions : StartRequest(r, s)
World == \/ \E s \in Sessions : ChooseChange(s) \/ ResetChange(s) \/ ExpireSession(s)
         \/ \E b \in Bookings : AgencyCancels(b)
         \/ \E t \in Slots : OtherTakes(t) \/ ReleaseSlot(t) \/ DayComes(t)
         \/ UNCHANGED vars

LEMMA StepKinds == [Next]_vars => World \/ \E r \in Requests : Own(r)
  BY DEF Next, World, Own

LEMMA WorldFrame == World => UNCHANGED request
  BY DEF World, ChooseChange, ResetChange, ExpireSession, AgencyCancels, OtherTakes, ReleaseSlot,
         DayComes, vars, request

LEMMA StartSteps ==
  ASSUME FlowOK, NEW r \in Requests, NEW s \in Sessions, StartRequest(r, s)
  PROVE  /\ pc[r] = "idle" /\ MayStart(s) /\ UNCHANGED world
         /\ home' = [home EXCEPT ![r] = s]
         /\ \E call \in Calls \cup {"save"} : pc' = [pc EXCEPT ![r] = call]
         /\ \E data : copy' = [copy EXCEPT ![r] = data]
         /\ \E b : subject' = [subject EXCEPT ![r] = b]
         /\ pc'[r] \in {"login", "list", "view", "reserve", "support", "reload", "save", "markCancel", "refund"}
         /\ pc'[r] \in {"view", "reserve", "support", "reload", "markCancel", "refund"} => subject'[r] \in Bookings
         /\ pc'[r] = "reserve" => copy'[r].edit \in Slots
<1> USE DEF FlowOK, Start
<1>1. CASE StartLogin(r, s) \/ StartHome(r, s)
  BY <1>1, CallsKnown DEF StartLogin, StartHome
<1>2. CASE StartChange(r, s)
  <2>1. session[s].current # None /\ session[s].current \in Bookings \cup {None}
    BY <1>2, DataType DEF StartChange, HasCurrent
  <2>2. QED BY <1>2, <2>1, CallsKnown DEF StartChange
<1>3. CASE StartUndone(r, s)
  <2>1. session[s].current # None /\ session[s].current \in Bookings \cup {None}
    BY <1>3, DataType DEF StartUndone, HasCurrent
  <2>2. QED BY <1>3, <2>1, CallsKnown DEF StartUndone, StartDecided
<1>4. ASSUME NEW b \in Bookings, StartView(r, s, b) \/ StartCancel(r, s, b) \/ StartRefund(r, s, b)
      PROVE  /\ pc[r] = "idle" /\ MayStart(s) /\ UNCHANGED world
             /\ home' = [home EXCEPT ![r] = s]
             /\ subject' = [subject EXCEPT ![r] = b]
             /\ \E data : copy' = [copy EXCEPT ![r] = data]
             /\ \E call \in {"view", "markCancel", "refund"} : pc' = [pc EXCEPT ![r] = call]
  BY <1>4 DEF StartView, StartCancel, StartRefund
<1>5. QED BY <1>1, <1>2, <1>3, <1>4, CallsKnown DEF StartRequest

(* The next call of a handler that has not ended. *)
Follows(c, d) ==
  \/ c = "reserve" /\ d = "mark"
  \/ c = "mark" /\ d = "vacate"
  \/ c = "vacate" /\ d = "occupy"
  \/ c = "occupy" /\ d = "record"
  \/ c \in ChangeCalls \cup {"support", "reload"} /\ d = "reload"
  \/ c = "markCancel" /\ d \in {"money", "deleteSlot"}
  \/ c = "money" /\ d = "deleteSlot"
  \/ c = "deleteSlot" /\ d = "cancelCrm"
  \/ c = "refund" /\ d = "recognise"
  \/ c \in {"markCancel", "money", "cancelCrm", "recognise"} /\ d = "reloadList"

LEMMA HandleSteps ==
  ASSUME FlowOK, NEW r \in Requests, Handle(r) \/ Crash(r)
  PROVE  /\ pc[r] # "idle"
         /\ \A q \in Requests : q # r =>
              pc'[q] = pc[q] /\ copy'[q] = copy[q] /\ subject'[q] = subject[q] /\ home'[q] = home[q]
         /\ \/ pc'[r] = "idle" /\ home' = [home EXCEPT ![r] = None]
            \/ pc'[r] \in {"save", "probe"} /\ home' = home
            \/ Follows(pc[r], pc'[r]) /\ UNCHANGED <<home, copy, subject>>
<1> USE DEF FlowOK, Follows, ChangeCalls, Answer, Proceed, ProceedTo
<1>1. CASE Save(r) \/ Crash(r)
  BY <1>1 DEF Save, Crash, Forget
<1>2. CASE LogIn(r)
  BY <1>2 DEF LogIn
<1>3. CASE ListBookings(r)
  BY <1>3 DEF ListBookings
<1>4. CASE ProbeChanges(r)
  BY <1>4 DEF ProbeChanges
<1>5. CASE ViewBooking(r)
  <2>1. PICK d : Answer(r, d, "view")
    BY <1>5 DEF ViewBooking
  <2>2. QED BY <1>5, <2>1 DEF ViewBooking
<1>6. CASE Move(r)
  BY <1>6 DEF Move, ReserveNewSlot, MarkChanging, VacateOldSlot, OccupyNewSlot, RecordChange
<1>7. CASE UpdateSupport(r) \/ ReloadFails(r)
  BY <1>7 DEF UpdateSupport, ReloadFails
<1>8. CASE Reload(r)
  <2>1. PICK d, p : Answer(r, d, p)
    BY <1>8 DEF Reload
  <2>2. QED BY <1>8, <2>1 DEF Reload
<1>9. CASE MarkCancelling(r) \/ SettleFee(r) \/ DeleteScheduledSlot(r) \/ CancelInCrm(r)
  BY <1>9 DEF MarkCancelling, SettleFee, DeleteScheduledSlot, CancelInCrm
<1>10. CASE ReloadList(r)
  <2>1. PICK d, p : Answer(r, d, p)
    BY <1>10 DEF ReloadList
  <2>2. QED BY <1>10, <2>1 DEF ReloadList
<1>11. CASE Refund(r)
  BY <1>11 DEF Refund, RequestRefund, RecogniseCompensation
<1>12. QED
  BY <1>1, <1>2, <1>3, <1>4, <1>5, <1>6, <1>7, <1>8, <1>9, <1>10, <1>11
     DEF Handle, Look, Change, Cancel

LEMMA OthersKept ==
  ASSUME FlowOK, NEW r \in Requests, NEW q \in Requests, q # r, Own(r)
  PROVE  pc'[q] = pc[q] /\ copy'[q] = copy[q] /\ subject'[q] = subject[q] /\ home'[q] = home[q]
<1>1. CASE Handle(r) \/ Crash(r)
  BY <1>1, HandleSteps DEF FlowOK
<1>2. ASSUME NEW s \in Sessions, StartRequest(r, s)
      PROVE  pc'[q] = pc[q] /\ copy'[q] = copy[q] /\ subject'[q] = subject[q] /\ home'[q] = home[q]
  BY <1>2, StartSteps DEF FlowOK
<1>3. QED BY <1>1, <1>2 DEF Own

LEMMA EquippedStep ==
  ASSUME FlowOK, Equipped, [Next]_vars
  PROVE  Equipped'
<1> USE DEF Equipped, ChangeCalls, CancelCalls
<1>1. CASE World
  BY <1>1, WorldFrame DEF request
<1>2. ASSUME NEW r \in Requests, Handle(r) \/ Crash(r)
      PROVE  Equipped'
  BY <1>2, HandleSteps, OthersKept DEF Own, Follows, FlowOK
<1>3. ASSUME NEW r \in Requests, NEW s \in Sessions, StartRequest(r, s) PROVE Equipped'
  <2>1. \A q \in Requests : q # r => pc'[q] = pc[q] /\ copy'[q] = copy[q] /\ subject'[q] = subject[q]
    BY <1>3, OthersKept DEF Own
  <2>2. QED BY <1>3, <2>1, StartSteps
<1>4. QED BY <1>1, <1>2, <1>3, StepKinds DEF Own

(* The steps that touch no service. *)
LEMMA Untouched ==
  ASSUME NEW r \in Requests,
         \/ Save(r) \/ Crash(r) \/ Look(r) \/ UpdateSupport(r) \/ Reload(r) \/ ReloadFails(r)
         \/ ReloadList(r) \/ \E s \in Sessions : StartRequest(r, s)
  PROVE  UNCHANGED world
<1>1. CASE \E s \in Sessions : StartRequest(r, s)
  BY <1>1 DEF StartRequest, StartLogin, StartHome, StartChange, StartUndone, StartView, StartCancel,
              StartRefund, Start, StartDecided
<1>2. CASE Save(r) \/ Crash(r) \/ UpdateSupport(r) \/ Reload(r) \/ ReloadFails(r) \/ ReloadList(r)
  BY <1>2 DEF Save, Crash, UpdateSupport, Reload, ReloadFails, ReloadList
<1>3. CASE Look(r)
  BY <1>3 DEF Look, LogIn, ListBookings, ProbeChanges, ViewBooking
<1>4. QED BY <1>1, <1>2, <1>3

LEMMA StatusType ==
  ASSUME WorldOK, NEW b, NEW status \in Statuses
  PROVE  [crm EXCEPT ![b].status = status] \in [Bookings -> CrmBookings]
  BY DEF WorldOK, CrmBookings

LEMMA MovedType ==
  ASSUME WorldOK, NEW b, NEW t \in Slots
  PROVE  [crm EXCEPT ![b].status = "Confirmed", ![b].slot = t] \in [Bookings -> CrmBookings]
<1>1. [crm EXCEPT ![b].status = "Confirmed"] \in [Bookings -> CrmBookings]
  BY StatusType DEF Statuses
<1>2. ASSUME NEW c \in [Bookings -> CrmBookings] PROVE [c EXCEPT ![b].slot = t] \in [Bookings -> CrmBookings]
  BY DEF CrmBookings
<1>3. QED BY <1>1, <1>2

LEMMA ReturnedType ==
  ASSUME WorldOK, NEW b \in Bookings
  PROVE  Returned(b) \in [Bookings -> 0..2]
<1>1. (IF returns[b] < 2 THEN returns[b] + 1 ELSE 2) \in 0..2
  BY DEF WorldOK
<1>2. QED BY <1>1 DEF WorldOK, Returned

(* No step stores a record of another shape in a service. *)
LEMMA WorldStep ==
  ASSUME FlowOK, WorldOK, Equipped, [Next]_vars
  PROVE  WorldOK'
<1> USE DEF WorldOK
<1>1. ASSUME UNCHANGED world PROVE WorldOK'
  BY <1>1 DEF world
<1>2. ASSUME NEW r \in Requests, ReserveNewSlot(r) PROVE WorldOK'
  BY <1>2 DEF ReserveNewSlot
<1>3. ASSUME NEW r \in Requests, MarkChanging(r) \/ MarkCancelling(r) PROVE WorldOK'
  <2>1. \/ crm' = crm
        \/ crm' = [crm EXCEPT ![subject[r]].status = "ChangeInProgress"]
        \/ crm' = [crm EXCEPT ![subject[r]].status = "CancellationInProgress"]
    BY <1>3 DEF MarkChanging, MarkCancelling
  <2>2. {"ChangeInProgress", "CancellationInProgress"} \subseteq Statuses
    BY DEF Statuses
  <2>3. crm' \in [Bookings -> CrmBookings]
    BY <2>1, <2>2, StatusType
  <2>4. QED BY <1>3, <2>3 DEF MarkChanging, MarkCancelling
<1>4. ASSUME NEW r \in Requests, VacateOldSlot(r) \/ DeleteScheduledSlot(r) PROVE WorldOK'
  BY <1>4 DEF VacateOldSlot, DeleteScheduledSlot
<1>5. ASSUME NEW r \in Requests, OccupyNewSlot(r) PROVE WorldOK'
  BY <1>5 DEF OccupyNewSlot, Equipped, ChangeCalls
<1>6. ASSUME NEW r \in Requests, RecordChange(r) PROVE WorldOK'
  <2>1. copy[r].edit \in Slots
    BY <1>6 DEF RecordChange, Equipped, ChangeCalls
  <2>2. \/ crm' = crm
        \/ crm' = [crm EXCEPT ![subject[r]].status = "Confirmed", ![subject[r]].slot = copy[r].edit]
    BY <1>6 DEF RecordChange
  <2>3. crm' \in [Bookings -> CrmBookings]
    BY <2>1, <2>2, MovedType
  <2>4. QED BY <1>6, <2>3 DEF RecordChange
<1>7. ASSUME NEW r \in Requests, SettleFee(r) \/ RequestRefund(r) PROVE WorldOK'
  <2>1. returns' = returns \/ returns' = Returned(subject[r])
    BY <1>7 DEF SettleFee, RequestRefund
  <2>2. subject[r] \in Bookings
    BY <1>7 DEF SettleFee, RequestRefund, Equipped, CancelCalls
  <2>3. QED BY <1>7, <2>1, <2>2, ReturnedType DEF SettleFee, RequestRefund
<1>8. ASSUME NEW r \in Requests, CancelInCrm(r) \/ RecogniseCompensation(r) PROVE WorldOK'
  <2>1. \/ crm' = crm
        \/ crm' = [crm EXCEPT ![subject[r]].status = "Cancelled"]
        \/ crm' = [crm EXCEPT ![subject[r]].owed = FALSE]
    BY <1>8 DEF CancelInCrm, RecogniseCompensation
  <2>2. crm' \in [Bookings -> CrmBookings]
    <3>1. CASE crm' = [crm EXCEPT ![subject[r]].status = "Cancelled"]
      BY <3>1, StatusType DEF Statuses
    <3>2. CASE crm' = [crm EXCEPT ![subject[r]].owed = FALSE]
      BY <3>2 DEF CrmBookings
    <3>3. QED BY <2>1, <3>1, <3>2
  <2>3. QED BY <1>8, <2>2 DEF CancelInCrm, RecogniseCompensation
<1>9. ASSUME NEW b \in Bookings, AgencyCancels(b) PROVE WorldOK'
  <2>1. [crm[b] EXCEPT !.status = "Cancelled", !.owed = TRUE] \in CrmBookings
    BY DEF CrmBookings, Statuses
  <2>2. crm' \in [Bookings -> CrmBookings]
    BY <1>9, <2>1 DEF AgencyCancels
  <2>3. QED BY <1>9, <2>2 DEF AgencyCancels
<1>10. ASSUME NEW t \in Slots, OtherTakes(t) \/ ReleaseSlot(t) \/ DayComes(t) PROVE WorldOK'
  BY <1>10 DEF OtherTakes, ReleaseSlot, DayComes
<1>11. ASSUME NEW s \in Sessions, ChooseChange(s) \/ ResetChange(s) \/ ExpireSession(s) PROVE WorldOK'
  BY <1>11, <1>1 DEF ChooseChange, ResetChange, ExpireSession
<1>12. CASE UNCHANGED vars
  BY <1>12 DEF vars
<1>13. QED
  BY <1>1, <1>2, <1>3, <1>4, <1>5, <1>6, <1>7, <1>8, <1>9, <1>10, <1>11, <1>12, Untouched
     DEF Next, Handle, Change, Move, Cancel, Refund

(* The invariant the rest builds on. *)
BaseInv == FlowOK /\ WorldOK /\ Equipped

LEMMA BaseCorrect == Spec => []BaseInv
<1>1. Init => BaseInv
  <2>1. Init => FlowOK
    BY BlankIsData DEF Init, FlowOK, Pages
  <2>2. Init => WorldOK
    BY DEF Init, WorldOK, CrmBookings, Statuses
  <2>3. Init => Equipped
    BY DEF Init, Equipped, ChangeCalls, CancelCalls
  <2>4. QED BY <2>1, <2>2, <2>3 DEF BaseInv
<1>2. BaseInv /\ [Next]_vars => BaseInv'
  BY FlowStep, WorldStep, EquippedStep DEF BaseInv
<1>3. QED BY <1>1, <1>2, PTL DEF Spec

(* Every variable keeps its type: the handlers of the manage-booking pages    *)
(* store nothing else, and a change is recorded only with a slot.             *)
THEOREM TypeCorrect == Spec => []TypeOK
<1>1. BaseInv => TypeOK
  BY TypeParts DEF BaseInv
<1>2. QED BY <1>1, BaseCorrect, PTL

-------------------------------------------------------------------------------
(* What a step may do to the slot of a booking. *)
LEMMA PlaceStep ==
  ASSUME BaseInv, [Next]_vars, NEW b \in Bookings
  PROVE  \/ tcn'[b] = tcn[b]
         \/ tcn'[b] = None /\ \E r \in Requests :
              (VacateOldSlot(r) \/ DeleteScheduledSlot(r)) /\ subject[r] = b
         \/ tcn'[b] = None /\ AgencyCancels(b)
         \/ \E r \in Requests :
              OccupyNewSlot(r) /\ subject[r] = b /\ pc'[r] # "occupy" /\ tcn'[b] = copy[r].edit
<1> USE DEF BaseInv, WorldOK, FlowOK
<1>1. \/ tcn' = tcn
      \/ \E r \in Requests : VacateOldSlot(r) \/ OccupyNewSlot(r) \/ DeleteScheduledSlot(r)
      \/ \E c \in Bookings : AgencyCancels(c)
  BY Untouched DEF Next, Handle, Change, Move, Cancel, Refund, ReserveNewSlot, MarkChanging, RecordChange,
     MarkCancelling, SettleFee, CancelInCrm, RequestRefund, RecogniseCompensation, OtherTakes,
     ReleaseSlot, DayComes, ChooseChange, ResetChange, ExpireSession, vars, world
<1>2. ASSUME NEW r \in Requests, VacateOldSlot(r)
      PROVE  tcn'[b] = tcn[b] \/ (tcn'[b] = None /\ subject[r] = b)
  BY <1>2 DEF VacateOldSlot
<1>3. ASSUME NEW r \in Requests, DeleteScheduledSlot(r)
      PROVE  tcn'[b] = tcn[b] \/ (tcn'[b] = None /\ subject[r] = b)
  BY <1>3 DEF DeleteScheduledSlot
<1>4. ASSUME NEW r \in Requests, OccupyNewSlot(r)
      PROVE  \/ tcn'[b] = tcn[b]
             \/ subject[r] = b /\ tcn'[b] = copy[r].edit /\ pc'[r] # "occupy"
  BY <1>4 DEF OccupyNewSlot, Proceed, ProceedTo
<1>5. ASSUME NEW c \in Bookings, AgencyCancels(c)
      PROVE  tcn'[b] = tcn[b] \/ (tcn'[b] = None /\ c = b)
  BY <1>5 DEF AgencyCancels
<1>6. QED BY <1>1, <1>2, <1>3, <1>4, <1>5

(* How a request comes to the call that occupies the new slot. *)
LEMMA ToOccupy ==
  ASSUME BaseInv, [Next]_vars, NEW q \in Requests, pc'[q] = "occupy"
  PROVE  /\ subject'[q] = subject[q] /\ subject[q] \in Bookings
         /\ \/ pc[q] = "occupy"
            \/ VacateOldSlot(q) /\ tcn[subject[q]] # None /\ tcn'[subject[q]] = None
<1> USE DEF BaseInv
<1>1. CASE World
  BY <1>1, WorldFrame DEF request, Equipped, ChangeCalls
<1>2. ASSUME NEW r \in Requests, r # q, Own(r)
      PROVE  pc[q] = "occupy" /\ subject'[q] = subject[q]
  BY <1>2, OthersKept
<1>3. CASE Handle(q) \/ Crash(q)
  <2>1. /\ pc[q] \in {"vacate"} /\ subject'[q] = subject[q]
    BY <1>3, HandleSteps DEF Follows
  <2>2. subject[q] \in Bookings
    BY <2>1 DEF Equipped, ChangeCalls
  <2>3. VacateOldSlot(q)
    BY <1>3, <2>1 DEF Handle, Crash, Forget, Save, Look, LogIn, ListBookings, ProbeChanges, ViewBooking, Change,
       Move, ReserveNewSlot, MarkChanging, OccupyNewSlot, RecordChange, UpdateSupport, Reload,
       ReloadFails, Cancel, MarkCancelling, SettleFee, DeleteScheduledSlot, CancelInCrm,
       ReloadList, Refund, RequestRefund, RecogniseCompensation, FlowOK
  <2>4. tcn[subject[q]] # None /\ tcn'[subject[q]] = None
    BY <2>2, <2>3 DEF VacateOldSlot, ProceedTo, Proceed, FlowOK, WorldOK, Effective
  <2>5. QED BY <2>1, <2>2, <2>3, <2>4
<1>4. ASSUME NEW s \in Sessions, StartRequest(q, s) PROVE FALSE
  BY <1>4, StartSteps
<1>5. QED BY <1>1, <1>2, <1>3, <1>4, StepKinds DEF Own, Equipped, ChangeCalls

(* However changes, cancellations and the agency interleave, a booking is    *)
(* never confirmed into two slots: a request that is about to occupy a slot  *)
(* has found the old one and given it up, and no other has.                  *)
THEOREM OneMoverCorrect == Spec => []OneMover
<1>1. Init => OneMover
  BY DEF Init, OneMover
<1>2. BaseInv /\ OneMover /\ [Next]_vars => OneMover'
  <2> SUFFICES ASSUME BaseInv, OneMover, [Next]_vars, NEW q \in Requests, pc'[q] = "occupy"
               PROVE  /\ tcn'[subject'[q]] = None
                      /\ \A r \in Requests : pc'[r] = "occupy" /\ subject'[r] = subject'[q] => r = q
    BY DEF OneMover
  <2>1. /\ subject'[q] = subject[q] /\ subject[q] \in Bookings
        /\ pc[q] = "occupy" \/ (tcn[subject[q]] # None /\ tcn'[subject[q]] = None)
    BY ToOccupy
  <2>2. ASSUME NEW r \in Requests, pc'[r] = "occupy", subject'[r] = subject'[q] PROVE r = q
    <3>1. /\ subject'[r] = subject[r]
          /\ pc[r] = "occupy" \/ (VacateOldSlot(r) /\ tcn[subject[r]] # None)
      BY <2>2, ToOccupy
    <3>2. pc[q] = "occupy" \/ (VacateOldSlot(q) /\ tcn[subject[q]] # None)
      BY ToOccupy
    <3>3. CASE VacateOldSlot(r) /\ VacateOldSlot(q)
      <4>1. pc[q] = "vacate"
        BY <3>3 DEF VacateOldSlot
      <4>2. Own(r)
        BY <3>3 DEF Own, Handle, Change, Move
      <4>3. QED BY <4>1, <4>2, OthersKept DEF BaseInv
    <3>4. QED BY <2>1, <2>2, <3>1, <3>2, <3>3 DEF OneMover
  <2>3. tcn'[subject[q]] = None
    <3>1. CASE pc[q] = "occupy"
      <4>1. tcn[subject[q]] = None
        BY <3>1 DEF OneMover
      <4>2. ASSUME NEW r \in Requests, OccupyNewSlot(r), subject[r] = subject[q] PROVE r = q
        BY <3>1, <4>2 DEF OneMover, OccupyNewSlot
      <4>3. QED BY <2>1, <4>1, <4>2, PlaceStep
    <3>2. QED BY <2>1, <3>1
  <2>4. QED BY <2>1, <2>2, <2>3
<1>3. QED BY <1>1, <1>2, BaseCorrect, PTL DEF Spec

-------------------------------------------------------------------------------
(* The call a handler is at names the step it takes. *)
LEMMA StepAt ==
  ASSUME NEW r \in Requests, Handle(r)
  PROVE  /\ pc[r] = "markCancel" => MarkCancelling(r)
         /\ pc[r] = "money" => SettleFee(r)
         /\ pc[r] = "deleteSlot" => DeleteScheduledSlot(r)
         /\ pc[r] = "refund" => RequestRefund(r)
         /\ pc[r] = "reserve" => ReserveNewSlot(r)
         /\ pc[r] = "mark" => MarkChanging(r)
         /\ pc[r] = "vacate" => VacateOldSlot(r)
         /\ pc[r] = "occupy" => OccupyNewSlot(r)
  BY DEF Handle, Save, Look, LogIn, ListBookings, ProbeChanges, ViewBooking, Change, Move,
     ReserveNewSlot, MarkChanging, VacateOldSlot, OccupyNewSlot, RecordChange, UpdateSupport,
     Reload, ReloadFails, Cancel, MarkCancelling, SettleFee, DeleteScheduledSlot, CancelInCrm,
     ReloadList, Refund, RequestRefund, RecogniseCompensation

(* What a step may do to a booking in the CRM. *)
LEMMA CrmStep ==
  ASSUME BaseInv, [Next]_vars, NEW b \in Bookings
  PROVE  \/ crm'[b] = crm[b]
         \/ \E r \in Requests :
              /\ subject[r] = b
              /\ \/ MarkChanging(r) /\ crm'[b].status = "ChangeInProgress"
                 \/ MarkCancelling(r) /\ crm'[b].status = "CancellationInProgress"
                 \/ /\ RecordChange(r)
                    /\ crm'[b].status = "Confirmed"
                    /\ crm'[b].slot = copy[r].edit
                 \/ CancelInCrm(r) /\ crm'[b].status = "Cancelled"
                 \/ /\ RecogniseCompensation(r)
                    /\ crm'[b].status = crm[b].status
                    /\ crm'[b].slot = crm[b].slot
         \/ AgencyCancels(b) /\ crm'[b].status = "Cancelled" /\ crm'[b].owed
<1> USE DEF BaseInv, WorldOK, CrmBookings
<1>1. \/ crm' = crm
      \/ \E r \in Requests :
           \/ MarkChanging(r) \/ MarkCancelling(r) \/ RecordChange(r)
           \/ CancelInCrm(r) \/ RecogniseCompensation(r)
      \/ \E c \in Bookings : AgencyCancels(c)
  BY Untouched DEF Next, Handle, Change, Move, Cancel, Refund, ReserveNewSlot, VacateOldSlot,
     OccupyNewSlot, SettleFee, DeleteScheduledSlot, RequestRefund, OtherTakes, ReleaseSlot,
     DayComes, ChooseChange, ResetChange, ExpireSession, vars, world
<1>2. ASSUME NEW r \in Requests, MarkChanging(r)
      PROVE  crm'[b] = crm[b] \/ (subject[r] = b /\ crm'[b].status = "ChangeInProgress")
  BY <1>2 DEF MarkChanging
<1>3. ASSUME NEW r \in Requests, MarkCancelling(r)
      PROVE  crm'[b] = crm[b] \/ (subject[r] = b /\ crm'[b].status = "CancellationInProgress")
  BY <1>3 DEF MarkCancelling
<1>4. ASSUME NEW r \in Requests, RecordChange(r)
      PROVE  \/ crm'[b] = crm[b]
             \/ subject[r] = b /\ crm'[b].status = "Confirmed" /\ crm'[b].slot = copy[r].edit
  BY <1>4 DEF RecordChange
<1>5. ASSUME NEW r \in Requests, CancelInCrm(r)
      PROVE  crm'[b] = crm[b] \/ (subject[r] = b /\ crm'[b].status = "Cancelled")
  BY <1>5 DEF CancelInCrm
<1>6. ASSUME NEW r \in Requests, RecogniseCompensation(r)
      PROVE  \/ crm'[b] = crm[b]
             \/ subject[r] = b /\ crm'[b].status = crm[b].status /\ crm'[b].slot = crm[b].slot
  BY <1>6 DEF RecogniseCompensation
<1>7. ASSUME NEW c \in Bookings, AgencyCancels(c)
      PROVE  crm'[b] = crm[b] \/ (c = b /\ crm'[b].status = "Cancelled" /\ crm'[b].owed)
  BY <1>7 DEF AgencyCancels
<1>8. QED BY <1>1, <1>2, <1>3, <1>4, <1>5, <1>6, <1>7

(* The fee of b was refunded or recognised, or b cost nothing. *)
DealtWith(b) == returns[b] > 0 \/ b \in ZeroCost

(* The handlers of cancel and request-refund deal with the fee first. *)
FeeFirst == \A r \in Requests :
  pc[r] \in {"deleteSlot", "cancelCrm", "recognise"} => DealtWith(subject[r])

LEMMA ReturnedCounts ==
  ASSUME WorldOK, NEW c \in Bookings, NEW b \in Bookings
  PROVE  /\ Returned(c)[c] > 0
         /\ returns[b] > 0 => Returned(c)[b] > 0
<1>1. Returned(c)[c] = IF returns[c] < 2 THEN returns[c] + 1 ELSE 2
  BY DEF WorldOK, Returned
<1>2. b # c => Returned(c)[b] = returns[b]
  BY DEF WorldOK, Returned
<1>3. Returned(c)[c] > 0
  BY <1>1 DEF WorldOK
<1>4. QED BY <1>2, <1>3

(* Only two calls deal with a fee. *)
LEMMA ReturnsStep ==
  ASSUME BaseInv, [Next]_vars
  PROVE  \/ returns' = returns
         \/ \E r \in Requests :
              /\ subject[r] \in Bookings /\ returns' = Returned(subject[r])
              /\ (SettleFee(r) \/ RequestRefund(r))
<1>1. \/ returns' = returns
      \/ \E r \in Requests : SettleFee(r) \/ RequestRefund(r)
  BY Untouched DEF Next, Handle, Change, Move, Cancel, Refund, ReserveNewSlot, MarkChanging,
     VacateOldSlot, OccupyNewSlot, RecordChange, MarkCancelling, DeleteScheduledSlot,
     CancelInCrm, RecogniseCompensation, AgencyCancels, OtherTakes, ReleaseSlot, DayComes,
     ChooseChange, ResetChange, ExpireSession, vars, world
<1>2. ASSUME NEW r \in Requests, SettleFee(r) \/ RequestRefund(r)
      PROVE  returns' = returns \/ returns' = Returned(subject[r])
  BY <1>2 DEF SettleFee, RequestRefund
<1>3. ASSUME NEW r \in Requests, SettleFee(r) \/ RequestRefund(r) PROVE subject[r] \in Bookings
  BY <1>3 DEF SettleFee, RequestRefund, BaseInv, Equipped, CancelCalls
<1>4. QED BY <1>1, <1>2, <1>3

LEMMA DealtWithKept ==
  ASSUME BaseInv, [Next]_vars, NEW b \in Bookings, DealtWith(b)
  PROVE  DealtWith(b)'
<1>1. CASE returns' = returns
  BY <1>1 DEF DealtWith
<1>2. ASSUME NEW r \in Requests, subject[r] \in Bookings, returns' = Returned(subject[r])
      PROVE  DealtWith(b)'
  <2>1. returns[b] > 0 => Returned(subject[r])[b] > 0
    BY <1>2, ReturnedCounts DEF BaseInv
  <2>2. QED BY <1>2, <2>1 DEF DealtWith
<1>3. QED BY <1>1, <1>2, ReturnsStep

LEMMA FeeFirstStep ==
  ASSUME "refundCode" \notin Fails, BaseInv, FeeFirst, [Next]_vars
  PROVE  FeeFirst'
<1> SUFFICES ASSUME NEW q \in Requests, pc'[q] \in {"deleteSlot", "cancelCrm", "recognise"}
             PROVE  DealtWith(subject[q])'
  BY DEF FeeFirst
<1> USE DEF BaseInv
<1>1. ASSUME pc[q] = pc'[q], subject'[q] = subject[q] PROVE DealtWith(subject[q])'
  <2>1. subject[q] \in Bookings /\ DealtWith(subject[q])
    BY <1>1 DEF FeeFirst, Equipped, CancelCalls
  <2>2. QED BY <1>1, <2>1, DealtWithKept DEF DealtWith
<1>2. CASE World
  BY <1>1, <1>2, WorldFrame DEF request
<1>3. ASSUME NEW r \in Requests, r # q, Own(r) PROVE DealtWith(subject[q])'
  BY <1>1, <1>3, OthersKept
<1>4. CASE Handle(q) \/ Crash(q)
  <2>1. /\ subject'[q] = subject[q]
        /\ \/ pc[q] \in {"markCancel", "money"} /\ pc'[q] = "deleteSlot"
           \/ pc[q] = "deleteSlot"
           \/ pc[q] = "refund" /\ pc'[q] = "recognise"
    BY <1>4, HandleSteps DEF Follows
  <2>2. subject[q] \in Bookings
    BY <2>1 DEF Equipped, CancelCalls
  <2>3. Handle(q)
    BY <1>4 DEF Crash, Forget, FlowOK
  <2>4. CASE pc[q] = "markCancel" /\ pc'[q] = "deleteSlot"
    <3>1. subject[q] \in ZeroCost
      BY <2>3, <2>4, StepAt DEF MarkCancelling, Proceed, ProceedTo, FlowOK
    <3>2. QED BY <2>1, <3>1 DEF DealtWith
  <2>5. CASE pc[q] = "money" /\ pc'[q] = "deleteSlot"
    <3>1. returns' = Returned(subject[q])
      BY <2>3, <2>5, StepAt DEF SettleFee, Proceed, ProceedTo, FlowOK, Effective
    <3>2. QED BY <2>1, <2>2, <3>1, ReturnedCounts DEF DealtWith
  <2>6. CASE pc[q] = "refund" /\ pc'[q] = "recognise"
    <3>1. returns' = Returned(subject[q])
      BY <2>3, <2>6, StepAt DEF RequestRefund, Proceed, Answer, FlowOK, Effective
    <3>2. QED BY <2>1, <2>2, <3>1, ReturnedCounts DEF DealtWith
  <2>7. CASE pc[q] = "deleteSlot"
    <3>1. DealtWith(subject[q])
      BY <2>7 DEF FeeFirst
    <3>2. QED BY <2>1, <2>2, <3>1, DealtWithKept DEF DealtWith
  <2>8. QED BY <2>1, <2>4, <2>5, <2>6, <2>7
<1>5. ASSUME NEW s \in Sessions, StartRequest(q, s) PROVE FALSE
  BY <1>5, StartSteps
<1>6. QED BY <1>2, <1>3, <1>4, <1>5, StepKinds DEF Own

(* A booking is Cancelled with nothing owed only when its fee was dealt with, *)
(* for any interleaving and any failure, provided the payment service does    *)
(* not answer a refund with another code than success, which is only logged.  *)
THEOREM PaidBackCorrect ==
  ASSUME "refundCode" \notin Fails
  PROVE  Spec => []CancelledIsPaidBack
<1>1. Init => FeeFirst /\ CancelledIsPaidBack
  BY DEF Init, FeeFirst, CancelledIsPaidBack
<1>2. BaseInv /\ FeeFirst /\ CancelledIsPaidBack /\ [Next]_vars => CancelledIsPaidBack'
  <2> SUFFICES ASSUME BaseInv, FeeFirst, CancelledIsPaidBack, [Next]_vars, NEW b \in Bookings,
                      crm'[b].status = "Cancelled", ~crm'[b].owed
               PROVE  DealtWith(b)'
    BY DEF CancelledIsPaidBack, DealtWith
  <2>1. \/ crm'[b] = crm[b]
        \/ \E r \in Requests : subject[r] = b /\ (CancelInCrm(r) \/ RecogniseCompensation(r))
    BY CrmStep
  <2>2. DealtWith(b)
    BY <2>1 DEF CancelledIsPaidBack, DealtWith, FeeFirst, CancelInCrm, RecogniseCompensation
  <2>3. QED BY <2>2, DealtWithKept
<1>3. BaseInv /\ FeeFirst /\ [Next]_vars => FeeFirst'
  BY FeeFirstStep
<1>4. QED BY <1>1, <1>2, <1>3, BaseCorrect, PTL DEF Spec

-------------------------------------------------------------------------------
(* One session and one request at a time. *)
OneAtATime ==
  /\ \A r \in Requests : pc[r] # "idle" => home[r] \in Sessions
  /\ \A q, r \in Requests : pc[q] # "idle" /\ pc[r] # "idle" => q = r

(* What the CRM and the scheduling service hold while a request works. *)
InStep ==
  \A r \in Requests :
    /\ pc[r] \in {"vacate", "occupy", "record"} => crm[subject[r]].status = "ChangeInProgress"
    /\ pc[r] \in {"money", "deleteSlot", "cancelCrm"} => crm[subject[r]].status = "CancellationInProgress"
    /\ pc[r] = "record" => tcn[subject[r]] = copy[r].edit

LEMMA OneStarts ==
  ASSUME ~Overlap, \A s, u \in Sessions : s = u, FlowOK, OneAtATime,
         NEW r \in Requests, NEW s \in Sessions, StartRequest(r, s), NEW q \in Requests
  PROVE  pc[q] = "idle"
  BY StartSteps DEF MayStart, Busy, OneAtATime

LEMMA OneAtATimeStep ==
  ASSUME ~Overlap, \A s, u \in Sessions : s = u, BaseInv, OneAtATime, [Next]_vars
  PROVE  OneAtATime'
<1> USE DEF BaseInv, FlowOK, OneAtATime
<1>1. CASE World
  BY <1>1, WorldFrame DEF request
<1>2. ASSUME NEW r \in Requests, Handle(r) \/ Crash(r) PROVE OneAtATime'
  BY <1>2, HandleSteps
<1>3. ASSUME NEW r \in Requests, NEW s \in Sessions, StartRequest(r, s) PROVE OneAtATime'
  <2>1. \A q \in Requests : pc[q] = "idle"
    BY <1>3, OneStarts
  <2>2. \A q \in Requests : q # r => pc'[q] = "idle"
    BY <1>3, <2>1, OthersKept DEF Own
  <2>3. home'[r] = s
    BY <1>3, StartSteps
  <2>4. QED BY <2>2, <2>3
<1>4. QED BY <1>1, <1>2, <1>3, StepKinds DEF Own

LEMMA InStepStep ==
  ASSUME ~Overlap, \A s, u \in Sessions : s = u,
         BaseInv, OneAtATime, InStep, ConfirmedHoldsItsSlot, [Next]_vars
  PROVE  InStep'
<1> SUFFICES ASSUME NEW q \in Requests, pc'[q] \in ChangeCalls \cup CancelCalls
             PROVE  /\ pc'[q] \in {"vacate", "occupy", "record"} => crm'[subject'[q]].status = "ChangeInProgress"
                    /\ pc'[q] \in {"money", "deleteSlot", "cancelCrm"} =>
                         crm'[subject'[q]].status = "CancellationInProgress"
                    /\ pc'[q] = "record" => tcn'[subject'[q]] = copy'[q].edit
  BY DEF InStep, ChangeCalls, CancelCalls
<1> USE DEF BaseInv
<1>1. CASE World
  <2>1. /\ pc'[q] = pc[q] /\ subject'[q] = subject[q] /\ copy'[q] = copy[q]
    BY <1>1, WorldFrame DEF request
  <2>2. subject[q] \in Bookings
    BY <2>1 DEF Equipped
  <2>3. crm[subject[q]].status # "Confirmed" => crm'[subject[q]] = crm[subject[q]] /\ tcn'[subject[q]] = tcn[subject[q]]
    BY <1>1, <2>2 DEF World, AgencyCancels, OtherTakes, ReleaseSlot, DayComes, ChooseChange, ResetChange,
                 ExpireSession, vars, world, WorldOK
  <2>4. QED BY <2>1, <2>3 DEF InStep
<1>2. ASSUME NEW r \in Requests, r # q, Own(r) PROVE FALSE
  <2>1. pc[q] # "idle" /\ pc'[q] = pc[q]
    BY <1>2, OthersKept DEF ChangeCalls, CancelCalls
  <2>2. pc[r] = "idle"
    BY <1>2, <2>1 DEF OneAtATime
  <2>3. ~Handle(r) /\ ~Crash(r)
    BY <2>2, HandleSteps
  <2>4. PICK s \in Sessions : StartRequest(r, s)
    BY <1>2, <2>3 DEF Own
  <2>5. FALSE
    BY <2>1, <2>4, OneStarts
  <2>6. QED BY <2>5
<1>3. CASE Handle(q) \/ Crash(q)
  <2>1. /\ subject'[q] = subject[q] /\ copy'[q] = copy[q]
        /\ \/ pc[q] = "reserve" /\ pc'[q] = "mark"
           \/ pc[q] = "mark" /\ pc'[q] = "vacate"
           \/ pc[q] = "vacate" /\ pc'[q] = "occupy"
           \/ pc[q] = "occupy" /\ pc'[q] = "record"
           \/ pc[q] = "markCancel" /\ pc'[q] \in {"money", "deleteSlot"}
           \/ pc[q] = "money" /\ pc'[q] = "deleteSlot"
           \/ pc[q] = "deleteSlot" /\ pc'[q] = "cancelCrm"
    BY <1>3, HandleSteps DEF Follows, ChangeCalls, CancelCalls
  <2>2. subject[q] \in Bookings
    BY <2>1 DEF Equipped, ChangeCalls, CancelCalls
  <2>3. Handle(q)
    BY <1>3 DEF Crash, Forget, FlowOK, ChangeCalls, CancelCalls
  <2> USE DEF Proceed, ProceedTo, FlowOK, WorldOK, CrmBookings, Effective
  <2>4. CASE pc[q] = "reserve"
    BY <2>1, <2>4
  <2>5. CASE pc[q] = "mark"
    <3>1. MarkChanging(q) /\ pc'[q] = "vacate"
      BY <2>1, <2>3, <2>5, StepAt
    <3>2. crm'[subject[q]].status = "ChangeInProgress"
      BY <2>2, <3>1 DEF MarkChanging
    <3>3. QED BY <2>1, <3>1, <3>2
  <2>6. CASE pc[q] = "vacate"
    BY <2>1, <2>3, <2>6, StepAt DEF VacateOldSlot, InStep
  <2>7. CASE pc[q] = "occupy"
    BY <2>1, <2>2, <2>3, <2>7, StepAt DEF OccupyNewSlot, InStep
  <2>8. CASE pc[q] = "markCancel"
    <3>1. MarkCancelling(q) /\ pc'[q] \in {"money", "deleteSlot"}
      BY <2>1, <2>3, <2>8, StepAt
    <3>2. crm'[subject[q]].status = "CancellationInProgress"
      BY <2>2, <3>1 DEF MarkCancelling
    <3>3. QED BY <2>1, <3>1, <3>2
  <2>9. CASE pc[q] \in {"money", "deleteSlot"}
    <3>1. crm' = crm /\ crm[subject[q]].status = "CancellationInProgress"
      BY <2>3, <2>9, StepAt DEF SettleFee, DeleteScheduledSlot, InStep
    <3>2. QED BY <2>1, <2>9, <3>1
  <2>10. QED BY <2>1, <2>4, <2>5, <2>6, <2>7, <2>8, <2>9
<1>4. ASSUME NEW s \in Sessions, StartRequest(q, s)
      PROVE  pc'[q] \in {"reserve", "markCancel"}
  BY <1>4, StartSteps DEF ChangeCalls, CancelCalls
<1>5. QED BY <1>1, <1>2, <1>3, <1>4, StepKinds DEF Own

LEMMA OrderedCorrect ==
  ASSUME ~Overlap, \A s, u \in Sessions : s = u
  PROVE  Spec => [](OneAtATime /\ InStep /\ ConfirmedHoldsItsSlot)
<1>1. Init => OneAtATime /\ InStep /\ ConfirmedHoldsItsSlot
  BY DEF Init, OneAtATime, InStep, ConfirmedHoldsItsSlot
<1>2. BaseInv /\ OneAtATime /\ [Next]_vars => OneAtATime'
  BY OneAtATimeStep
<1>3. BaseInv /\ OneAtATime /\ InStep /\ ConfirmedHoldsItsSlot /\ [Next]_vars => InStep'
  BY InStepStep
<1>4. BaseInv /\ InStep /\ ConfirmedHoldsItsSlot /\ [Next]_vars => ConfirmedHoldsItsSlot'
  <2> SUFFICES ASSUME BaseInv, InStep, ConfirmedHoldsItsSlot, [Next]_vars, NEW b \in Bookings,
                      crm'[b].status = "Confirmed"
               PROVE  tcn'[b] = crm'[b].slot
    BY DEF ConfirmedHoldsItsSlot
  <2>1. CASE \E r \in Requests : RecordChange(r) /\ subject[r] = b /\ crm'[b].slot = copy[r].edit
    BY <2>1 DEF RecordChange, InStep
  <2>2. CASE crm[b].status = "Confirmed" /\ crm'[b].slot = crm[b].slot /\ ~AgencyCancels(b)
    <3>1. ~ \E r \in Requests : (VacateOldSlot(r) \/ DeleteScheduledSlot(r) \/ OccupyNewSlot(r)) /\ subject[r] = b
      BY <2>2 DEF VacateOldSlot, DeleteScheduledSlot, OccupyNewSlot, InStep
    <3>2. tcn'[b] = tcn[b]
      BY <2>2, <3>1, PlaceStep
    <3>3. QED BY <2>2, <3>2 DEF ConfirmedHoldsItsSlot
  <2>3. AgencyCancels(b) => crm'[b].status # "Confirmed"
    BY DEF AgencyCancels, BaseInv, WorldOK, CrmBookings
  <2>4. QED BY <2>1, <2>2, <2>3, CrmStep
<1>5. QED BY <1>1, <1>2, <1>3, <1>4, BaseCorrect, PTL DEF Spec

(* One request at a time: a Confirmed booking holds, in the scheduling        *)
(* service, the slot that the CRM shows.  Any call may fail or lose its       *)
(* answer and the server may die between any two of them.                     *)
THEOREM SlotCorrect ==
  ASSUME ~Overlap, \A s, u \in Sessions : s = u
  PROVE  Spec => []ConfirmedHoldsItsSlot
BY OrderedCorrect, PTL

-------------------------------------------------------------------------------
(* A change kept in a session is for the current booking, and so is one that  *)
(* a request works on.                                                        *)
Matched(data) == data.edit # None => data.chosenFor = data.current

Matching ==
  /\ \A s \in Sessions : Matched(session[s])
  /\ \A r \in Requests : Matched(copy[r])
  /\ \A r \in Requests : pc[r] \in ChangeCalls => subject[r] = copy[r].current

LEMMA EmptyIsMatched ==
  /\ Matched(Blank)
  /\ \A d \in SessionData : Matched(NoChange(d)) /\ Matched(Finished(d))
  BY DEF Matched, Blank, SessionData, NoChange, Finished

LEMMA RelistedIsMatched ==
  ASSUME NEW d \in SessionData, Matched(d), NEW list
  PROVE  Matched([d EXCEPT !.list = list])
  BY DEF Matched, SessionData

(* What the handlers do with a change. *)
LEMMA MatchedHandle ==
  ASSUME BaseInv, NEW r \in Requests, Matched(copy[r]), Handle(r) \/ Crash(r)
  PROVE  Matched(copy'[r])
<1> USE DEF BaseInv, FlowOK
<1>0. copy[r] \in SessionData
  OBVIOUS
<1>1. CASE Save(r) \/ Crash(r)
  BY <1>1, EmptyIsMatched DEF Save, Crash, Forget
<1>2. CASE LogIn(r)
  <2>1. ASSUME NEW list, copy'[r] = [Blank EXCEPT !.live = TRUE, !.list = list]
        PROVE  Matched(copy'[r])
    BY <2>1 DEF Matched, Blank
  <2>2. \/ \E list : copy'[r] = [Blank EXCEPT !.live = TRUE, !.list = list]
        \/ copy'[r] = Blank
    BY <1>2 DEF LogIn, Answer
  <2>3. QED BY <2>1, <2>2, EmptyIsMatched
<1>3. CASE ListBookings(r)
  <2>1. ASSUME NEW list, copy' = [copy EXCEPT ![r].list = list] PROVE Matched(copy'[r])
    BY <1>0, <2>1, RelistedIsMatched
  <2>2. QED BY <1>3, <2>1 DEF ListBookings, Answer
<1>4. CASE ViewBooking(r)
  <2>1. ASSUME NEW dated, Answer(r, [copy[r] EXCEPT !.list[subject[r]].dated = dated], "view")
        PROVE  Matched(copy'[r])
    BY <1>0, <2>1, RelistedIsMatched DEF Answer
  <2>2. QED BY <1>4, <2>1 DEF ViewBooking, Answer
<1>5. CASE Reload(r)
  <2>1. PICK list, dated, p : Answer(r, AfterReload(copy[r], page[r], subject[r], list, dated), p)
    BY <1>5 DEF Reload
  <2> DEFINE fresh == [copy[r] EXCEPT !.list = [list EXCEPT ![subject[r]].dated = dated]]
  <2>2. Matched(fresh) /\ Matched(Finished(fresh))
    <3>1. Matched(Finished(fresh))
      BY <1>0 DEF Matched, Finished, NoChange, SessionData
    <3>2. QED BY <1>0, <3>1, RelistedIsMatched
  <2>3. AfterReload(copy[r], page[r], subject[r], list, dated) \in {Blank, Finished(fresh), fresh}
    BY DEF AfterReload
  <2> HIDE DEF fresh
  <2>4. Matched(AfterReload(copy[r], page[r], subject[r], list, dated))
    BY <2>2, <2>3, EmptyIsMatched
  <2>5. QED BY <2>1, <2>4 DEF Answer
<1>6. CASE ReloadFails(r)
  BY <1>0, <1>6, EmptyIsMatched DEF ReloadFails, Answer, ProceedTo
<1>7. CASE ReloadList(r)
  <2>1. PICK p :
          \/ \E list : Answer(r, [copy[r] EXCEPT !.list = list], p)
          \/ Answer(r, copy[r], p)
    BY <1>7 DEF ReloadList
  <2>2. ASSUME NEW list, Answer(r, [copy[r] EXCEPT !.list = list], p) PROVE Matched(copy'[r])
    <3>1. copy'[r] = [copy[r] EXCEPT !.list = list]
      BY <2>2 DEF Answer
    <3>2. QED BY <1>0, <3>1, RelistedIsMatched
  <2>3. Answer(r, copy[r], p) => Matched(copy'[r])
    BY DEF Answer
  <2>4. QED BY <2>1, <2>2, <2>3
<1>8. CASE ProbeChanges(r) \/ UpdateSupport(r) \/ Move(r)
  BY <1>8 DEF ProbeChanges, UpdateSupport, Move, ReserveNewSlot, MarkChanging, VacateOldSlot,
              OccupyNewSlot, RecordChange, Proceed, ProceedTo
<1>9. CASE MarkCancelling(r) \/ SettleFee(r) \/ DeleteScheduledSlot(r) \/ CancelInCrm(r) \/ Refund(r)
  BY <1>9 DEF MarkCancelling, SettleFee, DeleteScheduledSlot, CancelInCrm, Refund, RequestRefund,
              RecogniseCompensation, Answer, Proceed, ProceedTo
<1>10. QED
  BY <1>1, <1>2, <1>3, <1>4, <1>5, <1>6, <1>7, <1>8, <1>9 DEF Handle, Look, Change, Cancel

LEMMA MatchedStart ==
  ASSUME BaseInv, Matching, NEW r \in Requests, NEW s \in Sessions, StartRequest(r, s)
  PROVE  /\ Matched(copy'[r]) /\ session' = session
         /\ pc'[r] \in ChangeCalls => subject'[r] = copy'[r].current
<1> USE DEF BaseInv, FlowOK, Start
<1>0. session[s] \in SessionData /\ Matched(session[s])
  BY DEF Matching
<1>1. CASE StartLogin(r, s) \/ StartHome(r, s)
  BY <1>0, <1>1, EmptyIsMatched DEF StartLogin, StartHome, ChangeCalls
<1>2. CASE StartChange(r, s)
  BY <1>0, <1>2 DEF StartChange
<1>3. CASE StartUndone(r, s)
  BY <1>0, <1>3, EmptyIsMatched DEF StartUndone, StartDecided, ChangeCalls
<1>4. ASSUME NEW b \in Bookings, StartView(r, s, b)
      PROVE  Matched(copy'[r]) /\ session' = session /\ pc'[r] = "view"
  <2>1. Matched([NoChange(session[s]) EXCEPT !.current = b])
    BY <1>0 DEF Matched, NoChange, SessionData
  <2>2. QED BY <1>4, <2>1 DEF StartView
<1>5. ASSUME NEW b \in Bookings, StartCancel(r, s, b) \/ StartRefund(r, s, b)
      PROVE  /\ Matched(copy'[r]) /\ session' = session
             /\ pc'[r] \in {"markCancel", "refund"}
  BY <1>0, <1>5 DEF StartCancel, StartRefund
<1>6. QED BY <1>1, <1>2, <1>3, <1>4, <1>5 DEF StartRequest, ChangeCalls

(* Without revisits a slot chosen for one booking never moves another, with   *)
(* any number of sessions and of overlapping requests that each save their    *)
(* own copy of the session.                                                   *)
THEOREM ChangeCorrect ==
  ASSUME ~Revisit
  PROVE  Spec => []ChangeIsForItsBooking
<1>1. Init => Matching
  BY EmptyIsMatched DEF Init, Matching, ChangeCalls
<1>2. BaseInv /\ Matching /\ [Next]_vars => Matching'
  <2> SUFFICES ASSUME BaseInv, Matching, [Next]_vars PROVE Matching'
    OBVIOUS
  <2> USE DEF BaseInv, FlowOK
  <2>1. ASSUME UNCHANGED request,
               \A s \in Sessions : Matched(session'[s])
        PROVE  Matching'
    BY <2>1 DEF Matching, request, Matched
  <2>2. ASSUME NEW s \in Sessions, ChooseChange(s) PROVE Matching'
    <3>1. PICK change \in Slots \cup {"support"}, b \in Bookings :
            /\ Revisit \/ b = session[s].current
            /\ session' = [session EXCEPT ![s] = [session[s] EXCEPT !.edit = change, !.chosenFor = b]]
      BY <2>2 DEF ChooseChange
    <3>2. Matched([session[s] EXCEPT !.edit = change, !.chosenFor = b])
      BY <3>1 DEF Matched, SessionData
    <3>3. QED BY <2>1, <2>2, <3>1, <3>2 DEF ChooseChange, Matching
  <2>3. ASSUME NEW s \in Sessions, ResetChange(s) \/ ExpireSession(s) PROVE Matching'
    BY <2>1, <2>3, EmptyIsMatched DEF ResetChange, ExpireSession, Matching
  <2>4. CASE UNCHANGED <<session, request>>
    BY <2>1, <2>4 DEF Matching
  <2>5. ASSUME NEW r \in Requests, Handle(r) \/ Crash(r) PROVE Matching'
    <3>1. \A s \in Sessions : Matched(session'[s])
      <4>1. CASE Save(r)
        <5> SUFFICES ASSUME NEW s \in Sessions PROVE Matched(session'[s])
          OBVIOUS
        <5>1. session'[s] = session[s] \/ session'[s] = copy[r]
          BY <4>1 DEF Save
        <5>2. Matched(session[s]) /\ Matched(copy[r])
          BY <2>5 DEF Matching
        <5>3. QED BY <5>1, <5>2
      <4>2. CASE session' = session
        BY <4>2 DEF Matching
      <4>3. Save(r) \/ session' = session
        BY <2>5 DEF Handle, Crash, Look, LogIn, ListBookings, ProbeChanges, ViewBooking, Change, Move,
           ReserveNewSlot, MarkChanging, VacateOldSlot, OccupyNewSlot, RecordChange, UpdateSupport,
           Reload, ReloadFails, Cancel, MarkCancelling, SettleFee, DeleteScheduledSlot, CancelInCrm,
           ReloadList, Refund, RequestRefund, RecogniseCompensation, Answer, Proceed, ProceedTo
      <4>4. QED BY <4>1, <4>2, <4>3
    <3>2. Matched(copy'[r])
      <4>1. Matched(copy[r])
        BY <2>5 DEF Matching
      <4>2. QED BY <2>5, <4>1, MatchedHandle
    <3>3. pc'[r] \in ChangeCalls => subject'[r] = copy'[r].current
      <4>1. pc'[r] \in ChangeCalls =>
              pc[r] \in ChangeCalls /\ subject' = subject /\ copy' = copy
        BY <2>5, HandleSteps DEF Follows, ChangeCalls
      <4>2. pc[r] \in ChangeCalls => subject[r] = copy[r].current
        BY <2>5 DEF Matching
      <4>3. QED BY <4>1, <4>2
    <3>4. \A q \in Requests : q # r => pc'[q] = pc[q] /\ copy'[q] = copy[q] /\ subject'[q] = subject[q]
      BY <2>5, OthersKept DEF Own
    <3>5. QED BY <3>1, <3>2, <3>3, <3>4 DEF Matching, Matched
  <2>6. ASSUME NEW r \in Requests, NEW s \in Sessions, StartRequest(r, s) PROVE Matching'
    <3>1. \A q \in Requests : q # r => pc'[q] = pc[q] /\ copy'[q] = copy[q] /\ subject'[q] = subject[q]
      BY <2>6, OthersKept DEF Own
    <3>2. QED BY <2>6, <3>1, MatchedStart DEF Matching, Matched
  <2>7. QED
    BY <2>2, <2>3, <2>4, <2>5, <2>6
       DEF Next, vars, request, AgencyCancels, OtherTakes, ReleaseSlot, DayComes
<1>3. BaseInv /\ Matching => ChangeIsForItsBooking
  <2> SUFFICES ASSUME BaseInv, Matching, NEW r \in Requests, pc[r] \in ChangeCalls
               PROVE  copy[r].chosenFor = subject[r]
    BY DEF ChangeIsForItsBooking
  <2>1. copy[r].edit # None
    BY ConstantsAssumption DEF BaseInv, Equipped
  <2>2. Matched(copy[r]) /\ subject[r] = copy[r].current
    BY DEF Matching
  <2>3. QED BY <2>1, <2>2 DEF Matched
<1>4. QED BY <1>1, <1>2, <1>3, BaseCorrect, PTL DEF Spec

-------------------------------------------------------------------------------
(* The lists of bookings: where the list of a session or of a request is from. *)

(* One session, one request of it at a time. *)
Solitary == ~Overlap /\ \A s, u \in Sessions : s = u

(* Two lists that differ only in which last days are known. *)
SameList(l, k) ==
  \A b \in Bookings :
    l[b].status = k[b].status /\ l[b].slot = k[b].slot /\ l[b].settled = k[b].settled

LEMMA DatedIsSame ==
  ASSUME NEW l \in [Bookings -> Entries], NEW b, NEW dated
  PROVE  SameList([l EXCEPT ![b].dated = dated], l)
  BY DEF SameList, Entries

LEMMA SameIsSame == \A l : SameList(l, l)
  BY DEF SameList

(* The list of a request at work is the one it had, the one of the session it *)
(* started with, or just loaded.                                              *)
LEMMA CopyList ==
  ASSUME BaseInv, "load" \notin Fails, [Next]_vars, NEW r \in Requests, pc'[r] # "idle"
  PROVE  \/ /\ pc[r] # "idle" /\ SameList(copy'[r].list, copy[r].list)
            /\ pc'[r] = pc[r] \/ Follows(pc[r], pc'[r]) \/ pc[r] \in {"probe", "view", "refund", "recognise"}
         \/ \E s \in Sessions : /\ StartRequest(r, s)
                                /\ copy'[r].list \in {session[s].list, Blank.list}
         \/ /\ UNCHANGED world
            /\ \/ copy'[r].list = Blank.list
               \/ \E lagging \in Lags : SameList(copy'[r].list, Loaded(lagging))
<1> USE DEF BaseInv, FlowOK
<1>0. copy[r] \in SessionData /\ copy[r].list \in [Bookings -> Entries]
  BY DataType
<1>1. CASE World
  BY <1>1, WorldFrame, SameIsSame DEF request
<1>2. ASSUME NEW q \in Requests, q # r, Own(q)
      PROVE  pc[r] # "idle" /\ pc'[r] = pc[r] /\ SameList(copy'[r].list, copy[r].list)
  BY <1>2, OthersKept, SameIsSame
<1>3. ASSUME NEW s \in Sessions, StartRequest(r, s)
      PROVE  copy'[r].list \in {session[s].list, Blank.list}
  <2>0. session[s] \in SessionData
    OBVIOUS
  <2>1. CASE StartLogin(r, s) \/ StartHome(r, s) \/ StartChange(r, s)
    BY <2>1 DEF StartLogin, StartHome, StartChange, Start
  <2>2. CASE StartUndone(r, s)
    <3>1. Finished(session[s]).list = session[s].list
      BY <2>0 DEF Finished, NoChange, SessionData
    <3>2. QED BY <2>2, <3>1 DEF StartUndone, StartDecided
  <2>3. ASSUME NEW b \in Bookings, StartView(r, s, b) \/ StartCancel(r, s, b) \/ StartRefund(r, s, b)
        PROVE  copy'[r].list = session[s].list
    <3>1. [NoChange(session[s]) EXCEPT !.current = b].list = session[s].list
      BY <2>0 DEF NoChange, SessionData
    <3>2. QED BY <2>3, <3>1 DEF StartView, StartCancel, StartRefund, Start
  <2>4. QED BY <1>3, <2>1, <2>2, <2>3 DEF StartRequest
<1>4. CASE Save(r) \/ Crash(r)
  BY <1>4 DEF Save, Crash, Forget
<1>5. CASE LogIn(r)
  <2>1. PICK lagging \in Lags : Answer(r, [Blank EXCEPT !.live = TRUE, !.list = Loaded(lagging)], "home")
    BY <1>5 DEF LogIn
  <2>2. copy'[r].list = Loaded(lagging)
    BY <2>1 DEF Answer, Blank
  <2>3. QED BY <1>5, <2>2, SameIsSame DEF LogIn
<1>6. CASE ListBookings(r)
  <2>1. PICK lagging \in Lags : copy' = [copy EXCEPT ![r].list = Loaded(lagging)]
    BY <1>6 DEF ListBookings
  <2>2. copy'[r].list = Loaded(lagging)
    BY <1>0, <2>1 DEF SessionData
  <2>3. QED BY <1>6, <2>2, SameIsSame DEF ListBookings
<1>7. CASE ViewBooking(r)
  <2>1. ASSUME NEW dated, Answer(r, [copy[r] EXCEPT !.list[subject[r]].dated = dated], "view")
        PROVE  SameList(copy'[r].list, copy[r].list)
    <3>1. copy'[r] = [copy[r] EXCEPT !.list[subject[r]].dated = dated]
      BY <2>1 DEF Answer
    <3>2. copy'[r].list = [copy[r].list EXCEPT ![subject[r]].dated = dated]
      BY <1>0, <3>1 DEF SessionData
    <3>3. QED BY <1>0, <3>2 DEF SameList, Entries
  <2>2. ASSUME Answer(r, copy[r], "view") PROVE SameList(copy'[r].list, copy[r].list)
    BY <2>2, SameIsSame DEF Answer
  <2>3. SameList(copy'[r].list, copy[r].list)
    BY <1>7, <2>1, <2>2 DEF ViewBooking
  <2>4. QED BY <1>7, <2>3 DEF ViewBooking
<1>8. CASE Reload(r)
  <2>1. PICK lagging, dated, p :
          /\ lagging \in Lags
          /\ Answer(r, AfterReload(copy[r], page[r], subject[r], Loaded(lagging), dated), p)
    BY <1>8 DEF Reload
  <2> DEFINE l == [Loaded(lagging) EXCEPT ![subject[r]].dated = dated]
             fresh == [copy[r] EXCEPT !.list = l]
  <2>2. fresh.list = l /\ Finished(fresh).list = l
    BY <1>0 DEF Finished, NoChange, SessionData
  <2>3. AfterReload(copy[r], page[r], subject[r], Loaded(lagging), dated) \in {Blank, Finished(fresh), fresh}
    BY DEF AfterReload
  <2>4. SameList(l, Loaded(lagging))
    <3>1. lagging \in BOOLEAN
      BY <2>1 DEF Lags
    <3>2. Loaded(lagging) \in [Bookings -> Entries]
      BY <3>1, LoadedType
    <3>3. QED BY <3>2, DatedIsSame
  <2>5. copy'[r] = AfterReload(copy[r], page[r], subject[r], Loaded(lagging), dated)
    BY <2>1 DEF Answer
  <2> HIDE DEF fresh, l
  <2>6. QED BY <1>8, <2>1, <2>2, <2>3, <2>4, <2>5 DEF Reload
<1>9. CASE ReloadList(r)
  <2>1. PICK lagging \in Lags : Answer(r, [copy[r] EXCEPT !.list = Loaded(lagging)], page[r])
    BY <1>9 DEF ReloadList
  <2>2. copy'[r].list = Loaded(lagging)
    BY <1>0, <2>1 DEF Answer, SessionData
  <2>3. QED BY <1>9, <2>2, SameIsSame DEF ReloadList
<1>10. CASE ProbeChanges(r)
  BY <1>10, SameIsSame DEF ProbeChanges
<1>11. CASE UpdateSupport(r) \/ Move(r)
  BY <1>11, SameIsSame DEF UpdateSupport, Move, ReserveNewSlot, MarkChanging, VacateOldSlot,
     OccupyNewSlot, RecordChange, Proceed, ProceedTo, Follows, ChangeCalls
<1>12. CASE MarkCancelling(r) \/ SettleFee(r) \/ DeleteScheduledSlot(r) \/ CancelInCrm(r)
  BY <1>12, SameIsSame DEF MarkCancelling, SettleFee, DeleteScheduledSlot, CancelInCrm,
     Proceed, ProceedTo, Follows
<1>13. CASE Refund(r)
  BY <1>13, SameIsSame DEF Refund, RequestRefund, RecogniseCompensation, Answer, Proceed, ProceedTo, Follows
<1>14. ~ReloadFails(r)
  BY DEF ReloadFails
<1>15. Handle(r) => \/ Save(r) \/ LogIn(r) \/ ListBookings(r) \/ ViewBooking(r) \/ Reload(r) \/ ReloadList(r)
                   \/ ProbeChanges(r) \/ UpdateSupport(r) \/ Move(r) \/ MarkCancelling(r) \/ SettleFee(r)
                   \/ DeleteScheduledSlot(r) \/ CancelInCrm(r) \/ Refund(r)
  BY <1>14 DEF Handle, Look, Change, Cancel
<1>16. QED
  BY <1>1, <1>2, <1>3, <1>4, <1>5, <1>6, <1>7, <1>8, <1>9, <1>10, <1>11, <1>12, <1>13, <1>15, StepKinds DEF Own

(* A session that no request is working for has the list it had, or the one   *)
(* of the request that ends, or is new.                                       *)
LEMMA SessionList ==
  ASSUME Solitary, "crash" \notin Fails, BaseInv, OneAtATime, [Next]_vars,
         NEW s \in Sessions, ~Busy(s)'
  PROVE  \/ session'[s] = Blank
         \/ \E r \in Requests : Save(r) /\ session'[s] = copy[r]
         \/ ~Busy(s) /\ World /\ session'[s].list = session[s].list
<1> USE DEF BaseInv, FlowOK, Solitary
<1>0. session[s] \in SessionData
  OBVIOUS
<1>1. CASE World
  <2>1. home' = home
    BY <1>1, WorldFrame DEF request
  <2>2. ASSUME NEW u \in Sessions, ChooseChange(u) \/ ResetChange(u) \/ ExpireSession(u)
        PROVE  session'[s] = Blank \/ session'[s].list = session[s].list
    <3>1. CASE ChooseChange(u)
      <4>1. PICK change, b :
              session' = [session EXCEPT ![u] = [session[u] EXCEPT !.edit = change, !.chosenFor = b]]
        BY <3>1 DEF ChooseChange
      <4>2. QED BY <1>0, <4>1 DEF SessionData
    <3>2. CASE ResetChange(u)
      BY <1>0, <3>2 DEF ResetChange, Finished, NoChange, SessionData
    <3>3. QED BY <2>2, <3>1, <3>2 DEF ExpireSession
  <2>3. session'[s] = Blank \/ session'[s].list = session[s].list
    BY <1>1, <2>2 DEF World, AgencyCancels, OtherTakes, ReleaseSlot, DayComes, vars
  <2>4. QED BY <1>1, <2>1, <2>3 DEF Busy
<1>2. ASSUME NEW r \in Requests, NEW u \in Sessions, StartRequest(r, u) PROVE FALSE
  <2>1. home'[r] = s
    BY <1>2, StartSteps
  <2>2. QED BY <2>1 DEF Busy
<1>3. ASSUME NEW r \in Requests, Handle(r) PROVE Save(r) /\ session'[s] = copy[r]
  <2>1. pc[r] # "idle" /\ home[r] = s
    BY <1>3, HandleSteps DEF OneAtATime
  <2>2. home'[r] # s
    BY DEF Busy
  <2>3. Save(r)
    BY <1>3, <2>1, <2>2
       DEF Handle, Look, LogIn, ListBookings, ProbeChanges, ViewBooking, Change, Move,
       ReserveNewSlot, MarkChanging, VacateOldSlot, OccupyNewSlot, RecordChange, UpdateSupport,
       Reload, ReloadFails, Cancel, MarkCancelling, SettleFee, DeleteScheduledSlot, CancelInCrm,
       ReloadList, Refund, RequestRefund, RecogniseCompensation, Answer, Proceed, ProceedTo
  <2>4. QED BY <2>1, <2>3 DEF Save
<1>4. \A r \in Requests : ~Crash(r)
  BY DEF Crash
<1>5. QED BY <1>1, <1>2, <1>3, <1>4, StepKinds DEF Own

-------------------------------------------------------------------------------
(* Every booking that a list shows is shown with the slot the CRM has. *)
ShowsSlots(list) ==
  \A b \in Bookings : list[b].status # "unlisted" => list[b].slot = crm[b].slot

(* The lists that are decided on are such lists, and what is cancelled is     *)
(* listed.  Only between the record of a change and the reload after it does  *)
(* a request have another one.                                                *)
SlotsShown ==
  /\ \A s \in Sessions : ~Busy(s) => ShowsSlots(session[s].list)
  /\ \A r \in Requests : pc[r] \notin {"idle", "reload"} => ShowsSlots(copy[r].list)
  /\ \A r \in Requests : pc[r] \in {"markCancel", "money"} =>
       copy[r].list[subject[r]].status # "unlisted"

LEMMA ListsShowSlots ==
  /\ ShowsSlots(Blank.list)
  /\ \A lagging : ShowsSlots(Loaded(lagging))
  /\ \A l, k : SameList(l, k) /\ ShowsSlots(k) => ShowsSlots(l)
<1>1. ShowsSlots(Blank.list)
  BY DEF ShowsSlots, Blank, Unlisted
<1>2. ASSUME NEW lagging PROVE ShowsSlots(Loaded(lagging))
  BY DEF ShowsSlots, Loaded, Listed, Unlisted
<1>3. ASSUME NEW l, NEW k, SameList(l, k), ShowsSlots(k) PROVE ShowsSlots(l)
  BY <1>3 DEF SameList, ShowsSlots
<1>4. QED BY <1>1, <1>2, <1>3

(* Which request starts to cancel a booking, and which goes on to its fee. *)
LEMMA ToCancel ==
  ASSUME BaseInv, [Next]_vars, NEW r \in Requests, pc'[r] \in {"markCancel", "money"}
  PROVE  \/ /\ pc[r] \in {"markCancel", "money"}
            /\ subject'[r] = subject[r] /\ copy'[r] = copy[r]
         \/ \E s \in Sessions, b \in Bookings :
              StartCancel(r, s, b) /\ subject'[r] = b /\ copy'[r] = session[s]
<1> USE DEF BaseInv, FlowOK
<1>1. CASE World
  BY <1>1, WorldFrame DEF request
<1>2. ASSUME NEW q \in Requests, q # r, Own(q)
      PROVE  pc'[r] = pc[r] /\ subject'[r] = subject[r] /\ copy'[r] = copy[r]
  BY <1>2, OthersKept
<1>3. CASE Handle(r) \/ Crash(r)
  BY <1>3, HandleSteps DEF Follows, ChangeCalls
<1>4. ASSUME NEW s \in Sessions, StartRequest(r, s)
      PROVE  \E b \in Bookings : StartCancel(r, s, b) /\ subject'[r] = b /\ copy'[r] = session[s]
  <2>1. ~StartLogin(r, s) /\ ~StartHome(r, s) /\ ~StartChange(r, s) /\ ~StartUndone(r, s)
    BY DEF StartLogin, StartHome, StartChange, StartUndone, Start, StartDecided
  <2>2. \A b \in Bookings : ~StartView(r, s, b) /\ ~StartRefund(r, s, b)
    BY DEF StartView, StartRefund, Start
  <2>3. PICK b \in Bookings : StartCancel(r, s, b)
    BY <1>4, <2>1, <2>2 DEF StartRequest
  <2>4. QED BY <2>3 DEF StartCancel, Start
<1>5. QED BY <1>1, <1>2, <1>3, <1>4, StepKinds DEF Own

(* Only the record of a change gives a booking another slot in the CRM. *)
LEMMA SlotRecorded ==
  ASSUME BaseInv, [Next]_vars, NEW b \in Bookings, crm'[b].slot # crm[b].slot
  PROVE  \E r \in Requests : RecordChange(r)
<1> USE DEF BaseInv, WorldOK, CrmBookings
<1>1. ASSUME NEW r \in Requests, MarkChanging(r) \/ MarkCancelling(r) \/ CancelInCrm(r)
      PROVE  crm'[b].slot = crm[b].slot
  <2>1. ASSUME NEW c, NEW status, crm' = [crm EXCEPT ![c].status = status]
        PROVE  crm'[b].slot = crm[b].slot
    BY <2>1
  <2>2. QED BY <1>1, <2>1 DEF MarkChanging, MarkCancelling, CancelInCrm
<1>2. AgencyCancels(b) => crm'[b].slot = crm[b].slot
  BY DEF AgencyCancels
<1>3. QED BY <1>1, <1>2, CrmStep

LEMMA SlotsShownStep ==
  ASSUME Solitary, {"load", "crash"} \cap Fails = {}, BaseInv, OneAtATime, SlotsShown, [Next]_vars
  PROVE  SlotsShown'
<1> USE DEF BaseInv, FlowOK, Solitary
<1> DEFINE Shown(list) ==
      \A b \in Bookings : list[b].status # "unlisted" => list[b].slot = crm'[b].slot
      Kept == /\ \A s \in Sessions : ~Busy(s)' => Shown(session'[s].list)
              /\ \A r \in Requests : pc'[r] \notin {"idle", "reload"} => Shown(copy'[r].list)
<1>1. ASSUME \A b \in Bookings : crm'[b].slot = crm[b].slot PROVE Kept
  <2>1. \A list : ShowsSlots(list) => Shown(list)
    BY <1>1 DEF ShowsSlots
  <2>2. ASSUME NEW s \in Sessions, ~Busy(s)' PROVE Shown(session'[s].list)
    <3>1. CASE session'[s] = Blank
      BY <2>1, <3>1, ListsShowSlots
    <3>2. ASSUME NEW r \in Requests, Save(r), session'[s] = copy[r] PROVE Shown(session'[s].list)
      <4>1. ShowsSlots(copy[r].list)
        BY <3>2 DEF SlotsShown, Save
      <4>2. QED BY <2>1, <3>2, <4>1
    <3>3. CASE ~Busy(s) /\ session'[s].list = session[s].list
      <4>1. ShowsSlots(session[s].list)
        BY <3>3 DEF SlotsShown
      <4>2. QED BY <2>1, <3>3, <4>1
    <3>4. QED BY <2>2, <3>1, <3>2, <3>3, SessionList
  <2>3. ASSUME NEW r \in Requests, pc'[r] \notin {"idle", "reload"} PROVE Shown(copy'[r].list)
    <3>1. CASE /\ pc[r] # "idle" /\ SameList(copy'[r].list, copy[r].list)
               /\ pc'[r] = pc[r] \/ Follows(pc[r], pc'[r]) \/ pc[r] \in {"probe", "view", "refund", "recognise"}
      <4>1. ShowsSlots(copy[r].list)
        BY <2>3, <3>1 DEF SlotsShown, Follows, ChangeCalls
      <4>2. QED BY <2>1, <3>1, <4>1, ListsShowSlots
    <3>2. ASSUME NEW s \in Sessions, StartRequest(r, s), copy'[r].list \in {session[s].list, Blank.list}
          PROVE  Shown(copy'[r].list)
      <4>1. ~Busy(s)
        BY <3>2, StartSteps DEF MayStart
      <4>2. ShowsSlots(session[s].list) /\ ShowsSlots(Blank.list)
        BY <4>1, ListsShowSlots DEF SlotsShown
      <4>3. QED BY <2>1, <3>2, <4>2
    <3>3. CASE \/ copy'[r].list = Blank.list
               \/ \E lagging \in Lags : SameList(copy'[r].list, Loaded(lagging))
      <4>1. ShowsSlots(copy'[r].list)
        BY <3>3, ListsShowSlots
      <4>2. QED BY <2>1, <4>1
    <3>4. QED BY <2>3, <3>1, <3>2, <3>3, CopyList
  <2>4. QED BY <2>2, <2>3
<1>2. ASSUME NEW b \in Bookings, crm'[b].slot # crm[b].slot PROVE Kept
  <2>1. PICK r \in Requests : RecordChange(r)
    BY <1>2, SlotRecorded
  <2>2. pc[r] = "record" /\ pc'[r] = "reload" /\ home' = home
    BY <2>1 DEF RecordChange, ProceedTo
  <2>3. \A q \in Requests : q # r => pc'[q] = "idle"
    BY <2>1, <2>2 DEF OneAtATime, RecordChange, ProceedTo
  <2>4. \A s \in Sessions : Busy(s)'
    BY <2>2 DEF Busy, OneAtATime
  <2>5. QED BY <2>2, <2>3, <2>4
<1>3. Kept
  BY <1>1, <1>2
<1>4. ASSUME NEW r \in Requests, pc'[r] \in {"markCancel", "money"}
      PROVE  copy'[r].list[subject'[r]].status # "unlisted"
  BY <1>4, ToCancel DEF StartCancel, IsListed, SlotsShown
<1>5. QED BY <1>3, <1>4 DEF SlotsShown, ShowsSlots

(* One request at a time, the list loaded whenever it is asked for and no     *)
(* server dying: where the CRM and the scheduling service agree on the slot   *)
(* of a booking, its fee is refunded or kept by the day of that slot.         *)
THEOREM FeeCorrect ==
  ASSUME Solitary, {"load", "crash"} \cap Fails = {}
  PROVE  Spec => FeeFollowsTheSlotHeld
<1>1. Init => OneAtATime /\ SlotsShown
  BY ListsShowSlots DEF Init, OneAtATime, SlotsShown
<1>2. BaseInv /\ OneAtATime /\ [Next]_vars => OneAtATime'
  BY OneAtATimeStep DEF Solitary
<1>3. BaseInv /\ OneAtATime /\ SlotsShown /\ [Next]_vars => SlotsShown'
  BY SlotsShownStep
<1>4. BaseInv /\ SlotsShown =>
        \A r \in Requests : pc[r] = "money" =>
          copy[r].list[subject[r]].slot = crm[subject[r]].slot
  BY DEF BaseInv, Equipped, CancelCalls, SlotsShown, ShowsSlots
<1>5. BaseInv /\ SlotsShown =>
        [\A r \in Requests :
           LET b == subject[r]
           IN  pc[r] = "money" /\ returns' # returns /\ tcn[b] = crm[b].slot =>
                 (Refundable(copy[r].list[b]) <=> age[tcn[b]] = "early")]_vars
  BY <1>4 DEF Refundable
<1>6. QED BY <1>1, <1>2, <1>3, <1>5, BaseCorrect, PTL DEF Spec, FeeFollowsTheSlotHeld

-------------------------------------------------------------------------------
(* BookingTicket: one slot and one return of the fee for a booking. *)

(* The candidate uses the pages that are offered, each request knows what was *)
(* paid back, and the agency leaves the bookings alone.                       *)
Attended ==
  /\ Solitary /\ ~Revisit
  /\ {"load", "crash", "agency", "financeLag"} \cap Fails = {}

(* A list offers no page of a booking whose fee was dealt with, and none for  *)
(* a compensation.                                                            *)
Closed(list) == \A b \in Bookings : returns[b] > 0 => ~Offered(list[b])
NoneCancelled(list) == \A b \in Bookings : list[b].status # "Cancelled"

(* A booking whose fee was dealt with is being cancelled or is Cancelled, and *)
(* only its own cancellation still works on it.                               *)
FeeOnce ==
  /\ \A b \in Bookings : ~crm[b].owed
  /\ \A b \in Bookings : returns[b] > 0 => crm[b].status \in {"CancellationInProgress", "Cancelled"}
  /\ \A s \in Sessions : ~Busy(s) => Closed(session[s].list) /\ NoneCancelled(session[s].list)
  /\ \A r \in Requests : pc[r] # "idle" => NoneCancelled(copy[r].list)
  /\ \A r \in Requests : pc[r] \notin {"idle", "deleteSlot", "cancelCrm", "reloadList"} =>
       Closed(copy[r].list)
  /\ \A r \in Requests : pc[r] \notin {"refund", "recognise"}
  /\ \A r \in Requests : pc[r] \in ChangeCalls \cup {"markCancel", "money"} => returns[subject[r]] = 0

(* A slot that is reserved is held by no booking. *)
SlotsApart ==
  \A t \in Slots, b \in Bookings : held[t] \in Requests => tcn[b] # t

LEMMA ListsAreClosed ==
  /\ Closed(Blank.list) /\ NoneCancelled(Blank.list)
  /\ \A l, k : SameList(l, k) /\ Closed(k) => Closed(l)
  /\ \A l, k : SameList(l, k) /\ NoneCancelled(k) => NoneCancelled(l)
<1>1. Closed(Blank.list) /\ NoneCancelled(Blank.list)
  BY DEF Closed, NoneCancelled, Blank, Unlisted, Offered, Viewable
<1>2. QED BY <1>1 DEF SameList, Closed, NoneCancelled, Offered, Viewable

LEMMA LoadedIsClosed ==
  ASSUME Attended, FeeOnce, NEW lagging \in Lags, NEW list, SameList(list, Loaded(lagging))
  PROVE  Closed(list) /\ NoneCancelled(list)
<1>1. ~lagging
  BY DEF Attended, Lags
<1>2. Closed(Loaded(lagging))
  BY <1>1 DEF Closed, Loaded, Listed, Unlisted, Offered, Viewable, FeeOnce
<1>3. NoneCancelled(Loaded(lagging))
  BY DEF NoneCancelled, Loaded, Listed, Unlisted, FeeOnce
<1>4. QED BY <1>2, <1>3, ListsAreClosed

LEMMA OwedStep ==
  ASSUME "agency" \notin Fails, BaseInv, [Next]_vars, NEW b \in Bookings, ~crm[b].owed
  PROVE  ~crm'[b].owed
<1> USE DEF BaseInv, WorldOK, CrmBookings
<1>1. ASSUME NEW r \in Requests, MarkChanging(r) \/ MarkCancelling(r) \/ CancelInCrm(r)
      PROVE  crm'[b].owed = crm[b].owed
  <2>1. ASSUME NEW c, NEW status, crm' = [crm EXCEPT ![c].status = status]
        PROVE  crm'[b].owed = crm[b].owed
    BY <2>1
  <2>2. QED BY <1>1, <2>1 DEF MarkChanging, MarkCancelling, CancelInCrm
<1>2. ASSUME NEW r \in Requests, RecordChange(r) PROVE crm'[b].owed = crm[b].owed
  BY <1>2 DEF RecordChange
<1>3. ASSUME NEW r \in Requests, RecogniseCompensation(r) PROVE ~crm'[b].owed
  BY <1>3 DEF RecogniseCompensation
<1>4. ~AgencyCancels(b)
  BY DEF AgencyCancels
<1>5. QED BY <1>1, <1>2, <1>3, <1>4, CrmStep

(* A request comes to the calls that change or cancel a booking from a page   *)
(* its list offers.                                                           *)
LEMMA ToWork ==
  ASSUME ~Revisit, BaseInv, [Next]_vars, NEW r \in Requests,
         pc'[r] \in ChangeCalls \cup {"markCancel", "money"}
  PROVE  /\ subject'[r] \in Bookings
         /\ \/ /\ pc[r] \in ChangeCalls \cup {"markCancel", "money"}
               /\ subject'[r] = subject[r]
            \/ \E s \in Sessions :
                 /\ StartRequest(r, s) /\ Offered(session[s].list[subject'[r]])
<1> USE DEF BaseInv, FlowOK
<1>1. CASE World
  BY <1>1, WorldFrame DEF request, Equipped, CancelCalls
<1>2. ASSUME NEW q \in Requests, q # r, Own(q)
      PROVE  pc'[r] = pc[r] /\ subject'[r] = subject[r] /\ subject[r] \in Bookings
  BY <1>2, OthersKept DEF Equipped, CancelCalls
<1>3. CASE Handle(r) \/ Crash(r)
  <2>1. /\ pc[r] \in ChangeCalls \cup {"markCancel", "money"}
        /\ subject'[r] = subject[r]
    BY <1>3, HandleSteps DEF Follows, ChangeCalls
  <2>2. QED BY <2>1 DEF Equipped, CancelCalls
<1>4. ASSUME NEW s \in Sessions, StartRequest(r, s)
      PROVE  subject'[r] \in Bookings /\ Offered(session[s].list[subject'[r]])
  <2>1. ~StartLogin(r, s) /\ ~StartHome(r, s) /\ ~StartUndone(r, s)
    BY DEF StartLogin, StartHome, StartUndone, Start, StartDecided, ChangeCalls
  <2>2. \A b \in Bookings : ~StartView(r, s, b) /\ ~StartRefund(r, s, b)
    BY DEF StartView, StartRefund, Start, ChangeCalls
  <2>3. StartChange(r, s) => subject'[r] = session[s].current /\ Offered(session[s].list[session[s].current])
    BY DEF StartChange, Start
  <2>4. \A b \in Bookings : StartCancel(r, s, b) => subject'[r] = b /\ Offered(session[s].list[b])
    BY DEF StartCancel, Start
  <2>5. subject'[r] \in Bookings
    BY <1>4, StartSteps DEF ChangeCalls
  <2>6. QED BY <1>4, <2>1, <2>2, <2>3, <2>4, <2>5 DEF StartRequest
<1>5. QED BY <1>1, <1>2, <1>3, <1>4, StepKinds DEF Own

(* No request is started for a compensation. *)
LEMMA NoRefundStep ==
  ASSUME Solitary, BaseInv, FeeOnce, [Next]_vars, NEW r \in Requests
  PROVE  pc'[r] \notin {"refund", "recognise"}
<1> USE DEF BaseInv, FlowOK
<1>1. CASE World
  BY <1>1, WorldFrame DEF request, FeeOnce
<1>2. ASSUME NEW q \in Requests, q # r, Own(q) PROVE pc'[r] = pc[r]
  BY <1>2, OthersKept
<1>3. CASE Handle(r) \/ Crash(r)
  BY <1>3, HandleSteps DEF Follows, ChangeCalls, FeeOnce
<1>4. ASSUME NEW s \in Sessions, StartRequest(r, s), pc'[r] \in {"refund", "recognise"} PROVE FALSE
  <2>1. ~StartLogin(r, s) /\ ~StartHome(r, s) /\ ~StartChange(r, s) /\ ~StartUndone(r, s)
    BY <1>4 DEF StartLogin, StartHome, StartChange, StartUndone, Start, StartDecided
  <2>2. \A b \in Bookings : ~StartView(r, s, b) /\ ~StartCancel(r, s, b)
    BY <1>4 DEF StartView, StartCancel, Start
  <2>3. PICK b \in Bookings : StartRefund(r, s, b)
    BY <1>4, <2>1, <2>2 DEF StartRequest
  <2>4. ~Busy(s)
    BY <1>4, StartSteps DEF MayStart, Solitary
  <2>5. QED BY <2>3, <2>4 DEF StartRefund, FeeOnce, NoneCancelled
<1>5. QED BY <1>1, <1>2, <1>3, <1>4, StepKinds DEF Own, FeeOnce

(* A fee is dealt with by the one request at work, which then goes on to the  *)
(* end of the cancellation.                                                   *)
LEMMA FeeStep ==
  ASSUME BaseInv, OneAtATime, FeeOnce, [Next]_vars, returns' # returns
  PROVE  \E r \in Requests :
           /\ SettleFee(r) /\ subject[r] \in Bookings /\ returns' = Returned(subject[r])
           /\ pc'[r] \in {"deleteSlot", "reloadList"}
           /\ UNCHANGED <<session, home, copy, subject, tcn, held, crm, age>>
           /\ \A q \in Requests : q # r => pc'[q] = "idle"
<1>1. PICK r \in Requests : /\ subject[r] \in Bookings /\ returns' = Returned(subject[r])
                            /\ (SettleFee(r) \/ RequestRefund(r))
  BY ReturnsStep
<1>2. ~RequestRefund(r)
  BY DEF FeeOnce, RequestRefund
<1>3. /\ pc'[r] \in {"deleteSlot", "reloadList"}
      /\ UNCHANGED <<session, home, copy, subject, tcn, held, crm, age>>
  BY <1>1, <1>2 DEF SettleFee, Proceed, ProceedTo, BaseInv, FlowOK
<1>4. \A q \in Requests : q # r => pc'[q] = "idle"
  BY <1>1, <1>2 DEF SettleFee, Proceed, ProceedTo, BaseInv, FlowOK, OneAtATime
<1>5. QED BY <1>1, <1>2, <1>3, <1>4

LEMMA ReturnedOnce ==
  ASSUME WorldOK, NEW c \in Bookings
  PROVE  \A b \in Bookings : b # c => Returned(c)[b] = returns[b]
  BY DEF WorldOK, Returned

LEMMA FeeOnceStep ==
  ASSUME Attended, BaseInv, OneAtATime, InStep, FeeOnce, [Next]_vars
  PROVE  FeeOnce'
<1> USE DEF BaseInv, FlowOK
<1>0. Solitary /\ ~Revisit /\ {"load", "crash", "agency"} \cap Fails = {}
  BY DEF Attended
<1> DEFINE ClosedNow(list) == \A b \in Bookings : returns'[b] > 0 => ~Offered(list[b])
           Last == {"idle", "deleteSlot", "cancelCrm", "reloadList"}
           Working == ChangeCalls \cup {"markCancel", "money"}
<1>1. \A b \in Bookings : ~crm'[b].owed
  BY <1>0, OwedStep DEF FeeOnce
<1>2. ASSUME NEW b \in Bookings, returns'[b] > 0
      PROVE  crm'[b].status \in {"CancellationInProgress", "Cancelled"}
  <2>1. CASE returns' = returns
    <3>1. crm[b].status \in {"CancellationInProgress", "Cancelled"} /\ returns[b] # 0
      BY <1>2, <2>1 DEF FeeOnce
    <3>2. ~ \E r \in Requests : subject[r] = b /\ (MarkChanging(r) \/ RecordChange(r))
      BY <3>1 DEF FeeOnce, ChangeCalls, MarkChanging, RecordChange
    <3>3. QED BY <3>1, <3>2, CrmStep
  <2>2. CASE returns' # returns
    <3>1. PICK r \in Requests :
            /\ SettleFee(r) /\ subject[r] \in Bookings /\ returns' = Returned(subject[r])
            /\ crm' = crm
      BY <2>2, FeeStep
    <3>2. CASE b = subject[r]
      BY <3>1, <3>2 DEF SettleFee, InStep
    <3>3. CASE b # subject[r]
      <4>1. returns[b] > 0
        BY <1>2, <3>1, <3>3, ReturnedOnce
      <4>2. QED BY <3>1, <4>1 DEF FeeOnce
    <3>4. QED BY <3>2, <3>3
  <2>3. QED BY <2>1, <2>2
<1>3. returns' = returns => \A list : Closed(list) => ClosedNow(list)
  BY DEF Closed
<1>4. ASSUME NEW s \in Sessions, ~Busy(s)'
      PROVE  ClosedNow(session'[s].list) /\ NoneCancelled(session'[s].list)
  <2>1. Closed(session'[s].list) /\ NoneCancelled(session'[s].list)
    <3>1. CASE session'[s] = Blank
      BY <3>1, ListsAreClosed
    <3>2. ASSUME NEW r \in Requests, Save(r), session'[s] = copy[r]
          PROVE  Closed(session'[s].list) /\ NoneCancelled(session'[s].list)
      BY <3>2 DEF Save, FeeOnce
    <3>3. CASE ~Busy(s) /\ session'[s].list = session[s].list
      BY <3>3 DEF FeeOnce
    <3>4. QED BY <1>0, <1>4, <3>1, <3>2, <3>3, SessionList
  <2>2. CASE returns' # returns
    <3>1. PICK r \in Requests : SettleFee(r) /\ home' = home
      BY <2>2, FeeStep
    <3>2. home'[r] \in Sessions
      BY <3>1 DEF SettleFee, OneAtATime
    <3>3. home'[r] = s
      BY <1>0, <3>2 DEF Solitary
    <3>4. QED BY <1>4, <3>3 DEF Busy
  <2>3. QED BY <1>3, <2>1, <2>2
<1>5. ASSUME NEW r \in Requests, pc'[r] # "idle"
      PROVE  /\ NoneCancelled(copy'[r].list)
             /\ pc'[r] \notin Last => ClosedNow(copy'[r].list)
  <2>1. CASE /\ pc[r] # "idle" /\ SameList(copy'[r].list, copy[r].list)
             /\ pc'[r] = pc[r] \/ Follows(pc[r], pc'[r]) \/ pc[r] \in {"probe", "view", "refund", "recognise"}
    <3>1. NoneCancelled(copy'[r].list)
      BY <2>1, ListsAreClosed DEF FeeOnce
    <3>2. ASSUME pc'[r] \notin Last PROVE ClosedNow(copy'[r].list)
      <4>1. pc[r] \notin Last
        BY <2>1, <3>2 DEF Follows, ChangeCalls
      <4>2. Closed(copy'[r].list)
        BY <2>1, <4>1, ListsAreClosed DEF FeeOnce
      <4>3. returns' = returns
        BY <3>2, FeeStep
      <4>4. QED BY <1>3, <4>2, <4>3
    <3>3. QED BY <3>1, <3>2
  <2>2. ASSUME NEW s \in Sessions, StartRequest(r, s), copy'[r].list \in {session[s].list, Blank.list}
        PROVE  NoneCancelled(copy'[r].list) /\ ClosedNow(copy'[r].list)
    <3>1. ~Busy(s) /\ returns' = returns
      BY <1>0, <2>2, StartSteps DEF MayStart, Solitary, world
    <3>2. Closed(copy'[r].list) /\ NoneCancelled(copy'[r].list)
      BY <2>2, <3>1, ListsAreClosed DEF FeeOnce
    <3>3. QED BY <1>3, <3>1, <3>2
  <2>3. CASE /\ UNCHANGED world
             /\ \/ copy'[r].list = Blank.list
                \/ \E lagging \in Lags : SameList(copy'[r].list, Loaded(lagging))
    <3>1. Closed(copy'[r].list) /\ NoneCancelled(copy'[r].list)
      BY <2>3, ListsAreClosed, LoadedIsClosed
    <3>2. QED BY <1>3, <2>3, <3>1 DEF world
  <2>4. QED BY <1>0, <1>5, <2>1, <2>2, <2>3, CopyList
<1>6. \A r \in Requests : pc'[r] \notin {"refund", "recognise"}
  BY <1>0, NoRefundStep
<1>7. ASSUME NEW r \in Requests, pc'[r] \in Working PROVE returns'[subject'[r]] = 0
  <2>1. returns' = returns
    BY <1>7, FeeStep DEF ChangeCalls
  <2>2. CASE pc[r] \in Working /\ subject'[r] = subject[r]
    BY <2>1, <2>2 DEF FeeOnce
  <2>3. ASSUME NEW s \in Sessions, StartRequest(r, s), Offered(session[s].list[subject'[r]]),
               subject'[r] \in Bookings
        PROVE  returns[subject'[r]] = 0
    <3>1. ~Busy(s)
      BY <1>0, <2>3, StartSteps DEF MayStart, Solitary
    <3>2. ~(returns[subject'[r]] > 0)
      BY <2>3, <3>1 DEF FeeOnce, Closed
    <3>3. QED BY <2>3, <3>2 DEF WorldOK
  <2>4. QED BY <1>0, <1>7, <2>1, <2>2, <2>3, ToWork
<1>8. QED BY <1>1, <1>2, <1>4, <1>5, <1>6, <1>7 DEF FeeOnce, Closed

(* Only these steps change who holds a reservation. *)
LEMMA HeldStep ==
  ASSUME [Next]_vars
  PROVE  \/ held' = held
         \/ \E r \in Requests : ReserveNewSlot(r) \/ OccupyNewSlot(r)
         \/ \E t \in Slots : OtherTakes(t) \/ ReleaseSlot(t)
  BY Untouched DEF Next, Handle, Change, Move, Cancel, Refund, MarkChanging, VacateOldSlot, RecordChange,
     MarkCancelling, SettleFee, DeleteScheduledSlot, CancelInCrm, RequestRefund,
     RecogniseCompensation, AgencyCancels, DayComes, ChooseChange, ResetChange, ExpireSession,
     vars, world

(* A slot is reserved only when no booking holds it, and a booking takes a    *)
(* slot only with the end of its reservation.                                 *)
LEMMA SlotsApartStep ==
  ASSUME "agency" \notin Fails, BaseInv, SlotsApart, [Next]_vars
  PROVE  SlotsApart'
<1> USE DEF BaseInv, WorldOK
<1> SUFFICES ASSUME NEW t \in Slots, NEW b \in Bookings, held'[t] \in Requests PROVE tcn'[b] # t
  BY DEF SlotsApart
<1>1. CASE \E r \in Requests : OccupyNewSlot(r) /\ <<tcn', held'>> # <<tcn, held>>
  <2>1. PICK r \in Requests : OccupyNewSlot(r) /\ <<tcn', held'>> # <<tcn, held>>
    BY <1>1
  <2>2. /\ tcn' = [tcn EXCEPT ![subject[r]] = copy[r].edit]
        /\ held' = [held EXCEPT ![copy[r].edit] = None]
    BY <2>1 DEF OccupyNewSlot
  <2>3. t # copy[r].edit /\ held[t] \in Requests
    BY <2>2, ConstantsAssumption
  <2>4. QED BY <2>2, <2>3 DEF SlotsApart
<1>2. CASE \E r \in Requests : ReserveNewSlot(r) /\ held' # held
  <2>1. PICK r \in Requests : ReserveNewSlot(r) /\ held' # held
    BY <1>2
  <2>2. /\ ~Taken(copy[r].edit) /\ tcn' = tcn
        /\ held' = [held EXCEPT ![copy[r].edit] = r]
    BY <2>1 DEF ReserveNewSlot
  <2>3. QED BY <2>2 DEF Taken, SlotsApart
<1>3. ASSUME \A r \in Requests : OccupyNewSlot(r) => UNCHANGED <<tcn, held>>,
             \A r \in Requests : ReserveNewSlot(r) => held' = held
      PROVE  tcn'[b] # t
  <2>1. held'[t] = held[t]
    <3>1. ASSUME NEW u \in Slots, OtherTakes(u) \/ ReleaseSlot(u) PROVE held'[t] = held[t]
      BY <3>1, ConstantsAssumption DEF OtherTakes, ReleaseSlot
    <3>2. QED BY <1>3, <3>1, HeldStep
  <2>2. tcn'[b] = tcn[b] \/ tcn'[b] = None
    BY <1>3, PlaceStep DEF AgencyCancels
  <2>3. QED BY <2>1, <2>2, ConstantsAssumption DEF SlotsApart
<1>4. QED
  <2>1. \A r \in Requests : OccupyNewSlot(r) => (UNCHANGED <<tcn, held>> \/ <<tcn', held'>> # <<tcn, held>>)
    OBVIOUS
  <2>2. QED BY <1>1, <1>2, <1>3, <2>1

(* What a step may do to the slot a booking holds, seen as BookingTicket. *)
LEMMA PlacesStep ==
  ASSUME "agency" \notin Fails, BaseInv, OneMover, FeeOnce, SlotsApart, [Next]_vars
  PROVE  \/ tcn' = tcn
         \/ \E b \in Bookings : Ticket!Leave(b)
         \/ \E b \in Bookings, t \in Slots : Ticket!Take(b, t)
<1> USE DEF BaseInv, WorldOK
<1>1. ASSUME NEW r \in Requests, VacateOldSlot(r) \/ DeleteScheduledSlot(r), tcn' # tcn
      PROVE  Ticket!Leave(subject[r]) /\ subject[r] \in Bookings
  <2>1. tcn' = [tcn EXCEPT ![subject[r]] = None] /\ returns' = returns
    BY <1>1 DEF VacateOldSlot, DeleteScheduledSlot
  <2>2. subject[r] \in Bookings
    BY <1>1 DEF VacateOldSlot, DeleteScheduledSlot, Equipped, ChangeCalls, CancelCalls
  <2>3. tcn[subject[r]] # None
    BY <1>1, <2>1
  <2>4. QED BY <2>1, <2>2, <2>3 DEF Ticket!Leave
<1>2. ASSUME NEW r \in Requests, OccupyNewSlot(r), tcn' # tcn
      PROVE  Ticket!Take(subject[r], copy[r].edit) /\ subject[r] \in Bookings /\ copy[r].edit \in Slots
  <2>1. /\ pc[r] = "occupy" /\ held[copy[r].edit] = r
        /\ tcn' = [tcn EXCEPT ![subject[r]] = copy[r].edit] /\ returns' = returns
    BY <1>2 DEF OccupyNewSlot
  <2>2. subject[r] \in Bookings /\ copy[r].edit \in Slots
    BY <2>1 DEF Equipped, ChangeCalls
  <2>3. tcn[subject[r]] = None
    BY <2>1 DEF OneMover
  <2>4. returns[subject[r]] = 0
    BY <2>1 DEF FeeOnce, ChangeCalls
  <2>5. \A c \in Bookings : tcn[c] # copy[r].edit
    BY <2>1, <2>2 DEF SlotsApart
  <2>6. QED BY <2>1, <2>2, <2>3, <2>4, <2>5 DEF Ticket!Take
<1>3. \A b \in Bookings : ~AgencyCancels(b)
  BY DEF AgencyCancels
<1>4. ASSUME tcn' # tcn
      PROVE  \E r \in Requests : VacateOldSlot(r) \/ DeleteScheduledSlot(r) \/ OccupyNewSlot(r)
  <2>1. PICK b \in Bookings : tcn'[b] # tcn[b]
    <3>1. tcn' \in [Bookings -> Slots \cup {None}]
      BY WorldStep
    <3>2. QED BY <1>4, <3>1
  <2>2. QED BY <1>3, <2>1, PlaceStep
<1>5. QED BY <1>1, <1>2, <1>4

LEMMA TicketStep ==
  ASSUME Attended, BaseInv, OneAtATime, OneMover, FeeOnce, SlotsApart, [Next]_vars
  PROVE  [Ticket!Next]_(Ticket!vars)
<1>1. CASE returns' # returns
  <2>1. PICK r \in Requests :
          SettleFee(r) /\ subject[r] \in Bookings /\ returns' = Returned(subject[r]) /\ tcn' = tcn
    BY <1>1, FeeStep
  <2>2. returns[subject[r]] = 0
    BY <2>1 DEF SettleFee, FeeOnce
  <2>3. returns' = [returns EXCEPT ![subject[r]] = 1]
    BY <2>1, <2>2 DEF Returned
  <2>4. QED BY <2>1, <2>2, <2>3 DEF Ticket!Next, Ticket!Return
<1>2. CASE returns' = returns /\ tcn' = tcn
  BY <1>2 DEF Ticket!vars
<1>3. QED BY <1>1, <1>2, PlacesStep DEF Attended, Ticket!Next

(* One request at a time from pages that are offered, with the list loaded    *)
(* whenever it is asked for, no server dying and no agency: whatever fails or *)
(* loses its answer, a booking holds one slot at most and shares it with no   *)
(* other, its fee goes once, and then it never takes a slot again.            *)
THEOREM TicketImplemented ==
  ASSUME Attended
  PROVE  Spec => ImplementsTicket
<1> DEFINE Ordered == OneAtATime /\ InStep /\ ConfirmedHoldsItsSlot
           TicketInv == FeeOnce /\ SlotsApart
<1>1. Init => TicketInv
  BY ListsAreClosed, ConstantsAssumption DEF Init, FeeOnce, SlotsApart, ChangeCalls
<1>2. BaseInv /\ Ordered /\ TicketInv /\ [Next]_vars => TicketInv'
  BY FeeOnceStep, SlotsApartStep DEF Attended
<1>3. Spec => []Ordered
  BY OrderedCorrect DEF Attended, Solitary
<1>4. Init => Ticket!Init
  BY DEF Init, Ticket!Init
<1>5. BaseInv /\ Ordered /\ OneMover /\ TicketInv /\ [Next]_vars => [Ticket!Next]_(Ticket!vars)
  BY TicketStep
<1>6. QED
  BY <1>1, <1>2, <1>3, <1>4, <1>5, BaseCorrect, OneMoverCorrect, PTL DEF Spec, ImplementsTicket, Ticket!Spec
===============================================================================
