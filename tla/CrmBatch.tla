------------------------------- MODULE CrmBatch -------------------------------
(***************************************************************************)
(* The operations of the CRM gateway share one client of the CRM, and the  *)
(* client has one batch: from startBatch to executeBatch it collects the   *)
(* calls that are made, whoever makes them, and gives the answers in the   *)
(* order of the calls.  An operation runs without interruption up to an    *)
(* await; some await a call between startBatch and executeBatch.           *)
(*                                                                         *)
(* The client is a library.  Of it the module takes what the gateway uses: *)
(* a call that is collected settles at once, without an answer; to execute *)
(* a batch that was not started fails; a batch is carried out as a whole   *)
(* or not at all.  Whether to start a batch again drops the calls already  *)
(* collected is left open.                                                 *)
(***************************************************************************)
EXTENDS Naturals, Sequences, SequencesExt

CONSTANTS
  Requests,     \* the requests that use the gateway at the same time
  Candidates,
  Candidate,    \* whose request each is
  Operations,   \* the operations they may call
  Faults,       \* what the CRM may do: "fail", "lost", "mixed"
  None

ASSUME CandidateAssumption == Candidate \in [Requests -> Candidates]
ASSUME OperationsAssumption == Operations \subseteq {"book", "change", "cancel", "list"}

VARIABLES
  collecting,  \* the client collects the calls that are made
  batch,       \* the calls it has collected
  work,        \* per request, its operation and how far it is
  bookings,    \* the CRM's bookings
  products,    \* the CRM's booking products: the booking and the candidate of each
  carriedOut   \* the updates the CRM has carried out

vars == <<collecting, batch, work, bookings, products, carriedOut>>

(* A booking updates the contact and is created, with its product after it;  *)
(* a change updates the booking and its product; a cancellation dates the    *)
(* product and sets the status; a list is two queries.                       *)
Call == [by : Requests, try : 0..3,
         what : {"contact", "booking", "product", "bookingUpdate", "productUpdate",
                 "cancelDate", "cancelStatus", "standardQuery", "nsaQuery"}]
Do(r, what) == [by |-> r, try |-> work[r].left, what |-> what]

(* A request creates at most one booking with each of its tries. *)
Booking == [by : Requests, try : 0..3]

ASSUME NoneAssumption == None \notin Booking

Updates == {"contact", "bookingUpdate", "productUpdate", "cancelDate", "cancelStatus"}

(* sent: the calls of the batch in flight; left: the tries left to create the *)
(* booking; booking: the booking gone on with.                                *)
Work == [op : Operations \cup {None},
         at : {"idle", "sent", "retry", "product", "second", "execute",
               "done", "failed", "mismatch"},
         sent : Seq(Call), left : 0..3, booking : Booking \cup {None}]

Init ==
  /\ collecting = FALSE /\ batch = <<>>
  /\ work = [r \in Requests |->
               [op |-> None, at |-> "idle", sent |-> <<>>, left |-> 3, booking |-> None]]
  /\ bookings = {} /\ products = {} /\ carriedOut = {}

Begins(r, op) == op \in Operations /\ work[r].at = "idle"
At(r, op, at) == work[r].op = op /\ work[r].at = at

-----------------------------------------------------------------------------
(* The CRM carries out calls: what it then holds, and what it answers.  It   *)
(* answers the creation of a booking with the booking, and with the fault    *)
(* "mixed" maybe with another's.                                             *)

Created(c) == [by |-> c.by, try |-> c.try]
BookingsOf(calls) == {Created(c) : c \in {d \in ToSet(calls) : d.what = "booking"}}

UpdatesOf(calls) == {c \in ToSet(calls) : c.what \in Updates}

(* The product joins the booking gone on with to the candidate. *)
Product(r) == [booking |-> work[r].booking, candidate |-> Candidate[r]]
ProductsOf(calls) == {Product(c.by) : c \in {d \in ToSet(calls) : d.what = "product"}}

CarryOut(calls) ==
  /\ bookings' = bookings \cup BookingsOf(calls)
  /\ products' = products \cup ProductsOf(calls)
  /\ carriedOut' = carriedOut \cup UpdatesOf(calls)

AnswersTo(call) ==
  IF call.what # "booking" THEN {None}
  ELSE IF "mixed" \in Faults THEN bookings'
  ELSE {Created(call)}

Unchanged == UNCHANGED <<bookings, products, carriedOut>>

-----------------------------------------------------------------------------
(* The operations.  Each action runs up to the next await. *)

Become(r, w) == work' = [work EXCEPT ![r] = w]
Ends(r, at) == Become(r, [work[r] EXCEPT !.at = at, !.sent = <<>>])

StartedBatches == {batch, <<>>}

(* A batch filled and executed without an await. *)
StartAndExecute(r, op, calls) ==
  /\ Begins(r, op)
  /\ \E earlier \in StartedBatches :
       Become(r, [work[r] EXCEPT !.op = op, !.at = "sent", !.sent = earlier \o calls])
  /\ collecting' = FALSE /\ batch' = <<>>
  /\ Unchanged

(* A batch that is started with a call that is awaited. *)
StartAndAwait(r, op, call) ==
  /\ Begins(r, op)
  /\ \E earlier \in StartedBatches : batch' = Append(earlier, call)
  /\ collecting' = TRUE
  /\ Become(r, [work[r] EXCEPT !.op = op, !.at = "second"])
  /\ Unchanged

ExecuteBatch(r, calls) ==
  /\ collecting' = FALSE /\ batch' = <<>>
  /\ Become(r, [work[r] EXCEPT !.at = "sent", !.sent = calls])

(* updateCandidateAndCreateBooking *)
StartBooking(r) ==
  StartAndExecute(r, "book", <<Do(r, "contact"), Do(r, "booking")>>)

(* updateVoiceover, updateAdditionalSupport, updateLanguage,        *)
(* updateBookingStatusPaymentStatusAndTCNUpdateDate.                *)
StartChange(r) ==
  StartAndExecute(r, "change", <<Do(r, "bookingUpdate"), Do(r, "productUpdate")>>)

(* markBookingCancelled *)
StartCancel(r) == StartAndAwait(r, "cancel", Do(r, "cancelDate"))

(* getCandidateBookings, with enableViewNsaBookingSlots *)
StartList(r) == StartAndAwait(r, "list", Do(r, "standardQuery"))

(* Mutant of SetCancelled: the update of the status is awaited as well. *)
SetCancelledAwaiting(r) ==
  LET call == Do(r, "cancelStatus") IN
  /\ At(r, "cancel", "second")
  /\ UNCHANGED <<collecting, bookings, products>>
  /\ IF collecting
     THEN batch' = Append(batch, call) /\ UNCHANGED carriedOut
     ELSE UNCHANGED batch /\ carriedOut' \in {carriedOut, carriedOut \cup {call}}
  /\ Become(r, [work[r] EXCEPT !.at = "execute"])

(* The status is set without an await: outside a batch the call goes out on *)
(* its own, and there is no batch to execute.                               *)
SetCancelled(r) ==
  LET call == Do(r, "cancelStatus") IN
  /\ At(r, "cancel", "second")
  /\ IF collecting
     THEN ExecuteBatch(r, Append(batch, call)) /\ Unchanged
     ELSE /\ Ends(r, "failed")
          /\ carriedOut' \in {carriedOut, carriedOut \cup {call}}
          /\ UNCHANGED <<collecting, batch, bookings, products>>

(* Mutant of AskForNsaBookings: the query fails in the batch as well. *)
AskForNsaBookingsMayFail(r) ==
  /\ At(r, "list", "second")
  /\ batch' = IF collecting THEN Append(batch, Do(r, "nsaQuery")) ELSE batch
  /\ \/ Become(r, [work[r] EXCEPT !.at = "execute"])
     \/ "fail" \in Faults /\ Ends(r, "failed")
  /\ UNCHANGED collecting /\ Unchanged

(* Outside a batch the query is answered, or fails; the answer is not used. *)
AskForNsaBookings(r) ==
  /\ At(r, "list", "second")
  /\ batch' = IF collecting THEN Append(batch, Do(r, "nsaQuery")) ELSE batch
  /\ \/ Become(r, [work[r] EXCEPT !.at = "execute"])
     \/ "fail" \in Faults /\ ~collecting /\ Ends(r, "failed")
  /\ UNCHANGED collecting /\ Unchanged

ExecuteAfterAwait(r) ==
  /\ work[r].at = "execute"
  /\ IF collecting THEN ExecuteBatch(r, batch)
     ELSE Ends(r, "failed") /\ UNCHANGED <<collecting, batch>>
  /\ Unchanged

-----------------------------------------------------------------------------
(* The answers. *)

(* Mutant of IsCreateBookingDataValid: that there is a booking is enough. *)
AnyBooking(r, b) == b \in Booking

(* The booking must carry the candidate's names and records: which of the   *)
(* candidate's requests made it cannot be seen.                             *)
IsCreateBookingDataValid(r, b) == Candidate[b.by] = Candidate[r]

(* The answer b to the creation of a booking.  An answer without a reference *)
(* is no booking, and an error.                                              *)
Booked(r, b, left, otherwise) ==
  IF b = None THEN Ends(r, "failed")
  ELSE IF IsCreateBookingDataValid(r, b)
  THEN Become(r, [work[r] EXCEPT !.at = "product", !.sent = <<>>, !.left = left,
                                 !.booking = b])
  ELSE Become(r, [work[r] EXCEPT !.at = otherwise, !.sent = <<>>, !.left = left])

(* The booking is expected second, a list in the first two answers. *)
BatchAnswered(r) ==
  LET calls == work[r].sent IN
  /\ work[r].at = "sent"
  /\ CarryOut(calls)
  /\ IF work[r].op = "book"
     THEN \E b \in AnswersTo(calls[2]) : Booked(r, b, 3, "retry")
     ELSE Ends(r, IF work[r].op = "list" /\ Len(calls) < 2 THEN "failed" ELSE "done")
  /\ UNCHANGED <<collecting, batch>>

BatchFails(r) ==
  /\ work[r].at = "sent"
  /\ Ends(r, "failed")
  /\ \/ "fail" \in Faults /\ Unchanged
     \/ "lost" \in Faults /\ CarryOut(work[r].sent)
  /\ UNCHANGED <<collecting, batch>>

(* Mutant of MayTryAgain: the tries are counted one too far. *)
MayTryAgainAtZero(left) == left >= 0

MayTryAgain(left) == left > 0

(* validateBookingAndRetryIfNeeded: the booking is created again, by a call *)
(* of its own, unless the client is collecting.                             *)
CreateAgain(r) ==
  LET left == work[r].left - 1
      call == [Do(r, "booking") EXCEPT !.try = left]
      made == bookings \cup {Created(call)}
  IN  /\ work[r].at = "retry"
      /\ UNCHANGED <<collecting, products, carriedOut>>
      /\ \/ /\ collecting
            /\ batch' = Append(batch, call)
            /\ Ends(r, "failed")
            /\ UNCHANGED bookings
         \/ /\ ~collecting
            /\ bookings' = made
            /\ \E b \in AnswersTo(call) :
                 Booked(r, b, left, IF MayTryAgain(left) THEN "retry" ELSE "mismatch")
            /\ UNCHANGED batch
         \/ /\ ~collecting
            /\ \/ "fail" \in Faults /\ UNCHANGED bookings
               \/ "lost" \in Faults /\ bookings' = made
            /\ Ends(r, "failed")
            /\ UNCHANGED batch

(* createBookingProduct; what is collected has no answer to read. *)
CreateProduct(r) ==
  /\ work[r].at = "product"
  /\ \/ /\ collecting
        /\ batch' = Append(batch, Do(r, "product"))
        /\ Ends(r, "failed") /\ UNCHANGED products
     \/ /\ ~collecting
        /\ products' = products \cup {Product(r)}
        /\ Ends(r, "done") /\ UNCHANGED batch
     \/ /\ ~collecting
        /\ \/ "fail" \in Faults /\ UNCHANGED products
           \/ "lost" \in Faults /\ products' = products \cup {Product(r)}
        /\ Ends(r, "failed") /\ UNCHANGED batch
  /\ UNCHANGED <<collecting, bookings, carriedOut>>

Next ==
  \E r \in Requests :
    \/ StartBooking(r) \/ StartChange(r) \/ StartCancel(r) \/ StartList(r)
    \/ SetCancelled(r) \/ AskForNsaBookings(r) \/ ExecuteAfterAwait(r)
    \/ BatchAnswered(r) \/ BatchFails(r) \/ CreateAgain(r) \/ CreateProduct(r)

Spec == Init /\ [][Next]_vars

-----------------------------------------------------------------------------
(* Properties. *)

(* Every variable keeps its type. *)
TypeOK ==
  /\ collecting \in BOOLEAN /\ batch \in Seq(Call)
  /\ work \in [Requests -> Work]
  /\ bookings \subseteq Booking
  /\ products \subseteq [booking : bookings, candidate : Candidates]
  /\ carriedOut \subseteq Call

(* However the batches of the requests mix, and whatever booking the CRM     *)
(* answers with, no product joins a candidate to the booking of another.     *)
ProductOfOwnBooking ==
  \A p \in products : Candidate[p.booking.by] = p.candidate

(* While the client collects the calls of all requests, somebody is still to *)
(* execute the batch: no failure leaves every later call unanswered.         *)
NothingLeftCollecting ==
  collecting => \E r \in Requests : work[r].at \in {"second", "execute"}

(* An operation that is answered has been carried out, although the calls of *)
(* the batch may have gone with another's that failed.  The date of a        *)
(* cancellation is left out: it can be lost that way.                        *)
AnsweredIsDone ==
  \A r \in Requests :
    work[r].at = "done" =>
      LET needed == CASE work[r].op = "change" -> {"bookingUpdate", "productUpdate"}
                      [] work[r].op = "cancel" -> {"cancelStatus"}
                      [] work[r].op = "book" -> {"contact"}
                      [] OTHER -> {}
      IN  \A what \in needed : \E c \in carriedOut : c.by = r /\ c.what = what

=============================================================================
