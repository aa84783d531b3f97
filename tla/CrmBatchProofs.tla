---------------------------- MODULE CrmBatchProofs ----------------------------
(***************************************************************************)
(* However many requests of however many candidates share the client of    *)
(* the CRM: no product joins a candidate to another's booking, the client  *)
(* is not left collecting, and what is answered was carried out.           *)
(***************************************************************************)
EXTENDS CrmBatch, TLAPS

Asked(r, what) == \E i \in DOMAIN work[r].sent : work[r].sent[i].by = r /\ work[r].sent[i].what = what
Carried(r, what) == \E c \in carriedOut : c.by = r /\ c.what = what

(* How far a request is says what it has learnt and asked for so far. *)
Learnt(r) ==
  /\ work[r].at \in {"retry", "product"} => work[r].op = "book"
  /\ work[r].at = "retry" => work[r].left > 0
  /\ work[r].at = "product" => work[r].booking # None
  /\ work[r].at = "second" => work[r].op \in {"cancel", "list"}
  /\ work[r].at = "execute" => work[r].op = "list"
  /\ work[r].booking # None =>
       work[r].booking \in bookings /\ Candidate[work[r].booking.by] = Candidate[r]

InOrder(r) ==
  /\ work[r].at = "sent" /\ work[r].op = "book" =>
       Len(work[r].sent) >= 2 /\ Asked(r, "contact")
  /\ work[r].at = "sent" /\ work[r].op = "change" =>
       Asked(r, "bookingUpdate") /\ Asked(r, "productUpdate")
  /\ work[r].at = "sent" /\ work[r].op = "cancel" => Asked(r, "cancelStatus")
  /\ work[r].at \in {"retry", "product"} => Carried(r, "contact")

(* What AnsweredIsDone says of one request. *)
IsDone(r) ==
  work[r].at = "done" =>
    /\ work[r].op = "change" => Carried(r, "bookingUpdate") /\ Carried(r, "productUpdate")
    /\ work[r].op = "cancel" => Carried(r, "cancelStatus")
    /\ work[r].op = "book" => Carried(r, "contact")

(* A product is asked for only by a request that has its booking. *)
HaveBookings(calls) ==
  \A i \in DOMAIN calls : calls[i].what = "product" => work[calls[i].by].booking # None

WorkInv(r) == Learnt(r) /\ InOrder(r) /\ IsDone(r) /\ HaveBookings(work[r].sent)

Inv ==
  /\ TypeOK
  /\ \A r \in Requests : WorkInv(r)
  /\ HaveBookings(batch)
  /\ ProductOfOwnBooking
  /\ NothingLeftCollecting

-----------------------------------------------------------------------------
(* Batches of calls, one call or two longer. *)
LEMMA AppendCall ==
  ASSUME NEW s \in Seq(Call), NEW c \in Call
  PROVE  /\ Append(s, c) \in Seq(Call)
         /\ DOMAIN Append(s, c) = DOMAIN s \cup {Len(s) + 1}
         /\ \A i \in DOMAIN s : Append(s, c)[i] = s[i]
         /\ Append(s, c)[Len(s) + 1] = c
  OBVIOUS

(* The empty batch. *)
LEMMA NoCalls == <<>> \in Seq(Call)
OBVIOUS

WithTwo(s, c, d) == s \o <<c, d>>

LEMMA ConcatCalls ==
  ASSUME NEW s \in Seq(Call), NEW c \in Call, NEW d \in Call
  PROVE  /\ WithTwo(s, c, d) \in Seq(Call)
         /\ Len(WithTwo(s, c, d)) >= 2
         /\ \A i \in DOMAIN WithTwo(s, c, d) :
              \/ WithTwo(s, c, d)[i] \in {c, d}
              \/ i \in DOMAIN s /\ WithTwo(s, c, d)[i] = s[i]
         /\ \E i \in DOMAIN WithTwo(s, c, d) : WithTwo(s, c, d)[i] = c
         /\ \E i \in DOMAIN WithTwo(s, c, d) : WithTwo(s, c, d)[i] = d
<1> DEFINE t == s \o <<c, d>>
<1>1. t \in Seq(Call) /\ Len(t) = Len(s) + 2 OBVIOUS
<1>2. t[Len(s) + 1] = c /\ t[Len(s) + 2] = d OBVIOUS
<1>3. \A i \in DOMAIN t : i \in DOMAIN s => t[i] = s[i] OBVIOUS
<1>4. \A i \in DOMAIN t : i \in DOMAIN s \/ i = Len(s) + 1 \/ i = Len(s) + 2 BY <1>1
<1>5. Len(s) + 1 \in DOMAIN t /\ Len(s) + 2 \in DOMAIN t BY <1>1
<1>6. t = WithTwo(s, c, d) BY DEF WithTwo
<1>. HIDE DEF t
<1>7. \A i \in DOMAIN t : t[i] \in {c, d} \/ (i \in DOMAIN s /\ t[i] = s[i])
  BY <1>2, <1>3, <1>4
<1>8. \E i \in DOMAIN t : t[i] = c BY <1>2, <1>5
<1>9. \E i \in DOMAIN t : t[i] = d BY <1>2, <1>5
<1>10. t \in Seq(Call) /\ Len(t) >= 2 BY <1>1
<1>. QED BY <1>6, <1>7, <1>8, <1>9, <1>10

LEMMA DoIsCall ==
  ASSUME TypeOK, NEW r \in Requests,
         NEW what \in {"contact", "booking", "product", "bookingUpdate", "productUpdate",
                       "cancelDate", "cancelStatus", "standardQuery", "nsaQuery"}
  PROVE  /\ Do(r, what) \in Call
         /\ Do(r, what).by = r /\ Do(r, what).what = what
BY DEF TypeOK, Work, Do, Call

LEMMA AnsweredIsDoneByRequest ==
  ASSUME \A r \in Requests : IsDone(r)
  PROVE  AnsweredIsDone
<1>. SUFFICES ASSUME NEW r \in Requests, work[r].at = "done"
     PROVE  LET needed == CASE work[r].op = "change" -> {"bookingUpdate", "productUpdate"}
                            [] work[r].op = "cancel" -> {"cancelStatus"}
                            [] work[r].op = "book" -> {"contact"}
                            [] OTHER -> {}
            IN  \A what \in needed : \E c \in carriedOut : c.by = r /\ c.what = what
  BY DEF AnsweredIsDone
<1>1. IsDone(r) OBVIOUS
<1>2. CASE work[r].op = "change" BY <1>1, <1>2 DEF IsDone, Carried
<1>3. CASE work[r].op = "cancel" BY <1>1, <1>3 DEF IsDone, Carried
<1>4. CASE work[r].op = "book" BY <1>1, <1>4 DEF IsDone, Carried
<1>5. CASE work[r].op \notin {"change", "cancel", "book"} BY <1>5
<1>. QED BY <1>2, <1>3, <1>4, <1>5

(* A step of one request leaves the others as they are, when it only adds to *)
(* what the CRM holds and forgets no booking.                                *)
LEMMA OneRequestSteps ==
  ASSUME Inv, NEW r \in Requests, TypeOK',
         work' = [work EXCEPT ![r] = work'[r]],
         bookings \subseteq bookings', carriedOut \subseteq carriedOut',
         work[r].booking # None => work'[r].booking # None
  PROVE  /\ \A q \in Requests : q # r => work'[q] = work[q]
         /\ \A q \in Requests : work[q].booking # None => work'[q].booking # None
         /\ \A q \in Requests : q # r => WorkInv(q)'
         /\ \A s \in Seq(Call) : HaveBookings(s) => HaveBookings(s)'
<1>1. \A q \in Requests : q # r => work'[q] = work[q]
  BY DEF Inv, TypeOK
<1>2. \A q \in Requests : work[q].booking # None => work'[q].booking # None
  BY <1>1
<1>3. ASSUME NEW s \in Seq(Call), HaveBookings(s) PROVE HaveBookings(s)'
  <2>1. \A i \in DOMAIN s : s[i] \in Call OBVIOUS
  <2>2. \A i \in DOMAIN s : s[i].by \in Requests BY <2>1 DEF Call
  <2>. QED BY <1>2, <1>3, <2>2 DEF HaveBookings
<1>4. ASSUME NEW q \in Requests, q # r PROVE WorkInv(q)'
  <2>1. WorkInv(q) /\ work'[q] = work[q] BY <1>1, <1>4 DEF Inv
  <2>2. Learnt(q)' BY <2>1 DEF WorkInv, Learnt
  <2>3. \A what : Carried(q, what) => Carried(q, what)' BY DEF Carried
  <2>4. \A what : Asked(q, what) => Asked(q, what)' BY <2>1 DEF Asked
  <2>5. InOrder(q)' BY <2>1, <2>3, <2>4 DEF WorkInv, InOrder
  <2>6. IsDone(q)' BY <2>1, <2>3 DEF WorkInv, IsDone
  <2>7. work[q].sent \in Seq(Call) BY DEF Inv, TypeOK, Work
  <2>8. HaveBookings(work[q].sent)' BY <1>3, <2>1, <2>7 DEF WorkInv, HaveBookings
  <2>. QED BY <2>2, <2>5, <2>6, <2>8 DEF WorkInv
<1>. QED BY <1>1, <1>2, <1>3, <1>4

(* What one action has to show of its own. *)
LEMMA StepKeepsInv ==
  ASSUME Inv, NEW r \in Requests,
         work' = [work EXCEPT ![r] = work'[r]], work'[r] \in Work,
         collecting' \in BOOLEAN, batch' \in Seq(Call), HaveBookings(batch'),
         HaveBookings(work'[r].sent),
         bookings \subseteq bookings', bookings' \subseteq Booking,
         carriedOut \subseteq carriedOut', carriedOut' \subseteq Call,
         products' \subseteq [booking : bookings', candidate : Candidates],
         work[r].booking # None => work'[r].booking # None,
         Learnt(r)', InOrder(r)', IsDone(r)', ProductOfOwnBooking', NothingLeftCollecting'
  PROVE  Inv'
<1>1. TypeOK'
  <2>1. work' \in [Requests -> Work] BY DEF Inv, TypeOK
  <2>. QED BY <2>1 DEF TypeOK
<1>2. \A s \in Seq(Call) : HaveBookings(s) => HaveBookings(s)' BY <1>1, OneRequestSteps
<1>3. \A q \in Requests : q # r => WorkInv(q)' BY <1>1, OneRequestSteps
<1>4. work'[r].sent \in Seq(Call) BY DEF Work
<1>5. HaveBookings(work[r].sent)' BY <1>2, <1>4 DEF HaveBookings
<1>6. HaveBookings(batch)' BY <1>2 DEF HaveBookings
<1>7. WorkInv(r)' BY <1>5 DEF WorkInv
<1>. QED BY <1>1, <1>3, <1>6, <1>7 DEF Inv

(* Products are added only for requests that have their booking. *)
LEMMA ProductsAdded ==
  ASSUME Inv, bookings \subseteq bookings',
         \A p \in products' :
           p \in products \/ \E q \in Requests : work[q].booking # None /\ p = Product(q)
  PROVE  /\ products' \subseteq [booking : bookings', candidate : Candidates]
         /\ ProductOfOwnBooking'
<1>1. ASSUME NEW p \in products'
      PROVE  /\ p \in [booking : bookings', candidate : Candidates]
             /\ Candidate[p.booking.by] = p.candidate
  <2>1. CASE p \in products
    <3>1. p \in [booking : bookings, candidate : Candidates] BY <2>1 DEF Inv, TypeOK
    <3>2. Candidate[p.booking.by] = p.candidate BY <2>1 DEF Inv, ProductOfOwnBooking
    <3>. QED BY <3>1, <3>2
  <2>2. ASSUME NEW q \in Requests, work[q].booking # None, p = Product(q)
        PROVE  /\ p \in [booking : bookings', candidate : Candidates]
               /\ Candidate[p.booking.by] = p.candidate
    <3>1. work[q].booking \in bookings /\ Candidate[work[q].booking.by] = Candidate[q]
      BY <2>2 DEF Inv, WorkInv, Learnt
    <3>2. Candidate[q] \in Candidates BY CandidateAssumption
    <3>3. p = [booking |-> work[q].booking, candidate |-> Candidate[q]]
      BY <2>2 DEF Product
    <3>. QED BY <3>1, <3>2, <3>3
  <2>. QED BY <2>1, <2>2
<1>. QED BY <1>1 DEF ProductOfOwnBooking

(* Somebody is still to execute the batch. *)
LEMMA StillSomebody ==
  ASSUME Inv, NEW r \in Requests, work' = [work EXCEPT ![r] = work'[r]],
         \/ collecting' = FALSE
         \/ work'[r].at \in {"second", "execute"}
         \/ collecting' = collecting /\ work[r].at \notin {"second", "execute"}
  PROVE  NothingLeftCollecting'
<1>1. \A q \in Requests : q # r => work'[q] = work[q] BY DEF Inv, TypeOK
<1>. QED BY <1>1 DEF Inv, NothingLeftCollecting

LEMMA WorkFields ==
  ASSUME TypeOK, NEW r \in Requests
  PROVE  /\ work[r] \in Work
         /\ work[r].op \in Operations \cup {None} /\ work[r].sent \in Seq(Call)
         /\ work[r].left \in 0..3 /\ work[r].booking \in Booking \cup {None}
BY DEF TypeOK, Work

(* Calls of the operations that are no products ask for no booking. *)
LEMMA AppendHasBookings ==
  ASSUME NEW s \in Seq(Call), HaveBookings(s), NEW c \in Call,
         c.what = "product" => work[c.by].booking # None
  PROVE  HaveBookings(Append(s, c))
BY AppendCall DEF HaveBookings

LEMMA StartAndExecuteStep ==
  ASSUME Inv, NEW r \in Requests, NEW op \in {"book", "change"},
         NEW u \in {"contact", "bookingUpdate"}, NEW v \in {"booking", "productUpdate"},
         op = "book" => u = "contact",
         op = "change" => u = "bookingUpdate" /\ v = "productUpdate",
         StartAndExecute(r, op, <<Do(r, u), Do(r, v)>>)
  PROVE  Inv'
<1>1. TypeOK BY DEF Inv
<1>2. Do(r, u) \in Call /\ Do(r, u).by = r /\ Do(r, u).what = u BY <1>1, DoIsCall
<1>3. Do(r, v) \in Call /\ Do(r, v).by = r /\ Do(r, v).what = v BY <1>1, DoIsCall
<1>4. PICK earlier \in StartedBatches :
        Become(r, [work[r] EXCEPT !.op = op, !.at = "sent",
                                  !.sent = earlier \o <<Do(r, u), Do(r, v)>>])
  BY DEF StartAndExecute
<1>5. earlier \in Seq(Call) /\ HaveBookings(earlier)
  <2>1. CASE earlier = batch BY <1>1, <2>1 DEF TypeOK, Inv
  <2>2. CASE earlier = <<>> BY <2>2 DEF HaveBookings
  <2>. QED BY <2>1, <2>2 DEF StartedBatches
<1> DEFINE t == earlier \o <<Do(r, u), Do(r, v)>>
<1>6. /\ t \in Seq(Call) /\ Len(t) >= 2
      /\ \A i \in DOMAIN t :
           t[i] \in {Do(r, u), Do(r, v)} \/ (i \in DOMAIN earlier /\ t[i] = earlier[i])
      /\ \E i \in DOMAIN t : t[i] = Do(r, u)
      /\ \E i \in DOMAIN t : t[i] = Do(r, v)
  <2>1. t = WithTwo(earlier, Do(r, u), Do(r, v)) BY DEF WithTwo
  <2>2. Do(r, u) \in Call /\ Do(r, v) \in Call /\ earlier \in Seq(Call)
    BY <1>2, <1>3, <1>5
  <2>. HIDE DEF t
  <2>3. t \in Seq(Call) /\ Len(t) >= 2 BY <2>1, <2>2, ConcatCalls
  <2>4. \A i \in DOMAIN t :
           t[i] \in {Do(r, u), Do(r, v)} \/ (i \in DOMAIN earlier /\ t[i] = earlier[i])
    BY <2>1, <2>2, ConcatCalls
  <2>5. \E i \in DOMAIN t : t[i] = Do(r, u) BY <2>1, <2>2, ConcatCalls
  <2>6. \E i \in DOMAIN t : t[i] = Do(r, v) BY <2>1, <2>2, ConcatCalls
  <2>. QED BY <2>3, <2>4, <2>5, <2>6
<1>. HIDE DEF t
<1>7. op \in Operations /\ work[r].at = "idle" BY DEF StartAndExecute, Begins
<1>8. work' = [work EXCEPT ![r] = [work[r] EXCEPT !.op = op, !.at = "sent", !.sent = t]]
  BY <1>4 DEF Become, t
<1>9. /\ collecting' = FALSE /\ batch' = <<>>
      /\ bookings' = bookings /\ products' = products /\ carriedOut' = carriedOut
  BY DEF StartAndExecute, Unchanged
<1>10. [work[r] EXCEPT !.op = op, !.at = "sent", !.sent = t] \in Work
  BY <1>1, <1>6, <1>7, WorkFields DEF Work
<1>11. work'[r] = [work[r] EXCEPT !.op = op, !.at = "sent", !.sent = t]
  BY <1>1, <1>8 DEF TypeOK
<1>12. /\ work'[r].op = op /\ work'[r].at = "sent" /\ work'[r].sent = t
       /\ work'[r].booking = work[r].booking
  BY <1>1, <1>11, WorkFields DEF Work
<1>13. Learnt(r)' BY <1>9, <1>12 DEF Inv, WorkInv, Learnt
<1>14. Asked(r, u)' /\ (op = "change" => Asked(r, v)')
  BY <1>2, <1>3, <1>6, <1>12 DEF Asked
<1>15. InOrder(r)' BY <1>6, <1>12, <1>14 DEF InOrder
<1>16. IsDone(r)' BY <1>12 DEF IsDone
<1>17. HaveBookings(work'[r].sent) BY <1>2, <1>3, <1>5, <1>6, <1>12 DEF HaveBookings
<1>18. work' = [work EXCEPT ![r] = work'[r]] BY <1>8, <1>11
<1>19. HaveBookings(batch') /\ batch' \in Seq(Call) BY <1>9, NoCalls DEF HaveBookings
<1>20. products' \subseteq [booking : bookings', candidate : Candidates] /\ ProductOfOwnBooking'
  BY <1>9, ProductsAdded
<1>21. NothingLeftCollecting' BY <1>9, <1>18, StillSomebody
<1>22. bookings' \subseteq Booking /\ carriedOut' \subseteq Call BY <1>1, <1>9 DEF TypeOK
<1>. QED BY <1>9, <1>10, <1>11, <1>12, <1>13, <1>15, <1>16, <1>17, <1>18, <1>19, <1>20,
            <1>21, <1>22, StepKeepsInv

LEMMA EndedRequest ==
  ASSUME Inv, NEW r \in Requests, NEW at \in {"failed", "done", "mismatch"}, Ends(r, at),
         bookings \subseteq bookings'
  PROVE  /\ work' = [work EXCEPT ![r] = work'[r]] /\ work'[r] \in Work
         /\ work'[r].op = work[r].op /\ work'[r].at = at
         /\ work'[r].booking = work[r].booking
         /\ HaveBookings(work'[r].sent)
         /\ Learnt(r)' /\ InOrder(r)' /\ (at # "done" => IsDone(r)')
<1>1. TypeOK BY DEF Inv
<1>2. work' = [work EXCEPT ![r] = [work[r] EXCEPT !.at = at, !.sent = <<>>]]
  BY DEF Ends, Become
<1>3. work'[r] = [work[r] EXCEPT !.at = at, !.sent = <<>>] BY <1>1, <1>2 DEF TypeOK
<1>4. [work[r] EXCEPT !.at = at, !.sent = <<>>] \in Work BY <1>1, WorkFields, NoCalls DEF Work
<1>5. /\ work'[r].op = work[r].op /\ work'[r].at = at
      /\ work'[r].booking = work[r].booking /\ work'[r].sent = <<>>
  BY <1>1, <1>3, WorkFields DEF Work
<1>6. HaveBookings(work'[r].sent) BY <1>5 DEF HaveBookings
<1>7. Learnt(r)' BY <1>5 DEF Inv, WorkInv, Learnt
<1>8. InOrder(r)' BY <1>5 DEF InOrder
<1>9. at # "done" => IsDone(r)' BY <1>5 DEF IsDone
<1>. QED BY <1>2, <1>3, <1>4, <1>5, <1>6, <1>7, <1>8, <1>9

(* A request that fails, in the client's batch or outside it. *)
LEMMA FailedStep ==
  ASSUME Inv, NEW r \in Requests, Ends(r, "failed"),
         collecting' \in BOOLEAN,
         collecting' = FALSE
           \/ (collecting' = collecting /\ work[r].at \notin {"second", "execute"}),
         batch' \in Seq(Call), HaveBookings(batch'),
         bookings \subseteq bookings', bookings' \subseteq Booking,
         carriedOut \subseteq carriedOut', carriedOut' \subseteq Call,
         products' \subseteq [booking : bookings', candidate : Candidates],
         ProductOfOwnBooking'
  PROVE  Inv'
<1>1. /\ work' = [work EXCEPT ![r] = work'[r]] /\ work'[r] \in Work
      /\ work'[r].booking = work[r].booking
      /\ HaveBookings(work'[r].sent)
      /\ Learnt(r)' /\ InOrder(r)' /\ IsDone(r)'
  BY EndedRequest
<1>2. NothingLeftCollecting' BY <1>1, StillSomebody
<1>. QED BY <1>1, <1>2, StepKeepsInv

LEMMA StartAndAwaitStep ==
  ASSUME Inv, NEW r \in Requests, NEW op \in {"cancel", "list"},
         NEW u \in {"cancelDate", "standardQuery"}, StartAndAwait(r, op, Do(r, u))
  PROVE  Inv'
<1>1. TypeOK BY DEF Inv
<1>2. Do(r, u) \in Call /\ Do(r, u).by = r /\ Do(r, u).what = u BY <1>1, DoIsCall
<1>3. PICK earlier \in StartedBatches : batch' = Append(earlier, Do(r, u))
  BY DEF StartAndAwait
<1>4. earlier \in Seq(Call) /\ HaveBookings(earlier)
  <2>1. CASE earlier = batch BY <1>1, <2>1 DEF TypeOK, Inv
  <2>2. CASE earlier = <<>> BY <2>2, NoCalls DEF HaveBookings
  <2>. QED BY <2>1, <2>2 DEF StartedBatches
<1>5. batch' \in Seq(Call) /\ HaveBookings(batch')
  BY <1>2, <1>3, <1>4, AppendHasBookings, AppendCall
<1>6. /\ collecting' = TRUE
      /\ bookings' = bookings /\ products' = products /\ carriedOut' = carriedOut
  BY DEF StartAndAwait, Unchanged
<1>7. op \in Operations /\ work[r].at = "idle" BY DEF StartAndAwait, Begins
<1>8. work' = [work EXCEPT ![r] = [work[r] EXCEPT !.op = op, !.at = "second"]]
  BY DEF StartAndAwait, Become
<1>9. work'[r] = [work[r] EXCEPT !.op = op, !.at = "second"] BY <1>1, <1>8 DEF TypeOK
<1>10. work'[r] \in Work BY <1>1, <1>7, <1>9, WorkFields DEF Work
<1>11. /\ work'[r].op = op /\ work'[r].at = "second"
       /\ work'[r].sent = work[r].sent /\ work'[r].booking = work[r].booking
  BY <1>1, <1>9, WorkFields DEF Work
<1>12. work' = [work EXCEPT ![r] = work'[r]] BY <1>8, <1>9
<1>13. HaveBookings(work'[r].sent) BY <1>11 DEF Inv, WorkInv
<1>14. Learnt(r)' BY <1>6, <1>11 DEF Inv, WorkInv, Learnt
<1>15. InOrder(r)' /\ IsDone(r)' BY <1>11 DEF InOrder, IsDone
<1>16. products' \subseteq [booking : bookings', candidate : Candidates] /\ ProductOfOwnBooking'
  BY <1>6, ProductsAdded
<1>17. NothingLeftCollecting' BY <1>11, <1>12, StillSomebody
<1>18. bookings' \subseteq Booking /\ carriedOut' \subseteq Call BY <1>1, <1>6 DEF TypeOK
<1>. QED BY <1>5, <1>6, <1>10, <1>11, <1>12, <1>13, <1>14, <1>15, <1>16, <1>17, <1>18,
            StepKeepsInv

LEMMA SetCancelledStep ==
  ASSUME Inv, NEW r \in Requests, SetCancelled(r)
  PROVE  Inv'
<1>1. TypeOK BY DEF Inv
<1> DEFINE call == Do(r, "cancelStatus")
<1>2. call \in Call /\ call.by = r /\ call.what = "cancelStatus" BY <1>1, DoIsCall
<1>. HIDE DEF call
<1>3. work[r].op = "cancel" /\ work[r].at = "second" BY DEF SetCancelled, At
<1>4. CASE collecting
  <2>1. /\ collecting' = FALSE /\ batch' = <<>>
        /\ work' = [work EXCEPT ![r] = [work[r] EXCEPT !.at = "sent",
                                                       !.sent = Append(batch, call)]]
        /\ bookings' = bookings /\ products' = products /\ carriedOut' = carriedOut
    BY <1>4 DEF SetCancelled, ExecuteBatch, Become, Unchanged, call
  <2> DEFINE t == Append(batch, call)
  <2>2. t \in Seq(Call) /\ HaveBookings(t)
    BY <1>1, <1>2, AppendCall, AppendHasBookings DEF Inv, TypeOK
  <2>3. \E i \in DOMAIN t : t[i] = call BY <1>1, <1>2, AppendCall DEF TypeOK
  <2>4. work'[r] = [work[r] EXCEPT !.at = "sent", !.sent = t] BY <1>1, <2>1 DEF TypeOK
  <2>. HIDE DEF t
  <2>5. work'[r] \in Work BY <1>1, <2>2, <2>4, WorkFields DEF Work
  <2>6. /\ work'[r].op = "cancel" /\ work'[r].at = "sent"
        /\ work'[r].sent = t /\ work'[r].booking = work[r].booking
    BY <1>1, <1>3, <2>4, WorkFields DEF Work
  <2>7. work' = [work EXCEPT ![r] = work'[r]] BY <2>1, <2>4 DEF t
  <2>8. Learnt(r)' BY <2>1, <2>6 DEF Inv, WorkInv, Learnt
  <2>9. Asked(r, "cancelStatus")' BY <1>2, <2>3, <2>6 DEF Asked
  <2>10. InOrder(r)' /\ IsDone(r)' BY <2>6, <2>9 DEF InOrder, IsDone
  <2>11. batch' \in Seq(Call) /\ HaveBookings(batch') BY <2>1, NoCalls DEF HaveBookings
  <2>12. products' \subseteq [booking : bookings', candidate : Candidates] /\ ProductOfOwnBooking'
    BY <2>1, ProductsAdded
  <2>13. NothingLeftCollecting' BY <2>1, <2>7, StillSomebody
  <2>14. bookings' \subseteq Booking /\ carriedOut' \subseteq Call BY <1>1, <2>1 DEF TypeOK
  <2>15. HaveBookings(work'[r].sent) BY <2>2, <2>6
  <2>. QED BY <2>1, <2>5, <2>6, <2>7, <2>8, <2>10, <2>11, <2>12, <2>13, <2>14, <2>15,
              StepKeepsInv
<1>5. CASE ~collecting
  <2>1. /\ Ends(r, "failed")
        /\ carriedOut' \in {carriedOut, carriedOut \cup {call}}
        /\ collecting' = collecting /\ batch' = batch
        /\ bookings' = bookings /\ products' = products
    BY <1>5 DEF SetCancelled, call
  <2>2. /\ carriedOut \subseteq carriedOut' /\ carriedOut' \subseteq Call
        /\ bookings' \subseteq Booking
        /\ batch' \in Seq(Call) /\ HaveBookings(batch')
    BY <1>1, <1>2, <2>1 DEF TypeOK, Inv
  <2>3. products' \subseteq [booking : bookings', candidate : Candidates] /\ ProductOfOwnBooking'
    BY <2>1, ProductsAdded
  <2>4. collecting' = FALSE BY <1>1, <1>5, <2>1 DEF TypeOK
  <2>. QED BY <2>1, <2>2, <2>3, <2>4, FailedStep
<1>. QED BY <1>4, <1>5

LEMMA AskForNsaBookingsStep ==
  ASSUME Inv, NEW r \in Requests, AskForNsaBookings(r)
  PROVE  Inv'
<1>1. TypeOK BY DEF Inv
<1>2. Do(r, "nsaQuery") \in Call /\ Do(r, "nsaQuery").what = "nsaQuery" BY <1>1, DoIsCall
<1>3. work[r].op = "list" /\ work[r].at = "second" BY DEF AskForNsaBookings, At
<1>4. /\ batch' = IF collecting THEN Append(batch, Do(r, "nsaQuery")) ELSE batch
      /\ collecting' = collecting
      /\ bookings' = bookings /\ products' = products /\ carriedOut' = carriedOut
  BY DEF AskForNsaBookings, Unchanged
<1>5. batch' \in Seq(Call) /\ HaveBookings(batch')
  <2>1. batch \in Seq(Call) /\ HaveBookings(batch) BY <1>1 DEF TypeOK, Inv
  <2>2. CASE collecting
    <3>1. batch' = Append(batch, Do(r, "nsaQuery")) BY <1>4, <2>2
    <3>2. HaveBookings(Append(batch, Do(r, "nsaQuery")))
      BY <1>2, <2>1, AppendHasBookings
    <3>3. Append(batch, Do(r, "nsaQuery")) \in Seq(Call) BY <1>2, <2>1, AppendCall
    <3>. QED BY <3>1, <3>2, <3>3
  <2>3. CASE ~collecting BY <1>4, <2>1, <2>3
  <2>. QED BY <2>2, <2>3
<1>6. products' \subseteq [booking : bookings', candidate : Candidates] /\ ProductOfOwnBooking'
  BY <1>4, ProductsAdded
<1>7. /\ bookings' \subseteq Booking /\ carriedOut' \subseteq Call
      /\ bookings \subseteq bookings' /\ carriedOut \subseteq carriedOut'
      /\ collecting' \in BOOLEAN
  BY <1>1, <1>4 DEF TypeOK
<1>8. CASE Become(r, [work[r] EXCEPT !.at = "execute"])
  <2>1. work' = [work EXCEPT ![r] = [work[r] EXCEPT !.at = "execute"]] BY <1>8 DEF Become
  <2>2. work'[r] = [work[r] EXCEPT !.at = "execute"] BY <1>1, <2>1 DEF TypeOK
  <2>3. work'[r] \in Work BY <1>1, <2>2, WorkFields DEF Work
  <2>4. /\ work'[r].op = "list" /\ work'[r].at = "execute"
        /\ work'[r].sent = work[r].sent /\ work'[r].booking = work[r].booking
    BY <1>1, <1>3, <2>2, WorkFields DEF Work
  <2>5. work' = [work EXCEPT ![r] = work'[r]] BY <2>1, <2>2
  <2>6. HaveBookings(work'[r].sent) BY <2>4 DEF Inv, WorkInv
  <2>7. Learnt(r)' BY <1>4, <2>4 DEF Inv, WorkInv, Learnt
  <2>8. InOrder(r)' /\ IsDone(r)' BY <2>4 DEF InOrder, IsDone
  <2>9. NothingLeftCollecting' BY <2>4, <2>5, StillSomebody
  <2>. QED BY <1>5, <1>6, <1>7, <2>3, <2>4, <2>5, <2>6, <2>7, <2>8, <2>9, StepKeepsInv
<1>9. CASE ~collecting /\ Ends(r, "failed")
  <2>1. collecting' = FALSE BY <1>1, <1>4, <1>9 DEF TypeOK
  <2>. QED BY <1>5, <1>6, <1>7, <1>9, <2>1, FailedStep
<1>. QED BY <1>8, <1>9 DEF AskForNsaBookings

LEMMA ExecuteAfterAwaitStep ==
  ASSUME Inv, NEW r \in Requests, ExecuteAfterAwait(r)
  PROVE  Inv'
<1>1. TypeOK BY DEF Inv
<1>2. work[r].at = "execute" /\ work[r].op = "list"
  BY DEF ExecuteAfterAwait, Inv, WorkInv, Learnt
<1>3. bookings' = bookings /\ products' = products /\ carriedOut' = carriedOut
  BY DEF ExecuteAfterAwait, Unchanged
<1>4. products' \subseteq [booking : bookings', candidate : Candidates] /\ ProductOfOwnBooking'
  BY <1>3, ProductsAdded
<1>5. /\ bookings' \subseteq Booking /\ carriedOut' \subseteq Call
      /\ bookings \subseteq bookings' /\ carriedOut \subseteq carriedOut'
  BY <1>1, <1>3 DEF TypeOK
<1>6. CASE collecting
  <2>1. /\ collecting' = FALSE /\ batch' = <<>>
        /\ work' = [work EXCEPT ![r] = [work[r] EXCEPT !.at = "sent", !.sent = batch]]
    BY <1>6 DEF ExecuteAfterAwait, ExecuteBatch, Become
  <2>2. work'[r] = [work[r] EXCEPT !.at = "sent", !.sent = batch] BY <1>1, <2>1 DEF TypeOK
  <2>3. batch \in Seq(Call) BY <1>1 DEF TypeOK
  <2>4. work'[r] \in Work BY <1>1, <2>2, <2>3, WorkFields DEF Work
  <2>5. /\ work'[r].op = "list" /\ work'[r].at = "sent"
        /\ work'[r].sent = batch /\ work'[r].booking = work[r].booking
    BY <1>1, <1>2, <2>2, WorkFields DEF Work
  <2>6. work' = [work EXCEPT ![r] = work'[r]] BY <2>1, <2>2
  <2>7. HaveBookings(work'[r].sent) BY <2>5 DEF Inv
  <2>8. Learnt(r)' BY <1>3, <2>5 DEF Inv, WorkInv, Learnt
  <2>9. InOrder(r)' /\ IsDone(r)' BY <2>5 DEF InOrder, IsDone
  <2>10. batch' \in Seq(Call) /\ HaveBookings(batch') BY <2>1, NoCalls DEF HaveBookings
  <2>11. NothingLeftCollecting' BY <2>1, <2>6, StillSomebody
  <2>. QED BY <1>4, <1>5, <2>1, <2>4, <2>5, <2>6, <2>7, <2>8, <2>9, <2>10, <2>11, StepKeepsInv
<1>7. CASE ~collecting
  <2>1. Ends(r, "failed") /\ collecting' = collecting /\ batch' = batch
    BY <1>7 DEF ExecuteAfterAwait
  <2>2. collecting' = FALSE BY <1>1, <1>7, <2>1 DEF TypeOK
  <2>3. batch' \in Seq(Call) /\ HaveBookings(batch') BY <1>1, <2>1 DEF TypeOK, Inv
  <2>. QED BY <1>4, <1>5, <2>1, <2>2, <2>3, FailedStep
<1>. QED BY <1>6, <1>7

(* The CRM carries out the calls of a batch, those of other requests too. *)
LEMMA CarriedOut ==
  ASSUME Inv, NEW r \in Requests, CarryOut(work[r].sent)
  PROVE  /\ bookings \subseteq bookings' /\ bookings' \subseteq Booking
         /\ carriedOut \subseteq carriedOut' /\ carriedOut' \subseteq Call
         /\ products' \subseteq [booking : bookings', candidate : Candidates]
         /\ ProductOfOwnBooking'
         /\ \A what \in Updates : Asked(r, what) => Carried(r, what)'
<1>1. TypeOK BY DEF Inv
<1> DEFINE calls == work[r].sent
<1>2. calls \in Seq(Call) BY <1>1, WorkFields
<1>3. HaveBookings(calls) BY DEF Inv, WorkInv
<1>4. /\ bookings' = bookings \cup BookingsOf(calls)
      /\ products' = products \cup ProductsOf(calls)
      /\ carriedOut' = carriedOut \cup UpdatesOf(calls)
  BY DEF CarryOut
<1>. HIDE DEF calls
<1>5. \A c \in ToSet(calls) : c \in Call BY <1>2 DEF ToSet
<1>6. BookingsOf(calls) \subseteq Booking BY <1>5 DEF BookingsOf, Created, Booking, Call
<1>7. UpdatesOf(calls) \subseteq Call BY <1>5 DEF UpdatesOf
<1>8. \A p \in ProductsOf(calls) :
        \E q \in Requests : work[q].booking # None /\ p = Product(q)
  <2>1. \A c \in ToSet(calls) : c.what = "product" => work[c.by].booking # None
    BY <1>3 DEF HaveBookings, ToSet
  <2>2. \A c \in ToSet(calls) : c.by \in Requests BY <1>5 DEF Call
  <2>. QED BY <2>1, <2>2 DEF ProductsOf
<1>9. bookings \subseteq bookings' /\ bookings' \subseteq Booking
  BY <1>1, <1>4, <1>6 DEF TypeOK
<1>10. carriedOut \subseteq carriedOut' /\ carriedOut' \subseteq Call
  BY <1>1, <1>4, <1>7 DEF TypeOK
<1>11. \A p \in products' :
         p \in products \/ \E q \in Requests : work[q].booking # None /\ p = Product(q)
  BY <1>4, <1>8
<1>12. products' \subseteq [booking : bookings', candidate : Candidates] /\ ProductOfOwnBooking'
  BY <1>9, <1>11, ProductsAdded
<1>13. ASSUME NEW what \in Updates, Asked(r, what) PROVE Carried(r, what)'
  <2>1. PICK i \in DOMAIN work[r].sent : work[r].sent[i].by = r /\ work[r].sent[i].what = what
    BY <1>13 DEF Asked
  <2>2. work[r].sent[i] \in ToSet(calls) BY DEF ToSet, calls
  <2>3. work[r].sent[i] \in UpdatesOf(calls) BY <1>13, <2>1, <2>2 DEF UpdatesOf
  <2>. QED BY <1>4, <2>1, <2>3 DEF Carried
<1>. QED BY <1>9, <1>10, <1>12, <1>13

(* The answer to the creation of a booking. *)
LEMMA BookedStep ==
  ASSUME Inv, NEW r \in Requests, NEW left \in 0..3, NEW b,
         NEW otherwise \in {"retry", "mismatch"}, otherwise = "retry" => left > 0,
         work[r].op = "book", work[r].at \notin {"second", "execute"},
         b \in bookings' \/ b = None,
         collecting' = collecting, batch' = batch,
         bookings \subseteq bookings', bookings' \subseteq Booking,
         carriedOut \subseteq carriedOut', carriedOut' \subseteq Call,
         products' \subseteq [booking : bookings', candidate : Candidates],
         ProductOfOwnBooking', Carried(r, "contact")',
         Booked(r, b, left, otherwise)
  PROVE  Inv'
<1>1. TypeOK BY DEF Inv
<1>2. collecting' \in BOOLEAN /\ batch' \in Seq(Call) /\ HaveBookings(batch')
  BY <1>1 DEF TypeOK, Inv
<1>3. CASE b = None
  <2>1. Ends(r, "failed") BY <1>3 DEF Booked
  <2>. QED BY <1>2, <2>1, FailedStep
<1>4. CASE b # None /\ IsCreateBookingDataValid(r, b)
  <2> DEFINE w == [work[r] EXCEPT !.at = "product", !.sent = <<>>, !.left = left, !.booking = b]
  <2>1. work' = [work EXCEPT ![r] = w] BY <1>4 DEF Booked, Become
  <2>2. work'[r] = w BY <1>1, <2>1 DEF TypeOK
  <2>3. b \in bookings' /\ b \in Booking /\ Candidate[b.by] = Candidate[r]
    BY <1>4 DEF IsCreateBookingDataValid
  <2>4. work'[r] \in Work BY <1>1, <2>2, <2>3, WorkFields, NoCalls DEF Work
  <2>5. /\ work'[r].op = "book" /\ work'[r].at = "product"
        /\ work'[r].sent = <<>> /\ work'[r].booking = b
    BY <1>1, <2>2, WorkFields DEF Work
  <2>6. work' = [work EXCEPT ![r] = work'[r]] BY <2>1, <2>2
  <2>7. HaveBookings(work'[r].sent) BY <2>5 DEF HaveBookings
  <2>8. Learnt(r)' BY <1>4, <2>3, <2>5 DEF Learnt
  <2>9. InOrder(r)' /\ IsDone(r)' BY <2>5 DEF InOrder, IsDone
  <2>10. NothingLeftCollecting' BY <2>6, StillSomebody
  <2>. QED BY <1>2, <1>4, <2>4, <2>5, <2>6, <2>7, <2>8, <2>9, <2>10, StepKeepsInv
<1>5. CASE b # None /\ ~IsCreateBookingDataValid(r, b)
  <2> DEFINE w == [work[r] EXCEPT !.at = otherwise, !.sent = <<>>, !.left = left]
  <2>1. work' = [work EXCEPT ![r] = w] BY <1>5 DEF Booked, Become
  <2>2. work'[r] = w BY <1>1, <2>1 DEF TypeOK
  <2>3. work'[r] \in Work BY <1>1, <2>2, WorkFields, NoCalls DEF Work
  <2>4. /\ work'[r].op = "book" /\ work'[r].at = otherwise
        /\ work'[r].sent = <<>> /\ work'[r].left = left
        /\ work'[r].booking = work[r].booking
    BY <1>1, <2>2, WorkFields DEF Work
  <2>5. work' = [work EXCEPT ![r] = work'[r]] BY <2>1, <2>2
  <2>6. HaveBookings(work'[r].sent) BY <2>4 DEF HaveBookings
  <2>7. Learnt(r)' BY <2>4 DEF Inv, WorkInv, Learnt
  <2>8. InOrder(r)' /\ IsDone(r)' BY <2>4 DEF InOrder, IsDone
  <2>9. NothingLeftCollecting' BY <2>5, StillSomebody
  <2>. QED BY <1>2, <2>3, <2>4, <2>5, <2>6, <2>7, <2>8, <2>9, StepKeepsInv
<1>. QED BY <1>3, <1>4, <1>5

LEMMA BatchFailsStep ==
  ASSUME Inv, NEW r \in Requests, BatchFails(r)
  PROVE  Inv'
<1>1. TypeOK BY DEF Inv
<1>2. /\ work[r].at = "sent" /\ Ends(r, "failed")
      /\ collecting' = collecting /\ batch' = batch
  BY DEF BatchFails
<1>3. collecting' \in BOOLEAN /\ batch' \in Seq(Call) /\ HaveBookings(batch')
  BY <1>1, <1>2 DEF TypeOK, Inv
<1>4. CASE Unchanged
  <2>1. bookings' = bookings /\ products' = products /\ carriedOut' = carriedOut
    BY <1>4 DEF Unchanged
  <2>2. products' \subseteq [booking : bookings', candidate : Candidates] /\ ProductOfOwnBooking'
    BY <2>1, ProductsAdded
  <2>3. /\ bookings' \subseteq Booking /\ carriedOut' \subseteq Call
        /\ bookings \subseteq bookings' /\ carriedOut \subseteq carriedOut'
    BY <1>1, <2>1 DEF TypeOK
  <2>. QED BY <1>2, <1>3, <2>2, <2>3, FailedStep
<1>5. CASE CarryOut(work[r].sent)
  <2>1. /\ bookings \subseteq bookings' /\ bookings' \subseteq Booking
        /\ carriedOut \subseteq carriedOut' /\ carriedOut' \subseteq Call
        /\ products' \subseteq [booking : bookings', candidate : Candidates]
        /\ ProductOfOwnBooking'
    BY <1>5, CarriedOut
  <2>. QED BY <1>2, <1>3, <2>1, FailedStep
<1>. QED BY <1>4, <1>5 DEF BatchFails

LEMMA BatchAnsweredStep ==
  ASSUME Inv, NEW r \in Requests, BatchAnswered(r)
  PROVE  Inv'
<1>1. TypeOK /\ WorkInv(r) BY DEF Inv
<1>2. /\ work[r].at = "sent" /\ CarryOut(work[r].sent)
      /\ collecting' = collecting /\ batch' = batch
  BY DEF BatchAnswered
<1>3. /\ bookings \subseteq bookings' /\ bookings' \subseteq Booking
      /\ carriedOut \subseteq carriedOut' /\ carriedOut' \subseteq Call
      /\ products' \subseteq [booking : bookings', candidate : Candidates]
      /\ ProductOfOwnBooking'
      /\ \A what \in Updates : Asked(r, what) => Carried(r, what)'
  BY <1>2, CarriedOut
<1>4. collecting' \in BOOLEAN /\ batch' \in Seq(Call) /\ HaveBookings(batch')
  BY <1>1, <1>2 DEF TypeOK, Inv
<1>5. CASE work[r].op = "book"
  <2> DEFINE call == work[r].sent[2]
  <2>1. Len(work[r].sent) >= 2 /\ Asked(r, "contact") BY <1>1, <1>2, <1>5 DEF WorkInv, InOrder
  <2>2. Carried(r, "contact")' BY <1>3, <2>1 DEF Updates
  <2>3. work[r].sent \in Seq(Call) BY <1>1, WorkFields
  <2>4. call \in ToSet(work[r].sent) BY <2>1, <2>3 DEF ToSet
  <2>5. PICK b \in AnswersTo(call) : Booked(r, b, 3, "retry") BY <1>5 DEF BatchAnswered
  <2>6. b \in bookings' \/ b = None
    <3>1. CASE call.what # "booking" BY <2>5, <3>1 DEF AnswersTo
    <3>2. CASE call.what = "booking" /\ "mixed" \in Faults BY <2>5, <3>2 DEF AnswersTo
    <3>3. CASE call.what = "booking" /\ "mixed" \notin Faults
      <4>1. b = Created(call) BY <2>5, <3>3 DEF AnswersTo
      <4>2. Created(call) \in BookingsOf(work[r].sent) BY <2>4, <3>3 DEF BookingsOf
      <4>. QED BY <1>2, <4>1, <4>2 DEF CarryOut
    <3>. QED BY <3>1, <3>2, <3>3
  <2>. QED BY <1>2, <1>3, <1>5, <2>2, <2>5, <2>6, BookedStep
<1>6. ASSUME NEW at \in {"failed", "done"}, Ends(r, at), work[r].op # "book"
      PROVE  Inv'
  <2>1. /\ work' = [work EXCEPT ![r] = work'[r]] /\ work'[r] \in Work
        /\ work'[r].op = work[r].op
        /\ work'[r].booking = work[r].booking
        /\ HaveBookings(work'[r].sent)
        /\ Learnt(r)' /\ InOrder(r)'
    BY <1>3, <1>6, EndedRequest
  <2>2. work[r].op = "change" => Asked(r, "bookingUpdate") /\ Asked(r, "productUpdate")
    BY <1>1, <1>2 DEF WorkInv, InOrder
  <2>3. work[r].op = "cancel" => Asked(r, "cancelStatus")
    BY <1>1, <1>2 DEF WorkInv, InOrder
  <2>4. IsDone(r)' BY <1>3, <1>6, <2>1, <2>2, <2>3 DEF IsDone, Updates
  <2>5. NothingLeftCollecting' BY <1>2, <2>1, StillSomebody
  <2>. QED BY <1>3, <1>4, <2>1, <2>4, <2>5, StepKeepsInv
<1>. QED BY <1>5, <1>6 DEF BatchAnswered

LEMMA CreateAgainStep ==
  ASSUME Inv, NEW r \in Requests, CreateAgain(r)
  PROVE  Inv'
<1>1. TypeOK /\ WorkInv(r) BY DEF Inv
<1>2. /\ work[r].at = "retry" /\ work[r].op = "book" /\ work[r].left > 0
      /\ Carried(r, "contact")
  BY <1>1 DEF CreateAgain, WorkInv, Learnt, InOrder
<1>3. PICK left \in 0..3 : left = work[r].left - 1 BY <1>1, <1>2, WorkFields
<1> DEFINE call == [Do(r, "booking") EXCEPT !.try = left]
           made == bookings \cup {Created(call)}
<1>4. call \in Call /\ call.by = r /\ call.what = "booking" /\ call.try = left
  BY <1>1, DoIsCall DEF Call
<1>5. made \subseteq Booking BY <1>1, <1>4 DEF Created, Booking, TypeOK
<1>6. collecting' = collecting /\ products' = products /\ carriedOut' = carriedOut
  BY DEF CreateAgain
<1>7. \/ collecting /\ batch' = Append(batch, call) /\ Ends(r, "failed") /\ bookings' = bookings
      \/ /\ bookings' = made /\ batch' = batch
         /\ \E b \in AnswersTo(call) :
              Booked(r, b, left, IF MayTryAgain(left) THEN "retry" ELSE "mismatch")
      \/ (bookings' = bookings \/ bookings' = made) /\ Ends(r, "failed") /\ batch' = batch
  BY <1>3 DEF CreateAgain
<1>. HIDE DEF call, made
<1>8. bookings \subseteq bookings' /\ bookings' \subseteq Booking
  BY <1>1, <1>5, <1>7 DEF TypeOK, made
<1>9. products' \subseteq [booking : bookings', candidate : Candidates] /\ ProductOfOwnBooking'
  BY <1>6, <1>8, ProductsAdded
<1>10. /\ carriedOut \subseteq carriedOut' /\ carriedOut' \subseteq Call
       /\ collecting' \in BOOLEAN
       /\ batch \in Seq(Call) /\ HaveBookings(batch)
  BY <1>1, <1>6 DEF TypeOK, Inv
<1>11. CASE collecting /\ batch' = Append(batch, call) /\ Ends(r, "failed")
  <2>1. Append(batch, call) \in Seq(Call) BY <1>4, <1>10, AppendCall
  <2>2. HaveBookings(Append(batch, call)) BY <1>4, <1>10, AppendHasBookings
  <2>3. batch' \in Seq(Call) /\ HaveBookings(batch') BY <1>11, <2>1, <2>2
  <2>. QED BY <1>2, <1>6, <1>8, <1>9, <1>10, <1>11, <2>3, FailedStep
<1>12. CASE /\ bookings' = made /\ batch' = batch
            /\ \E b \in AnswersTo(call) :
                 Booked(r, b, left, IF MayTryAgain(left) THEN "retry" ELSE "mismatch")
  <2>1. PICK b \in AnswersTo(call) :
          Booked(r, b, left, IF MayTryAgain(left) THEN "retry" ELSE "mismatch")
    BY <1>12
  <2>2. b \in bookings' BY <1>4, <1>12, <2>1 DEF AnswersTo, made
  <2>3. PICK otherwise \in {"retry", "mismatch"} :
          /\ Booked(r, b, left, otherwise)
          /\ otherwise = "retry" => left > 0
    BY <2>1 DEF MayTryAgain
  <2>4. Carried(r, "contact")' BY <1>2, <1>6 DEF Carried
  <2>. QED BY <1>2, <1>6, <1>8, <1>9, <1>10, <1>12, <2>2, <2>3, <2>4, BookedStep
<1>13. CASE Ends(r, "failed") /\ batch' = batch
  <2>1. batch' \in Seq(Call) /\ HaveBookings(batch') BY <1>10, <1>13
  <2>. QED BY <1>2, <1>6, <1>8, <1>9, <1>10, <1>13, <2>1, FailedStep
<1>. QED BY <1>7, <1>11, <1>12, <1>13

LEMMA CreateProductStep ==
  ASSUME Inv, NEW r \in Requests, CreateProduct(r)
  PROVE  Inv'
<1>1. TypeOK /\ WorkInv(r) BY DEF Inv
<1>2. /\ work[r].at = "product" /\ work[r].op = "book" /\ work[r].booking # None
      /\ Carried(r, "contact")
  BY <1>1 DEF CreateProduct, WorkInv, Learnt, InOrder
<1> DEFINE call == Do(r, "product")
<1>3. call \in Call /\ call.by = r BY <1>1, DoIsCall
<1>4. collecting' = collecting /\ bookings' = bookings /\ carriedOut' = carriedOut
  BY DEF CreateProduct
<1>5. \/ collecting /\ batch' = Append(batch, call) /\ Ends(r, "failed") /\ products' = products
      \/ products' = products \cup {Product(r)} /\ Ends(r, "done") /\ batch' = batch
      \/ /\ products' = products \/ products' = products \cup {Product(r)}
         /\ Ends(r, "failed") /\ batch' = batch
  BY DEF CreateProduct
<1>. HIDE DEF call
<1>6. \A p \in products' :
        p \in products \/ \E q \in Requests : work[q].booking # None /\ p = Product(q)
  BY <1>2, <1>5
<1>7. products' \subseteq [booking : bookings', candidate : Candidates] /\ ProductOfOwnBooking'
  BY <1>4, <1>6, ProductsAdded
<1>8. /\ carriedOut \subseteq carriedOut' /\ carriedOut' \subseteq Call
      /\ bookings \subseteq bookings' /\ bookings' \subseteq Booking
      /\ collecting' \in BOOLEAN
      /\ batch \in Seq(Call) /\ HaveBookings(batch)
  BY <1>1, <1>4 DEF TypeOK, Inv
<1>9. CASE batch' = Append(batch, call) /\ Ends(r, "failed")
  <2>1. Append(batch, call) \in Seq(Call) BY <1>3, <1>8, AppendCall
  <2>2. HaveBookings(Append(batch, call)) BY <1>2, <1>3, <1>8, AppendHasBookings
  <2>3. batch' \in Seq(Call) /\ HaveBookings(batch') BY <1>9, <2>1, <2>2
  <2>. QED BY <1>2, <1>4, <1>7, <1>8, <1>9, <2>3, FailedStep
<1>10. CASE Ends(r, "done") /\ batch' = batch
  <2>1. /\ work' = [work EXCEPT ![r] = work'[r]] /\ work'[r] \in Work
        /\ work'[r].op = work[r].op
        /\ work'[r].booking = work[r].booking
        /\ HaveBookings(work'[r].sent)
        /\ Learnt(r)' /\ InOrder(r)'
    BY <1>8, <1>10, EndedRequest
  <2>2. IsDone(r)' BY <1>2, <1>4, <2>1 DEF IsDone, Carried
  <2>3. NothingLeftCollecting' BY <1>2, <1>4, <2>1, StillSomebody
  <2>4. batch' \in Seq(Call) /\ HaveBookings(batch') BY <1>8, <1>10
  <2>. QED BY <1>7, <1>8, <2>1, <2>2, <2>3, <2>4, StepKeepsInv
<1>11. CASE Ends(r, "failed") /\ batch' = batch
  <2>1. batch' \in Seq(Call) /\ HaveBookings(batch') BY <1>8, <1>11
  <2>. QED BY <1>2, <1>4, <1>7, <1>8, <1>11, <2>1, FailedStep
<1>. QED BY <1>5, <1>9, <1>10, <1>11

-----------------------------------------------------------------------------
LEMMA InitEstablishes == Init => Inv
<1>. SUFFICES ASSUME Init PROVE Inv OBVIOUS
<1>1. /\ collecting = FALSE /\ batch = <<>>
      /\ bookings = {} /\ products = {} /\ carriedOut = {}
      /\ work = [r \in Requests |-> [op |-> None, at |-> "idle", sent |-> <<>>,
                                     left |-> 3, booking |-> None]]
  BY DEF Init
<1>2. TypeOK
  <2>1. [op |-> None, at |-> "idle", sent |-> <<>>, left |-> 3, booking |-> None] \in Work
    BY NoCalls DEF Work
  <2>2. work \in [Requests -> Work] BY <1>1, <2>1
  <2>. QED BY <1>1, <2>2, NoCalls DEF TypeOK
<1>3. ASSUME NEW r \in Requests PROVE WorkInv(r)
  <2>1. work[r].at = "idle" /\ work[r].sent = <<>> /\ work[r].booking = None BY <1>1
  <2>2. Learnt(r) /\ InOrder(r) /\ IsDone(r) BY <2>1 DEF Learnt, InOrder, IsDone
  <2>3. HaveBookings(work[r].sent) BY <2>1 DEF HaveBookings
  <2>. QED BY <2>2, <2>3 DEF WorkInv
<1>4. HaveBookings(batch) BY <1>1 DEF HaveBookings
<1>5. ProductOfOwnBooking /\ NothingLeftCollecting
  BY <1>1 DEF ProductOfOwnBooking, NothingLeftCollecting
<1>. QED BY <1>2, <1>3, <1>4, <1>5 DEF Inv

LEMMA StepsPreserve == Inv /\ [Next]_vars => Inv'
<1>1. ASSUME Inv, NEW r \in Requests, StartBooking(r) PROVE Inv'
  <2>1. StartAndExecute(r, "book", <<Do(r, "contact"), Do(r, "booking")>>)
    BY <1>1 DEF StartBooking
  <2>. QED BY <1>1, <2>1, StartAndExecuteStep
<1>2. ASSUME Inv, NEW r \in Requests, StartChange(r) PROVE Inv'
  <2>1. StartAndExecute(r, "change", <<Do(r, "bookingUpdate"), Do(r, "productUpdate")>>)
    BY <1>2 DEF StartChange
  <2>. QED BY <1>2, <2>1, StartAndExecuteStep
<1>3. ASSUME Inv, NEW r \in Requests, StartCancel(r) PROVE Inv'
  BY <1>3, StartAndAwaitStep DEF StartCancel
<1>4. ASSUME Inv, NEW r \in Requests, StartList(r) PROVE Inv'
  BY <1>4, StartAndAwaitStep DEF StartList
<1>5. ASSUME Inv, UNCHANGED vars PROVE Inv'
  <2>. USE <1>5
  <2>1. /\ collecting' = collecting /\ batch' = batch /\ work' = work
        /\ bookings' = bookings /\ products' = products /\ carriedOut' = carriedOut
    BY DEF vars
  <2>2. TypeOK' BY <2>1 DEF Inv, TypeOK
  <2>3. \A r \in Requests : WorkInv(r)'
    BY <2>1 DEF Inv, WorkInv, Learnt, InOrder, IsDone, HaveBookings, Asked, Carried
  <2>4. HaveBookings(batch)' /\ ProductOfOwnBooking' /\ NothingLeftCollecting'
    BY <2>1 DEF Inv, HaveBookings, ProductOfOwnBooking, NothingLeftCollecting
  <2>. QED BY <2>2, <2>3, <2>4 DEF Inv
<1>. QED
  BY <1>1, <1>2, <1>3, <1>4, <1>5, SetCancelledStep, AskForNsaBookingsStep,
     ExecuteAfterAwaitStep, BatchAnsweredStep, BatchFailsStep, CreateAgainStep,
     CreateProductStep DEF Next

LEMMA InvAlways == Spec => []Inv
BY InitEstablishes, StepsPreserve, PTL DEF Spec

(* Every variable of the client and the CRM keeps its type. *)
THEOREM BatchTypes == Spec => []TypeOK
<1>1. Inv => TypeOK BY DEF Inv
<1>. QED BY InvAlways, <1>1, PTL

(* However the calls of requests mix in a batch, no product joins a candidate *)
(* to the booking of another (createBookingProduct).                          *)
THEOREM OwnBookings == Spec => []ProductOfOwnBooking
<1>1. Inv => ProductOfOwnBooking BY DEF Inv
<1>. QED BY InvAlways, <1>1, PTL

(* Whatever fails, the client of the process is never left collecting calls  *)
(* with nobody to execute the batch (startBatch, executeBatch).              *)
THEOREM BatchesAreExecuted == Spec => []NothingLeftCollecting
<1>1. Inv => NothingLeftCollecting BY DEF Inv
<1>. QED BY InvAlways, <1>1, PTL

(* What an operation of the gateway answers as done was carried out, in its *)
(* own batch or in another's.                                               *)
THEOREM AnsweredOperations == Spec => []AnsweredIsDone
<1>1. Inv => \A r \in Requests : IsDone(r) BY DEF Inv, WorkInv
<1>2. Inv => AnsweredIsDone BY <1>1, AnsweredIsDoneByRequest
<1>. QED BY InvAlways, <1>2, PTL
=============================================================================
