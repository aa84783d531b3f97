# Verification of the FTTS booking application

The application (`src/src`, TypeScript on Express) lets a candidate, or an
instructor, book a theory test, pay for it, change it and cancel it. It keeps
almost no state of its own: what it knows is in a browser session, and what is
true is in three services that it calls one after another. This directory holds
TLA+ models of that conversation, the TLC instances that check them, and proofs
checked by TLAPS.

## Inventory

| Part | Code | State it keeps | Operations |
|---|---|---|---|
| Booking and payment | `pages/check-your-answers`, `pages/instructor-check-your-answers`, `helpers/booking-handler.ts`, `pages/payment-initiation`, `pages/payment-confirmation`, `services/bookings` | `session.currentBooking` (slot, reservation, booking, receipt) | submit, initiate payment, settle, confirm, unreserve |
| Manage booking | `pages/manage-booking-*`, `helpers/booking-manager.ts`, `domain/booking/booking.ts` | `session.manageBooking` (the bookings as last loaded), `session.manageBookingEdits` | log in, list, change (slot, language, support), cancel, request a refund |
| Session store | `services/session.ts`, `libraries/ftts-session.ts` | one object per browser, in redis | load at the start of a request, save whole at its end, reset |
| Scheduling gateway | `services/scheduling` | none (TCN holds reservations and bookings) | available slots, reserve, confirm, delete |
| Payment gateway | `services/payments` | none (CPMS holds payments) | initiate, complete, compensate, refund, recognise income |
| CRM gateway | `services/crm-gateway` | none (the CRM holds contacts, licences, bookings) | create, update and query them |
| CRM batch client | `crm-gateway.ts`, library `dynamics-web-api` | **one client object shared by all requests**, with the batch it is collecting | start a batch, add to it, execute it |
| Retry clients | `libraries/axios-retry-client*.ts` | attempts of one call | retry on network errors, 5xx and 429 |
| Support (NSA) journey | `pages/*support*`, `pages/nsa`, `helpers/nsa-navigator.ts`, `helpers/support.ts`, `helpers/evidence-helper.ts` | `session.journey`, **a navigator object shared by all requests** | choose support, walk the pages, submit |
| NSA drafts | `crm-gateway.ts` `getUserDraftNSABookingsIfExist`, `updateNSABookings` | draft bookings in the CRM | close the drafts a standard booking replaces |
| Candidate journey | `pages/*` of the two candidate journeys, `middleware/setup-journey.ts` | `session.journey`, `session.currentBooking` and the edits of it | answer a page, edit an answer, go back, start again |
| Instructor journey | `pages/instructor*` | the same session, with its own pages | the same walk for instructor tests |
| Candidate sign-in | `pages/candidate-details`, `pages/manage-booking-login`, `services/candidates`, `services/eligibility` | `session.candidate` | eligibility, find or create candidate and licence |
| Appointments | `pages/choose-appointment`, `services/appointment` | none | the dates and slots offered |
| Shell | `middleware`, `routes`, `nunjucks-*`, `locales`, `services/notifications`, `services/locations`, queue-it | none that others read | routing, guards, rendering, e-mail |

How they interact: a request loads the session, its handler awaits calls to
TCN, CPMS and the CRM in a fixed order, each of which may fail or succeed
without the caller learning it, and the session is saved when the response
ends. Handlers of one process interleave at every `await`.

What is hard:

* **Interleaving.** Two requests of one session (a refresh, two tabs, a double
  click) work on separate copies and the last to end wins. Requests of
  different sessions share the CRM client and the NSA navigator.
* **Partial failure.** Booking is a sequence of calls to three services with no
  transaction: every prefix can be the last thing that happened. Some failures
  are swallowed on purpose (binding the payment, deleting a reservation), some
  are answered with a reset session, some with a kept one.
* **Stale state.** The manage-booking pages decide on bookings cached in the
  session; the check for an existing booking is made long before the booking
  is confirmed.
* **At-least-once calls.** The clients retry non-idempotent POSTs.
* **Boundaries.** Dates of eligibility, three working days before a refund
  lapses, six months of slots.

What makes each part correct:

* booking and payment: nothing is confirmed that was not paid for, the CRM says
  Confirmed only when TCN does, the candidate is told the slot and the outcome
  that are real, a decided booking stays decided;
* manage booking: a slot is given up only for one that replaces it or for a
  cancellation, money is returned at most once, what a page says about the
  existing booking is true;
* CRM gateway: although the requests of one process share a batch, a product
  joins a candidate to a booking of their own, what is answered was carried
  out, and no failure leaves the client collecting;
* NSA journey: a candidate walks exactly the pages of the chosen support, a
  draft that a standard booking replaces is closed;
* sign-in: at most one candidate and one licence record per person.

## How the models are cut

A request is a sequence of awaited calls. In `BookingPayment` and
`ManageBooking` the variable `pc` names the call a request is about to make, so
one action is one call with everything the handler does until it awaits the
next one: the assignments to its copy of the session, the early returns, the
error path it is caught on. `Save` is the response: it writes the copy back.
`Proceed`, `Answer` and `GiveUp` are the three ways an action goes on.

A call ends `ok`, `fail` (refused, nothing happened) or `lost` (it happened, the
caller sees an error). The constants `Fails` and `Loses` say which calls may end
so, and `Fails` also names the faults that are not calls (`crash`, `slotExpiry`,
`sessionExpiry`, `agency`, ...). A run that claims less than everything says so
by leaving a fault out of those two sets, and the tables below name it. A call
with the retries of its client is one call here.

Records in the services are named by the request that made them
(`BookingPayment`) or are given (`ManageBooking`); dates, prices, texts, form
validation and the content of messages are left out, except where a property
turns on them (how near the day of a slot is, whether a name or an address is
the one the licensing agency holds).

## Modules

| Module | What it models | Reads as |
|---|---|---|
| `BookingPayment` | check-your-answers, payment initiation and confirmation, `BookingHandler`, `BookingService` | requests in flight over one session and three services |
| `BookingLifecycle` | what one booking may go through | abstract; `BookingPayment` implements it |
| `BookingPaymentProofs` | theorems of `BookingPayment`: types, a Confirmed booking is secured | |
| `BookingIdentityProofs` | theorems of `BookingPayment` without revisits: slot, booking and payment belong together | |
| `BookingInTurnProofs` | theorems of `BookingPayment` with one request at a time: one booking per test, "cancelled" is true, `BookingLifecycle` is implemented | |
| `ManageBooking` | manage-booking login, home, view, change, check-change, cancel, request-refund, `BookingManager` | requests over cached lists of bookings |
| `BookingTicket` | slot held and fee returned, per booking | abstract; `ManageBooking` implements it |
| `ManageBookingProofs` | theorems of `ManageBooking` | |
| `CandidateJourney` | every page of the two candidate journeys, the NSA navigator, the drafts | one candidate who follows links and answers pages |
| `JourneyProofs` | theorems of `CandidateJourney` | |
| `InstructorJourney` | the instructors' pages, those of their own and those shared with candidates; EXTENDS `CandidateJourney` | one instructor who follows links and answers pages |
| `InstructorProofs` | theorems of `InstructorJourney`; EXTENDS `JourneyProofs` | |
| `SignIn` | eligibility, finding, creating and updating contact and licence | several browsers of one driver against the CRM |
| `SignInProofs` | theorems of `SignIn` | |
| `CrmBatch` | the operations of the CRM gateway that share one client and its batch | requests that interleave at their awaits |
| `CrmBatchProofs` | theorems of `CrmBatch` | |
| `MC...` | symmetry sets and instances for TLC | |

### BookingPayment

| State | Code |
|---|---|
| `session`, `copy` | `req.session` in the store and as loaded by the request: slot, reservation, booking, receipt, funding |
| `pc`, `home`, `cause`, `page` | where a handler is, whose it is, why it gives up, what it answers |
| `tcn`, `crm`, `pay`, `waived` | reservations; bookings with status, slot and payment; card payments; bookings settled without a card |

| Actions | Code |
|---|---|
| `StartSubmit`, `CheckExisting`, `Reserve`, `CreateBooking`, `CreateProduct` | `check-your-answers.ts`, `booking-handler.ts` |
| `StartInitiate`, `Initiate`, `Bind` | `payment-initiation.ts` |
| `StartConfirm`, `SettleByCard`, `SettleWithoutCard`, `ConfirmSlot`, `ConfirmCrm` | `payment-confirmation.ts`, `completeBooking` |
| `DeleteReservation`, `SetStatus` | `unreserveBooking` and its callers' catch blocks |
| `BeginJourney`, `EditSlot`, `ShowConfirmation`, `PayAtGateway` | what the candidate does between the requests |
| `ExpireReservation`, `ExpireSession`, `Crash` | the environment |

`Overlap` allows two requests of one session in flight. `Revisit` allows the
candidate to go back to a page whose work is done. `ExistingCheck` is the
feature toggle of the same meaning.

### ManageBooking

`session.list` is the list of bookings as the session last loaded it, with
`dated` (the last day to change or refund is known) and `settled`. `chosenFor`
is a history field: it remembers which booking a chosen change was chosen for,
and no guard reads it. `age` says how near the day of each slot is (`early`,
then later), which decides between refund and income.

| Actions | Code |
|---|---|
| `LogIn`, `ListBookings`, `ProbeChanges`, `ViewBooking` | login, home, `view` |
| `ChooseChange`, `ResetChange` | choosing slot, language or support for a booking |
| `ReserveNewSlot`, `MarkChanging`, `VacateOldSlot`, `OccupyNewSlot`, `RecordChange`, `UpdateSupport`, `Reload` | `manage-booking-check-change.ts`, in the order of the calls |
| `MarkCancelling`, `SettleFee`, `DeleteScheduledSlot`, `CancelInCrm`, `ReloadList` | `manage-booking-cancel.ts` |
| `RequestRefund`, `RecogniseCompensation` | `manage-booking-request-refund.ts` |
| `AgencyCancels`, `OtherTakes`, `ReleaseSlot`, `DayComes`, `ExpireSession`, `Crash` | the environment |

### CandidateJourney

State: the page shown and its `links`, the session (answers, edits of them, the
flags of the journey), how many support requests of each kind (`Draft`) are open
per type of test (`drafts`), the types `confirmed`, and what was last `submitted`. An action is a POST
(`TestType`, `SelectSupportType`, `Voicemail`, ...) with its controller's
assignments and redirect; `Follow` is a GET of a link shown, with the guard of
the route and what the GET itself changes. `Routes` is the navigator's object,
read by a session whichever session filled it last. `Resolve` is the service
centre answering a request, `Payment` a booking that is paid or not.

Of a controller that both journeys use, the replies are a set of their own,
`EmailContactReplies` and the like: the session it may leave and the page it may
redirect to. `AnswerOneOf` makes an action of them, with the guards and the
links of the candidates' pages, `InstructorAnswerOneOf` with the instructors'.

### InstructorJourney

The same variables. `InstructorAnswer` shows a page with `InstructorArrive` (a
GET with the redirects it causes, because some pages of an instructor redirect
when they are asked for: `ShowTestLanguage`, `ShowVoiceover`,
`ShowChooseSupport`, `ShowCandidateDetails`) and with `InstructorLinks`. The
controllers under `pages/instructor-*` are actions of their own
(`InstructorVoiceover`, `InstructorCustomSupport`, `InstructorCheckYourAnswers`,
...); `instructor-check-your-details` does to the session and the CRM what the
candidate's does, and is that action. What is new is a test type without a
choice of language (ERS, and every northern one), without a voiceover
(`AvailableOptions`) and without a fee (`IsZeroCostTest`). `other-side` is a page
of the candidates' side: where a link of the received-request page leads an
instructor.

### SignIn

State: the `official` details at the licensing agency, `contacts` and `licences`
in the CRM, the `work` of a request in flight in each browser and the `session`
it leaves. The actions are the calls of `candidate-service.ts` in their order:
`AskEligibility`, `FindLicence`, `UpdateLicence`, `UpdateContact`,
`CreateContact`, `CreateLicence`, `FindReference`, and `LoadBookings` for a
login to manage. `Change` gives the driver another name or address.
`overlapped` is a history variable: of the sign-ins now in flight, one ran beside
another; one that starts alone clears it. Names stand for all that is compared with the contact (names, date of birth, title, gender), the
address for what is compared with the licence. Whom the eligibility service
knows is external.

### CrmBatch

| State | Code |
|---|---|
| `collecting`, `batch` | the one `dynamicsWebApi` object of the gateway (`CRMGateway.getInstance`): between `startBatch` and `executeBatch` it collects calls |
| `work` | per request its operation, how far it is, the calls of the batch it sent, the tries left to create a booking, the booking it goes on with |
| `bookings`, `products`, `carriedOut` | what the CRM holds and which updates it has carried out |

An action runs from one await to the next. `StartBooking` and `StartChange` fill
and execute a batch without an await between (`StartAndExecute`), so no other
call falls into it; `StartCancel` and `StartList` start a batch and await a call
inside it (`StartAndAwait`), and go on with `SetCancelled` or
`AskForNsaBookings` and `ExecuteAfterAwait`. `BatchAnswered`, `BatchFails` are
the answers; `CreateAgain` is `validateBookingAndRetryIfNeeded`,
`CreateProduct` the call that follows a booking.

The client is the library `dynamics-web-api`, which is not in the repository.
Of it the module takes what the gateway uses it for: a call that is collected
settles at once and without an answer; executing a batch that was not started
fails; a batch is carried out as a whole or not at all, and answered in the
order of its calls. Whether `startBatch` drops what is already collected is left
open (`StartedBatches` has both). The CRM may refuse a call or a batch (`fail`),
carry it out and lose the answer (`lost`), and answer the creation of a booking
with any booking there is (`mixed`, which is what `isCreateBookingDataValid` is
there for).

## Runs

| Run | Instance | Question |
|---|---|---|
| `booking_races` | 4 requests, 1 session, 2 slots, overlapping, 12 faults | Is a Confirmed booking always secured, a confirmed slot paid for, of the right booking, and the one the candidate is told? |
| `booking_in_turn` | 4 requests one at a time, by card or by compensation, maybe a booking of an earlier session; fair | Does the code implement `BookingLifecycle`? Is "cancelled" true? Is one test booked once? Does every answer of the payment service decide the booking? |
| `manage_overlap` | 2 requests at once | Can two changes of one booking both be between their slots? |
| `manage_faults` | 1 request at a time, every fault, revisits | Is a booking Cancelled only when its fee was dealt with? |
| `manage_in_turn` | 1 request at a time, 3 slots, passing days | Does a Confirmed booking hold the slot the CRM shows? Is `BookingTicket` implemented? Does the fee follow the slot held? |
| `manage_settles` | 2 bookings, 3 slots, fair | Is a change made to the booking it was chosen for, and does it end? |
| `manage_home` | 1 booking, one fault | Violated: the home page shows a slot that is not held (finding 1) |
| `journey` | 3 candidates on 2 sites: support that needs every page and 2 requests; 2 tests with voiceover and sign language to edit; sign language with 2 requests. 2 centres, all faults but `taken` for the second | Do the pages that send the answers have them all, is the walk the candidate's own, is one request open at a time, is the evidence as told? Was the confirmed time offered for the answers' type and centre? Are sign language and voiceover kept apart? |
| `drafts_closed` | 1 type, no faults | Violated: a replaced request is not closed (finding 2) |
| `sign_in` | 2 browsers, 2 contacts, 2 licences, 2 values | Is who is signed in one person? Does a sign-in that runs alone make no second licence and bring the records up to date? |
| `instructor` | 3 instructors on 2 sites: two tests with and without a choice of language; support that a standard test cannot give, with failing and lost requests; the northern tests with and without a fee and a voiceover | Does what holds of the candidates' walk hold of the instructors'? Is whoever follows the links served? |
| `crm_batch` | 3 requests, two of one candidate and one of another, all operations, all faults | Does a product join a candidate to a booking of their own? Is the client never left collecting? Was what is answered carried out? |

What each run leaves out, because the property would not hold with it (the
reasons are under *What the code does not promise*):

* `booking_races`: revisits, two sessions.
* `booking_in_turn`: overlap, revisits, the faults `requery`, `reconfirm` and
  `crash`, a lost answer to `confirmSlot`, and a status update that is refused
  (one whose answer is lost is in). These are the assumptions `InTurn` and
  `Answered` of the theorems. For the time it takes also refusals of `reserve`,
  `initiate` and `bind`, lost answers to `check`, `product`, `settle` and
  `delete`, and zero cost (settled like a compensation): the theorems have them.
* `manage_faults`: overlap (too large together with all faults; the theorem
  covers it) and `refundCode`.
* `manage_in_turn`: overlap, revisits, `load`, `crash`, `agency` and
  `financeLag`: after each of them a list may go on offering a booking whose fee
  was dealt with, or offer a compensation. These are the assumption `Attended` of
  the theorem (`FeeFollowsTheSlotHeld` needs only the first, `load` and `crash`).
  The fee is judged when CRM and TCN agree on the slot.
* `manage_settles`: `load`, and failures of `vacate`, `occupy`, `record` and
  `mark`, after which a booking does stay in change.
* `journey`, `instructor`: `taken` for whoever may ask for both sign language
  and a voiceover. `NoDuplicateRequest` allows for the page about an earlier
  request, `WalkIsServed` leaves out the ways through it.
* `crm_batch`: nothing of the module; what is external is said above.

### Bounds, and why they are enough

* Four requests in `booking_races` are a submission, an initiation and two
  confirmations that race, or two submissions and one continued to the end;
  every mutant of its properties is found within them. Four requests in the
  in-turn run are one whole attempt by card and the last page asked for once
  more, which is what the lifecycle and "cancelled" are about; with a booking
  made in an earlier session (`Earlier`) three are a whole second attempt by
  card, which is what `OneBookingPerTest` needs. There requests are numbers and start in order
  (`RequestsInOrder`), which loses nothing, because which request is which makes
  no difference.
* In `ManageBooking` requests are used again, so one is any number of requests
  one after another; two are what an overlap is. Two slots are an old and a new
  one; the third lets a booking move while another party takes a slot, and lets
  two bookings each move.
* In the journeys each member of `People` is one set of tests, needs and faults:
  together the candidates reach the pages of translator, voiceover and custom
  text and every answer about evidence, the instructors every kind of test that
  differs in language, voiceover or fee. Two centres and two types make an edit
  differ from what it edits. Two drafts make a duplicate.
* In `SignIn` two records of each kind are one more than there should be, two
  values are an old and a current one, two browsers an overlap.
* In `CrmBatch` three requests are an operation that awaits inside its batch, one
  whose calls fall into it, and a third that takes the batch away from both; two
  candidates are an own booking and another's, and two requests of one candidate
  are what the check of an answer cannot tell apart.

Deadlock is not checked in the booking, manage and batch runs: a request that
was answered is done, a session may be left, and nothing obliges a candidate to
act. It is checked in the journeys and in sign-in, where a page always has a way
on and a browser can always start again.

### Fairness

`FairSpec` adds weak fairness of `Handle(r)` for each request: a handler that
awaits a call goes on, because every client has a timeout and a bounded number
of retries. Candidates, the agency, expiry and crashes have no fairness. Liveness
is checked without symmetry.

### Properties in words

| Property | Says |
|---|---|
| `ConfirmedIsSecured` | Confirmed in the CRM implies a confirmed slot at TCN |
| `SecuredIsPaid`, `RightSlot`, `BoundToOwnPayment`, `ConfirmationIsTrue` | the slot, the booking, the payment and what the candidate is told belong together |
| `OneBookingPerTest`, `CancelledMeansReleased`, `ImplementsLifecycle` | in turn, one booking per test, "cancelled" is true, a decided booking stays decided |
| `AnswerDecides` | a settled or refused payment leaves no booking Reserved |
| `OneMover`, `ConfirmedHoldsItsSlot`, `ImplementsTicket` | a booking has one slot, changes do not collide, a settled fee is final |
| `CancelledIsPaidBack`, `FeeFollowsTheSlotHeld` | no cancellation forgets the fee, and the fee follows the day of the slot held |
| `ChangeIsForItsBooking`, `ChangeSettles` | a change is of the right booking, and ends |
| `AnswersComplete`, `NonStandardStaysSupported`, `WalkIsOwn`, `NoDuplicateRequest`, `EvidenceAsTold` | the walk through the journey ends with the candidate's own, complete and true answers |
| `OfferedTogether`, `BslOrVoiceover` | edits do not combine answers that do not go together |
| `WalkIsServed` | links and redirects of the instructors' pages lead to pages that can be shown |
| `ProductOfOwnBooking`, `NothingLeftCollecting`, `AnsweredIsDone` | requests that share a batch do not get each other's bookings, leave the client usable, and are answered only for what was done |
| `SessionIsOnePerson` | who is signed in is one person to the CRM, whatever overlaps |
| `NoSecondLicence`, `SignedInIsCurrent` | a sign-in that runs alone makes no second licence and leaves the names, and the licence's address, as they were answered |

`PROJECT.json` gives for each a mutant: a plausible bug in a mapped definition
under which TLC violates the property.

## Findings

1. **The home page lists a booking with a slot it no longer has**
   (`manage_home`, `ShownSlotIsHeld`). The comment at
   `manage-booking-home.ts:66-68` wants bookings in a bad state split out. The
   test is only that TCN knows the booking. When the CRM does not take a change
   (`manage-booking-check-change.ts:335`, not fatal) the booking passes that
   test with its old slot.
2. **A support request that a standard booking replaces is not closed**
   (`drafts_closed`, `DraftsAreClosed`). `locales/gb/translation.json:483`
   promises that it will be. `updateNSABookings` (`crm-gateway.ts:828`) filters
   on `crmNsaStatus`, which the query that finds the drafts
   (`crm-gateway.ts:1169-1175`) does not set; it sets `nsaStatus`.

## What the code does not promise

Met while modelling; each is why a run leaves a fault out or a property has a
condition. The findings above are the two of them with a run. The hazards of
`PROJECT.json` that list no property are among them: there the code itself does
what should not happen, and a property that holds would have to look away.

*Booking and payment*

* Two requests in flight and a failed, swallowed delete: the slot is confirmed
  for a booking already given up. The comment at `payment-confirmation.ts:102`
  holds for requests in turn only. A crash between unreserving and saving the
  session, then a retry, does the same.
* When payment-confirmation is asked for again after the slot was confirmed, and
  the payment service then answers with an error (`requery`) or the scheduling
  service refuses to confirm twice (`reconfirm`), the booking is given up in the
  CRM although its slot is confirmed and paid for: the catch block does not ask
  how far the booking had come (`payment-confirmation.ts:192-241`). A second
  payment cancelled after a CRM error does the same. The lifecycle does not hold
  with these faults, and neither does "cancelled"; four requests show it.
* A lost answer to the confirmation of the slot leaves a confirmed slot and a
  Draft booking.
* When the CRM fails during unreserving, the page still says that the order was
  cancelled (`payment-confirmation.ts:259-260`).
* Two sessions of one candidate can both confirm: the check for an existing
  booking is made at submission only.
* With revisits, a receipt or a reservation left from another booking mixes the
  identities that `SecuredIsPaid` and its companions keep apart.

*Manage booking*

* A refund code other than success is only logged, and the cancellation goes on
  (`translation.json:1282` promises the refund).
* A booking is moved by the slot and the last day of the session's list, though
  the day may have come or the booking been moved elsewhere since
  (`manage-booking-check-change.ts:144`).
* A slot that cannot be deleted during a cancellation stays with TCN, and the CRM
  says Cancelled.
* A lost answer to the deletion of the old slot, then a retry, loses the slot
  while the page says the booking is unchanged (`translation.json:1015`).
* A refund whose answer is lost may be asked for again once the list was not
  loaded, or the CRM learnt of the refund late.
* With pages open in two tabs a chosen slot is applied to the booking opened
  last (`choose-appointment.ts:49`).

*Journey*

* A request for support may lose its language (`check-your-details.ts:90-91`).
* The flag of the page about an earlier request stays set, and its links lead
  past the pages of support: `AnswersComplete` and `EvidenceAsTold` leave those
  candidates out.
* After "slot taken" a voiceover can be added to sign language, and only the
  latter is sent (`getAdditionalSupport`).
* A lost answer to a request, repeated, makes a second draft:
  `NoDuplicateRequest` counts the acknowledged ones. After the page about an
  earlier request a second one can be acknowledged as well.
* Confirming support with "tell us more" clears the selection; going back and
  continuing without it leads to `staying-nsa` without options, an error.
* A northern candidate with supported standard who edits the type is redirected
  from the skipped page of languages to a page that does not exist: the redirect
  in `test-language.ts` is relative. `WalkIsServed` is therefore about
  instructors only.

*Instructor journey*

* An instructor without a choice of language who has an open request is shown
  the page of languages although the comment at `test-language.ts:22` says that
  it is skipped, and the answer to it throws (`test-language.ts:59-61`).
* A voiceover chosen for one type is kept for another that has none
  (`adip1dva`), and the booking is sent with it.
* After the received-request page, leaving the voiceover leads to a page that does
  not exist (a relative `find-test-centre` under `/nsa`), and the link back leads
  to `/nsa/leaving-nsa` on the candidates' side.

*The shared batch*

* The date of a cancellation can be lost: it is collected in a batch that another
  request executes, and that fails, while the cancellation is answered.
  `AnsweredIsDone` speaks of the status.
* An operation whose second call finds the batch taken away fails although its
  calls may be carried out with the other's.
* The answers of a list are not checked to be its own, and a booking of another
  request of the same candidate passes `isCreateBookingDataValid`.
* A booking answered with another's is created again, up to three times: the
  earlier ones stay in the CRM.

*Sign-in*

* When the contact's update fails after the licence's, the contact's address
  stays stale: the next sign-in compares the licence (`candidate-service.ts:111-116`).
  `SignedInIsCurrent` therefore speaks of the licence's address.
* A contact whose licence was not created may be left behind, and two browsers
  at once make two contacts, or each a licence on the contact left behind:
  `NoSecondLicence` is about a sign-in that runs alone.

## Proofs

For all values of the constants, under the assumptions of the module that
declares them: `ConstantsAssumption` of `BookingPayment` and `ManageBooking`,
`ValuesAssumption` and `NoneAssumption` of `SignIn`, and `CandidateAssumption`,
`OperationsAssumption` and `NoneAssumption` of `CrmBatch` (every
request has a candidate and one of the four operations; `None` is none of the
values), and `TargetsAssumption`, `PeopleAssumption` and `NoneAssumption` of
`CandidateJourney` (one of two sites, tests and support of the known kinds), with
`InstructorsAssumption` (an instructor's tests are instructors' tests) for
`InstructorJourney`. TLC checked every inductive invariant on a small instance
first.

| Theorem | Assumes | Argument |
|---|---|---|
| `BookingPaymentProofs!TypeCorrect` | - | `BaseInv` |
| `BookingPaymentProofs!SecuredCorrect` | - | `BaseInv /\ SecuredInv` |
| `BookingIdentityProofs!SecuredIsPaidFor`, `SlotIsRight`, `PaymentIsOwn`, `ConfirmationsAreTrue` | `~Revisit` | `BaseInv /\ SecuredInv /\ IdentityInv` |
| `BookingInTurnProofs!OneBookingHolds` | `InTurn`, `ExistingCheck` | `OrderInv /\ TurnInv` |
| `BookingInTurnProofs!CancelledIsReleased` | `InTurn`, `Answered`, no `status` fault | `DecisionInv` |
| `BookingInTurnProofs!LifecycleIsImplemented` | `InTurn`, `ExistingCheck`, `Answered` | `LifeInv`, step by step |
| `ManageBookingProofs!TypeCorrect` | - | `BaseInv` |
| `ManageBookingProofs!OneMoverCorrect` | - | `BaseInv`, and what each call does to `tcn` |
| `ManageBookingProofs!PaidBackCorrect` | no `refundCode` fault | `FeeFirst` |
| `ManageBookingProofs!SlotCorrect` | `~Overlap`, one session | `OneAtATime /\ InStep` |
| `ManageBookingProofs!ChangeCorrect` | `~Revisit` | `Matching` |
| `ManageBookingProofs!FeeCorrect` | `Solitary`, no `load` or `crash` fault | `OneAtATime /\ SlotsShown` |
| `ManageBookingProofs!TicketImplemented` | `Attended` | `OneMover`, `InStep`, `FeeOnce`, `SlotsApart`, step by step |
| `JourneyProofs!JourneyIsSound` | - | `DraftInv` is inductive |
| `JourneyProofs!TypeCorrect`, `AnswersAreComplete`, `TimeWasOffered`, `NonStandardIsKept`, `WalkIsOnesOwn`, `ToldOfEvidence` | - | `JourneyInv` |
| `JourneyProofs!RequestIsSingle` | - | `DraftInv == JourneyInv /\ NoDuplicateRequest` |
| `JourneyProofs!OptionsAreApart` | `TakenWithoutVoiceover` | `JourneyInv /\ ApartShown` |
| `InstructorProofs!WayIsSound` | - | `WayInv` is inductive |
| `InstructorProofs!InstructorsAreServed` | - | `WayAsked` of the page shown |
| `InstructorProofs!InstructorTypeCorrect`, `InstructorAnswersAreComplete`, `InstructorTimeWasOffered`, `InstructorNonStandardIsKept`, `InstructorWalkIsOnesOwn`, `InstructorToldOfEvidence` | - | `InstructorInv` |
| `InstructorProofs!InstructorRequestIsSingle` | - | `WayInv == InstructorInv /\ NoDuplicateRequest` |
| `SignInProofs!SignInTypes` | - | the types, and what a request past a call has |
| `SignInProofs!SessionsAreOnePerson` | - | `Inv` of the module |
| `SignInProofs!SecondLicenceNeedsOverlap`, `SignInAloneIsCurrent` | - (the properties are about a sign-in that runs alone, the second of names and the licence's address) | `Inv`, `Relies`, step by step |
| `CrmBatchProofs!BatchTypes`, `OwnBookings`, `BatchesAreExecuted`, `AnsweredOperations` | - | `Inv` of the module |

*Types.* `TypeOK` alone is not inductive: a handler past its guard writes at
`crm[copy[r].booking]`, which is only sensible if the copy holds a booking.
`BaseInv` adds that (`Holding`, `Equipped`): a handler past the guards of its
controller has what those guards ask for.

*ConfirmedIsSecured.* The CRM is told Confirmed only by a request at
`confirmCrm`; `SlotFirst` says that such a request has its slot confirmed for
its booking. That must survive the other requests. A reservation is named by
the request that makes it, so `Unreserved` (a request that has not reserved yet
has no reservation) keeps a new reservation from replacing a confirmed one, and
the deletion and the expiry at TCN take only what is not confirmed. `SlotStep`
collects this: once secured, always secured.

*Identity.* The four properties say that a confirmed booking, its slot and its
payment belong together, and each is about what several requests did one after
the other through one session. `IdentityInv` carries this between the calls.
`Coherence`: in every session and every copy of it, the reservation is the one
the booking was made from, the slot is that reservation's and that booking's,
and the payment was initiated for that booking. A handler with an old copy
overwrites the session when it saves, which does no harm as long as every copy
is coherent in itself. `Submitting` says the same of a handler that has made
only a part of the three, `Named` that what the services refer to was made by a
request that will make nothing more (`Past`), so that no later call redefines
it, and `Confirming` that a confirmation shown is of a booking. Without
`~Revisit` all four fail: a page shown again sends a session with a booking
through the submission once more, and a handler half-way has a booking and the
reservation of another.

*In turn.* `InTurn` is one session, one request of it at a time, and no revisit of
a page that did its work. `OrderInv` says what that gives: the session and the
copy of the one request in flight name the same booking. `TurnInv` adds to
`OneBookingPerTest` that who is past the check for an existing booking, or holds
a booking in a session or a copy, does not do so beside another that is
Confirmed (`FirstBooked`); every fault, a crash included, keeps it.
`DecisionInv` is about a booking that is being given up: its slot is not
confirmed and paid for (`Unsecured`). That rests on `OwnMoney` (a session knows
of every captured payment for its booking, so one not captured has settled
nothing) and on `Answered`: no `requery`, no `reconfirm`, no lost answer to
`confirmSlot`, with each of which a booking is given up beside a confirmed slot;
no `crash`, after which a session may hold a booking that was given up, or not
know what was paid for its own.

*Lifecycle.* The refinement maps a booking of `BookingLifecycle` to what the three
services hold of it. Six actions move a booking, each with a lemma that names its
abstract step (`CreateOpens`, `WaivingSettles`, `PayingSettles`, `SlotSecures`,
`ConfirmBooks`, `StatusCloses`); `OthersStutter` is about the rest. `LifeInv`
gives the abstract guards: what is secured was settled, what is booked was
secured and is the first, what is closed was not secured.

*OneMover.* A request reaches `occupy` only by emptying `tcn[b]`, which it can
do only when `tcn[b]` is not empty; while one is there the booking is empty, so
no second one gets there.

*PaidBack.* `FeeFirst`: a request at the deletion of the slot, at the
cancellation in the CRM or at recognising a compensation has had the fee of its
booking dealt with, and `returns` never decreases.

*Slot.* With one request at a time, `InStep` says what the CRM status of the
booking is while that request is between two calls: whenever `tcn[b]` and
`crm[b].slot` may differ, the status is in change or in cancellation.

*Fee.* The handlers judge by a list that was loaded earlier. `SlotsShown`: while
nobody works for a session, and in the copy of whoever works for it, every booking
of the list has the slot the CRM has; only between the record of a change and
the reload after it is it another, and no cancellation starts there. `CopyList` and
`SessionList` say once where the list of a request and of a session can come from.

*Ticket.* `tcn` and `returns` are the abstract state. `PlacesStep` names the
abstract step of each call that moves a booking: deleting the slot or giving it
up leaves it, confirming the new slot takes it, which needs that the booking has
none (`OneMover`), that nobody else has the slot (`SlotsApart`: what is reserved
is held by no booking) and that the fee was not dealt with (`FeeOnce`). `FeeOnce`
is the lists again: a booking whose fee was dealt with is being cancelled or is
cancelled in the CRM, no list that can be decided on offers a page for it, and
only its own cancellation still works on it. `Attended` (one request at a time, no
revisits, the list loaded when it is asked for, no crash, no agency, no late news
of a payment) is what the lists need to stay so.

*Change.* `Matching`: the change in every session and copy was chosen for the
booking that this session or copy is looking at.

*Journey.* A candidate may ask for any page that is linked, is redirected up to
twice and answers what is shown, so the invariant is about pages that may be asked
for as much as about the one shown. It has three layers: the place and the time
(`Place`), which side of the service the candidate is on and with which selection
(`Side`), and what was told of evidence and of earlier requests (`Told`). Each
says what holds of every session (`...Kept`), of one that may ask for page `p`
(`...Asked`), and of one that is shown it (`...Shown`); `Ready(s, p)` and
`Seen(s, p)` put the layers together, and `JourneyInv` is `Seen` of the page shown
and `Ready` of each link. The proof follows a request: an answer on a page that
was seen leads to a page that is ready (one lemma per answer), a page asked for
that is ready is seen after its redirects (`ArriveIsSeen`), and the links of a
page seen are ready. `OfferedTogether` is not inductive because an edit puts
place and time together only when the answers are shown: `PlaceAsked` says that
who asks for the check page has a time of their centre and type once the edits
are applied, and that elsewhere no edited time waits. `EvidenceAsTold` needs that
whoever edits an answer of a request was told (`ToldKept`), because the links of an
edit lead past the page that tells; selecting other support therefore has to end
the edit. The shared navigator is in
`NextIs` and `PreviousIs`, which say where it leads for any routes another
session left, and `RoutesAreOwn`: with a selection only a session's own are found.
`NoDuplicateRequest` needs that who is about to send a request saw that none was
open (`NoneUnwarned`, a part of `Told`), and that nothing in between makes one.

*Options.* On the standard side sign language and a voiceover may be edited freely:
they are checked when the answers are sent. `ApartShown` says that everywhere else
they go together with the selection, which is what makes the pages of the support
safe, where nothing checks. An edit ends on the standard side in a page that only
leads on or back to the answers, with one exception: a slot that is taken ends the
edit, and from the page about it the candidate may go on to the pages of the
support with the options as they are edited. `TakenWithoutVoiceover` excludes that
way, as the run `journey` does: whoever may lose the slot asks for no voiceover.

*Instructors.* Of the candidate's journey the three layers hold for instructors
as well: what an answer does to a session is the same or nearly so, and the lemmas
about it are used again. What differs is who is led where, so `InstructorInv` adds
a fourth layer, the way (`WayKept`, `WayAsked`, `WayShown`): which answers a session
has, by the side it is on, before a page may be linked at all. `Permitted` is the
guards of the pages, and it alone is not inductive: what a link skips, an
earlier page must have asked. A test without a choice of language, for one, is
given its language by the page of the test, so everything later has both; and a
selection is there wherever the pages that need it are, unless the session went
astray (`Astray`: it met the page about an earlier request, or confirms support
that may no longer be selected). `InstructorsAreServed` is then `WayAsked`
of the page that is shown.

*Sign-in.* `Informed` says what a request has learnt before each call: the
records it names exist and the licence is the contact's, whatever other requests
do, because records are never removed. `Relies` is stronger and holds while no
other request has run beside the one at work, whatever earlier sign-ins left
behind: what it found absent is still absent when it creates it, which gives
`NoSecondLicence`, and what it wrote is still there when it is done, which gives
`SignedInIsCurrent`. With another request beside it neither holds (*What the code does
not promise*).

*Batch.* The requests share one list of calls, so the invariant is about the
calls rather than about who sends them. `Learnt` and `InOrder` say what a
request has learnt and put into the batch it waits for; `HaveBookings` says
that a product is only ever asked for by a request that has its booking, in the
open batch and in every batch on its way; `IsDone` that an answer follows the
execution of what it answers. The properties hold although one request's batch
takes along the calls of others.

Only model-checked: both liveness properties, `AnswerDecides` and
`ChangeSettles`: liveness under fairness is out of the prover's reach. Of a
candidate who may lose the slot and also asks for a voiceover nothing is proved
about `BslOrVoiceover`, which fails there (*Journey*, above).

## Not modelled

The clients' own retries (a call with its retries is one call, which may fail
after it took effect), the lists of slots and centres, the rules of eligibility
by type and date, form validation, e-mails, rendering and the waiting room. The
library below the CRM client is external: `CrmBatch` models it from how the
gateway uses it. In the journeys the candidate follows the links shown, one
request at a time, with the toggles for existing-booking and custom-support
validation on; searches without result show the page again. The instructors'
page of sign language is left out: it is served, and never linked. (Their page of
a translator is in: it is reached with the routes of another session, after "tell
us more" cleared the selection.)

## Plan

1. A client whose retry took effect twice, for the calls that make something:
   reservation, booking, payment.
2. Appointments and eligibility as pure algorithms against reference
   definitions.
