--------------------------- MODULE CandidateJourney ---------------------------
(***************************************************************************)
(* One candidate walks through the pages of a booking, with or without     *)
(* support: what each page reads and writes of the session, the page each  *)
(* answer leads to, and the links each page shows.  A handler is atomic    *)
(* here: the candidate waits for each page and follows its links.  The     *)
(* other sessions of the server appear as the routes they leave behind in  *)
(* the navigator all sessions share.                                       *)
(***************************************************************************)
EXTENDS Naturals, FiniteSets, FiniteSetsExt

CONSTANTS
  Targets,        \* the agencies whose site the candidate may use: "gb", "ni"
  People,         \* who the candidate may be: the test types they are eligible
                  \* for, the kinds of support they may tick, what may go wrong
                  \* ("create", "lost", "taken", "unpaid"), and a bound on the
                  \* bookings and open support requests they make
  Centres,        \* the test centres found
  None

ASSUME TargetsAssumption == Targets \subseteq {"gb", "ni"}

VARIABLES
  person,     \* who the candidate is
  session,    \* what the session keeps of the journey and its answers
  page,       \* the page the candidate is shown
  links,      \* the pages it links to
  drafts,     \* per test type, how many support requests of each kind are open
  confirmed,  \* the test types of the candidate's Confirmed bookings
  submitted   \* the answers as they went to the CRM, until the next page

vars == <<person, session, page, links, drafts, confirmed, submitted>>

CandidateTypes == {"car", "lgvHpt"}
InstructorTypes == {"adip1", "adiHpt", "ers", "adip1dva"}
Types == UNION {p.types : p \in People}

SupportTypes ==
  {"bsl", "interpreter", "voiceover", "translator", "extraTime", "reading", "other"}

ASSUME PeopleAssumption ==
  \A p \in People :
    /\ p.types \subseteq CandidateTypes \/ p.types \subseteq InstructorTypes
    /\ p.support \subseteq SupportTypes
    /\ p.faults \subseteq {"create", "lost", "taken", "unpaid"}
    /\ p.most \in Nat \ {0}

NonStandardSupport == {"interpreter", "translator", "extraTime", "reading"}
Evidence == {"required", "mayBeRequired", "notRequired", "returning"}

BslIsAvailable(type) == type = "car"

(* The kinds of support that may not be ticked for a test type. *)
InvalidOptions(type, target) ==
     (IF target = "gb" THEN {"translator"} ELSE {})
  \cup (IF type = "lgvHpt" \/ (type = "adiHpt" /\ target = "gb")
        THEN {"extraTime", "interpreter"} ELSE {})
  \cup (IF BslIsAvailable(type) THEN {} ELSE {"bsl"})

IsOnlyStandardSupport(selected) ==
  selected \cap (NonStandardSupport \cup {"other"}) = {}

(* What the candidate is told about evidence for a selection of support. *)
EvidenceRoute(selected, needs) ==
  LET deaf == selected \cap {"bsl", "interpreter"} # {}
      required == \/ "reading" \in selected
                  \/ "extraTime" \in selected /\ ~deaf
  IN  IF needs THEN "returning"
      ELSE IF required THEN "required"
      ELSE IF "other" \in selected THEN "mayBeRequired"
      ELSE "notRequired"

-----------------------------------------------------------------------------
(* The session. *)

NoAnswers ==
  [type |-> None, language |-> FALSE, selected |-> None, bsl |-> FALSE,
   voiceover |-> FALSE, translator |-> FALSE, told |-> None,
   centre |-> None, slot |-> None]

Slot == [centre : Centres, type : Types]

Answers ==
  [type : Types \cup {None}, language : BOOLEAN,
   selected : (SUBSET SupportTypes) \cup {None}, bsl : BOOLEAN,
   voiceover : BOOLEAN, translator : BOOLEAN, told : Evidence \cup {None},
   centre : Centres \cup {None}, slot : Slot \cup {None}]

ASSUME NoneAssumption ==
  /\ None \notin CandidateTypes \cup InstructorTypes \cup Evidence
  /\ None \notin Centres /\ \A slot \in Slot : slot # None
  /\ \A selected \in SUBSET SupportTypes : selected # None

NoEdits == [centre |-> None, slot |-> None]

(* The fields of the journey, the candidate and the edited place and time. *)
SessionData ==
  [target : Targets, candidate : BOOLEAN, needs : BOOLEAN,
   support : BOOLEAN, standard : BOOLEAN, edit : BOOLEAN, confirming : BOOLEAN,
   lastPage : {"test-type", "leaving-nsa", "check-your-answers", "other"},
   received : BOOLEAN, shownStandard : BOOLEAN, shownVoiceover : BOOLEAN,
   edited : [centre : Centres \cup {None}, slot : Slot \cup {None}],
   answers : Answers]

Fresh(target) ==
  [target |-> target, candidate |-> FALSE, needs |-> FALSE,
   support |-> FALSE, standard |-> TRUE, edit |-> FALSE, confirming |-> FALSE,
   lastPage |-> "other", received |-> FALSE, shownStandard |-> FALSE,
   shownVoiceover |-> FALSE, edited |-> NoEdits, answers |-> NoAnswers]

(* A support request; unwarned: it was acknowledged, and the candidate had *)
(* not been shown the page about an earlier request.                       *)
Draft == [status : {"evidence", "csc"}, unwarned : BOOLEAN]
NoDrafts == [d \in Draft |-> 0]

(* store.reset gives the journey a new object, and leaves the last page and *)
(* the target alone.                                                        *)
ResetSession(s) == [Fresh(s.target) EXCEPT !.lastPage = s.lastPage]

IsStandard(s) == ~s.support /\ s.standard
IsSupportedStandard(s) == s.support /\ s.standard
IsNonStandard(s) == s.support /\ ~s.standard

(* The page the answers are checked on, and edited from. *)
CheckPage(s) == IF s.standard THEN "check-your-answers" ELSE "check-your-details"

-----------------------------------------------------------------------------
(* The navigator of the pages that depend on the support selected.  It is  *)
(* one object for all sessions: one without a selection finds the routes   *)
(* that whichever session asked last has left there.                       *)

DynamicPages == {"change-voiceover", "translator", "custom-support"}

(* Their order, and the kind of support each is about. *)
Position == [p \in DynamicPages |->
  CASE p = "change-voiceover" -> 1 [] p = "translator" -> 2 [] OTHER -> 3]
OptionOf == [p \in DynamicPages |->
  CASE p = "change-voiceover" -> "voiceover"
    [] p = "translator" -> "translator"
    [] OTHER -> "other"]

OwnPages(s) == {p \in DynamicPages : OptionOf[p] \in s.answers.selected}

(* Mutant of Routes: the routes are not worked out for the session that asks. *)
RoutesShared(s) == SUBSET DynamicPages

(* The routes a request may find in the navigator. *)
Routes(s) ==
  IF s.answers.selected = None THEN SUBSET DynamicPages ELSE {OwnPages(s)}

(* The first of the routes after p, or the first of all when p is not one. *)
NextPage(s, p, routes) ==
  LET later == {q \in routes : p \in routes => Position[q] > Position[p]}
      selected == s.answers.selected
  IN  IF later # {} THEN CHOOSE q \in later : \A x \in later : Position[q] <= Position[x]
      ELSE IF selected = None \/ IsOnlyStandardSupport(selected) THEN "leaving-nsa"
      ELSE "staying-nsa"

(* The last of the routes before p, or the last of all when p is not one. *)
PreviousPage(p, routes) ==
  LET earlier == {q \in routes : p \in routes => Position[q] < Position[p]}
  IN  IF earlier # {} THEN CHOOSE q \in earlier : \A x \in earlier : Position[x] <= Position[q]
      ELSE "select-support-type"

-----------------------------------------------------------------------------
(* Asking for a page: who may see it, what showing it changes, and whether *)
(* it sends the candidate on.                                              *)

StartPages == {"choose-support", "support-alert", "candidate-details"}
StandardPages ==
  {"find-test-centre", "select-test-centre", "select-date", "choose-appointment",
   "check-your-answers", "change-location-time", "bsl", "payment", "booking-exists"}
SupportPages ==
  {"select-support-type", "translator", "custom-support", "confirm-support",
   "leaving-nsa", "staying-nsa", "duplicate-support-request", "preferred-day",
   "preferred-location", "telephone-contact", "voicemail", "check-your-details"}
CommonPages ==
  {"test-type", "received-support-request", "test-language", "select-standard-support"}
EitherPages == {"email-contact", "change-voiceover"}   \* served on both sides
AnswerPages == {"slot-unavailable", "check-your-details-error"}  \* shown by a post
\* Pages that lead nowhere; "other-side" is a page of the other kind of journey.
LastPages ==
  {"timeout", "error", "no-options", "not-found", "booking-confirmation", "start", "other-side"}
Pages == StartPages \cup StandardPages \cup SupportPages \cup CommonPages
           \cup EitherPages \cup AnswerPages \cup LastPages

(* The guards of the routes: startAuth, standardAuth, supportAuth, commonAuth. *)
Permitted(s, p) ==
  /\ p \in StartPages => ~s.candidate \/ s.edit
  /\ p \in StandardPages => s.candidate /\ s.standard
  /\ p \in SupportPages => s.candidate /\ s.support
  /\ p \in CommonPages => s.candidate
  /\ p \in EitherPages => s.candidate /\ (s.standard \/ s.support)

(* The kinds of request there are for a test type. *)
Open(type) == {d \in Draft : drafts[type][d] > 0}

(* Mutants of HasDrafts: only a request the centre has to answer counts, or *)
(* only one that lacks its evidence.                                        *)
HasDraftsWaiting(s) == s.answers.type # None /\ \E d \in Open(s.answers.type) : d.status = "csc"
HasDraftsLacking(s) == s.answers.type # None /\ \E d \in Open(s.answers.type) : d.status = "evidence"

HasDrafts(s) == s.answers.type # None /\ Open(s.answers.type) # {}

(* Mutant of ApplyEdits: a centre is taken over before its time is chosen. *)
ApplyEditsAtOnce(s) ==
  LET e == s.edited
  IN  [s EXCEPT !.edit = TRUE, !.standard = TRUE, !.edited = NoEdits,
                !.answers.slot = IF e.slot # None THEN e.slot ELSE @,
                !.answers.centre = IF e.centre # None THEN e.centre ELSE @]

(* Showing the answers moves the place and time edited into the booking, *)
(* and forgets an edit that was not finished.                            *)
ApplyEdits(s) ==
  LET e == s.edited
  IN  [s EXCEPT !.edit = TRUE, !.standard = TRUE, !.edited = NoEdits,
                !.answers.slot = IF e.slot # None THEN e.slot ELSE @,
                !.answers.centre = IF e.slot # None /\ e.centre # None
                                   THEN e.centre ELSE @]

ShowStandardSupport(s) ==
  IF BslIsAvailable(s.answers.type)
  THEN <<[s EXCEPT !.shownStandard = TRUE], "select-standard-support">>
  ELSE <<s, "change-voiceover">>

(* What showing page p does to a session that may see it, and the page it *)
(* shows or redirects to.                                                 *)
Handle(s, p) ==
  LET a == s.answers IN
  CASE p \in {"leaving-nsa", "confirm-support"} -> <<[s EXCEPT !.standard = FALSE], p>>
    [] p = "check-your-details" ->
         <<[s EXCEPT !.edit = TRUE], IF a.type = None THEN "error" ELSE p>>
    [] p = "check-your-answers" ->
         <<ApplyEdits(s), IF a.language THEN p ELSE "error">>
    [] p = "received-support-request" ->
         <<[s EXCEPT !.received = @ \/ ~IsNonStandard(s)], p>>
    [] p = "select-standard-support" ->
         ShowStandardSupport([s EXCEPT !.shownVoiceover = FALSE])
    [] p = "test-language" /\ s.target = "ni" ->
         \* the path to the page of support types is relative: from the
         \* standard side it names a page that does not exist
         <<[s EXCEPT !.answers.language = TRUE],
           IF IsStandard(s) THEN "select-standard-support"
           ELSE IF IsNonStandard(s) THEN "select-support-type" ELSE "not-found">>
    [] p = "staying-nsa" ->
         IF HasDrafts(s)
         THEN <<[s EXCEPT !.lastPage = "other"], "duplicate-support-request">>
         ELSE IF a.selected = None THEN <<s, "no-options">>
         ELSE <<[s EXCEPT !.answers.told = EvidenceRoute(a.selected, s.needs)], p>>
    [] p = "choose-appointment" ->
         <<s, IF a.centre = None THEN "select-test-centre"
              ELSE IF a.type = None THEN "error" ELSE p>>
    [] p \in {"change-voiceover", "select-date"} ->
         <<s, IF a.type = None THEN "error" ELSE p>>
    [] p = "custom-support" -> <<s, IF a.selected = None THEN "error" ELSE p>>
    [] OTHER -> <<s, p>>

(* One request for page p. *)
Get(s, p) ==
  IF ~Permitted(s, p) THEN <<ResetSession(s), "timeout">>
  ELSE IF p = "candidate-details" /\ s.answers.type # None
  THEN <<ResetSession(s), "choose-support">>
  ELSE Handle(s, p)

(* A request and its redirects, of which there are at most two. *)
Arrive(s, p) ==
  LET first == Get(s, p)
      second == Get(first[1], first[2])
  IN  IF first[2] = p THEN first
      ELSE IF second[2] = first[2] THEN second ELSE Get(second[1], second[2])

-----------------------------------------------------------------------------
(* The links of a page, as they are when it is shown. *)

(* While an answer is edited the links lead to the page it is edited from. *)
EditedFromCheckPage ==
  {"choose-support", "email-contact", "test-type", "change-voiceover", "find-test-centre",
   "select-date", "select-support-type", "translator", "custom-support",
   "preferred-day", "preferred-location", "telephone-contact", "voicemail"}

BeforeSupport(s) == IF s.received THEN "received-support-request" ELSE "test-type"

BackFromVoiceover(s, routes) ==
  IF IsNonStandard(s) THEN PreviousPage("change-voiceover", routes)
  ELSE IF s.shownStandard THEN "select-standard-support"
  ELSE IF s.target = "gb" THEN "test-language" ELSE BeforeSupport(s)

(* Mutant of SkipCustomSupport: whoever named more than other support leaves. *)
SkipToLeaving(selected) ==
  IF selected = {"other"} THEN "confirm-support" ELSE "leaving-nsa"

SkipCustomSupport(selected) ==
  IF selected = {"other"} THEN "confirm-support"
  ELSE IF selected \cap NonStandardSupport = {} THEN "leaving-nsa" ELSE "staying-nsa"

BackFromNsa(s, p, routes) ==
  IF s.confirming THEN "confirm-support" ELSE PreviousPage(p, routes)

(* The answers are changed one page at a time from the check page. *)
ChangeLinks(s) ==
  LET a == s.answers IN
  {"email-contact", "test-type", "choose-support"}
    \cup (IF s.target = "gb" THEN {"test-language"} ELSE {})
    \cup (IF s.standard
          THEN {"choose-appointment", "change-location-time"}
                 \cup (IF BslIsAvailable(a.type) /\ (a.bsl \/ ~a.voiceover)
                       THEN {"bsl"} ELSE {})
                 \cup (IF a.voiceover \/ ~a.bsl THEN {"change-voiceover"} ELSE {})
          ELSE {"telephone-contact", "voicemail", "select-support-type",
                "preferred-day", "preferred-location"}
                 \cup (IF a.selected = None THEN {} ELSE
                       OwnPages(s) \ (IF s.target = "ni" /\ a.type = "lgvHpt"
                                      THEN {"change-voiceover"} ELSE {})))

ForwardLinks(s, p, routes) ==
  CASE p = "support-alert" -> {"choose-support", "candidate-details"}
    [] p = "candidate-details" -> {"choose-support"}
    [] p = "email-contact" ->
         IF IsNonStandard(s) THEN {"preferred-location"}
         ELSE IF IsSupportedStandard(s) THEN {"leaving-nsa"} ELSE {}
    [] p = "test-type" -> IF IsNonStandard(s) THEN {} ELSE {"email-contact"}
    [] p = "received-support-request" ->
         {IF IsSupportedStandard(s) THEN "leaving-nsa" ELSE "test-type",
          IF s.lastPage = "test-type" THEN "test-language" ELSE "email-contact"}
    [] p = "test-language" -> {IF s.edit THEN CheckPage(s) ELSE BeforeSupport(s)}
    [] p = "select-standard-support" ->
         {IF s.target = "gb" THEN "test-language" ELSE BeforeSupport(s)}
    [] p = "change-voiceover" ->
         {BackFromVoiceover(s, routes)}
           \cup (IF IsNonStandard(s) /\ s.target = "ni" THEN {"select-support-type"} ELSE {})
    [] p = "find-test-centre" ->
         IF IsSupportedStandard(s) THEN {"email-contact"}
         ELSE IF s.shownVoiceover THEN {"change-voiceover"}
         ELSE IF s.shownStandard THEN {"select-standard-support"} ELSE {}
    [] p = "select-test-centre" ->
         {"find-test-centre"} \cup (IF s.edit THEN {"check-your-answers"} ELSE {})
    [] p = "select-date" -> {"select-test-centre"}
    [] p = "choose-appointment" ->
         {"select-date", "find-test-centre"}
           \cup (IF s.edit THEN {"check-your-answers"} ELSE {})
    [] p \in {"check-your-answers", "check-your-details"} -> ChangeLinks(s)
    [] p \in {"change-location-time", "bsl"} -> {"check-your-answers"}
    [] p = "slot-unavailable" -> {"select-date"}
    [] p = "booking-exists" -> {s.lastPage} \cap Pages
    [] p = "select-support-type" ->
         {IF s.confirming THEN "confirm-support"
          ELSE IF s.target = "ni" THEN "test-type" ELSE "test-language"}
    [] p = "translator" -> {PreviousPage(p, routes)}
    [] p = "custom-support" ->
         {PreviousPage(p, routes), SkipCustomSupport(s.answers.selected)}
    [] p = "confirm-support" -> {"select-support-type"}
    [] p = "leaving-nsa" -> {BackFromNsa(s, p, routes)}
    [] p = "staying-nsa" -> {BackFromNsa(s, p, routes), "preferred-day"}
    [] p = "duplicate-support-request" ->
         {IF s.lastPage = "leaving-nsa" THEN "leaving-nsa" ELSE PreviousPage(p, routes)}
    [] p = "preferred-day" -> {"staying-nsa"}
    [] p = "preferred-location" -> {"preferred-day"}
    [] p = "telephone-contact" -> {"email-contact"}
    [] p = "voicemail" -> {"telephone-contact"}
    [] p = "check-your-details-error" -> {"check-your-details"}
    [] OTHER -> {}

Links(s, p, routes) ==
  IF s.edit /\ p \in EditedFromCheckPage
  THEN {IF p \in SupportPages THEN "check-your-details"
        ELSE IF p \in StandardPages THEN "check-your-answers" ELSE CheckPage(s)}
  ELSE ForwardLinks(s, p, routes)

-----------------------------------------------------------------------------
(* Steps. *)

ShowPage(s, p) ==
  /\ session' = s
  /\ page' = p /\ UNCHANGED person
  /\ \E routes \in Routes(s) : links' = Links(s, p, routes)

Goto(s, p) == LET shown == Arrive(s, p) IN ShowPage(shown[1], shown[2])

(* An answer on page p: it leaves the session s and redirects to next. *)
Answer(p, s, next) ==
  page = p /\ Goto(s, next) /\ UNCHANGED <<drafts, confirmed, submitted>>

Init ==
  /\ person \in People
  /\ session \in {Fresh(target) : target \in Targets}
  /\ page = "choose-support" /\ links = {}
  /\ drafts = [t \in Types |-> NoDrafts]
  /\ confirmed = {} /\ submitted = None

Follow ==
  \E p \in links : Goto(session, p) /\ UNCHANGED <<drafts, confirmed, submitted>>

(* Of a controller that the routes of both sides use, the replies are a set: *)
(* the session it may leave with the page it may redirect to.                *)
AnswerOneOf(p, replies) == page = p /\ \E r \in replies : Answer(p, r[1], r[2])

(* resetBooking: the answers are gone, the edits of place and time stay. *)
ResetBooking(s) == [s EXCEPT !.answers = NoAnswers]

ChooseSupport ==
  \E wanted \in BOOLEAN :
    IF session.edit
    THEN Answer("choose-support",
                ResetBooking([session EXCEPT !.support = wanted, !.standard = ~wanted,
                                             !.edit = FALSE]),
                IF wanted THEN "test-type" ELSE "email-contact")
    ELSE Answer("choose-support",
                [session EXCEPT !.support = FALSE, !.standard = TRUE],
                IF wanted THEN "support-alert" ELSE "candidate-details")

SupportAlertReplies ==
  {<<[session EXCEPT !.support = TRUE, !.standard = FALSE, !.edit = FALSE],
     "candidate-details">>}
SupportAlert == AnswerOneOf("support-alert", SupportAlertReplies)

CandidateDetails ==
  \E needs \in BOOLEAN :
    Answer("candidate-details",
           [session EXCEPT !.candidate = TRUE, !.needs = needs,
                           !.answers.bsl = FALSE, !.answers.voiceover = FALSE],
           IF session.support THEN "test-type" ELSE "email-contact")

EmailContactReplies ==
  {<<session, IF session.edit THEN CheckPage(session)
              ELSE IF IsStandard(session) THEN "test-type"
              ELSE IF IsSupportedStandard(session) THEN "find-test-centre"
              ELSE "telephone-contact">>}
EmailContact == AnswerOneOf("email-contact", EmailContactReplies)

(* Mutant of ChooseType: the edit goes on after the answers are gone. *)
ChooseTypeStillEditing(s, type) ==
  [(IF s.edit THEN ResetBooking(s) ELSE s) EXCEPT
     !.received = FALSE, !.shownStandard = FALSE, !.shownVoiceover = FALSE,
     !.answers.type = type]

(* The answers are kept when the type is chosen anew outside an edit. *)
ChooseType(s, type) ==
  [(IF s.edit THEN ResetBooking(s) ELSE s) EXCEPT
     !.edit = FALSE, !.received = FALSE, !.shownStandard = FALSE,
     !.shownVoiceover = FALSE, !.answers.type = type]

TestTypeReplies ==
  {LET s == ChooseType(session, type) IN
   IF ~IsNonStandard(s) /\ HasDrafts(s)
   THEN <<[s EXCEPT !.lastPage = "test-type"], "received-support-request">>
   ELSE <<s, "test-language">> : type \in person.types}
TestType == AnswerOneOf("test-type", TestTypeReplies)

CanChangeTestLanguage(s) == s.target = "gb" /\ s.answers.type # "ers"

TestLanguageReplies ==
  IF CanChangeTestLanguage(session)
  THEN {<<[session EXCEPT !.answers.language = TRUE],
          IF session.edit THEN CheckPage(session)
          ELSE IF IsNonStandard(session) THEN "select-support-type"
          ELSE "select-standard-support">>}
  ELSE {<<session, "error">>}
TestLanguage == AnswerOneOf("test-language", TestLanguageReplies)

SelectStandardSupport ==
  \/ Answer("select-standard-support",
            [session EXCEPT !.answers.bsl = TRUE, !.answers.voiceover = FALSE,
                            !.lastPage = "other"],
            "find-test-centre")
  \/ Answer("select-standard-support", [session EXCEPT !.answers.bsl = FALSE],
            "change-voiceover")
  \/ Answer("select-standard-support",
            [session EXCEPT !.answers.bsl = FALSE, !.answers.voiceover = FALSE,
                            !.edit = FALSE, !.lastPage = "other"],
            "find-test-centre")

(* Without support on the standard side the voiceover may be declined. *)
ChangeVoiceover ==
  \E wanted \in IF IsNonStandard(session) THEN {TRUE} ELSE BOOLEAN,
     routes \in Routes(session) :
    LET s == [session EXCEPT !.shownVoiceover = TRUE, !.answers.voiceover = wanted] IN
    IF s.edit
    THEN Answer("change-voiceover", s,
                IF IsNonStandard(s) THEN "check-your-details" ELSE "check-your-answers")
    ELSE IF IsNonStandard(s)
    THEN Answer("change-voiceover", s, NextPage(s, "change-voiceover", routes))
    ELSE Answer("change-voiceover", [s EXCEPT !.lastPage = "other"], "find-test-centre")

-----------------------------------------------------------------------------
(* The pages of the support. *)

(* Mutants of SelectSupport: the edit goes on, a voiceover is not forgotten. *)
SelectSupportStillEditing(s, selected) ==
  [s EXCEPT !.answers.selected = selected,
            !.answers.bsl = "bsl" \in selected,
            !.answers.voiceover = @ /\ "voiceover" \in selected,
            !.answers.translator = @ /\ "translator" \in selected /\ "bsl" \notin selected,
            !.confirming = FALSE]
SelectSupportKeepingVoiceover(s, selected) ==
  [s EXCEPT !.answers.selected = selected,
            !.answers.bsl = "bsl" \in selected,
            !.answers.translator = @ /\ "translator" \in selected /\ "bsl" \notin selected,
            !.confirming = FALSE, !.edit = FALSE]

(* Detail given for support that is no longer selected is forgotten. *)
SelectSupport(s, selected) ==
  [s EXCEPT !.answers.selected = selected,
            !.answers.bsl = "bsl" \in selected,
            !.answers.voiceover = @ /\ "voiceover" \in selected,
            !.answers.translator = @ /\ "translator" \in selected /\ "bsl" \notin selected,
            !.confirming = FALSE, !.edit = FALSE]

SelectSupportTypeReplies ==
  LET valid == {selected \in (SUBSET person.support) \ {{}} :
                  /\ ~({"bsl", "voiceover"} \subseteq selected)
                  /\ selected \cap InvalidOptions(session.answers.type, session.target) = {}}
  IN  {LET s == SelectSupport(session, selected)
       IN  <<s, NextPage(s, "select-support-type", OwnPages(s))>> : selected \in valid}
SelectSupportType == AnswerOneOf("select-support-type", SelectSupportTypeReplies)

(* A blank answer to a candidate without non-standard support leaves the *)
(* page as the link that skips it does.                                  *)
CustomSupport ==
  LET selected == session.answers.selected IN
  /\ page = "custom-support"
  /\ \E blank \in BOOLEAN :
       IF blank /\ selected \cap NonStandardSupport = {}
       THEN Answer("custom-support", [session EXCEPT !.edit = FALSE],
                   SkipCustomSupport(selected))
       ELSE Answer("custom-support", session,
                   IF session.edit THEN "check-your-details"
                   ELSE NextPage(session, "custom-support", OwnPages(session)))

Translator ==
  \E routes \in Routes(session) :
    Answer("translator", [session EXCEPT !.answers.translator = TRUE],
           IF session.edit THEN "check-your-details"
           ELSE NextPage(session, "translator", routes))

ConfirmSupport ==
  LET s == [session EXCEPT !.confirming = TRUE] IN
  \/ Answer("confirm-support", [s EXCEPT !.answers.selected = None], "select-support-type")
  \/ Answer("confirm-support", s, "leaving-nsa")
  \/ Answer("confirm-support", s, "staying-nsa")

LeavingNsaReplies ==
  {<<[session EXCEPT !.standard = standard, !.lastPage = "leaving-nsa"],
     IF standard
     THEN IF HasDrafts(session) THEN "received-support-request" ELSE "email-contact"
     ELSE IF HasDrafts(session) THEN "duplicate-support-request" ELSE "staying-nsa">> :
   standard \in BOOLEAN}
LeavingNsa == AnswerOneOf("leaving-nsa", LeavingNsaReplies)

PreferredDay ==
  Answer("preferred-day", session,
         IF session.edit THEN "check-your-details" ELSE "preferred-location")

PreferredLocation ==
  Answer("preferred-location", session,
         IF session.edit THEN "check-your-details" ELSE "email-contact")

TelephoneContact ==
  \/ Answer("telephone-contact", [session EXCEPT !.edit = FALSE], "voicemail")
  \/ Answer("telephone-contact", session, "check-your-details")

Voicemail == Answer("voicemail", session, "check-your-details")

-----------------------------------------------------------------------------
(* The place and the time. *)

FindTestCentre == Answer("find-test-centre", session, "select-test-centre")

SelectTestCentre ==
  \E c \in Centres :
    Answer("select-test-centre",
           IF session.edit THEN [session EXCEPT !.edited.centre = c]
           ELSE [session EXCEPT !.answers.centre = c],
           "select-date")

SelectDate == Answer("select-date", session, "choose-appointment")

(* Mutant of OfferedSlot: an edit is taken to be one of the centre. *)
OfferedSlotOfEdit(s) ==
  [centre |-> IF s.edit THEN s.edited.centre ELSE s.answers.centre,
   type |-> s.answers.type]

(* The slots offered are those of the centre edited, if there is one. *)
OfferedSlot(s) ==
  [centre |-> IF s.edit /\ s.edited.centre # None THEN s.edited.centre ELSE s.answers.centre,
   type |-> s.answers.type]

ChooseAppointmentReplies ==
  {<<IF session.edit THEN [session EXCEPT !.edited.slot = OfferedSlot(session)]
     ELSE [session EXCEPT !.answers.slot = OfferedSlot(session)],
     "check-your-answers">>}
ChooseAppointment == AnswerOneOf("choose-appointment", ChooseAppointmentReplies)

ChangeLocationTime ==
  \E next \in {"choose-appointment", "select-date", "find-test-centre"} :
    Answer("change-location-time", [session EXCEPT !.edit = TRUE], next)

BritishSignLanguage ==
  \E wanted \in BOOLEAN :
    Answer("bsl", [session EXCEPT !.answers.bsl = wanted], "check-your-answers")

-----------------------------------------------------------------------------
(* The answers go to the CRM. *)

(* The slot is reserved and the booking made; its races are another module's. *)
CheckYourAnswers ==
  LET a == session.answers
      s == [session EXCEPT !.edit = FALSE]
  IN  /\ page = "check-your-answers"
      /\ UNCHANGED <<drafts, confirmed>>
      /\ \/ /\ a.bsl /\ a.voiceover
            /\ ShowPage(ApplyEdits(session), page)
            /\ UNCHANGED submitted
         \/ /\ ~(a.bsl /\ a.voiceover) /\ a.type \in confirmed
            /\ Goto([s EXCEPT !.lastPage = "check-your-answers"], "booking-exists")
            /\ UNCHANGED submitted
         \/ /\ ~(a.bsl /\ a.voiceover) /\ a.type \notin confirmed
            /\ "taken" \in person.faults
            /\ ShowPage(s, "slot-unavailable")
            /\ UNCHANGED submitted
         \/ /\ ~(a.bsl /\ a.voiceover) /\ a.type \notin confirmed
            /\ Goto(s, "payment")
            /\ submitted' = a

(* The bound on what one person makes. *)
MayMakeOneMore ==
  LET OpenFor(t) == MapThenSumSet(LAMBDA d : drafts[t][d], Draft)
  IN  Cardinality(confirmed) + MapThenSumSet(OpenFor, Types) < person.most

(* The details of a request as the query for drafts returns them. *)
FoundDraft(d) == [nsaStatus |-> d.status]

(* updateNSABookings closes the requests whose crmNsaStatus still waits. *)
IsClosed(found) ==
  IF "crmNsaStatus" \in DOMAIN found THEN found.crmNsaStatus = "csc" ELSE FALSE

Payment ==
  LET type == session.answers.type IN
  /\ page = "payment"
  /\ submitted' = None
  /\ \/ /\ MayMakeOneMore
        /\ confirmed' = confirmed \cup {type}
        /\ drafts' = [drafts EXCEPT ![type] =
                        [d \in Draft |-> IF IsClosed(FoundDraft(d)) THEN 0 ELSE @[d]]]
        /\ ShowPage(ResetSession(session), "booking-confirmation")
     \/ /\ "unpaid" \in person.faults
        /\ UNCHANGED <<confirmed, drafts>>
        /\ ShowPage(ResetSession(session), "start")

(* setNsaStatus: the evidence is worked out again from the answers. *)
NsaStatus(s) ==
  IF EvidenceRoute(s.answers.selected, s.needs) = "required" THEN "evidence" ELSE "csc"

(* Some failures may be tried again, others end in the general error. *)
FailurePages == {"check-your-details-error", "error"}

(* A CRM that does not answer may have made the request all the same. *)
CheckYourDetails ==
  LET a == session.answers
      s == [session EXCEPT !.edit = FALSE]
      Made(answered) ==
        /\ MayMakeOneMore
        /\ LET made == [status |-> NsaStatus(s), unwarned |-> answered /\ ~s.received]
           IN  drafts' = [drafts EXCEPT ![a.type][made] = @ + 1]
  IN  /\ page = "check-your-details"
      /\ UNCHANGED confirmed
      /\ IF a.selected = None \/ a.told = None
         THEN ShowPage(s, "error") /\ UNCHANGED <<drafts, submitted>>
         ELSE \/ /\ Made(TRUE)
                 /\ submitted' = a
                 /\ ShowPage(ResetSession(s), "booking-confirmation")
              \/ /\ "lost" \in person.faults /\ Made(FALSE)
                 /\ UNCHANGED submitted
                 /\ \E shown \in FailurePages : ShowPage(s, shown)
              \/ /\ "create" \in person.faults
                 /\ UNCHANGED <<drafts, submitted>>
                 /\ \E shown \in FailurePages : ShowPage(s, shown)

-----------------------------------------------------------------------------
(* The customer service centre answers a request, in the CRM. *)
Resolve ==
  /\ \E t \in Types : \E d \in Open(t) : drafts' = [drafts EXCEPT ![t][d] = @ - 1]
  /\ UNCHANGED <<person, session, page, links, confirmed, submitted>>

(* Where a page leads nowhere the candidate opens the service again. *)
StartAgain ==
  /\ page \in LastPages
  /\ Goto(ResetSession(session), "choose-support")
  /\ submitted' = None
  /\ UNCHANGED <<drafts, confirmed>>

Next ==
  \/ Follow \/ StartAgain \/ Resolve
  \/ ChooseSupport \/ SupportAlert \/ CandidateDetails \/ EmailContact \/ TestType
  \/ TestLanguage \/ SelectStandardSupport \/ ChangeVoiceover
  \/ SelectSupportType \/ CustomSupport \/ Translator \/ ConfirmSupport \/ LeavingNsa
  \/ PreferredDay \/ PreferredLocation \/ TelephoneContact \/ Voicemail
  \/ FindTestCentre \/ SelectTestCentre \/ SelectDate \/ ChooseAppointment
  \/ ChangeLocationTime \/ BritishSignLanguage
  \/ CheckYourAnswers \/ Payment \/ CheckYourDetails

Spec == Init /\ [][Next]_vars

-----------------------------------------------------------------------------
(* Properties. *)

(* Every variable keeps its type. *)
TypeOK ==
  /\ person \in People /\ session \in SessionData
  /\ page \in Pages /\ links \subseteq Pages
  /\ drafts \in [Types -> [Draft -> Nat]]
  /\ confirmed \subseteq Types
  /\ submitted \in Answers \cup {None}

(* However the candidate wandered, the pages that check and send the answers *)
(* have every answer the booking, or the support request, is made from.  Two *)
(* things the code lets go missing are left out: the language of a request,  *)
(* and what a candidate leaves out who was shown the page about an earlier   *)
(* request, whose links lead past the pages of the support.  A voiceover may *)
(* have been declined on the standard side, but was asked for.               *)
AnswersComplete ==
  LET a == session.answers
  IN  /\ page \in {"check-your-answers", "payment"} =>
           a.type # None /\ a.language /\ a.centre # None /\ a.slot # None
      /\ page = "check-your-details" /\ ~session.received =>
           /\ IsNonStandard(session)
           /\ a.type # None /\ a.selected # None /\ a.told # None
           /\ "voiceover" \in a.selected => session.shownVoiceover
           /\ "translator" \in a.selected => a.translator

(* The time the candidate confirms was offered for the test and at the centre *)
(* the answers name, after any edit of either, finished or given up.          *)
OfferedTogether ==
  page \in {"check-your-answers", "payment"} =>
    session.answers.slot = [centre |-> session.answers.centre, type |-> session.answers.type]

(* No booking and no request goes to the CRM with both sign language and a *)
(* voiceover, of which a test can have only one.                           *)
BslOrVoiceover == submitted # None => ~(submitted.bsl /\ submitted.voiceover)

(* A candidate who named support a standard test cannot give is never led to *)
(* book one: the way back to the standard pages is for the others.           *)
NonStandardStaysSupported ==
  (page \in StandardPages /\ session.support /\ session.answers.selected # None)
    => session.answers.selected \cap NonStandardSupport = {}

(* The pages of detail a candidate meets, and the pages they lead to, are    *)
(* those of the candidate's own selection, although all sessions share the   *)
(* object that works them out.                                               *)
WalkIsOwn ==
  (IsNonStandard(session) /\ session.answers.selected # None) =>
    ({page} \cup links) \cap DynamicPages \subseteq OwnPages(session)

(* Of a candidate's requests for one test the service makes and acknowledges *)
(* only one while it is open, whatever pages were shown before; but from the *)
(* page about an earlier request the candidate may go back to the pages of   *)
(* the support and make another one, which is left out.                      *)
NoDuplicateRequest ==
  LET Unwarned(t, status) == drafts[t][[status |-> status, unwarned |-> TRUE]]
  IN  \A t \in Types : Unwarned(t, "evidence") + Unwarned(t, "csc") <= 1

(* A request about to be made will wait for medical evidence exactly if the   *)
(* candidate was told, on the last page about it, that evidence is required   *)
(* (with the same exception as in AnswersComplete).                           *)
EvidenceAsTold ==
  (page = "check-your-details" /\ ~session.received) =>
    (NsaStatus(session) = "evidence" <=> session.answers.told = "required")

(* A candidate warned that the open request will be cancelled has it closed   *)
(* when the new test is booked.                                               *)
DraftsAreClosed ==
  [][\A t \in confirmed' \ confirmed :
       \A d \in Draft : drafts'[t][d] > 0 => d.status # "csc"]_vars

=============================================================================
