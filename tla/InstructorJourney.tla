-------------------------- MODULE InstructorJourney --------------------------
(***************************************************************************)
(* The other kind of journey: someone who teaches driving books a test of  *)
(* theirs on the instructors' pages.  The session, the navigator and about *)
(* half of the controllers are the candidate's; the rest are controllers   *)
(* of their own, and differ in what follows from a test type that may have *)
(* no choice of language, no voiceover, and nothing to pay.                *)
(*                                                                         *)
(* On the northern site an instructor is not asked about support.  The     *)
(* page of sign language is served and never linked: no instructor's test  *)
(* is given in sign language.                                              *)
(***************************************************************************)
EXTENDS CandidateJourney

ASSUME InstructorsAssumption == \A p \in People : p.types \subseteq InstructorTypes

(* The languages of the voiceovers a test is given with. *)
AvailableOptions(target, type) ==
  IF type = "ers" THEN {"english"}
  ELSE IF target = "gb" THEN {"english", "welsh"}
  ELSE IF type = "adip1dva" THEN {} ELSE {"english"}

IsZeroCostTest(type) == type = "adip1dva"

(* A voiceover may be declined except where the support asked for includes it. *)
MayDecline(s) == s.edit \/ s.received \/ ~IsNonStandard(s)

-----------------------------------------------------------------------------
(* Asking for a page.  Whoever is a candidate in the session has seen the  *)
(* page that makes the journey an instructor's, so that the guard of the   *)
(* standard pages, instructorStandardAuth, is the candidate's.             *)

ShowChooseSupport(s) ==
  <<s, IF s.target = "ni" THEN "candidate-details" ELSE "choose-support">>

ShowCandidateDetails(s) ==
  IF s.answers.type = None THEN <<s, "candidate-details">>
  ELSE <<ResetSession(s), "choose-support">>

(* Mutant of ShowTestLanguage: the page that is skipped sets no language. *)
ShowTestLanguageUnset(s) ==
  IF CanChangeTestLanguage(s) \/ s.received THEN <<s, "test-language">>
  ELSE <<s, IF IsStandard(s) THEN "select-standard-support"
            ELSE IF IsNonStandard(s) THEN "select-support-type" ELSE "not-found">>

(* A test without a choice of language is taken in English, and the page is  *)
(* skipped; but not after the page about an earlier request.                 *)
ShowTestLanguage(s) ==
  IF CanChangeTestLanguage(s) \/ s.received THEN <<s, "test-language">>
  ELSE <<[s EXCEPT !.answers.language = TRUE],
         IF IsStandard(s) THEN "select-standard-support"
         ELSE IF IsNonStandard(s) THEN "select-support-type" ELSE "not-found">>

ShowVoiceover(s) ==
  LET type == s.answers.type
  IN  <<s, IF type = None THEN "error"
           ELSE IF AvailableOptions(s.target, type) = {} /\ ~IsNonStandard(s)
           THEN "find-test-centre" ELSE "change-voiceover">>

InstructorHandle(s, p) ==
  CASE p = "choose-support" -> ShowChooseSupport(s)
    [] p = "candidate-details" -> ShowCandidateDetails(s)
    [] p = "test-language" -> ShowTestLanguage(s)
    [] p = "change-voiceover" -> ShowVoiceover(s)
    [] OTHER -> Handle(s, p)

InstructorGet(s, p) ==
  IF Permitted(s, p) THEN InstructorHandle(s, p) ELSE <<ResetSession(s), "timeout">>

(* A request and its redirects, of which there are at most three. *)
InstructorArrive(s, p) ==
  LET first == InstructorGet(s, p)
      second == InstructorGet(first[1], first[2])
      third == InstructorGet(second[1], second[2])
  IN  IF first[2] = p THEN first
      ELSE IF second[2] = first[2] THEN second
      ELSE IF third[2] = second[2] THEN third ELSE InstructorGet(third[1], third[2])

-----------------------------------------------------------------------------
(* The links of a page. *)

InstructorBackFromVoiceover(s, routes) ==
  IF IsNonStandard(s) THEN PreviousPage("change-voiceover", routes)
  ELSE IF s.shownStandard THEN "select-standard-support"
  ELSE IF s.target = "ni" THEN BeforeSupport(s)
  ELSE IF s.answers.type = "ers" THEN "test-type" ELSE "test-language"

BackFromFindTestCentre(s) ==
  IF IsSupportedStandard(s) THEN "email-contact"
  ELSE IF s.target = "ni" THEN BeforeSupport(s)
  ELSE IF s.shownVoiceover THEN "change-voiceover"
  ELSE IF s.shownStandard THEN "select-standard-support" ELSE "test-type"

LanguageLink(s) == IF CanChangeTestLanguage(s) THEN {"test-language"} ELSE {}

AnswersLinks(s) ==
  {"choose-appointment", "email-contact", "change-location-time"} \cup LanguageLink(s)
    \cup (IF s.target = "gb" THEN {"choose-support", "change-voiceover"} ELSE {})

DetailsPages ==
  {"telephone-contact", "voicemail", "email-contact", "choose-support",
   "select-support-type", "preferred-day", "preferred-location"}

(* Mutant of DetailsLinks: the details of any support may be changed. *)
DetailsLinksOfAny(s) == DetailsPages \cup LanguageLink(s) \cup DynamicPages

(* The details of the support selected may be changed; a voiceover of which *)
(* there is only one is not changed.                                        *)
DetailsLinks(s) ==
  LET own == IF s.answers.selected = None THEN {} ELSE OwnPages(s)
      fixed == IF Cardinality(AvailableOptions(s.target, s.answers.type)) > 1
               THEN {} ELSE {"change-voiceover"}
  IN  DetailsPages \cup LanguageLink(s) \cup (own \ fixed)

(* The page about an earlier request leads a supported candidate back to the *)
(* page /nsa/leaving-nsa, which is the other side's.                         *)
BackFromReceived(s) == IF IsSupportedStandard(s) THEN "other-side" ELSE "test-type"

InstructorForwardLinks(s, p, routes) ==
  CASE p = "candidate-details" -> IF s.target = "ni" THEN {} ELSE {"choose-support"}
    [] p = "received-support-request" ->
         {BackFromReceived(s)} \cup (ForwardLinks(s, p, routes) \ {"leaving-nsa", "test-type"})
    [] p = "change-voiceover" -> {InstructorBackFromVoiceover(s, routes)}
    [] p = "find-test-centre" -> {BackFromFindTestCentre(s)}
    [] p = "select-support-type" /\ s.answers.type = "ers" ->
         {IF s.confirming THEN "confirm-support" ELSE "test-type"}
    [] p = "check-your-answers" -> AnswersLinks(s)
    [] p = "check-your-details" -> DetailsLinks(s)
    [] OTHER -> ForwardLinks(s, p, routes)

InstructorLinks(s, p, routes) ==
  IF s.edit /\ p \in EditedFromCheckPage
  THEN Links(s, p, routes) ELSE InstructorForwardLinks(s, p, routes)

-----------------------------------------------------------------------------
(* Steps. *)

InstructorShowPage(s, p) ==
  /\ session' = s
  /\ page' = p /\ UNCHANGED person
  /\ \E routes \in Routes(s) : links' = InstructorLinks(s, p, routes)

InstructorGoto(s, p) ==
  LET shown == InstructorArrive(s, p) IN InstructorShowPage(shown[1], shown[2])

InstructorAnswer(p, s, next) ==
  page = p /\ InstructorGoto(s, next) /\ UNCHANGED <<drafts, confirmed, submitted>>

InstructorAnswerOneOf(p, replies) ==
  page = p /\ \E r \in replies : InstructorAnswer(p, r[1], r[2])

(* Requests made by telephone, or in an earlier session, may be open. *)
InstructorInit ==
  /\ person \in People
  /\ \E target \in Targets :
       /\ session = Fresh(target)
       /\ page = IF target = "ni" THEN "candidate-details" ELSE "choose-support"
  /\ links = {}
  /\ \E open \in SUBSET person.types :
       /\ Cardinality(open) < person.most
       /\ LET one == [NoDrafts EXCEPT ![[status |-> "csc", unwarned |-> FALSE]] = 1]
          IN  drafts = [t \in Types |-> IF t \in open THEN one ELSE NoDrafts]
  /\ confirmed = {} /\ submitted = None

InstructorFollow ==
  \E p \in links : InstructorGoto(session, p) /\ UNCHANGED <<drafts, confirmed, submitted>>

InstructorStartAgain ==
  /\ page \in LastPages
  /\ InstructorGoto(ResetSession(session), "choose-support")
  /\ submitted' = None
  /\ UNCHANGED <<drafts, confirmed>>

(* Mutant of InstructorChooseSupport: the answers and the edit are kept. *)
InstructorChooseSupportKept ==
  \E wanted \in BOOLEAN :
    IF session.edit
    THEN InstructorAnswer("choose-support",
           [session EXCEPT !.support = wanted, !.standard = ~wanted],
           IF wanted THEN "test-type" ELSE "email-contact")
    ELSE InstructorAnswer("choose-support",
           [session EXCEPT !.support = FALSE, !.standard = TRUE],
           IF wanted THEN "support-alert" ELSE "candidate-details")

InstructorChooseSupport ==
  \E wanted \in BOOLEAN :
    IF session.edit
    THEN InstructorAnswer("choose-support",
           ResetBooking([session EXCEPT !.support = wanted, !.standard = ~wanted,
                                        !.edit = FALSE]),
           IF wanted THEN "test-type" ELSE "email-contact")
    ELSE InstructorAnswer("choose-support",
           [session EXCEPT !.support = FALSE, !.standard = TRUE],
           IF wanted THEN "support-alert" ELSE "candidate-details")

InstructorCandidateDetails ==
  \E needs \in BOOLEAN :
    InstructorAnswer("candidate-details",
      [session EXCEPT !.candidate = TRUE, !.needs = needs,
                      !.answers.bsl = FALSE, !.answers.voiceover = FALSE],
      IF session.support THEN "test-type" ELSE "email-contact")

(* The redirect to the centres is relative: from the pages of the support it *)
(* names a page that does not exist.                                         *)
InstructorVoiceover ==
  \E routes \in Routes(session), wanted \in BOOLEAN :
    LET s == [session EXCEPT !.shownVoiceover = TRUE, !.answers.voiceover = wanted] IN
    /\ page = "change-voiceover"
    /\ wanted => AvailableOptions(s.target, s.answers.type) # {}
    /\ ~wanted => MayDecline(s)
    /\ InstructorAnswer("change-voiceover", s,
         IF s.edit
         THEN IF IsNonStandard(s) THEN "check-your-details" ELSE "check-your-answers"
         ELSE IF ~IsNonStandard(s) THEN "find-test-centre"
         ELSE IF s.received THEN "not-found" ELSE NextPage(s, "change-voiceover", routes))

-----------------------------------------------------------------------------
(* The pages of the support. *)

(* Mutant of InstructorCustomSupport: with no detail all leave the support. *)
InstructorCustomSupportLeaving ==
  LET selected == session.answers.selected IN
  /\ page = "custom-support"
  /\ \E blank \in BOOLEAN :
       IF blank
       THEN InstructorAnswer("custom-support", [session EXCEPT !.edit = FALSE], "leaving-nsa")
       ELSE InstructorAnswer("custom-support", session,
              IF session.edit THEN "check-your-details"
              ELSE NextPage(session, "custom-support", OwnPages(session)))

InstructorCustomSupport ==
  LET selected == session.answers.selected IN
  /\ page = "custom-support"
  /\ \E blank \in BOOLEAN :
       IF blank /\ selected \cap NonStandardSupport = {}
       THEN InstructorAnswer("custom-support", [session EXCEPT !.edit = FALSE],
                             SkipCustomSupport(selected))
       ELSE InstructorAnswer("custom-support", session,
              IF session.edit THEN "check-your-details"
              ELSE NextPage(session, "custom-support", OwnPages(session)))

(* The support of an instructor names no translator, whose page is reached *)
(* with the routes of another session only, once the selection is cleared. *)
InstructorTranslator ==
  \E routes \in Routes(session) :
    InstructorAnswer("translator", [session EXCEPT !.answers.translator = TRUE],
      IF session.edit THEN "check-your-details"
      ELSE NextPage(session, "translator", routes))

InstructorConfirmSupport ==
  LET s == [session EXCEPT !.confirming = TRUE] IN
  \/ InstructorAnswer("confirm-support", [s EXCEPT !.answers.selected = None],
                      "select-support-type")
  \/ InstructorAnswer("confirm-support", s, "leaving-nsa")
  \/ InstructorAnswer("confirm-support", s, "staying-nsa")

InstructorPreferredDay ==
  InstructorAnswer("preferred-day", session,
                   IF session.edit THEN "check-your-details" ELSE "preferred-location")

InstructorPreferredLocation ==
  InstructorAnswer("preferred-location", session,
                   IF session.edit THEN "check-your-details" ELSE "email-contact")

InstructorTelephoneContact ==
  \/ InstructorAnswer("telephone-contact", [session EXCEPT !.edit = FALSE], "voicemail")
  \/ InstructorAnswer("telephone-contact", session, "check-your-details")

InstructorVoicemail == InstructorAnswer("voicemail", session, "check-your-details")

-----------------------------------------------------------------------------
(* The place and the time. *)

InstructorFindTestCentre ==
  InstructorAnswer("find-test-centre", session, "select-test-centre")

(* Mutant of InstructorSelectTestCentre: an edit replaces the centre at once. *)
InstructorSelectTestCentreAtOnce ==
  \E c \in Centres :
    InstructorAnswer("select-test-centre", [session EXCEPT !.answers.centre = c], "select-date")

InstructorSelectTestCentre ==
  \E c \in Centres :
    InstructorAnswer("select-test-centre",
      IF session.edit THEN [session EXCEPT !.edited.centre = c]
      ELSE [session EXCEPT !.answers.centre = c],
      "select-date")

InstructorSelectDate == InstructorAnswer("select-date", session, "choose-appointment")

InstructorChangeLocationTime ==
  \E next \in {"choose-appointment", "select-date", "find-test-centre"} :
    InstructorAnswer("change-location-time", [session EXCEPT !.edit = TRUE], next)

-----------------------------------------------------------------------------
(* The answers go to the CRM. *)

(* The slot is reserved and the booking made; its races are another module's. *)
InstructorCheckYourAnswers ==
  LET a == session.answers
      s == [session EXCEPT !.edit = FALSE]
  IN  /\ page = "check-your-answers"
      /\ UNCHANGED <<drafts, confirmed>>
      /\ IF a.type \in confirmed
         THEN /\ InstructorGoto([s EXCEPT !.lastPage = "check-your-answers"], "booking-exists")
              /\ UNCHANGED submitted
         ELSE \/ /\ "taken" \in person.faults
                 /\ InstructorShowPage(s, "slot-unavailable")
                 /\ UNCHANGED submitted
              \/ /\ "create" \in person.faults
                 /\ InstructorShowPage(s, "error")
                 /\ UNCHANGED submitted
              \/ /\ InstructorGoto(s, "payment")
                 /\ submitted' = a

(* A test without a fee goes to the confirmation without a payment page. *)
InstructorPayment ==
  /\ Payment
  /\ IsZeroCostTest(session.answers.type) => page' # "start"

(* The instructor's page of details handles the answers as the candidate's. *)
InstructorCheckYourDetails == CheckYourDetails

InstructorNext ==
  \/ InstructorFollow \/ InstructorStartAgain \/ Resolve
  \/ InstructorChooseSupport
  \/ InstructorAnswerOneOf("support-alert", SupportAlertReplies)
  \/ InstructorCandidateDetails
  \/ InstructorAnswerOneOf("email-contact", EmailContactReplies)
  \/ InstructorAnswerOneOf("test-type", TestTypeReplies)
  \/ InstructorAnswerOneOf("test-language", TestLanguageReplies)
  \/ InstructorVoiceover
  \/ InstructorAnswerOneOf("select-support-type", SelectSupportTypeReplies)
  \/ InstructorCustomSupport \/ InstructorTranslator \/ InstructorConfirmSupport
  \/ InstructorAnswerOneOf("leaving-nsa", LeavingNsaReplies)
  \/ InstructorPreferredDay \/ InstructorPreferredLocation
  \/ InstructorTelephoneContact \/ InstructorVoicemail
  \/ InstructorFindTestCentre \/ InstructorSelectTestCentre \/ InstructorSelectDate
  \/ InstructorAnswerOneOf("choose-appointment", ChooseAppointmentReplies)
  \/ InstructorChangeLocationTime
  \/ InstructorCheckYourAnswers \/ InstructorPayment \/ InstructorCheckYourDetails

InstructorSpec == InstructorInit /\ [][InstructorNext]_vars

-----------------------------------------------------------------------------
(* Whoever follows the links and answers the instructors' pages is served: no *)
(* redirect leads to a page its guard refuses, to one that does not exist, or *)
(* to one that lacks what it needs.  Left out are the ways that lead through  *)
(* the page about an earlier request, or that confirm support that is no      *)
(* longer selected.                                                           *)
WalkIsServed ==
  LET astray == session.received \/ session.confirming
  IN  /\ page # "timeout"
      /\ page \in {"no-options", "not-found"} => astray
      /\ page = "error" => astray \/ person.faults \cap {"create", "lost"} # {}

=============================================================================
