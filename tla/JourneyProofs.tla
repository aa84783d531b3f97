---------------------------- MODULE JourneyProofs ----------------------------
(***************************************************************************)
(* For any candidates, centres and bounds: whatever links are followed and *)
(* whatever is answered, the pages that check and send the answers have    *)
(* them, complete and of one piece.                                        *)
(***************************************************************************)
EXTENDS CandidateJourney, TLAPS

(***************************************************************************)
(* Where an edit may be going on, and the pages after the one that tells   *)
(* the candidate about evidence.                                           *)
(***************************************************************************)
EditPages ==
  {"check-your-answers", "choose-support", "email-contact", "test-type", "test-language",
   "change-voiceover", "find-test-centre", "select-test-centre", "select-date",
   "choose-appointment", "change-location-time", "bsl", "check-your-details",
   "telephone-contact", "voicemail", "select-support-type", "preferred-day",
   "preferred-location", "translator", "custom-support"} \cup LastPages
LatePages ==
  {"preferred-day", "preferred-location", "telephone-contact", "voicemail",
   "check-your-details", "check-your-details-error"}
BookingPages == {"payment", "booking-exists"}

(* What is said of the answers. *)
Selected(s) == s.answers.selected # None
Settled(s) ==
  LET a == s.answers
  IN  /\ a.type # None /\ a.centre # None
      /\ a.slot = [centre |-> a.centre, type |-> a.type]
Voiced(s) == Selected(s) /\ "voiceover" \in s.answers.selected => s.shownVoiceover
Translated(s) == Selected(s) /\ "translator" \in s.answers.selected => s.answers.translator
Standardable(s) == Selected(s) => s.answers.selected \cap NonStandardSupport = {}
OnlyOther(s) == s.answers.selected \in {None, {"other"}}
NoneUnwarned(type) == \A d \in Draft : d.unwarned => drafts[type][d] = 0
Told(s) ==
  /\ s.answers.type # None /\ Selected(s) /\ Voiced(s) /\ Translated(s)
  /\ s.answers.told = EvidenceRoute(s.answers.selected, s.needs)
  /\ NoneUnwarned(s.answers.type)

(***************************************************************************)
(* The place and the time: what holds of any session, of one that may ask  *)
(* for page p, and of one that is shown page p.                            *)
(***************************************************************************)
PlaceKept(s) ==
  /\ s.support \/ s.standard
  /\ ~s.candidate => ~s.edit /\ ~Selected(s)
  /\ s.edit /\ s.standard => Settled(s)
  /\ s.edit \/ IsSupportedStandard(s) => s.answers.type # None
PlaceAsked(s, p) ==
  /\ s.edit => p \in EditPages
  /\ IF p = "check-your-answers" THEN Settled(ApplyEdits(s)) ELSE s.edited.slot = None
  /\ p \in BookingPages => Settled(s) /\ s.answers.language
  /\ p = "booking-exists" => s.lastPage = "check-your-answers"
  /\ p \in {"change-location-time", "bsl"} => s.edit
  /\ p \in AnswerPages \cup BookingPages => s.candidate
  /\ p = "slot-unavailable" => s.standard
  /\ p = "test-language" /\ s.edit => s.target = "gb"
  /\ p \in SupportPages \cup {"test-language", "received-support-request",
                                "check-your-details-error"}
       => s.answers.type # None
  /\ p \in EitherPages /\ IsNonStandard(s) => s.answers.type # None
PlaceShown(s, p) ==
  /\ s.edited.slot = None
  /\ p \in {"support-alert", "candidate-details"} => ~s.candidate
  /\ p = "choose-support" => ~s.candidate \/ s.edit
  /\ p \in StandardPages => s.candidate /\ s.standard
  /\ p \in SupportPages => s.candidate /\ s.support
  /\ p \in CommonPages \cup EitherPages => s.candidate
  /\ p \in {"choose-appointment", "check-your-details", "change-voiceover",
            "select-standard-support"} => s.answers.type # None
  /\ p = "choose-appointment" => s.answers.centre # None
  /\ p = "check-your-answers" => s.edit /\ s.answers.language
  /\ p = "check-your-details" => s.edit
  /\ p = "test-language" => s.target = "gb"

(***************************************************************************)
(* The support named, and the side of the service it belongs to.           *)
(***************************************************************************)
SideKept(s) ==
  /\ s.confirming => OnlyOther(s)
  /\ IsSupportedStandard(s) => Standardable(s)
SideAsked(s, p) ==
  /\ p \in (SupportPages \ {"leaving-nsa"}) \cup {"check-your-details-error"}
       => IsNonStandard(s)
  /\ p = "select-standard-support" => ~IsNonStandard(s)
  /\ p = "leaving-nsa" => s.support /\ Standardable(s)
  /\ p = "duplicate-support-request" /\ s.lastPage = "leaving-nsa" => Standardable(s)
  /\ p = "confirm-support" => OnlyOther(s)
  /\ p \in DynamicPages /\ IsNonStandard(s) /\ Selected(s) => p \in OwnPages(s)
  /\ p \in {"test-type", "test-language", "select-standard-support", "change-voiceover"}
       /\ IsSupportedStandard(s) /\ Selected(s) => s.edit
  /\ p = "received-support-request" =>
       /\ IsNonStandard(s) => s.received
       /\ IsSupportedStandard(s) /\ Selected(s) => s.lastPage # "test-type"
SideShown(s, p) ==
  /\ p \in SupportPages => IsNonStandard(s)
  /\ p = "custom-support" => Selected(s)
  /\ p = "received-support-request" => s.received

(***************************************************************************)
(* What the candidate was told and asked on the pages of the support.      *)
(***************************************************************************)
ToldKept(s) ==
  /\ IsNonStandard(s) /\ s.edit /\ ~s.received => Told(s)
  /\ IsSupportedStandard(s) /\ ~s.received => Voiced(s) /\ Translated(s)
ToldAsked(s, p) ==
  ~s.received =>
    /\ p = "translator" => Voiced(s)
    /\ p \in {"custom-support", "leaving-nsa", "staying-nsa", "duplicate-support-request"}
         => Voiced(s) /\ Translated(s)
    /\ p \in LatePages \cup {"email-contact"} /\ IsNonStandard(s) => Told(s)
ToldShown(s, p) == p = "staying-nsa" /\ ~s.received => Told(s)

(* The session may ask for page p, or is shown it. *)
Kept(s) == PlaceKept(s) /\ SideKept(s) /\ ToldKept(s)
Asked(s, p) == PlaceAsked(s, p) /\ SideAsked(s, p) /\ ToldAsked(s, p)
Shown(s, p) == Asked(s, p) /\ PlaceShown(s, p) /\ SideShown(s, p) /\ ToldShown(s, p)

JourneyInv ==
  /\ TypeOK
  /\ Kept(session) /\ Shown(session, page)
  /\ \A q \in links : Asked(session, q)

-----------------------------------------------------------------------------
(* What the steps do to a session keeps it one. *)

LEMMA SessionFields ==
  ASSUME NEW s \in SessionData
  PROVE  /\ s.target \in Targets /\ s.candidate \in BOOLEAN /\ s.needs \in BOOLEAN
         /\ s.support \in BOOLEAN /\ s.standard \in BOOLEAN /\ s.edit \in BOOLEAN
         /\ s.confirming \in BOOLEAN /\ s.received \in BOOLEAN
         /\ s.shownStandard \in BOOLEAN /\ s.shownVoiceover \in BOOLEAN
         /\ s.lastPage \in {"test-type", "leaving-nsa", "check-your-answers", "other"}
         /\ s.edited.centre \in Centres \cup {None} /\ s.edited.slot \in Slot \cup {None}
         /\ s.answers \in Answers
         /\ s.answers.type \in Types \cup {None} /\ s.answers.language \in BOOLEAN
         /\ s.answers.selected \in (SUBSET SupportTypes) \cup {None}
         /\ s.answers.bsl \in BOOLEAN /\ s.answers.voiceover \in BOOLEAN
         /\ s.answers.translator \in BOOLEAN
         /\ s.answers.told \in Evidence \cup {None}
         /\ s.answers.centre \in Centres \cup {None}
         /\ s.answers.slot \in Slot \cup {None}
BY SMT DEF SessionData, Answers

LEMMA SessionsReset ==
  ASSUME NEW s \in SessionData
  PROVE  ResetSession(s) \in SessionData
BY ZenonT(60) DEF SessionData, ResetSession, Fresh, NoAnswers, Answers, NoEdits

LEMMA EditsApplied ==
  ASSUME NEW s \in SessionData
  PROVE  ApplyEdits(s) \in SessionData
BY ZenonT(60) DEF SessionData, ApplyEdits, NoEdits, Answers

LEMMA BookingsReset ==
  ASSUME NEW s \in SessionData
  PROVE  ResetBooking(s) \in SessionData
BY Zenon DEF SessionData, ResetBooking, NoAnswers, Answers

LEMMA TypesChosen ==
  ASSUME NEW s \in SessionData, NEW type \in Types
  PROVE  ChooseType(s, type) \in SessionData
<1>. DEFINE b == IF s.edit THEN ResetBooking(s) ELSE s
<1>1. b \in SessionData BY BookingsReset
<1>. HIDE DEF b
<1>. DEFINE a == [b.answers EXCEPT !.type = type]
<1>2. a \in Answers BY <1>1, SessionFields, Zenon DEF Answers
<1>3. [b EXCEPT !.edit = FALSE, !.received = FALSE, !.shownStandard = FALSE,
                !.shownVoiceover = FALSE, !.answers = a] \in SessionData
  <2>. HIDE DEF a
  <2>. QED BY <1>1, <1>2, Zenon DEF SessionData
<1>4. [b EXCEPT !.edit = FALSE, !.received = FALSE, !.shownStandard = FALSE,
                !.shownVoiceover = FALSE, !.answers.type = type]
        = [b EXCEPT !.edit = FALSE, !.received = FALSE, !.shownStandard = FALSE,
                    !.shownVoiceover = FALSE, !.answers = a]
  BY <1>1 DEF SessionData
<1>. QED BY <1>3, <1>4, Zenon DEF ChooseType, b

LEMMA SupportSelected ==
  ASSUME NEW s \in SessionData, NEW selected \in SUBSET SupportTypes
  PROVE  SelectSupport(s, selected) \in SessionData
<1>. DEFINE voiceover == s.answers.voiceover /\ "voiceover" \in selected
            translator == s.answers.translator /\ "translator" \in selected /\ "bsl" \notin selected
            bsl == "bsl" \in selected
<1>1. voiceover \in BOOLEAN /\ translator \in BOOLEAN /\ bsl \in BOOLEAN
  OBVIOUS
<1>2. SelectSupport(s, selected) =
        [s EXCEPT !.answers.selected = selected, !.answers.bsl = bsl,
                  !.answers.voiceover = voiceover, !.answers.translator = translator,
                  !.confirming = FALSE, !.edit = FALSE]
  BY Zenon DEF SelectSupport
<1>. HIDE DEF voiceover, translator, bsl
<1>. DEFINE a == [s.answers EXCEPT !.selected = selected, !.bsl = bsl,
                   !.voiceover = voiceover, !.translator = translator]
<1>3. a \in Answers BY <1>1, SessionFields, Zenon DEF Answers
<1>4. [s EXCEPT !.answers = a, !.confirming = FALSE, !.edit = FALSE] \in SessionData
  <2>. HIDE DEF a
  <2>. QED BY <1>3, Zenon DEF SessionData
<1>5. SelectSupport(s, selected) = [s EXCEPT !.answers = a, !.confirming = FALSE, !.edit = FALSE]
  BY <1>2 DEF SessionData, Answers
<1>. QED BY <1>4, <1>5

LEMMA EvidenceType ==
  ASSUME NEW selected, NEW needs
  PROVE  EvidenceRoute(selected, needs) \in Evidence
BY DEF EvidenceRoute, Evidence

(* A candidate who is not warned of a request has none. *)
LEMMA NothingOpen ==
  ASSUME drafts \in [Types -> [Draft -> Nat]], NEW s \in SessionData,
         s.answers.type # None, ~HasDrafts(s)
  PROVE  NoneUnwarned(s.answers.type)
<1>1. s.answers.type \in Types BY SessionFields
<1>2. \A d \in Draft : drafts[s.answers.type][d] \in Nat /\ ~(drafts[s.answers.type][d] > 0)
  BY <1>1 DEF HasDrafts, Open
<1>. QED BY <1>2 DEF NoneUnwarned


(* None is none of the values it stands in for. *)
LEMMA NoneIsFresh ==
  /\ Types \subseteq CandidateTypes \cup InstructorTypes
  /\ None \notin Types /\ None \notin Centres /\ None \notin Slot
  /\ None \notin Evidence /\ None \notin SUBSET SupportTypes
  /\ None # "car"
<1>1. Types \subseteq CandidateTypes \cup InstructorTypes
  BY PeopleAssumption DEF Types
<1>. QED BY <1>1, NoneAssumption DEF CandidateTypes

(* What two sessions, or their answers, have in common. *)
SameFlags(r, s) ==
  /\ r.target = s.target /\ r.candidate = s.candidate /\ r.needs = s.needs
  /\ r.support = s.support /\ r.standard = s.standard /\ r.edit = s.edit
  /\ r.confirming = s.confirming /\ r.lastPage = s.lastPage /\ r.received = s.received
  /\ r.shownStandard = s.shownStandard /\ r.shownVoiceover = s.shownVoiceover
SamePlace(r, s) ==
  /\ r.answers.type = s.answers.type /\ r.answers.centre = s.answers.centre
  /\ r.answers.slot = s.answers.slot
SameSupport(r, s) ==
  r.answers.selected = s.answers.selected /\ r.answers.translator = s.answers.translator

LEMMA LanguageSet ==
  ASSUME NEW s \in SessionData, NEW r, r = [s EXCEPT !.answers.language = TRUE]
  PROVE  /\ r \in SessionData
         /\ SameFlags(r, s) /\ SamePlace(r, s) /\ SameSupport(r, s)
         /\ r.edited = s.edited /\ r.answers.told = s.answers.told
         /\ r.answers.bsl = s.answers.bsl /\ r.answers.voiceover = s.answers.voiceover
         /\ r.answers.language
<1>1. r \in SessionData BY Zenon DEF SessionData, Answers
<1>. QED BY <1>1 DEF SessionData, Answers, SameFlags, SamePlace, SameSupport

LEMMA ToldSet ==
  ASSUME NEW s \in SessionData, NEW r,
         r = [s EXCEPT !.answers.told = EvidenceRoute(s.answers.selected, s.needs)]
  PROVE  /\ r \in SessionData
         /\ SameFlags(r, s) /\ SamePlace(r, s) /\ SameSupport(r, s)
         /\ r.edited = s.edited /\ r.answers.language = s.answers.language
         /\ r.answers.bsl = s.answers.bsl /\ r.answers.voiceover = s.answers.voiceover
         /\ r.answers.told = EvidenceRoute(s.answers.selected, s.needs)
<1>1. r \in SessionData BY EvidenceType, ZenonT(60) DEF SessionData, Answers
<1>. QED BY <1>1 DEF SessionData, Answers, SameFlags, SamePlace, SameSupport

(* Once the edits are applied there are none left to apply. *)
LEMMA EditsAppliedSet ==
  ASSUME NEW s \in SessionData, NEW r, r = ApplyEdits(s)
  PROVE  /\ r \in SessionData
         /\ r.edit /\ r.standard /\ r.edited = NoEdits
         /\ r.target = s.target /\ r.candidate = s.candidate /\ r.needs = s.needs
         /\ r.support = s.support /\ r.confirming = s.confirming
         /\ r.lastPage = s.lastPage /\ r.received = s.received
         /\ r.shownStandard = s.shownStandard /\ r.shownVoiceover = s.shownVoiceover
         /\ SameSupport(r, s)
         /\ r.answers.language = s.answers.language /\ r.answers.told = s.answers.told
         /\ r.answers.type = s.answers.type
         /\ r.answers.bsl = s.answers.bsl /\ r.answers.voiceover = s.answers.voiceover
         /\ r.answers.slot = IF s.edited.slot # None THEN s.edited.slot ELSE s.answers.slot
         /\ r.answers.centre = IF s.edited.slot # None /\ s.edited.centre # None
                               THEN s.edited.centre ELSE s.answers.centre
<1>. DEFINE slot == IF s.edited.slot # None THEN s.edited.slot ELSE s.answers.slot
            centre == IF s.edited.slot # None /\ s.edited.centre # None
                      THEN s.edited.centre ELSE s.answers.centre
            a == [s.answers EXCEPT !.slot = slot, !.centre = centre]
<1>1. r \in SessionData BY EditsApplied
<1>2. r = [s EXCEPT !.edit = TRUE, !.standard = TRUE, !.edited = NoEdits, !.answers = a]
  BY DEF ApplyEdits, SessionData, Answers
<1>3. /\ a.slot = slot /\ a.centre = centre
      /\ a.selected = s.answers.selected /\ a.translator = s.answers.translator
      /\ a.language = s.answers.language /\ a.told = s.answers.told
      /\ a.type = s.answers.type
      /\ a.bsl = s.answers.bsl /\ a.voiceover = s.answers.voiceover
  <2>. HIDE DEF slot, centre
  <2>. QED BY DEF SessionData, Answers
<1>4. /\ r.edit /\ r.standard /\ r.edited = NoEdits /\ r.answers = a
      /\ r.target = s.target /\ r.candidate = s.candidate /\ r.needs = s.needs
      /\ r.support = s.support /\ r.confirming = s.confirming
      /\ r.lastPage = s.lastPage /\ r.received = s.received
      /\ r.shownStandard = s.shownStandard /\ r.shownVoiceover = s.shownVoiceover
  <2>. HIDE DEF a
  <2>. QED BY <1>2 DEF SessionData
<1>. QED
  <2>. HIDE DEF a
  <2>. QED BY <1>1, <1>3, <1>4 DEF SameSupport

LEMMA NothingToApply ==
  ASSUME NEW s \in SessionData, s.edited = NoEdits \/ s.edited.slot = None
  PROVE  Settled(ApplyEdits(s)) <=> Settled(s)
<1>. DEFINE r == ApplyEdits(s)
<1>1. /\ r.answers.type = s.answers.type /\ r.answers.centre = s.answers.centre
      /\ r.answers.slot = s.answers.slot
  BY EditsAppliedSet DEF NoEdits
<1>. HIDE DEF r
<1>. QED BY <1>1 DEF Settled, r

-----------------------------------------------------------------------------
(* Asking for a page, and being shown it. *)

Ready(s, p) == s \in SessionData /\ Kept(s) /\ p \in Pages /\ Asked(s, p)
Seen(s, p) == s \in SessionData /\ Kept(s) /\ p \in Pages /\ Shown(s, p)

LEMMA LeavingShown ==
  ASSUME NEW s, Ready(s, "leaving-nsa"), Permitted(s, "leaving-nsa")
  PROVE  Seen([s EXCEPT !.standard = FALSE], "leaving-nsa")
<1>. DEFINE r == [s EXCEPT !.standard = FALSE]
<1>1. r \in SessionData
  BY Zenon DEF Ready, SessionData
<1>. USE <1>1, SessionFields
     DEF Ready, Permitted, Kept, Asked, Pages, StartPages, StandardPages, SupportPages,
         CommonPages, EitherPages, AnswerPages, LastPages, EditPages, LatePages,
         BookingPages, DynamicPages, Selected, IsNonStandard, IsSupportedStandard
<1>2. PlaceKept(r) /\ PlaceAsked(r, "leaving-nsa") /\ PlaceShown(r, "leaving-nsa")
  BY DEF PlaceKept, PlaceAsked, Settled, SideKept, SideAsked, PlaceShown
<1>3. SideKept(r) /\ SideAsked(r, "leaving-nsa") /\ SideShown(r, "leaving-nsa")
  BY DEF SideKept, SideAsked, PlaceKept, PlaceAsked, OnlyOther, Standardable, SideShown
<1>4. ToldKept(r) /\ ToldAsked(r, "leaving-nsa") /\ ToldShown(r, "leaving-nsa")
  BY DEF ToldKept, ToldAsked, PlaceKept, PlaceAsked, SideKept, SideAsked, Told, Voiced, Translated, ToldShown
<1>. QED BY <1>2, <1>3, <1>4 DEF Seen, Shown

LEMMA ConfirmShown ==
  ASSUME NEW s, Ready(s, "confirm-support"), Permitted(s, "confirm-support")
  PROVE  Seen([s EXCEPT !.standard = FALSE], "confirm-support")
<1>. DEFINE r == [s EXCEPT !.standard = FALSE]
<1>1. r \in SessionData
  BY Zenon DEF Ready, SessionData
<1>. USE <1>1, SessionFields
     DEF Ready, Permitted, Kept, Asked, Pages, StartPages, StandardPages, SupportPages,
         CommonPages, EitherPages, AnswerPages, LastPages, EditPages, LatePages,
         BookingPages, DynamicPages, Selected, IsNonStandard, IsSupportedStandard
<1>2. PlaceKept(r) /\ PlaceAsked(r, "confirm-support") /\ PlaceShown(r, "confirm-support")
  BY DEF PlaceKept, PlaceAsked, Settled, SideKept, SideAsked, PlaceShown
<1>3. SideKept(r) /\ SideAsked(r, "confirm-support") /\ SideShown(r, "confirm-support")
  BY DEF SideKept, SideAsked, PlaceKept, PlaceAsked, OnlyOther, Standardable, SideShown
<1>4. ToldKept(r) /\ ToldAsked(r, "confirm-support") /\ ToldShown(r, "confirm-support")
  BY DEF ToldKept, ToldAsked, PlaceKept, PlaceAsked, SideKept, SideAsked, Told, Voiced, Translated, ToldShown
<1>. QED BY <1>2, <1>3, <1>4 DEF Seen, Shown

LEMMA DetailsShown ==
  ASSUME NEW s, Ready(s, "check-your-details"), Permitted(s, "check-your-details")
  PROVE  Seen([s EXCEPT !.edit = TRUE], "check-your-details")
<1>. DEFINE r == [s EXCEPT !.edit = TRUE]
<1>1. r \in SessionData
  BY Zenon DEF Ready, SessionData
<1>. USE <1>1, SessionFields
     DEF Ready, Permitted, Kept, Asked, Pages, StartPages, StandardPages, SupportPages,
         CommonPages, EitherPages, AnswerPages, LastPages, EditPages, LatePages,
         BookingPages, DynamicPages, Selected, IsNonStandard, IsSupportedStandard
<1>2. PlaceKept(r) /\ PlaceAsked(r, "check-your-details") /\ PlaceShown(r, "check-your-details")
  BY DEF PlaceKept, PlaceAsked, Settled, SideKept, SideAsked, PlaceShown
<1>3. SideKept(r) /\ SideAsked(r, "check-your-details") /\ SideShown(r, "check-your-details")
  BY DEF SideKept, SideAsked, PlaceKept, PlaceAsked, OnlyOther, Standardable, SideShown
<1>4. ToldKept(r) /\ ToldAsked(r, "check-your-details") /\ ToldShown(r, "check-your-details")
  BY DEF ToldKept, ToldAsked, PlaceKept, PlaceAsked, SideKept, SideAsked, Told, Voiced, Translated, ToldShown
<1>. QED BY <1>2, <1>3, <1>4 DEF Seen, Shown

LEMMA AnswersShown ==
  ASSUME NEW s, Ready(s, "check-your-answers"), Permitted(s, "check-your-answers"),
         s.answers.language
  PROVE  Seen(ApplyEdits(s), "check-your-answers")
<1>. DEFINE r == ApplyEdits(s)
<1>0. Settled(r) /\ (r.edited = NoEdits => Settled(ApplyEdits(r)))
  BY EditsApplied, NothingToApply DEF Ready, Asked, PlaceAsked
<1>1. /\ r \in SessionData
      /\ r.edit /\ r.standard /\ r.edited = NoEdits
      /\ r.target = s.target /\ r.candidate = s.candidate /\ r.needs = s.needs
      /\ r.support = s.support /\ r.confirming = s.confirming
      /\ r.lastPage = s.lastPage /\ r.received = s.received
      /\ r.shownVoiceover = s.shownVoiceover
      /\ SameSupport(r, s)
      /\ r.answers.type = s.answers.type
      /\ r.answers.language = s.answers.language /\ r.answers.told = s.answers.told
  BY EditsAppliedSet DEF Ready
<1>. HIDE DEF r
<1>. USE <1>0, <1>1, SessionFields
     DEF Ready, Permitted, Kept, Asked, Pages, StartPages, StandardPages, SupportPages,
         CommonPages, EitherPages, AnswerPages, LastPages, EditPages, LatePages,
         BookingPages, DynamicPages, Selected, IsNonStandard, IsSupportedStandard, NoEdits, SameSupport
<1>2. PlaceKept(r) /\ PlaceAsked(r, "check-your-answers") /\ PlaceShown(r, "check-your-answers")
  BY DEF PlaceKept, PlaceAsked, Settled, SideKept, SideAsked, PlaceShown
<1>3. SideKept(r) /\ SideAsked(r, "check-your-answers") /\ SideShown(r, "check-your-answers")
  BY DEF SideKept, SideAsked, PlaceKept, PlaceAsked, OnlyOther, Standardable, SideShown
<1>4. ToldKept(r) /\ ToldAsked(r, "check-your-answers") /\ ToldShown(r, "check-your-answers")
  BY DEF ToldKept, ToldAsked, PlaceKept, PlaceAsked, SideKept, SideAsked, Told, Voiced, Translated, ToldShown
<1>. QED BY <1>2, <1>3, <1>4 DEF Seen, Shown, r

LEMMA AnswersFail ==
  ASSUME NEW s, Ready(s, "check-your-answers"), Permitted(s, "check-your-answers")
  PROVE  Ready(ApplyEdits(s), "error")
<1>. DEFINE r == ApplyEdits(s)
<1>0. Settled(r) /\ (r.edited = NoEdits => Settled(ApplyEdits(r)))
  BY EditsApplied, NothingToApply DEF Ready, Asked, PlaceAsked
<1>1. /\ r \in SessionData
      /\ r.edit /\ r.standard /\ r.edited = NoEdits
      /\ r.target = s.target /\ r.candidate = s.candidate /\ r.needs = s.needs
      /\ r.support = s.support /\ r.confirming = s.confirming
      /\ r.lastPage = s.lastPage /\ r.received = s.received
      /\ r.shownVoiceover = s.shownVoiceover
      /\ SameSupport(r, s)
      /\ r.answers.type = s.answers.type
      /\ r.answers.language = s.answers.language /\ r.answers.told = s.answers.told
  BY EditsAppliedSet DEF Ready
<1>. HIDE DEF r
<1>. USE <1>0, <1>1, SessionFields
     DEF Ready, Permitted, Kept, Asked, Pages, StartPages, StandardPages, SupportPages,
         CommonPages, EitherPages, AnswerPages, LastPages, EditPages, LatePages,
         BookingPages, DynamicPages, Selected, IsNonStandard, IsSupportedStandard, NoEdits, SameSupport
<1>2. PlaceKept(r) /\ PlaceAsked(r, "error")
  BY DEF PlaceKept, PlaceAsked, Settled, SideKept, SideAsked
<1>3. SideKept(r) /\ SideAsked(r, "error")
  BY DEF SideKept, SideAsked, PlaceKept, PlaceAsked, OnlyOther, Standardable
<1>4. ToldKept(r) /\ ToldAsked(r, "error")
  BY DEF ToldKept, ToldAsked, PlaceKept, PlaceAsked, SideKept, SideAsked, Told, Voiced, Translated
<1>. QED BY <1>2, <1>3, <1>4 DEF Ready, r

LEMMA ReceivedShown ==
  ASSUME NEW s, Ready(s, "received-support-request"), Permitted(s, "received-support-request")
  PROVE  Seen([s EXCEPT !.received = s.received \/ ~IsNonStandard(s)], "received-support-request")
<1>. DEFINE r == [s EXCEPT !.received = s.received \/ ~IsNonStandard(s)]
<1>1. r \in SessionData
  BY Zenon DEF Ready, SessionData
<1>. USE <1>1, SessionFields
     DEF Ready, Permitted, Kept, Asked, Pages, StartPages, StandardPages, SupportPages,
         CommonPages, EitherPages, AnswerPages, LastPages, EditPages, LatePages,
         BookingPages, DynamicPages, Selected, IsNonStandard, IsSupportedStandard
<1>2. PlaceKept(r) /\ PlaceAsked(r, "received-support-request") /\ PlaceShown(r, "received-support-request")
  BY DEF PlaceKept, PlaceAsked, Settled, SideKept, SideAsked, PlaceShown
<1>3. SideKept(r) /\ SideAsked(r, "received-support-request") /\ SideShown(r, "received-support-request")
  BY DEF SideKept, SideAsked, PlaceKept, PlaceAsked, OnlyOther, Standardable, SideShown
<1>4. ToldKept(r) /\ ToldAsked(r, "received-support-request") /\ ToldShown(r, "received-support-request")
  BY DEF ToldKept, ToldAsked, PlaceKept, PlaceAsked, SideKept, SideAsked, Told, Voiced, Translated, ToldShown
<1>. QED BY <1>2, <1>3, <1>4 DEF Seen, Shown

LEMMA StandardShown ==
  ASSUME NEW s, Ready(s, "select-standard-support"), Permitted(s, "select-standard-support"),
         BslIsAvailable(s.answers.type)
  PROVE  Seen([s EXCEPT !.shownVoiceover = FALSE, !.shownStandard = TRUE], "select-standard-support")
<1>. DEFINE r == [s EXCEPT !.shownVoiceover = FALSE, !.shownStandard = TRUE]
<1>1. r \in SessionData
  BY Zenon DEF Ready, SessionData
<1>. USE <1>1, SessionFields, NoneIsFresh
     DEF Ready, Permitted, Kept, Asked, Pages, StartPages, StandardPages, SupportPages,
         CommonPages, EitherPages, AnswerPages, LastPages, EditPages, LatePages,
         BookingPages, DynamicPages, Selected, IsNonStandard, IsSupportedStandard, BslIsAvailable
<1>2. PlaceKept(r) /\ PlaceAsked(r, "select-standard-support") /\ PlaceShown(r, "select-standard-support")
  BY DEF PlaceKept, PlaceAsked, Settled, SideKept, SideAsked, PlaceShown
<1>3. SideKept(r) /\ SideAsked(r, "select-standard-support") /\ SideShown(r, "select-standard-support")
  BY DEF SideKept, SideAsked, PlaceKept, PlaceAsked, OnlyOther, Standardable, SideShown
<1>4. ToldKept(r) /\ ToldAsked(r, "select-standard-support") /\ ToldShown(r, "select-standard-support")
  BY DEF ToldKept, ToldAsked, PlaceKept, PlaceAsked, SideKept, SideAsked, Told, Voiced, Translated, ToldShown
<1>. QED BY <1>2, <1>3, <1>4 DEF Seen, Shown

LEMMA StandardSkipped ==
  ASSUME NEW s, Ready(s, "select-standard-support"), Permitted(s, "select-standard-support")
  PROVE  Ready([s EXCEPT !.shownVoiceover = FALSE], "change-voiceover")
<1>. DEFINE r == [s EXCEPT !.shownVoiceover = FALSE]
<1>1. r \in SessionData
  BY Zenon DEF Ready, SessionData
<1>. USE <1>1, SessionFields
     DEF Ready, Permitted, Kept, Asked, Pages, StartPages, StandardPages, SupportPages,
         CommonPages, EitherPages, AnswerPages, LastPages, EditPages, LatePages,
         BookingPages, DynamicPages, Selected, IsNonStandard, IsSupportedStandard
<1>2. PlaceKept(r) /\ PlaceAsked(r, "change-voiceover")
  BY DEF PlaceKept, PlaceAsked, Settled, SideKept, SideAsked
<1>3. SideKept(r) /\ SideAsked(r, "change-voiceover")
  BY DEF SideKept, SideAsked, PlaceKept, PlaceAsked, OnlyOther, Standardable
<1>4. ToldKept(r) /\ ToldAsked(r, "change-voiceover")
  BY DEF ToldKept, ToldAsked, PlaceKept, PlaceAsked, SideKept, SideAsked, Told, Voiced, Translated
<1>. QED BY <1>2, <1>3, <1>4 DEF Ready

LEMMA LanguageToStandard ==
  ASSUME NEW s, Ready(s, "test-language"), Permitted(s, "test-language"),
         ~s.edit, IsStandard(s)
  PROVE  Ready([s EXCEPT !.answers.language = TRUE], "select-standard-support")
<1>. DEFINE r == [s EXCEPT !.answers.language = TRUE]
<1>1. /\ r \in SessionData
      /\ SameFlags(r, s) /\ SamePlace(r, s) /\ SameSupport(r, s)
      /\ r.edited = s.edited
      /\ r.answers.told = s.answers.told
  BY LanguageSet DEF Ready
<1>. HIDE DEF r
<1>. USE <1>1, SessionFields
     DEF Ready, Permitted, Kept, Asked, Pages, StartPages, StandardPages, SupportPages,
         CommonPages, EitherPages, AnswerPages, LastPages, EditPages, LatePages,
         BookingPages, DynamicPages, Selected, IsNonStandard, IsSupportedStandard, SameFlags, SamePlace, SameSupport, IsStandard
<1>2. PlaceKept(r) /\ PlaceAsked(r, "select-standard-support")
  BY DEF PlaceKept, PlaceAsked, Settled, SideKept, SideAsked
<1>3. SideKept(r) /\ SideAsked(r, "select-standard-support")
  BY DEF SideKept, SideAsked, PlaceKept, PlaceAsked, OnlyOther, Standardable
<1>4. ToldKept(r) /\ ToldAsked(r, "select-standard-support")
  BY DEF ToldKept, ToldAsked, PlaceKept, PlaceAsked, SideKept, SideAsked, Told, Voiced, Translated
<1>. QED BY <1>2, <1>3, <1>4 DEF Ready, r

LEMMA LanguageToSupport ==
  ASSUME NEW s, Ready(s, "test-language"), Permitted(s, "test-language"),
         ~s.edit, IsNonStandard(s)
  PROVE  Ready([s EXCEPT !.answers.language = TRUE], "select-support-type")
<1>. DEFINE r == [s EXCEPT !.answers.language = TRUE]
<1>1. /\ r \in SessionData
      /\ SameFlags(r, s) /\ SamePlace(r, s) /\ SameSupport(r, s)
      /\ r.edited = s.edited
      /\ r.answers.told = s.answers.told
  BY LanguageSet DEF Ready
<1>. HIDE DEF r
<1>. USE <1>1, SessionFields
     DEF Ready, Permitted, Kept, Asked, Pages, StartPages, StandardPages, SupportPages,
         CommonPages, EitherPages, AnswerPages, LastPages, EditPages, LatePages,
         BookingPages, DynamicPages, Selected, IsNonStandard, IsSupportedStandard, SameFlags, SamePlace, SameSupport, IsStandard
<1>2. PlaceKept(r) /\ PlaceAsked(r, "select-support-type")
  BY DEF PlaceKept, PlaceAsked, Settled, SideKept, SideAsked
<1>3. SideKept(r) /\ SideAsked(r, "select-support-type")
  BY DEF SideKept, SideAsked, PlaceKept, PlaceAsked, OnlyOther, Standardable
<1>4. ToldKept(r) /\ ToldAsked(r, "select-support-type")
  BY DEF ToldKept, ToldAsked, PlaceKept, PlaceAsked, SideKept, SideAsked, Told, Voiced, Translated
<1>. QED BY <1>2, <1>3, <1>4 DEF Ready, r

LEMMA LanguageToNowhere ==
  ASSUME NEW s, Ready(s, "test-language"), Permitted(s, "test-language"),
         s.target = "ni"
  PROVE  Ready([s EXCEPT !.answers.language = TRUE], "not-found")
<1>. DEFINE r == [s EXCEPT !.answers.language = TRUE]
<1>1. /\ r \in SessionData
      /\ SameFlags(r, s) /\ SamePlace(r, s) /\ SameSupport(r, s)
      /\ r.edited = s.edited
      /\ r.answers.told = s.answers.told
  BY LanguageSet DEF Ready
<1>. HIDE DEF r
<1>. USE <1>1, SessionFields
     DEF Ready, Permitted, Kept, Asked, Pages, StartPages, StandardPages, SupportPages,
         CommonPages, EitherPages, AnswerPages, LastPages, EditPages, LatePages,
         BookingPages, DynamicPages, Selected, IsNonStandard, IsSupportedStandard, SameFlags, SamePlace, SameSupport, IsStandard
<1>2. PlaceKept(r) /\ PlaceAsked(r, "not-found")
  BY DEF PlaceKept, PlaceAsked, Settled, SideKept, SideAsked
<1>3. SideKept(r) /\ SideAsked(r, "not-found")
  BY DEF SideKept, SideAsked, PlaceKept, PlaceAsked, OnlyOther, Standardable
<1>4. ToldKept(r) /\ ToldAsked(r, "not-found")
  BY DEF ToldKept, ToldAsked, PlaceKept, PlaceAsked, SideKept, SideAsked, Told, Voiced, Translated
<1>. QED BY <1>2, <1>3, <1>4 DEF Ready, r

LEMMA StayingDuplicate ==
  ASSUME NEW s, Ready(s, "staying-nsa"), Permitted(s, "staying-nsa")
  PROVE  Ready([s EXCEPT !.lastPage = "other"], "duplicate-support-request")
<1>. DEFINE r == [s EXCEPT !.lastPage = "other"]
<1>1. r \in SessionData
  BY Zenon DEF Ready, SessionData
<1>. USE <1>1, SessionFields
     DEF Ready, Permitted, Kept, Asked, Pages, StartPages, StandardPages, SupportPages,
         CommonPages, EitherPages, AnswerPages, LastPages, EditPages, LatePages,
         BookingPages, DynamicPages, Selected, IsNonStandard, IsSupportedStandard
<1>2. PlaceKept(r) /\ PlaceAsked(r, "duplicate-support-request")
  BY DEF PlaceKept, PlaceAsked, Settled, SideKept, SideAsked
<1>3. SideKept(r) /\ SideAsked(r, "duplicate-support-request")
  BY DEF SideKept, SideAsked, PlaceKept, PlaceAsked, OnlyOther, Standardable
<1>4. ToldKept(r) /\ ToldAsked(r, "duplicate-support-request")
  BY DEF ToldKept, ToldAsked, PlaceKept, PlaceAsked, SideKept, SideAsked, Told, Voiced, Translated
<1>. QED BY <1>2, <1>3, <1>4 DEF Ready

LEMMA StayingShown ==
  ASSUME NEW s, Ready(s, "staying-nsa"), Permitted(s, "staying-nsa"),
         ~HasDrafts(s), Selected(s), drafts \in [Types -> [Draft -> Nat]]
  PROVE  Seen([s EXCEPT !.answers.told = EvidenceRoute(s.answers.selected, s.needs)], "staying-nsa")
<1>. DEFINE r == [s EXCEPT !.answers.told = EvidenceRoute(s.answers.selected, s.needs)]
<1>1. /\ r \in SessionData
      /\ SameFlags(r, s) /\ SamePlace(r, s) /\ SameSupport(r, s)
      /\ r.edited = s.edited
      /\ r.answers.told = EvidenceRoute(s.answers.selected, s.needs)
  BY ToldSet DEF Ready
<1>. HIDE DEF r
<1>. USE <1>1, SessionFields, NothingOpen
     DEF Ready, Permitted, Kept, Asked, Pages, StartPages, StandardPages, SupportPages,
         CommonPages, EitherPages, AnswerPages, LastPages, EditPages, LatePages,
         BookingPages, DynamicPages, Selected, IsNonStandard, IsSupportedStandard, SameFlags, SamePlace, SameSupport
<1>2. PlaceKept(r) /\ PlaceAsked(r, "staying-nsa") /\ PlaceShown(r, "staying-nsa")
  BY DEF PlaceKept, PlaceAsked, Settled, SideKept, SideAsked, PlaceShown
<1>3. SideKept(r) /\ SideAsked(r, "staying-nsa") /\ SideShown(r, "staying-nsa")
  BY DEF SideKept, SideAsked, PlaceKept, PlaceAsked, OnlyOther, Standardable, SideShown
<1>4. ToldKept(r) /\ ToldAsked(r, "staying-nsa") /\ ToldShown(r, "staying-nsa")
  BY DEF ToldKept, ToldAsked, PlaceKept, PlaceAsked, SideKept, SideAsked, Told, Voiced, Translated, ToldShown
<1>. QED BY <1>2, <1>3, <1>4 DEF Seen, Shown, r


LEMMA SamePageShown ==
  ASSUME NEW s, NEW p, Ready(s, p), Permitted(s, p),
         p \notin {"leaving-nsa", "confirm-support", "check-your-details", "check-your-answers",
                   "received-support-request", "select-standard-support", "staying-nsa"},
         p = "test-language" => s.target = "gb",
         p \in {"choose-appointment", "change-voiceover"} => s.answers.type # None,
         p = "choose-appointment" => s.answers.centre # None,
         p = "custom-support" => Selected(s)
  PROVE  Seen(s, p)
<1>. USE DEF Ready, Permitted, Kept, Asked, Pages, StartPages, StandardPages, SupportPages,
         CommonPages, EitherPages, AnswerPages, LastPages, EditPages, BookingPages
<1>1. PlaceShown(s, p)
  BY DEF PlaceShown, PlaceAsked, SideAsked, IsNonStandard
<1>2. SideShown(s, p)
  BY DEF SideShown, SideAsked
<1>3. ToldShown(s, p)
  BY DEF ToldShown
<1>. QED BY <1>1, <1>2, <1>3 DEF Seen, Shown

(* A page that leads nowhere may follow any other. *)
LEMMA LastPageReady ==
  ASSUME NEW s, NEW p, Ready(s, p), s.edited.slot = None, NEW q \in LastPages
  PROVE  Ready(s, q)
<1>. USE DEF Ready, Kept, Asked, Pages, StartPages, StandardPages, SupportPages,
         CommonPages, EitherPages, AnswerPages, LastPages, EditPages, LatePages,
         BookingPages, DynamicPages
<1>1. PlaceAsked(s, q) BY DEF PlaceAsked
<1>2. SideAsked(s, q) BY DEF SideAsked
<1>3. ToldAsked(s, q) BY DEF ToldAsked
<1>. QED BY <1>1, <1>2, <1>3

LEMMA CentreAsked ==
  ASSUME NEW s, Ready(s, "choose-appointment"), Permitted(s, "choose-appointment")
  PROVE  Ready(s, "select-test-centre")
<1>. USE DEF Ready, Kept, Asked, Pages, StartPages, StandardPages, SupportPages,
         CommonPages, EitherPages, AnswerPages, LastPages, EditPages, LatePages,
         BookingPages, DynamicPages
<1>1. PlaceAsked(s, "select-test-centre") BY DEF PlaceAsked
<1>2. SideAsked(s, "select-test-centre") BY DEF SideAsked
<1>3. ToldAsked(s, "select-test-centre") BY DEF ToldAsked
<1>. QED BY <1>1, <1>2, <1>3

(* After a reset the session may ask for the start or any last page. *)
LEMMA ResetReady ==
  ASSUME NEW s \in SessionData, NEW q \in LastPages \cup {"choose-support"}
  PROVE  Ready(ResetSession(s), q) /\ Permitted(ResetSession(s), q)
<1>. DEFINE r == ResetSession(s)
<1>1. /\ r \in SessionData /\ ~r.candidate /\ ~r.support /\ r.standard /\ ~r.edit
      /\ ~r.confirming /\ ~r.received /\ r.edited.slot = None /\ r.answers.selected = None
  BY SessionsReset DEF ResetSession, Fresh, NoAnswers, NoEdits, SessionData
<1>. HIDE DEF r
<1>. USE <1>1 DEF Pages, StartPages, StandardPages, SupportPages, CommonPages, EitherPages,
         AnswerPages, LastPages, EditPages, LatePages, BookingPages, DynamicPages,
         Selected, IsNonStandard, IsSupportedStandard
<1>2. PlaceKept(r) /\ SideKept(r) /\ ToldKept(r)
  BY DEF PlaceKept, SideKept, ToldKept, OnlyOther
<1>3. PlaceAsked(r, q) BY DEF PlaceAsked
<1>4. SideAsked(r, q) BY DEF SideAsked
<1>5. ToldAsked(r, q) BY DEF ToldAsked
<1>6. Permitted(r, q) BY DEF Permitted
<1>. QED BY <1>2, <1>3, <1>4, <1>5, <1>6 DEF Ready, Kept, Asked, r

(* The pages a request may be sent on to: those that are shown at once, and *)
(* those that may send it on a second time.                                 *)
Final(s, q) ==
  /\ q \in LastPages \cup {"choose-support", "duplicate-support-request",
                           "select-test-centre", "select-support-type", "change-voiceover"}
  /\ Permitted(s, q)
  /\ q = "change-voiceover" => s.answers.type # None
Onward(s, q) ==
  /\ Permitted(s, q)
  /\ \/ Final(s, q)
     \/ q = "select-standard-support" /\ s.answers.type # None
     \/ q = "change-voiceover"

(* A request for p is shown p, or is sent on to a page it may ask for. *)
Served(answer, p) ==
  IF answer[2] = p THEN Seen(answer[1], p)
  ELSE Ready(answer[1], answer[2]) /\ Onward(answer[1], answer[2])

LEMMA HandleServes ==
  ASSUME NEW s, NEW p, Ready(s, p), Permitted(s, p),
         drafts \in [Types -> [Draft -> Nat]]
  PROVE  Served(Handle(s, p), p)
<1>. DEFINE h == Handle(s, p)
<1>0. s \in SessionData /\ p \in Pages BY DEF Ready
<1>1. CASE p = "leaving-nsa"
  <2>1. h = <<[s EXCEPT !.standard = FALSE], p>> BY <1>1, Zenon DEF Handle
  <2>. QED BY <1>1, <2>1, LeavingShown DEF Served
<1>2. CASE p = "confirm-support"
  <2>1. h = <<[s EXCEPT !.standard = FALSE], p>> BY <1>2, Zenon DEF Handle
  <2>. QED BY <1>2, <2>1, ConfirmShown DEF Served
<1>3. CASE p = "check-your-details"
  <2>1. s.answers.type # None
    BY <1>3 DEF Ready, Asked, PlaceAsked, SupportPages
  <2>2. h = <<[s EXCEPT !.edit = TRUE], p>> BY <1>3, <2>1, Zenon DEF Handle
  <2>. QED BY <1>3, <2>2, DetailsShown DEF Served
<1>4. CASE p = "check-your-answers"
  <2>1. CASE s.answers.language
    <3>1. h = <<ApplyEdits(s), p>> BY <1>4, <2>1, Zenon DEF Handle
    <3>. QED BY <1>4, <2>1, <3>1, AnswersShown DEF Served
  <2>2. CASE ~s.answers.language
    <3>1. h = <<ApplyEdits(s), "error">> BY <1>4, <2>2, Zenon DEF Handle
    <3>2. Ready(ApplyEdits(s), "error") BY <1>4, AnswersFail
    <3>3. Onward(ApplyEdits(s), "error")
      BY Zenon DEF Onward, Final, Permitted, LastPages, StartPages, StandardPages, SupportPages,
             CommonPages, EitherPages
    <3>. QED BY <1>4, <3>1, <3>2, <3>3 DEF Served
  <2>. QED BY <2>1, <2>2
<1>5. CASE p = "received-support-request"
  <2>1. h = <<[s EXCEPT !.received = s.received \/ ~IsNonStandard(s)], p>>
    BY <1>5, Zenon DEF Handle
  <2>. QED BY <1>5, <2>1, ReceivedShown DEF Served
<1>6. CASE p = "select-standard-support"
  <2>. DEFINE r == [s EXCEPT !.shownVoiceover = FALSE]
  <2>0. r.answers = s.answers /\ h = ShowStandardSupport(r)
    BY <1>0, <1>6, Zenon DEF Handle, SessionData
  <2>1. CASE BslIsAvailable(s.answers.type)
    <3>1. h = <<[s EXCEPT !.shownVoiceover = FALSE, !.shownStandard = TRUE], p>>
      BY <1>6, <2>0, <2>1, Zenon DEF ShowStandardSupport
    <3>2. Seen([s EXCEPT !.shownVoiceover = FALSE, !.shownStandard = TRUE], p)
      BY <1>6, <2>1, StandardShown
    <3>. QED BY <3>1, <3>2 DEF Served
  <2>2. CASE ~BslIsAvailable(s.answers.type)
    <3>1. h = <<r, "change-voiceover">> BY <2>0, <2>2, Zenon DEF ShowStandardSupport
    <3>2. Ready(r, "change-voiceover") BY <1>6, StandardSkipped
    <3>3. r.candidate = s.candidate /\ r.support = s.support /\ r.standard = s.standard
      BY <1>0 DEF SessionData
    <3>4. Permitted(r, "change-voiceover")
      BY <1>6, <3>3 DEF Permitted, CommonPages, StartPages, StandardPages, SupportPages,
             EitherPages, Ready, Kept, PlaceKept
    <3>5. Onward(r, "change-voiceover") BY <3>4 DEF Onward
    <3>. HIDE DEF r
    <3>. QED BY <1>6, <3>1, <3>2, <3>5 DEF Served
  <2>. QED BY <2>1, <2>2
<1>7. CASE p = "test-language" /\ s.target = "ni"
  <2>. DEFINE r == [s EXCEPT !.answers.language = TRUE]
              q == IF IsStandard(s) THEN "select-standard-support"
                   ELSE IF IsNonStandard(s) THEN "select-support-type" ELSE "not-found"
  <2>1. h = <<r, q>> BY <1>7, Zenon DEF Handle
  <2>2. /\ r.answers.type = s.answers.type /\ r.candidate = s.candidate
        /\ r.support = s.support /\ r.standard = s.standard
    BY <1>0, LanguageSet DEF SameFlags, SamePlace
  <2>3. s.answers.type # None /\ s.candidate
    BY <1>7 DEF Ready, Asked, PlaceAsked, Permitted, CommonPages
  <2>4. Ready(r, q)
    <3>1. ~s.edit BY <1>7 DEF Ready, Asked, PlaceAsked
    <3>. QED BY <1>7, <3>1, LanguageToStandard, LanguageToSupport, LanguageToNowhere, Zenon
  <2>5. Onward(r, q)
    <3>. HIDE DEF r
    <3>. QED BY <2>2, <2>3 DEF Onward, Final, Permitted, IsStandard, IsNonStandard,
              LastPages, StartPages, StandardPages, SupportPages, CommonPages, EitherPages
  <2>6. q # p BY <1>7
  <2>. QED BY <2>1, <2>4, <2>5, <2>6 DEF Served
<1>8. CASE p = "staying-nsa"
  <2>1. CASE HasDrafts(s)
    <3>. DEFINE r == [s EXCEPT !.lastPage = "other"]
    <3>1. h = <<r, "duplicate-support-request">> BY <1>8, <2>1, Zenon DEF Handle
    <3>2. Ready(r, "duplicate-support-request") BY <1>8, StayingDuplicate
    <3>3. r.candidate = s.candidate /\ r.support = s.support
      BY <1>0 DEF SessionData
    <3>4. Onward(r, "duplicate-support-request")
      BY <1>8, <3>3 DEF Onward, Final, Permitted, LastPages, StartPages, StandardPages,
             SupportPages, CommonPages, EitherPages
    <3>. QED BY <1>8, <3>1, <3>2, <3>4 DEF Served
  <2>2. CASE ~HasDrafts(s) /\ ~Selected(s)
    <3>1. h = <<s, "no-options">> BY <1>8, <2>2, Zenon DEF Handle, Selected
    <3>2. Ready(s, "no-options")
      BY <1>8, LastPageReady DEF LastPages, Ready, Asked, PlaceAsked
    <3>3. Onward(s, "no-options")
      BY Zenon DEF Onward, Final, Permitted, LastPages, StartPages, StandardPages, SupportPages,
             CommonPages, EitherPages
    <3>. QED BY <1>8, <3>1, <3>2, <3>3 DEF Served
  <2>3. CASE ~HasDrafts(s) /\ Selected(s)
    <3>1. h = <<[s EXCEPT !.answers.told = EvidenceRoute(s.answers.selected, s.needs)], p>>
      BY <1>8, <2>3, Zenon DEF Handle, Selected
    <3>. QED BY <1>8, <2>3, <3>1, StayingShown DEF Served
  <2>. QED BY <2>1, <2>2, <2>3
<1>9. CASE p = "choose-appointment"
  <2>1. h = <<s, IF s.answers.centre = None THEN "select-test-centre"
                 ELSE IF s.answers.type = None THEN "error" ELSE p>>
    BY <1>9, Zenon DEF Handle
  <2>2. Ready(s, "error") BY <1>9, LastPageReady DEF LastPages, Ready, Asked, PlaceAsked
  <2>3. Ready(s, "select-test-centre") BY <1>9, CentreAsked
  <2>4. Onward(s, "error") /\ Onward(s, "select-test-centre")
    BY <1>9 DEF Onward, Final, Permitted, LastPages, StartPages, StandardPages, SupportPages,
           CommonPages, EitherPages
  <2>5. s.answers.centre # None /\ s.answers.type # None => Seen(s, p)
    BY <1>9, SamePageShown
  <2>. QED BY <1>9, <2>1, <2>2, <2>3, <2>4, <2>5 DEF Served
<1>10. CASE p = "change-voiceover"
  <2>1. h = <<s, IF s.answers.type = None THEN "error" ELSE p>>
    BY <1>10, Zenon DEF Handle
  <2>2. Ready(s, "error") BY <1>10, LastPageReady DEF LastPages, Ready, Asked, PlaceAsked
  <2>3. Onward(s, "error")
    BY <1>10 DEF Onward, Final, Permitted, LastPages, StartPages, StandardPages, SupportPages,
           CommonPages, EitherPages
  <2>4. s.answers.type # None => Seen(s, p) BY <1>10, SamePageShown
  <2>. QED BY <1>10, <2>1, <2>2, <2>3, <2>4 DEF Served
<1>11. CASE p = "select-date"
  <2>1. h = <<s, IF s.answers.type = None THEN "error" ELSE p>>
    BY <1>11, Zenon DEF Handle
  <2>2. Ready(s, "error") BY <1>11, LastPageReady DEF LastPages, Ready, Asked, PlaceAsked
  <2>3. Onward(s, "error")
    BY <1>11 DEF Onward, Final, Permitted, LastPages, StartPages, StandardPages, SupportPages,
           CommonPages, EitherPages
  <2>4. Seen(s, p) BY <1>11, SamePageShown
  <2>. QED BY <1>11, <2>1, <2>2, <2>3, <2>4 DEF Served
<1>12. CASE p = "custom-support"
  <2>1. h = <<s, IF ~Selected(s) THEN "error" ELSE p>>
    BY <1>12, Zenon DEF Handle, Selected
  <2>2. Ready(s, "error") BY <1>12, LastPageReady DEF LastPages, Ready, Asked, PlaceAsked
  <2>3. Onward(s, "error")
    BY <1>12 DEF Onward, Final, Permitted, LastPages, StartPages, StandardPages, SupportPages,
           CommonPages, EitherPages
  <2>4. Selected(s) => Seen(s, p) BY <1>12, SamePageShown
  <2>. QED BY <1>12, <2>1, <2>2, <2>3, <2>4 DEF Served
<1>13. CASE /\ p \notin {"leaving-nsa", "confirm-support", "check-your-details",
                         "check-your-answers", "received-support-request",
                         "select-standard-support", "staying-nsa", "choose-appointment",
                         "change-voiceover", "select-date", "custom-support"}
            /\ ~(p = "test-language" /\ s.target = "ni")
  <2>1. h = <<s, p>> BY <1>13, Zenon DEF Handle
  <2>2. s.target \in {"gb", "ni"} BY <1>0, SessionFields, TargetsAssumption
  <2>3. Seen(s, p) BY <1>13, <2>2, SamePageShown
  <2>. QED BY <2>1, <2>3 DEF Served
<1>. QED BY <1>1, <1>2, <1>3, <1>4, <1>5, <1>6, <1>7, <1>8, <1>9, <1>10, <1>11, <1>12, <1>13

-----------------------------------------------------------------------------
(* The redirects end, after at most two, on a page that is shown. *)

LEMMA GetServes ==
  ASSUME NEW s, NEW p, Ready(s, p), drafts \in [Types -> [Draft -> Nat]]
  PROVE  Served(Get(s, p), p)
<1>0. s \in SessionData BY DEF Ready
<1>1. CASE ~Permitted(s, p)
  <2>1. Get(s, p) = <<ResetSession(s), "timeout">> BY <1>1 DEF Get
  <2>2. Ready(ResetSession(s), "timeout") /\ Permitted(ResetSession(s), "timeout")
    BY <1>0, ResetReady DEF LastPages
  <2>3. p # "timeout"
    BY <1>1 DEF Permitted, StartPages, StandardPages, SupportPages, CommonPages, EitherPages
  <2>. HIDE DEF Ready
  <2>. QED BY <2>1, <2>2, <2>3 DEF Served, Onward, Final, LastPages
<1>2. CASE Permitted(s, p) /\ p = "candidate-details" /\ s.answers.type # None
  <2>1. Get(s, p) = <<ResetSession(s), "choose-support">> BY <1>2 DEF Get
  <2>2. Ready(ResetSession(s), "choose-support") /\ Permitted(ResetSession(s), "choose-support")
    BY <1>0, ResetReady
  <2>. HIDE DEF Ready
  <2>. QED BY <1>2, <2>1, <2>2 DEF Served, Onward, Final
<1>3. CASE Permitted(s, p) /\ ~(p = "candidate-details" /\ s.answers.type # None)
  <2>1. Get(s, p) = Handle(s, p) BY <1>3 DEF Get
  <2>. QED BY <1>3, <2>1, HandleServes
<1>. QED BY <1>1, <1>2, <1>3

LEMMA FinalIsShown ==
  ASSUME NEW s, NEW q, Final(s, q)
  PROVE  Get(s, q) = <<s, q>>
<1>1. q # "candidate-details" /\ Permitted(s, q) BY DEF Final, LastPages
<1>2. Handle(s, q) = <<s, q>>
  <2>1. CASE q = "change-voiceover" BY <2>1, Zenon DEF Handle, Final
  <2>2. CASE q # "change-voiceover" BY <2>2, Zenon DEF Handle, Final, LastPages
  <2>. QED BY <2>1, <2>2
<1>. QED BY <1>1, <1>2 DEF Get

LEMMA OnwardIsFinal ==
  ASSUME NEW s, NEW q, Ready(s, q), Onward(s, q), Get(s, q)[2] # q
  PROVE  Final(Get(s, q)[1], Get(s, q)[2])
<1>. DEFINE g == Get(s, q)
<1>0. s \in SessionData /\ (s.support \/ s.standard) BY DEF Ready, Kept, PlaceKept
<1>1. Permitted(s, q) BY DEF Onward
<1>2. ~Final(s, q) BY FinalIsShown
<1>3. CASE q = "select-standard-support" /\ s.answers.type # None
  <2>. DEFINE r == [s EXCEPT !.shownVoiceover = FALSE]
  <2>1. g = ShowStandardSupport(r) BY <1>1, <1>3, ZenonT(60) DEF Get, Handle
  <2>2. /\ r.answers = s.answers /\ r.candidate = s.candidate
        /\ r.support = s.support /\ r.standard = s.standard
    BY <1>0 DEF SessionData
  <2>3. g = <<r, "change-voiceover">>
    <3>1. \/ g = <<r, "change-voiceover">>
          \/ g = <<[r EXCEPT !.shownStandard = TRUE], "select-standard-support">>
      BY <2>1, Zenon DEF ShowStandardSupport
    <3>. HIDE DEF r, g
    <3>2. g[2] # q BY DEF g
    <3>. QED BY <1>3, <3>1, <3>2
  <2>4. Permitted(r, "change-voiceover")
    <3>. HIDE DEF r
    <3>. QED BY <1>0, <1>1, <1>3, <2>2 DEF Permitted, StartPages, StandardPages, SupportPages,
              CommonPages, EitherPages, SessionData
  <2>. HIDE DEF r
  <2>. QED BY <1>3, <2>2, <2>3, <2>4 DEF Final
<1>4. CASE q = "change-voiceover"
  <2>1. g = <<s, IF s.answers.type = None THEN "error" ELSE q>>
    BY <1>1, <1>4, ZenonT(60) DEF Get, Handle
  <2>2. Permitted(s, "error")
    BY Zenon DEF Permitted, LastPages, StartPages, StandardPages, SupportPages,
           CommonPages, EitherPages
  <2>. QED BY <1>1, <1>2, <1>4, <2>1, <2>2 DEF Final, LastPages
<1>. QED BY <1>2, <1>3, <1>4 DEF Onward

LEMMA ArriveIsSeen ==
  ASSUME NEW s, NEW p, Ready(s, p), drafts \in [Types -> [Draft -> Nat]]
  PROVE  Seen(Arrive(s, p)[1], Arrive(s, p)[2])
<1>. DEFINE first == Get(s, p)
            second == Get(first[1], first[2])
            third == Get(second[1], second[2])
<1>1. Served(first, p) BY GetServes
<1>2. CASE first[2] = p
  BY <1>1, <1>2 DEF Arrive, Served
<1>3. CASE first[2] # p
  <2>1. Ready(first[1], first[2]) /\ Onward(first[1], first[2]) BY <1>1, <1>3 DEF Served
  <2>2. Served(second, first[2]) BY <2>1, GetServes
  <2>3. CASE second[2] = first[2]
    <3>1. Arrive(s, p) = second BY <1>3, <2>3 DEF Arrive
    <3>. HIDE DEF first, second
    <3>. QED BY <2>2, <2>3, <3>1 DEF Served
  <2>4. CASE second[2] # first[2]
    <3>1. Ready(second[1], second[2]) BY <2>2, <2>4 DEF Served
    <3>2. Final(second[1], second[2])
      BY <2>1, <2>4, OnwardIsFinal
    <3>3. third = <<second[1], second[2]>> BY <3>2, FinalIsShown
    <3>4. Served(third, second[2]) BY <3>1, GetServes
    <3>5. Arrive(s, p) = third BY <1>3, <2>4 DEF Arrive
    <3>. HIDE DEF first, second, third
    <3>. QED BY <3>3, <3>4, <3>5 DEF Served
  <2>. QED BY <2>3, <2>4
<1>. QED BY <1>2, <1>3

-----------------------------------------------------------------------------
(* The navigator. *)

LEMMA PositionIs ==
  /\ Position["change-voiceover"] = 1 /\ Position["translator"] = 2
  /\ Position["custom-support"] = 3
  /\ \A q \in DynamicPages : Position[q] \in {1, 2, 3}
BY DEF Position, DynamicPages

(* Of a set of its pages one is the first, and one the last. *)
LEMMA SomePageIsFirst ==
  ASSUME NEW pages \in SUBSET DynamicPages, pages # {}
  PROVE  /\ \E q \in pages : \A x \in pages : Position[q] <= Position[x]
         /\ \E q \in pages : \A x \in pages : Position[x] <= Position[q]
<1>1. /\ Position["change-voiceover"] = 1 /\ Position["translator"] = 2
      /\ Position["custom-support"] = 3
  BY PositionIs
<1>2. \A x \in pages : x \in {"change-voiceover", "translator", "custom-support"}
  BY DEF DynamicPages
<1>3. CASE "change-voiceover" \in pages
  <2>1. \A x \in pages : Position["change-voiceover"] <= Position[x] BY <1>1, <1>2
  <2>2. \E q \in pages : \A x \in pages : Position[x] <= Position[q]
    BY <1>1, <1>2, <1>3
  <2>. QED BY <1>3, <2>1, <2>2
<1>4. CASE "change-voiceover" \notin pages
  BY <1>1, <1>2, <1>4
<1>. QED BY <1>3, <1>4

LEMMA PreviousIs ==
  ASSUME NEW p, NEW routes \in SUBSET DynamicPages
  PROVE  /\ PreviousPage(p, routes) \in routes \cup {"select-support-type"}
         /\ p \in routes => PreviousPage(p, routes) # p
         /\ PreviousPage(p, routes) \in routes /\ p \in routes =>
              Position[PreviousPage(p, routes)] < Position[p]
<1>. DEFINE earlier == {q \in routes : p \in routes => Position[q] < Position[p]}
<1>1. CASE earlier # {}
  <2>1. \E q \in earlier : \A x \in earlier : Position[x] <= Position[q]
    BY <1>1, SomePageIsFirst
  <2>2. PreviousPage(p, routes) = CHOOSE q \in earlier : \A x \in earlier : Position[x] <= Position[q]
    BY <1>1 DEF PreviousPage
  <2>3. PreviousPage(p, routes) \in earlier BY <2>1, <2>2
  <2>4. \A q \in DynamicPages : Position[q] \in Nat BY PositionIs
  <2>. QED BY <2>3, <2>4
<1>2. CASE earlier = {}
  <2>1. PreviousPage(p, routes) = "select-support-type" BY <1>2 DEF PreviousPage
  <2>2. "select-support-type" \notin DynamicPages BY DEF DynamicPages
  <2>. QED BY <2>1, <2>2
<1>. QED BY <1>1, <1>2

(* The next page skips none of the routes, and the support is left for the *)
(* standard pages only by those who named none that is not standard.       *)
LEMMA NextIs ==
  ASSUME NEW s, NEW p, NEW routes \in SUBSET DynamicPages
  PROVE  LET next == NextPage(s, p, routes) IN
         /\ next \in routes \cup {"leaving-nsa", "staying-nsa"}
         /\ \A x \in routes :
              next \notin routes \/ Position[x] < Position[next] =>
                p \in routes /\ Position[x] <= Position[p]
         /\ next = "leaving-nsa" /\ Selected(s) => IsOnlyStandardSupport(s.answers.selected)
<1>. DEFINE later == {q \in routes : p \in routes => Position[q] > Position[p]}
            next == NextPage(s, p, routes)
<1>0. \A q \in DynamicPages : Position[q] \in Nat BY PositionIs
<1>1. "leaving-nsa" \notin routes /\ "staying-nsa" \notin routes BY DEF DynamicPages
<1>2. CASE later # {}
  <2>1. \E q \in later : \A x \in later : Position[q] <= Position[x]
    BY <1>2, SomePageIsFirst
  <2>2. next = CHOOSE q \in later : \A x \in later : Position[q] <= Position[x]
    BY <1>2 DEF NextPage
  <2>3. next \in later /\ \A x \in later : Position[next] <= Position[x] BY <2>1, <2>2
  <2>. HIDE DEF next
  <2>. QED BY <1>0, <1>1, <2>3 DEF next
<1>3. CASE later = {}
  <2>1. next = IF ~Selected(s) \/ IsOnlyStandardSupport(s.answers.selected)
               THEN "leaving-nsa" ELSE "staying-nsa"
    BY <1>3 DEF NextPage, Selected
  <2>2. \A x \in routes : p \in routes /\ Position[x] <= Position[p]
    BY <1>0, <1>3
  <2>. HIDE DEF next
  <2>. QED BY <1>1, <2>1, <2>2 DEF next
<1>. QED BY <1>2, <1>3

LEMMA RoutesAreOwn ==
  ASSUME NEW s, NEW routes \in Routes(s)
  PROVE  /\ routes \in SUBSET DynamicPages
         /\ Selected(s) => routes = OwnPages(s)
BY DEF Routes, OwnPages, Selected

-----------------------------------------------------------------------------
(* The links of a page that is shown lead to pages that may be asked for. *)

LEMMA ForwardIsAsked ==
  ASSUME NEW s, NEW p, Seen(s, p), NEW routes \in Routes(s), NEW q \in ForwardLinks(s, p, routes),
         ~(s.edit /\ p \in EditedFromCheckPage)
  PROVE  q \in Pages /\ Asked(s, q)
<1>0. s \in SessionData BY DEF Seen
<1>. USE <1>0, SessionFields
     DEF Seen, Shown, Kept, Asked, PlaceKept, PlaceAsked, PlaceShown, SideKept, SideAsked, SideShown,
         ToldKept, ToldAsked, ToldShown, Settled, OnlyOther, Standardable, Told, Voiced, Translated,
         Pages, StartPages, StandardPages, SupportPages, CommonPages, EitherPages, AnswerPages,
         LastPages, EditPages, LatePages, BookingPages, DynamicPages, Selected, IsNonStandard,
         IsSupportedStandard, EditedFromCheckPage
<1>1. CASE p = "support-alert"
  <2>1. q \in {"choose-support", "candidate-details"}
    BY <1>1, Zenon DEF ForwardLinks
  <2>. QED BY <1>1, <2>1
<1>2. CASE p = "candidate-details"
  <2>1. q \in {"choose-support"}
    BY <1>2, Zenon DEF ForwardLinks
  <2>. QED BY <1>2, <2>1
<1>3. CASE p = "email-contact"
  <2>1. q \in IF IsNonStandard(s) THEN {"preferred-location"}
             ELSE IF IsSupportedStandard(s) THEN {"leaving-nsa"} ELSE {}
    BY <1>3, Zenon DEF ForwardLinks
  <2>. QED BY <1>3, <2>1
<1>4. CASE p = "test-type"
  <2>1. q \in IF IsNonStandard(s) THEN {} ELSE {"email-contact"}
    BY <1>4, Zenon DEF ForwardLinks
  <2>. QED BY <1>4, <2>1
<1>5. CASE p = "received-support-request"
  <2>1. q \in {IF IsSupportedStandard(s) THEN "leaving-nsa" ELSE "test-type",
              IF s.lastPage = "test-type" THEN "test-language" ELSE "email-contact"}
    BY <1>5, Zenon DEF ForwardLinks
  <2>. QED BY <1>5, <2>1
<1>6. CASE p = "test-language"
  <2>1. q \in {IF s.edit THEN CheckPage(s) ELSE BeforeSupport(s)}
    BY <1>6, Zenon DEF ForwardLinks
  <2>. QED BY <1>6, <2>1, NothingToApply DEF CheckPage, BeforeSupport
<1>7. CASE p = "select-standard-support"
  <2>1. q \in {IF s.target = "gb" THEN "test-language" ELSE BeforeSupport(s)}
    BY <1>7, Zenon DEF ForwardLinks
  <2>. QED BY <1>7, <2>1 DEF CheckPage, BeforeSupport
<1>8. CASE p = "find-test-centre"
  <2>1. q \in IF IsSupportedStandard(s) THEN {"email-contact"}
             ELSE IF s.shownVoiceover THEN {"change-voiceover"}
             ELSE IF s.shownStandard THEN {"select-standard-support"} ELSE {}
    BY <1>8, Zenon DEF ForwardLinks
  <2>. QED BY <1>8, <2>1
<1>9. CASE p = "select-test-centre"
  <2>1. q \in {"find-test-centre"} \cup (IF s.edit THEN {"check-your-answers"} ELSE {})
    BY <1>9, Zenon DEF ForwardLinks
  <2>. QED BY <1>9, <2>1, NothingToApply
<1>10. CASE p = "select-date"
  <2>1. q \in {"select-test-centre"}
    BY <1>10, Zenon DEF ForwardLinks
  <2>. QED BY <1>10, <2>1
<1>11. CASE p = "choose-appointment"
  <2>1. q \in {"select-date", "find-test-centre"}
               \cup (IF s.edit THEN {"check-your-answers"} ELSE {})
    BY <1>11, Zenon DEF ForwardLinks
  <2>. QED BY <1>11, <2>1, NothingToApply
<1>12. CASE p = "change-location-time"
  <2>1. q \in {"check-your-answers"}
    BY <1>12, Zenon DEF ForwardLinks
  <2>. QED BY <1>12, <2>1, NothingToApply
<1>13. CASE p = "bsl"
  <2>1. q \in {"check-your-answers"}
    BY <1>13, Zenon DEF ForwardLinks
  <2>. QED BY <1>13, <2>1, NothingToApply
<1>14. CASE p = "slot-unavailable"
  <2>1. q \in {"select-date"}
    BY <1>14, Zenon DEF ForwardLinks
  <2>. QED BY <1>14, <2>1
<1>15. CASE p = "booking-exists"
  <2>1. q \in {s.lastPage}
    BY <1>15, Zenon DEF ForwardLinks
  <2>. QED BY <1>15, <2>1, NothingToApply
<1>16. CASE p = "select-support-type"
  <2>1. q \in {IF s.confirming THEN "confirm-support"
              ELSE IF s.target = "ni" THEN "test-type" ELSE "test-language"}
    BY <1>16, Zenon DEF ForwardLinks
  <2>. QED BY <1>16, <2>1
<1>17. CASE p = "confirm-support"
  <2>1. q \in {"select-support-type"}
    BY <1>17, Zenon DEF ForwardLinks
  <2>. QED BY <1>17, <2>1
<1>18. CASE p = "preferred-day"
  <2>1. q \in {"staying-nsa"}
    BY <1>18, Zenon DEF ForwardLinks
  <2>. QED BY <1>18, <2>1
<1>19. CASE p = "preferred-location"
  <2>1. q \in {"preferred-day"}
    BY <1>19, Zenon DEF ForwardLinks
  <2>. QED BY <1>19, <2>1
<1>20. CASE p = "telephone-contact"
  <2>1. q \in {"email-contact"}
    BY <1>20, Zenon DEF ForwardLinks
  <2>. QED BY <1>20, <2>1
<1>21. CASE p = "voicemail"
  <2>1. q \in {"telephone-contact"}
    BY <1>21, Zenon DEF ForwardLinks
  <2>. QED BY <1>21, <2>1
<1>22. CASE p = "check-your-details-error"
  <2>1. q \in {"check-your-details"}
    BY <1>22, Zenon DEF ForwardLinks
  <2>. QED BY <1>22, <2>1
<1>23. CASE p = "change-voiceover"
  <2>1. q \in {BackFromVoiceover(s, routes)}
               \cup (IF IsNonStandard(s) /\ s.target = "ni" THEN {"select-support-type"} ELSE {})
    BY <1>23, Zenon DEF ForwardLinks
  <2>2. CASE IsNonStandard(s)
    <3>1. q \in {PreviousPage(p, routes), "select-support-type"}
      BY <1>23, <2>1, <2>2 DEF BackFromVoiceover
    <3>2. PreviousPage(p, routes) \in routes \cup {"select-support-type"} BY RoutesAreOwn, PreviousIs
    <3>3. routes \in SUBSET DynamicPages /\ (Selected(s) => routes = OwnPages(s)) BY RoutesAreOwn
    <3>4. CASE q = "select-support-type" BY <1>23, <2>2, <3>4
    <3>5. CASE q \in routes
      <4>1. ~Selected(s)
        <5>1. p \notin routes
          BY <1>23, <3>1, <3>2, <3>3, <3>5, RoutesAreOwn, PreviousIs, PositionIs
        <5>. QED BY <1>23, <2>2, <3>3, <5>1
      <4>. QED BY <1>23, <2>2, <3>3, <3>5, <4>1
    <3>. QED BY <3>1, <3>2, <3>4, <3>5
  <2>3. CASE ~IsNonStandard(s)
    <3>1. q \in {"select-standard-support", "test-language", "received-support-request", "test-type"}
      BY <1>23, <2>1, <2>3 DEF BackFromVoiceover, BeforeSupport
    <3>2. q = "test-language" => s.target = "gb"
      BY <1>23, <2>1, <2>3 DEF BackFromVoiceover, BeforeSupport
    <3>3. q = "received-support-request" => s.received
      BY <1>23, <2>1, <2>3 DEF BackFromVoiceover, BeforeSupport
    <3>. QED BY <1>23, <2>3, <3>1, <3>2, <3>3
  <2>. QED BY <2>2, <2>3
<1>24. CASE p = "check-your-answers"
  <2>1. q \in {"email-contact", "test-type", "choose-support", "test-language",
               "choose-appointment", "change-location-time", "bsl", "change-voiceover"}
    BY <1>24, Zenon DEF ForwardLinks, ChangeLinks
  <2>2. /\ q = "test-language" => s.target = "gb"
        /\ q = "bsl" => s.edit
    BY <1>24, Zenon DEF ForwardLinks, ChangeLinks
  <2>. QED BY <1>24, <2>1, <2>2, NothingToApply
<1>25. CASE p = "check-your-details"
  <2>1. q \in {"email-contact", "test-type", "choose-support", "test-language",
               "telephone-contact", "voicemail", "select-support-type", "preferred-day",
               "preferred-location"} \cup (IF Selected(s) THEN OwnPages(s) ELSE {})
    BY <1>25, Zenon DEF ForwardLinks, ChangeLinks, OwnPages
  <2>0. q \in ChangeLinks(s)
    BY <1>25, Zenon DEF ForwardLinks
  <2>2. q = "test-language" => s.target = "gb"
    BY <1>25, <2>0 DEF ChangeLinks, OwnPages
  <2>3. CASE q \in OwnPages(s) BY <1>25, <2>3 DEF OwnPages
  <2>4. CASE q \notin OwnPages(s) BY <1>25, <2>1, <2>2, <2>4
  <2>. QED BY <2>3, <2>4
<1>26. CASE p = "translator"
  <2>1. q = PreviousPage(p, routes) BY <1>26, Zenon DEF ForwardLinks
  <2>2. q \in routes \cup {"select-support-type"} BY <2>1, RoutesAreOwn, PreviousIs
  <2>3. routes \in SUBSET DynamicPages /\ (Selected(s) => routes = OwnPages(s)) BY RoutesAreOwn
  <2>4. CASE q = "select-support-type" BY <1>26, <2>4
  <2>5. CASE q \in routes /\ Selected(s)
    <3>1. p \in routes BY <1>26, <2>3, <2>5
    <3>2. Position[q] < Position[p] BY <2>1, <2>3, <2>5, <3>1, PreviousIs
    <3>3. q = "change-voiceover" BY <1>26, <2>3, <2>5, <3>2, PositionIs
    <3>. QED BY <1>26, <2>3, <2>5, <3>3
  <2>6. CASE q \in routes /\ ~Selected(s) BY <1>26, <2>3, <2>6
  <2>. QED BY <2>2, <2>4, <2>5, <2>6
<1>27. CASE p = "custom-support"
  <2>1. q \in {PreviousPage(p, routes), SkipCustomSupport(s.answers.selected)}
    BY <1>27, Zenon DEF ForwardLinks
  <2>2. PreviousPage(p, routes) \in Pages /\ Asked(s, PreviousPage(p, routes))
    <3>1. PreviousPage(p, routes) \in routes \cup {"select-support-type"} BY RoutesAreOwn, PreviousIs
    <3>2. routes \in SUBSET DynamicPages /\ (Selected(s) => routes = OwnPages(s)) BY RoutesAreOwn
    <3>3. CASE PreviousPage(p, routes) = "select-support-type" BY <1>27, <3>3
    <3>4. CASE PreviousPage(p, routes) \in routes
      BY <1>27, <3>2, <3>4, PreviousIs, PositionIs DEF OwnPages
    <3>. QED BY <3>1, <3>3, <3>4
  <2>3. CASE q = SkipCustomSupport(s.answers.selected)
    BY <1>27, <2>3 DEF SkipCustomSupport
  <2>. QED BY <2>1, <2>2, <2>3, SMTT(60)
<1>28. CASE p = "leaving-nsa"
  <2>1. q \in {PreviousPage(p, routes), "confirm-support"}
    BY <1>28, Zenon DEF ForwardLinks, BackFromNsa
  <2>2. q = "confirm-support" => s.confirming
    <3>1. PreviousPage(p, routes) # "confirm-support"
      BY RoutesAreOwn, PreviousIs
    <3>. QED BY <1>28, <3>1, Zenon DEF ForwardLinks, BackFromNsa
  <2>3. PreviousPage(p, routes) \in Pages /\ Asked(s, PreviousPage(p, routes))
    <3>1. PreviousPage(p, routes) \in routes \cup {"select-support-type"} BY RoutesAreOwn, PreviousIs
    <3>2. routes \in SUBSET DynamicPages /\ (Selected(s) => routes = OwnPages(s)) BY RoutesAreOwn
    <3>3. CASE PreviousPage(p, routes) = "select-support-type" BY <1>28, <3>3
    <3>4. CASE PreviousPage(p, routes) \in routes
      BY <1>28, <3>2, <3>4
    <3>. QED BY <3>1, <3>3, <3>4
  <2>4. CASE q = "confirm-support" BY <1>28, <2>2, <2>4
  <2>. QED BY <2>1, <2>3, <2>4, SMTT(60)
<1>29. CASE p = "staying-nsa"
  <2>1. q \in {PreviousPage(p, routes), "confirm-support", "preferred-day"}
    BY <1>29, Zenon DEF ForwardLinks, BackFromNsa
  <2>2. q = "confirm-support" => s.confirming
    <3>1. PreviousPage(p, routes) # "confirm-support"
      BY RoutesAreOwn, PreviousIs
    <3>. QED BY <1>29, <3>1, Zenon DEF ForwardLinks, BackFromNsa
  <2>3. PreviousPage(p, routes) \in Pages /\ Asked(s, PreviousPage(p, routes))
    <3>1. PreviousPage(p, routes) \in routes \cup {"select-support-type"} BY RoutesAreOwn, PreviousIs
    <3>2. routes \in SUBSET DynamicPages /\ (Selected(s) => routes = OwnPages(s)) BY RoutesAreOwn
    <3>3. CASE PreviousPage(p, routes) = "select-support-type" BY <1>29, <3>3
    <3>4. CASE PreviousPage(p, routes) \in routes
      BY <1>29, <3>2, <3>4
    <3>. QED BY <3>1, <3>3, <3>4
  <2>4. CASE q = "confirm-support" BY <1>29, <2>2, <2>4
  <2>5. CASE q = "preferred-day" BY <1>29, <2>5
  <2>. QED BY <2>1, <2>3, <2>4, <2>5, SMTT(60)
<1>30. CASE p = "duplicate-support-request"
  <2>1. q = IF s.lastPage = "leaving-nsa" THEN "leaving-nsa" ELSE PreviousPage(p, routes)
    BY <1>30, Zenon DEF ForwardLinks
  <2>2. PreviousPage(p, routes) \in Pages /\ Asked(s, PreviousPage(p, routes))
    <3>1. PreviousPage(p, routes) \in routes \cup {"select-support-type"} BY RoutesAreOwn, PreviousIs
    <3>2. routes \in SUBSET DynamicPages /\ (Selected(s) => routes = OwnPages(s)) BY RoutesAreOwn
    <3>3. CASE PreviousPage(p, routes) = "select-support-type" BY <1>30, <3>3
    <3>4. CASE PreviousPage(p, routes) \in routes
      BY <1>30, <3>2, <3>4
    <3>. QED BY <3>1, <3>3, <3>4
  <2>3. CASE s.lastPage = "leaving-nsa"
    <3>1. q = "leaving-nsa" BY <2>1, <2>3, Zenon
    <3>. QED BY <1>30, <2>3, <3>1
  <2>. QED BY <2>1, <2>2, <2>3, SMTT(60)
<1>31. CASE p \in {"choose-support", "payment"} \cup LastPages
  <2>1. q \in {} BY <1>31, ZenonT(90) DEF ForwardLinks, LastPages
  <2>. QED BY <2>1
<1>. QED
  BY <1>1, <1>2, <1>3, <1>4, <1>5, <1>6, <1>7, <1>8, <1>9, <1>10, <1>11,
     <1>12, <1>13, <1>14, <1>15, <1>16, <1>17, <1>18, <1>19, <1>20, <1>21, <1>22, <1>23, <1>24, <1>25, <1>26, <1>27, <1>28, <1>29, <1>30, <1>31, Zenon

LEMMA LinksAreReady ==
  ASSUME NEW s, NEW p, Seen(s, p), NEW routes \in Routes(s), NEW q \in Links(s, p, routes)
  PROVE  Ready(s, q)
<1>0. s \in SessionData /\ Kept(s) BY DEF Seen
<1>1. CASE s.edit /\ p \in EditedFromCheckPage
  <2>1. q = IF p \in SupportPages THEN "check-your-details"
            ELSE IF p \in StandardPages THEN "check-your-answers" ELSE CheckPage(s)
    BY <1>1, Zenon DEF Links
  <2>2. q \in {"check-your-answers", "check-your-details"}
    BY <2>1 DEF CheckPage
  <2>3. CASE q = "check-your-answers"
    <3>1. s.standard
      BY <1>1, <2>1, <2>3
      DEF CheckPage, Seen, Shown, PlaceShown
    <3>2. s.edited.slot = None BY DEF Seen, Shown, PlaceShown
    <3>3. Settled(ApplyEdits(s)) BY <1>0, <1>1, <3>1, <3>2, NothingToApply DEF Kept, PlaceKept
    <3>4. PlaceAsked(s, q)
      BY <2>3, <3>3 DEF PlaceAsked, EditPages, BookingPages, AnswerPages, SupportPages, EitherPages
    <3>5. SideAsked(s, q)
      BY <2>3 DEF SideAsked, SupportPages, DynamicPages
    <3>6. ToldAsked(s, q)
      BY <2>3 DEF ToldAsked, LatePages
    <3>. QED BY <1>0, <2>3, <3>4, <3>5, <3>6 DEF Ready, Asked, Pages, StandardPages
  <2>4. CASE q = "check-your-details"
    <3>1. IsNonStandard(s)
      BY <1>0, <1>1, <2>1, <2>4, SessionFields
      DEF CheckPage, Seen, Shown, PlaceShown, SideShown, Kept, PlaceKept, IsNonStandard
    <3>2. s.edited.slot = None BY DEF Seen, Shown, PlaceShown
    <3>3. s.answers.type # None /\ (~s.received => Told(s))
      BY <1>0, <1>1, <3>1 DEF Kept, PlaceKept, ToldKept
    <3>4. PlaceAsked(s, q)
      BY <2>4, <3>2, <3>3 DEF PlaceAsked, EditPages, BookingPages, AnswerPages, SupportPages, EitherPages
    <3>5. SideAsked(s, q)
      BY <2>4, <3>1 DEF SideAsked, SupportPages, DynamicPages
    <3>6. ToldAsked(s, q)
      BY <2>4, <3>3 DEF ToldAsked, LatePages
    <3>. QED BY <1>0, <2>4, <3>4, <3>5, <3>6 DEF Ready, Asked, Pages, SupportPages
  <2>. QED BY <2>2, <2>3, <2>4
<1>2. CASE ~(s.edit /\ p \in EditedFromCheckPage)
  <2>1. q \in ForwardLinks(s, p, routes) BY <1>2, Zenon DEF Links
  <2>. QED BY <1>0, <1>2, <2>1, ForwardIsAsked DEF Ready
<1>. QED BY <1>1, <1>2

-----------------------------------------------------------------------------
(* The steps. *)

(* What is kept and shown goes on holding when requests are closed, or made *)
(* for a candidate who was warned; and for a session without support.       *)
LEMMA KeptWithDrafts ==
  ASSUME session' \in SessionData,
         \/ \A t \in Types : NoneUnwarned(t) => NoneUnwarned(t)'
         \/ ~session'.support /\ page' # "staying-nsa"
  PROVE  /\ Kept(session') => Kept(session)'
         /\ Shown(session', page') => Shown(session, page)'
         /\ Asked(session', page') => Asked(session, page)'
         /\ \A q : Asked(session', q) => Asked(session, q)'
<1>0. (Told(session') => Told(session)') \/ (~session'.support /\ page' # "staying-nsa")
  <2>. SUFFICES ASSUME \A t \in Types : NoneUnwarned(t) => NoneUnwarned(t)'
                PROVE  Told(session') => Told(session)'
    OBVIOUS
  <2>1. session'.answers.type \in Types \cup {None} BY SessionFields
  <2>2. session'.answers.type # None =>
          (NoneUnwarned(session'.answers.type) => NoneUnwarned(session.answers.type)')
    <3>. DEFINE type == session'.answers.type
    <3>1. type # None => (NoneUnwarned(type) => \A d \in Draft : d.unwarned => drafts'[type][d] = 0)
      BY <2>1 DEF NoneUnwarned
    <3>. QED BY <3>1 DEF NoneUnwarned
  <2>. QED BY <2>2 DEF Told, Voiced, Translated, Selected
<1>. USE DEF Selected, IsNonStandard, IsSupportedStandard, Settled, OnlyOther, Standardable,
         Voiced, Translated
<1>1. PlaceKept(session)' <=> PlaceKept(session') BY DEF PlaceKept
<1>2. SideKept(session)' <=> SideKept(session') BY DEF SideKept
<1>3. ToldKept(session') => ToldKept(session)' BY <1>0 DEF ToldKept
<1>4. \A q : PlaceAsked(session, q)' <=> PlaceAsked(session', q) BY DEF PlaceAsked
<1>5. \A q : SideAsked(session, q)' <=> SideAsked(session', q) BY DEF SideAsked, OwnPages
<1>6. \A q : ToldAsked(session', q) => ToldAsked(session, q)' BY <1>0 DEF ToldAsked
<1>7. PlaceShown(session, page)' <=> PlaceShown(session', page') BY DEF PlaceShown
<1>8. SideShown(session, page)' <=> SideShown(session', page') BY DEF SideShown
<1>9. ToldShown(session', page') => ToldShown(session, page)' BY <1>0 DEF ToldShown
<1>10. PlaceAsked(session, page)' <=> PlaceAsked(session', page') BY DEF PlaceAsked
<1>11. SideAsked(session, page)' <=> SideAsked(session', page') BY DEF SideAsked, OwnPages
<1>12. ToldAsked(session', page') => ToldAsked(session, page)' BY <1>0 DEF ToldAsked
<1>. QED BY <1>1, <1>2, <1>3, <1>4, <1>5, <1>6, <1>7, <1>8, <1>9, <1>10, <1>11, <1>12
        DEF Kept, Shown, Asked

DraftsGrowWarned ==
  /\ drafts' \in [Types -> [Draft -> Nat]]
  /\ \A t \in Types : NoneUnwarned(t) => NoneUnwarned(t)'

LEMMA ShowPageKeeps ==
  ASSUME JourneyInv, NEW s, NEW p, ShowPage(s, p), Seen(s, p),
         drafts' \in [Types -> [Draft -> Nat]],
         \/ \A t \in Types : NoneUnwarned(t) => NoneUnwarned(t)'
         \/ ~s.support /\ p # "staying-nsa",
         confirmed' \subseteq Types, submitted' \in Answers \cup {None}
  PROVE  JourneyInv'
<1>1. session' = s /\ page' = p /\ person' = person BY DEF ShowPage
<1>2. PICK routes \in Routes(s) : links' = Links(s, p, routes) BY DEF ShowPage
<1>3. \A q \in links' : Ready(s, q) BY <1>2, LinksAreReady
<1>4. /\ session' \in SessionData /\ page' \in Pages /\ links' \subseteq Pages
      /\ Kept(session') /\ Shown(session', page')
      /\ \A q \in links' : Asked(session', q)
  BY <1>1, <1>3 DEF Seen, Ready
<1>5. TypeOK' BY <1>1, <1>4 DEF TypeOK, JourneyInv
<1>6. /\ Kept(session)' /\ Shown(session, page)'
      /\ \A q \in links' : Asked(session, q)'
  BY <1>1, <1>4, KeptWithDrafts
<1>. QED BY <1>5, <1>6 DEF JourneyInv

LEMMA GotoKeeps ==
  ASSUME JourneyInv, NEW s, NEW p, Goto(s, p), Ready(s, p), DraftsGrowWarned,
         confirmed' \subseteq Types, submitted' \in Answers \cup {None}
  PROVE  JourneyInv'
<1>. DEFINE a == Arrive(s, p)
<1>1. ShowPage(a[1], a[2]) BY DEF Goto
<1>2. Seen(a[1], a[2]) BY ArriveIsSeen DEF JourneyInv, TypeOK
<1>. HIDE DEF a
<1>. QED BY <1>1, <1>2, ShowPageKeeps DEF DraftsGrowWarned

LEMMA DraftsStay ==
  ASSUME TypeOK, drafts' = drafts
  PROVE  DraftsGrowWarned
BY DEF TypeOK, DraftsGrowWarned, NoneUnwarned

LEMMA AnswerKeeps ==
  ASSUME JourneyInv, NEW p, NEW s, NEW next, Answer(p, s, next), Ready(s, next)
  PROVE  JourneyInv'
<1>1. Goto(s, next) /\ drafts' = drafts /\ confirmed' = confirmed /\ submitted' = submitted
  BY DEF Answer
<1>. QED BY <1>1, DraftsStay, GotoKeeps DEF JourneyInv, TypeOK

LEMMA FollowKeeps ==
  ASSUME JourneyInv, Follow
  PROVE  JourneyInv'
<1>1. PICK p \in links : Goto(session, p) /\ UNCHANGED <<drafts, confirmed, submitted>>
  BY DEF Follow
<1>2. Ready(session, p) BY DEF JourneyInv, TypeOK, Ready
<1>. QED BY <1>1, <1>2, DraftsStay, GotoKeeps DEF JourneyInv, TypeOK

LEMMA StartAgainKeeps ==
  ASSUME JourneyInv, StartAgain
  PROVE  JourneyInv'
<1>1. Ready(ResetSession(session), "choose-support")
  BY ResetReady DEF JourneyInv, TypeOK
<1>2. /\ Goto(ResetSession(session), "choose-support") /\ submitted' = None
      /\ drafts' = drafts /\ confirmed' = confirmed
  BY DEF StartAgain
<1>. QED BY <1>1, <1>2, DraftsStay, GotoKeeps DEF JourneyInv, TypeOK

-----------------------------------------------------------------------------
(* What the answers write. *)

LEMMA BookingResetSet ==
  ASSUME NEW s \in SessionData, NEW r, r = ResetBooking(s)
  PROVE  /\ r \in SessionData /\ SameFlags(r, s)
         /\ r.edited = s.edited /\ r.answers = NoAnswers
BY BookingsReset DEF ResetBooking, SessionData, SameFlags

(* Of sign language and voiceover nothing else is written. *)
SameOtherwise(a, b) ==
  /\ a.type = b.type /\ a.centre = b.centre /\ a.slot = b.slot
  /\ a.selected = b.selected /\ a.translator = b.translator
  /\ a.told = b.told /\ a.language = b.language

LEMMA OptionsSet ==
  ASSUME NEW b \in Answers, NEW x \in BOOLEAN, NEW y \in BOOLEAN, NEW a,
         a = [b EXCEPT !.bsl = x, !.voiceover = y]
  PROVE  a \in Answers /\ SameOtherwise(a, b) /\ a.bsl = x /\ a.voiceover = y
<1>1. [b EXCEPT !.bsl = x, !.voiceover = y] \in Answers BY Zenon DEF Answers
<1>2. a \in Answers BY <1>1
<1>. QED BY <1>2 DEF Answers, SameOtherwise

LEMMA OptionSet ==
  ASSUME NEW b \in Answers, NEW x \in BOOLEAN
  PROVE  /\ [b EXCEPT !.bsl = x] \in Answers
         /\ SameOtherwise([b EXCEPT !.bsl = x], b)
         /\ [b EXCEPT !.bsl = x].voiceover = b.voiceover
         /\ [b EXCEPT !.voiceover = x] \in Answers
         /\ SameOtherwise([b EXCEPT !.voiceover = x], b)
         /\ [b EXCEPT !.voiceover = x].bsl = b.bsl
<1>1. [b EXCEPT !.bsl = x] \in Answers BY Zenon DEF Answers
<1>2. [b EXCEPT !.voiceover = x] \in Answers BY Zenon DEF Answers
<1>. QED BY <1>1, <1>2 DEF Answers, SameOtherwise

LEMMA TypeSet ==
  ASSUME NEW s \in SessionData, NEW type \in Types, NEW r, r = ChooseType(s, type)
  PROVE  /\ r \in SessionData /\ ~r.edit /\ ~r.received /\ ~r.shownVoiceover
         /\ r.candidate = s.candidate /\ r.support = s.support /\ r.standard = s.standard
         /\ r.confirming = s.confirming /\ r.lastPage = s.lastPage
         /\ r.edited = s.edited /\ r.answers.type = type
         /\ s.edit => r.answers.selected = None
         /\ ~s.edit => r.answers.selected = s.answers.selected
<1>. DEFINE b == IF s.edit THEN ResetBooking(s) ELSE s
<1>1. b \in SessionData /\ SameFlags(b, s) /\ b.edited = s.edited
  BY BookingResetSet DEF SameFlags
<1>2. /\ s.edit => b.answers.selected = None
      /\ ~s.edit => b.answers.selected = s.answers.selected
  BY BookingResetSet DEF NoAnswers
<1>. HIDE DEF b
<1>3. r = [b EXCEPT !.edit = FALSE, !.received = FALSE, !.shownStandard = FALSE,
                    !.shownVoiceover = FALSE, !.answers.type = type]
  BY Zenon DEF ChooseType, b
<1>4. /\ ~r.edit /\ ~r.received /\ ~r.shownVoiceover
      /\ r.candidate = b.candidate /\ r.support = b.support /\ r.standard = b.standard
      /\ r.confirming = b.confirming /\ r.lastPage = b.lastPage
      /\ r.edited = b.edited /\ r.answers.type = type
      /\ r.answers.selected = b.answers.selected
  BY <1>1, <1>3 DEF SessionData, Answers
<1>5. r \in SessionData BY TypesChosen
<1>. QED BY <1>1, <1>2, <1>4, <1>5 DEF SameFlags

LEMMA TranslatorSet ==
  ASSUME NEW s \in SessionData, NEW r, r = [s EXCEPT !.answers.translator = TRUE]
  PROVE  /\ r \in SessionData /\ SameFlags(r, s) /\ SamePlace(r, s)
         /\ r.edited = s.edited /\ r.answers.told = s.answers.told
         /\ r.answers.selected = s.answers.selected /\ r.answers.translator
         /\ r.answers.language = s.answers.language
<1>1. r \in SessionData BY ZenonT(60) DEF SessionData, Answers
<1>. QED BY <1>1 DEF SessionData, Answers, SameFlags, SamePlace

LEMMA SelectedSet ==
  ASSUME NEW s \in SessionData, NEW selected \in SUBSET SupportTypes, NEW r,
         r = SelectSupport(s, selected)
  PROVE  /\ r \in SessionData /\ ~r.edit /\ ~r.confirming /\ r.edited = s.edited
         /\ r.candidate = s.candidate /\ r.support = s.support /\ r.standard = s.standard
         /\ r.received = s.received /\ r.lastPage = s.lastPage
         /\ r.shownVoiceover = s.shownVoiceover
         /\ r.answers.type = s.answers.type /\ r.answers.selected = selected
<1>. DEFINE a == [s.answers EXCEPT !.selected = selected, !.bsl = "bsl" \in selected,
                   !.voiceover = @ /\ "voiceover" \in selected,
                   !.translator = @ /\ "translator" \in selected /\ "bsl" \notin selected]
<1>1. r \in SessionData BY SupportSelected
<1>2. r = [s EXCEPT !.answers = a, !.confirming = FALSE, !.edit = FALSE]
  BY DEF SelectSupport, SessionData, Answers
<1>3. a.type = s.answers.type /\ a.selected = selected
  BY DEF SessionData, Answers
<1>. HIDE DEF a
<1>. QED BY <1>1, <1>2, <1>3 DEF SessionData

LEMMA DeselectedSet ==
  ASSUME NEW s \in SessionData, NEW r,
         r = [s EXCEPT !.confirming = TRUE, !.answers.selected = None]
  PROVE  /\ r \in SessionData /\ r.edit = s.edit /\ r.confirming /\ r.edited = s.edited
         /\ r.candidate = s.candidate /\ r.support = s.support /\ r.standard = s.standard
         /\ r.received = s.received /\ r.lastPage = s.lastPage
         /\ r.answers.type = s.answers.type /\ r.answers.selected = None
<1>1. r \in SessionData BY ZenonT(60) DEF SessionData, Answers
<1>. QED BY <1>1 DEF SessionData, Answers

LEMMA CentreSet ==
  ASSUME NEW s \in SessionData, NEW c \in Centres, NEW r, r = [s EXCEPT !.answers.centre = c]
  PROVE  /\ r \in SessionData /\ SameFlags(r, s) /\ SameSupport(r, s)
         /\ r.edited = s.edited /\ r.answers.told = s.answers.told
         /\ r.answers.type = s.answers.type /\ r.answers.language = s.answers.language
<1>1. r \in SessionData BY ZenonT(60) DEF SessionData, Answers
<1>. QED BY <1>1 DEF SessionData, Answers, SameFlags, SameSupport

LEMMA EditedCentreSet ==
  ASSUME NEW s \in SessionData, NEW c \in Centres, NEW r, r = [s EXCEPT !.edited.centre = c]
  PROVE  /\ r \in SessionData /\ SameFlags(r, s) /\ r.answers = s.answers
         /\ r.edited.slot = s.edited.slot
<1>1. r \in SessionData BY Zenon DEF SessionData
<1>. QED BY <1>1 DEF SessionData, SameFlags

-----------------------------------------------------------------------------
(* Each answer leads to a page the session it leaves may ask for. *)

LEMMA SupportChosen ==
  ASSUME NEW s, Seen(s, "choose-support")
  PROVE  Ready(ResetBooking([s EXCEPT !.support = TRUE, !.standard = FALSE, !.edit = FALSE]), "test-type")
<1>. DEFINE b == [s EXCEPT !.support = TRUE, !.standard = FALSE, !.edit = FALSE]
<1>0. b \in SessionData BY Zenon DEF Seen, SessionData
<1>a. /\ b.support = TRUE /\ b.standard = FALSE /\ ~b.edit /\ b.candidate = s.candidate
      /\ b.confirming = s.confirming /\ b.lastPage = s.lastPage
      /\ b.received = s.received /\ b.edited = s.edited
  BY <1>0 DEF Seen, SessionData
<1>. HIDE DEF b
<1>. DEFINE r == ResetBooking(b)
<1>1. /\ r \in SessionData
      /\ r.support = TRUE /\ r.standard = FALSE /\ ~r.edit /\ r.candidate = s.candidate
      /\ r.confirming = s.confirming /\ r.lastPage = s.lastPage
      /\ r.received = s.received /\ r.edited = s.edited
      /\ r.answers = NoAnswers
  BY <1>0, <1>a, BookingResetSet DEF Seen, SameFlags
<1>. HIDE DEF r
<1>. USE <1>1, SessionFields
     DEF Seen, Kept, Asked, Shown, Pages, StartPages, StandardPages, SupportPages,
         CommonPages, EitherPages, AnswerPages, LastPages, EditPages, LatePages,
         BookingPages, DynamicPages, Selected, IsStandard, IsNonStandard,
         IsSupportedStandard, NoAnswers
<1>2. PlaceKept(r) /\ PlaceAsked(r, "test-type")
  BY DEF PlaceKept, PlaceAsked, PlaceShown, Settled, SideKept, SideAsked, SideShown
<1>3. SideKept(r) /\ SideAsked(r, "test-type")
  BY DEF SideKept, SideAsked, SideShown, PlaceKept, PlaceAsked, PlaceShown, OnlyOther, Standardable
<1>4. ToldKept(r) /\ ToldAsked(r, "test-type")
  BY DEF ToldKept, ToldAsked, ToldShown, PlaceKept, PlaceAsked, PlaceShown, SideKept, SideAsked, SideShown,
         Told, Voiced, Translated
<1>. QED BY <1>2, <1>3, <1>4 DEF Ready, r, b

LEMMA SupportDeclined ==
  ASSUME NEW s, Seen(s, "choose-support")
  PROVE  Ready(ResetBooking([s EXCEPT !.support = FALSE, !.standard = TRUE, !.edit = FALSE]), "email-contact")
<1>. DEFINE b == [s EXCEPT !.support = FALSE, !.standard = TRUE, !.edit = FALSE]
<1>0. b \in SessionData BY Zenon DEF Seen, SessionData
<1>a. /\ b.support = FALSE /\ b.standard = TRUE /\ ~b.edit /\ b.candidate = s.candidate
      /\ b.confirming = s.confirming /\ b.lastPage = s.lastPage
      /\ b.received = s.received /\ b.edited = s.edited
  BY <1>0 DEF Seen, SessionData
<1>. HIDE DEF b
<1>. DEFINE r == ResetBooking(b)
<1>1. /\ r \in SessionData
      /\ r.support = FALSE /\ r.standard = TRUE /\ ~r.edit /\ r.candidate = s.candidate
      /\ r.confirming = s.confirming /\ r.lastPage = s.lastPage
      /\ r.received = s.received /\ r.edited = s.edited
      /\ r.answers = NoAnswers
  BY <1>0, <1>a, BookingResetSet DEF Seen, SameFlags
<1>. HIDE DEF r
<1>. USE <1>1, SessionFields
     DEF Seen, Kept, Asked, Shown, Pages, StartPages, StandardPages, SupportPages,
         CommonPages, EitherPages, AnswerPages, LastPages, EditPages, LatePages,
         BookingPages, DynamicPages, Selected, IsStandard, IsNonStandard,
         IsSupportedStandard, NoAnswers
<1>2. PlaceKept(r) /\ PlaceAsked(r, "email-contact")
  BY DEF PlaceKept, PlaceAsked, PlaceShown, Settled, SideKept, SideAsked, SideShown
<1>3. SideKept(r) /\ SideAsked(r, "email-contact")
  BY DEF SideKept, SideAsked, SideShown, PlaceKept, PlaceAsked, PlaceShown, OnlyOther, Standardable
<1>4. ToldKept(r) /\ ToldAsked(r, "email-contact")
  BY DEF ToldKept, ToldAsked, ToldShown, PlaceKept, PlaceAsked, PlaceShown, SideKept, SideAsked, SideShown,
         Told, Voiced, Translated
<1>. QED BY <1>2, <1>3, <1>4 DEF Ready, r, b

LEMMA StartChosen ==
  ASSUME NEW s, Seen(s, "choose-support"),
         ~s.edit,
         NEW q \in {"support-alert", "candidate-details"}
  PROVE  Ready([s EXCEPT !.support = FALSE, !.standard = TRUE], q)
<1>. DEFINE r == [s EXCEPT !.support = FALSE, !.standard = TRUE]
<1>1. r \in SessionData BY Zenon DEF Seen, SessionData
<1>. USE <1>1, SessionFields
     DEF Seen, Kept, Asked, Shown, Pages, StartPages, StandardPages, SupportPages,
         CommonPages, EitherPages, AnswerPages, LastPages, EditPages, LatePages,
         BookingPages, DynamicPages, Selected, IsStandard, IsNonStandard,
         IsSupportedStandard
<1>2. PlaceKept(r) /\ PlaceAsked(r, q)
  BY DEF PlaceKept, PlaceAsked, PlaceShown, Settled, SideKept, SideAsked, SideShown
<1>3. SideKept(r) /\ SideAsked(r, q)
  BY DEF SideKept, SideAsked, SideShown, PlaceKept, PlaceAsked, PlaceShown, OnlyOther, Standardable
<1>4. ToldKept(r) /\ ToldAsked(r, q)
  BY DEF ToldKept, ToldAsked, ToldShown, PlaceKept, PlaceAsked, PlaceShown, SideKept, SideAsked, SideShown,
         Told, Voiced, Translated
<1>. QED BY <1>2, <1>3, <1>4 DEF Ready

LEMMA AlertAnswered ==
  ASSUME NEW s, Seen(s, "support-alert")
  PROVE  Ready([s EXCEPT !.support = TRUE, !.standard = FALSE, !.edit = FALSE], "candidate-details")
<1>. DEFINE r == [s EXCEPT !.support = TRUE, !.standard = FALSE, !.edit = FALSE]
<1>1. r \in SessionData BY Zenon DEF Seen, SessionData
<1>. USE <1>1, SessionFields
     DEF Seen, Kept, Asked, Shown, Pages, StartPages, StandardPages, SupportPages,
         CommonPages, EitherPages, AnswerPages, LastPages, EditPages, LatePages,
         BookingPages, DynamicPages, Selected, IsStandard, IsNonStandard,
         IsSupportedStandard
<1>2. PlaceKept(r) /\ PlaceAsked(r, "candidate-details")
  BY DEF PlaceKept, PlaceAsked, PlaceShown, Settled, SideKept, SideAsked, SideShown
<1>3. SideKept(r) /\ SideAsked(r, "candidate-details")
  BY DEF SideKept, SideAsked, SideShown, PlaceKept, PlaceAsked, PlaceShown, OnlyOther, Standardable
<1>4. ToldKept(r) /\ ToldAsked(r, "candidate-details")
  BY DEF ToldKept, ToldAsked, ToldShown, PlaceKept, PlaceAsked, PlaceShown, SideKept, SideAsked, SideShown,
         Told, Voiced, Translated
<1>. QED BY <1>2, <1>3, <1>4 DEF Ready

LEMMA CandidateNamed ==
  ASSUME NEW s, Seen(s, "candidate-details"),
         NEW needs \in BOOLEAN
  PROVE  Ready([s EXCEPT !.candidate = TRUE, !.needs = needs,
                           !.answers.bsl = FALSE, !.answers.voiceover = FALSE], IF s.support THEN "test-type" ELSE "email-contact")
<1>. DEFINE r == [s EXCEPT !.candidate = TRUE, !.needs = needs,
                           !.answers.bsl = FALSE, !.answers.voiceover = FALSE]
<1>. DEFINE a == [s.answers EXCEPT !.bsl = FALSE, !.voiceover = FALSE]
<1>0. s \in SessionData /\ s.answers \in Answers BY SessionFields DEF Seen
<1>a. a \in Answers /\ SameOtherwise(a, s.answers) BY <1>0, OptionsSet
<1>b. r = [s EXCEPT !.candidate = TRUE, !.needs = needs, !.answers = a]
  BY <1>0 DEF SessionData, Answers
<1>. HIDE DEF a, r
<1>c. r \in SessionData BY <1>0, <1>a, <1>b, Zenon DEF SessionData
<1>1. /\ r \in SessionData
      /\ r.candidate /\ r.support = s.support /\ r.standard = s.standard /\ r.edit = s.edit
      /\ r.confirming = s.confirming /\ r.lastPage = s.lastPage
      /\ r.received = s.received /\ r.edited = s.edited
      /\ SameOtherwise(r.answers, s.answers)
  BY <1>0, <1>a, <1>b, <1>c DEF Seen, SessionData
<1>. HIDE DEF r
<1>. USE <1>1, SessionFields
     DEF Seen, Kept, Asked, Shown, Pages, StartPages, StandardPages, SupportPages,
         CommonPages, EitherPages, AnswerPages, LastPages, EditPages, LatePages,
         BookingPages, DynamicPages, Selected, IsStandard, IsNonStandard,
         IsSupportedStandard, SameOtherwise
<1>2. PlaceKept(r) /\ PlaceAsked(r, IF s.support THEN "test-type" ELSE "email-contact")
  BY DEF PlaceKept, PlaceAsked, PlaceShown, Settled, SideKept, SideAsked, SideShown
<1>3. SideKept(r) /\ SideAsked(r, IF s.support THEN "test-type" ELSE "email-contact")
  BY DEF SideKept, SideAsked, SideShown, PlaceKept, PlaceAsked, PlaceShown, OnlyOther, Standardable
<1>4. ToldKept(r) /\ ToldAsked(r, IF s.support THEN "test-type" ELSE "email-contact")
  BY DEF ToldKept, ToldAsked, ToldShown, PlaceKept, PlaceAsked, PlaceShown, SideKept, SideAsked, SideShown,
         Told, Voiced, Translated
<1>. QED BY <1>2, <1>3, <1>4 DEF Ready, r

LEMMA EmailAnswered ==
  ASSUME NEW s, Seen(s, "email-contact"),
         NEW q, q = IF s.edit THEN CheckPage(s)
                    ELSE IF IsStandard(s) THEN "test-type"
                    ELSE IF IsSupportedStandard(s) THEN "find-test-centre"
                    ELSE "telephone-contact"
  PROVE  Ready(s, q)
<1>1. s \in SessionData BY DEF Seen
<1>. USE <1>1, SessionFields, NothingToApply
     DEF Seen, Kept, Asked, Shown, Pages, StartPages, StandardPages, SupportPages,
         CommonPages, EitherPages, AnswerPages, LastPages, EditPages, LatePages,
         BookingPages, DynamicPages, Selected, IsStandard, IsNonStandard,
         IsSupportedStandard, CheckPage
<1>2. PlaceKept(s) /\ PlaceAsked(s, q)
  BY DEF PlaceKept, PlaceAsked, PlaceShown, Settled, SideKept, SideAsked, SideShown
<1>3. SideKept(s) /\ SideAsked(s, q)
  BY DEF SideKept, SideAsked, SideShown, PlaceKept, PlaceAsked, PlaceShown, OnlyOther, Standardable
<1>4. ToldKept(s) /\ ToldAsked(s, q)
  BY DEF ToldKept, ToldAsked, ToldShown, PlaceKept, PlaceAsked, PlaceShown, SideKept, SideAsked, SideShown,
         Told, Voiced, Translated
<1>. QED BY <1>2, <1>3, <1>4 DEF Ready


-----------------------------------------------------------------------------
(* Each answer leads to a page the session it leaves may ask for: the pages *)
(* of the test.                                                             *)

LEMMA TypeAnswered ==
  ASSUME NEW s, Seen(s, "test-type"),
         NEW type \in Types
  PROVE  Ready(ChooseType(s, type), "test-language")
<1>. DEFINE r == ChooseType(s, type)
<1>1. /\ r \in SessionData
      /\ ~r.edit /\ ~r.received /\ ~r.shownVoiceover
      /\ r.candidate = s.candidate /\ r.support = s.support /\ r.standard = s.standard
      /\ r.confirming = s.confirming /\ r.edited = s.edited /\ r.answers.type = type
      /\ r.lastPage = s.lastPage
      /\ s.edit => r.answers.selected = None
      /\ ~s.edit => r.answers.selected = s.answers.selected
  BY TypeSet DEF Seen
<1>. HIDE DEF r
<1>. USE <1>1, SessionFields, NoneIsFresh
     DEF Seen, Kept, Asked, Shown, Pages, StartPages, StandardPages, SupportPages,
         CommonPages, EitherPages, AnswerPages, LastPages, EditPages, LatePages,
         BookingPages, DynamicPages, Selected, IsStandard, IsNonStandard,
         IsSupportedStandard
<1>2. PlaceKept(r) /\ PlaceAsked(r, "test-language")
  BY DEF PlaceKept, PlaceAsked, PlaceShown, Settled, SideKept, SideAsked, SideShown
<1>3. SideKept(r) /\ SideAsked(r, "test-language")
  BY DEF SideKept, SideAsked, SideShown, PlaceKept, PlaceAsked, PlaceShown, OnlyOther, Standardable
<1>4. ToldKept(r) /\ ToldAsked(r, "test-language")
  BY DEF ToldKept, ToldAsked, ToldShown, PlaceKept, PlaceAsked, PlaceShown, SideKept, SideAsked, SideShown,
         Told, Voiced, Translated
<1>. QED BY <1>2, <1>3, <1>4 DEF Ready, r

LEMMA TypeWarned ==
  ASSUME NEW s, Seen(s, "test-type"),
         NEW type \in Types,
         ~IsNonStandard(ChooseType(s, type))
  PROVE  Ready([ChooseType(s, type) EXCEPT !.lastPage = "test-type"], "received-support-request")
<1>. DEFINE b == ChooseType(s, type)
<1>0. b \in SessionData BY TypeSet DEF Seen
<1>a. /\ ~b.edit /\ ~b.received /\ ~b.shownVoiceover
      /\ b.candidate = s.candidate /\ b.support = s.support /\ b.standard = s.standard
      /\ b.confirming = s.confirming /\ b.edited = s.edited /\ b.answers.type = type
      /\ s.edit => b.answers.selected = None
      /\ ~s.edit => b.answers.selected = s.answers.selected
  BY TypeSet DEF Seen
<1>b. ~(b.support /\ ~b.standard) BY DEF IsNonStandard
<1>. HIDE DEF b
<1>. DEFINE r == [b EXCEPT !.lastPage = "test-type"]
<1>c. r \in SessionData BY <1>0, Zenon DEF SessionData
<1>1. /\ r \in SessionData /\ r.lastPage = "test-type" /\ ~IsNonStandard(r)
      /\ ~r.edit /\ ~r.received /\ ~r.shownVoiceover
      /\ r.candidate = s.candidate /\ r.support = s.support /\ r.standard = s.standard
      /\ r.confirming = s.confirming /\ r.edited = s.edited /\ r.answers.type = type
      /\ s.edit => r.answers.selected = None
      /\ ~s.edit => r.answers.selected = s.answers.selected
  BY <1>0, <1>a, <1>b, <1>c DEF Seen, SessionData, IsNonStandard
<1>. HIDE DEF r
<1>. USE <1>1, SessionFields, NoneIsFresh
     DEF Seen, Kept, Asked, Shown, Pages, StartPages, StandardPages, SupportPages,
         CommonPages, EitherPages, AnswerPages, LastPages, EditPages, LatePages,
         BookingPages, DynamicPages, Selected, IsStandard, IsNonStandard,
         IsSupportedStandard
<1>2. PlaceKept(r) /\ PlaceAsked(r, "received-support-request")
  BY DEF PlaceKept, PlaceAsked, PlaceShown, Settled, SideKept, SideAsked, SideShown
<1>3. SideKept(r) /\ SideAsked(r, "received-support-request")
  BY DEF SideKept, SideAsked, SideShown, PlaceKept, PlaceAsked, PlaceShown, OnlyOther, Standardable
<1>4. ToldKept(r) /\ ToldAsked(r, "received-support-request")
  BY DEF ToldKept, ToldAsked, ToldShown, PlaceKept, PlaceAsked, PlaceShown, SideKept, SideAsked, SideShown,
         Told, Voiced, Translated
<1>. QED BY <1>2, <1>3, <1>4 DEF Ready, r, b

LEMMA LanguageAnswered ==
  ASSUME NEW s, Seen(s, "test-language"),
         NEW q, q = IF s.edit THEN CheckPage(s)
                    ELSE IF IsNonStandard(s) THEN "select-support-type"
                    ELSE "select-standard-support"
  PROVE  Ready([s EXCEPT !.answers.language = TRUE], q)
<1>. DEFINE r == [s EXCEPT !.answers.language = TRUE]
<1>1. /\ r \in SessionData
      /\ SameFlags(r, s) /\ SamePlace(r, s) /\ SameSupport(r, s)
      /\ r.edited = s.edited
      /\ r.answers.told = s.answers.told /\ r.answers.language
  BY LanguageSet DEF Seen
<1>. HIDE DEF r
<1>. USE <1>1, SessionFields, NothingToApply
     DEF Seen, Kept, Asked, Shown, Pages, StartPages, StandardPages, SupportPages,
         CommonPages, EitherPages, AnswerPages, LastPages, EditPages, LatePages,
         BookingPages, DynamicPages, Selected, IsStandard, IsNonStandard,
         IsSupportedStandard, SameFlags, SamePlace, SameSupport, CheckPage
<1>2. PlaceKept(r) /\ PlaceAsked(r, q)
  BY DEF PlaceKept, PlaceAsked, PlaceShown, Settled, SideKept, SideAsked, SideShown
<1>3. SideKept(r) /\ SideAsked(r, q)
  BY DEF SideKept, SideAsked, SideShown, PlaceKept, PlaceAsked, PlaceShown, OnlyOther, Standardable
<1>4. ToldKept(r) /\ ToldAsked(r, q)
  BY DEF ToldKept, ToldAsked, ToldShown, PlaceKept, PlaceAsked, PlaceShown, SideKept, SideAsked, SideShown,
         Told, Voiced, Translated
<1>. QED BY <1>2, <1>3, <1>4 DEF Ready, r

LEMMA SignLanguageChosen ==
  ASSUME NEW s, Seen(s, "select-standard-support")
  PROVE  Ready([s EXCEPT !.answers.bsl = TRUE, !.answers.voiceover = FALSE,
                            !.lastPage = "other"], "find-test-centre")
<1>. DEFINE r == [s EXCEPT !.answers.bsl = TRUE, !.answers.voiceover = FALSE,
                            !.lastPage = "other"]
<1>. DEFINE a == [s.answers EXCEPT !.bsl = TRUE, !.voiceover = FALSE]
<1>0. s \in SessionData /\ s.answers \in Answers BY SessionFields DEF Seen
<1>a. a \in Answers /\ SameOtherwise(a, s.answers) BY <1>0, OptionsSet
<1>b. r = [s EXCEPT !.answers = a, !.lastPage = "other"]
  BY <1>0 DEF SessionData, Answers
<1>. HIDE DEF a, r
<1>c. r \in SessionData BY <1>0, <1>a, <1>b, Zenon DEF SessionData
<1>1. /\ r \in SessionData
      /\ r.candidate = s.candidate /\ r.support = s.support /\ r.standard = s.standard
      /\ r.edit = s.edit
      /\ r.confirming = s.confirming /\ r.received = s.received /\ r.edited = s.edited
      /\ SameOtherwise(r.answers, s.answers)
      /\ r.shownVoiceover = s.shownVoiceover
      /\ r.needs = s.needs /\ r.target = s.target
      /\ r.lastPage = "other"
  BY <1>0, <1>a, <1>b, <1>c DEF Seen, SessionData
<1>. HIDE DEF r
<1>. USE <1>1, SessionFields
     DEF Seen, Kept, Asked, Shown, Pages, StartPages, StandardPages, SupportPages,
         CommonPages, EitherPages, AnswerPages, LastPages, EditPages, LatePages,
         BookingPages, DynamicPages, Selected, IsStandard, IsNonStandard,
         IsSupportedStandard, SameOtherwise
<1>2. PlaceKept(r) /\ PlaceAsked(r, "find-test-centre")
  BY DEF PlaceKept, PlaceAsked, PlaceShown, Settled, SideKept, SideAsked, SideShown
<1>3. SideKept(r) /\ SideAsked(r, "find-test-centre")
  BY DEF SideKept, SideAsked, SideShown, PlaceKept, PlaceAsked, PlaceShown, OnlyOther, Standardable
<1>4. ToldKept(r) /\ ToldAsked(r, "find-test-centre")
  BY DEF ToldKept, ToldAsked, ToldShown, PlaceKept, PlaceAsked, PlaceShown, SideKept, SideAsked, SideShown,
         Told, Voiced, Translated
<1>. QED BY <1>2, <1>3, <1>4 DEF Ready, r

LEMMA VoiceoverChosen ==
  ASSUME NEW s, Seen(s, "select-standard-support")
  PROVE  Ready([s EXCEPT !.answers.bsl = FALSE], "change-voiceover")
<1>. DEFINE r == [s EXCEPT !.answers.bsl = FALSE]
<1>. DEFINE a == [s.answers EXCEPT !.bsl = FALSE]
<1>0. s \in SessionData /\ s.answers \in Answers BY SessionFields DEF Seen
<1>a. a \in Answers /\ SameOtherwise(a, s.answers) BY <1>0, OptionSet
<1>b. r = [s EXCEPT !.answers = a]
  BY <1>0 DEF SessionData, Answers
<1>. HIDE DEF a, r
<1>c. r \in SessionData BY <1>0, <1>a, <1>b, Zenon DEF SessionData
<1>1. /\ r \in SessionData
      /\ r.candidate = s.candidate /\ r.support = s.support /\ r.standard = s.standard
      /\ r.edit = s.edit
      /\ r.confirming = s.confirming /\ r.received = s.received /\ r.edited = s.edited
      /\ SameOtherwise(r.answers, s.answers)
      /\ r.shownVoiceover = s.shownVoiceover
      /\ r.needs = s.needs /\ r.target = s.target
      /\ r.lastPage = s.lastPage
  BY <1>0, <1>a, <1>b, <1>c DEF Seen, SessionData
<1>. HIDE DEF r
<1>. USE <1>1, SessionFields
     DEF Seen, Kept, Asked, Shown, Pages, StartPages, StandardPages, SupportPages,
         CommonPages, EitherPages, AnswerPages, LastPages, EditPages, LatePages,
         BookingPages, DynamicPages, Selected, IsStandard, IsNonStandard,
         IsSupportedStandard, SameOtherwise
<1>2. PlaceKept(r) /\ PlaceAsked(r, "change-voiceover")
  BY DEF PlaceKept, PlaceAsked, PlaceShown, Settled, SideKept, SideAsked, SideShown
<1>3. SideKept(r) /\ SideAsked(r, "change-voiceover")
  BY DEF SideKept, SideAsked, SideShown, PlaceKept, PlaceAsked, PlaceShown, OnlyOther, Standardable
<1>4. ToldKept(r) /\ ToldAsked(r, "change-voiceover")
  BY DEF ToldKept, ToldAsked, ToldShown, PlaceKept, PlaceAsked, PlaceShown, SideKept, SideAsked, SideShown,
         Told, Voiced, Translated
<1>. QED BY <1>2, <1>3, <1>4 DEF Ready, r

LEMMA NeitherChosen ==
  ASSUME NEW s, Seen(s, "select-standard-support")
  PROVE  Ready([s EXCEPT !.answers.bsl = FALSE, !.answers.voiceover = FALSE,
                            !.edit = FALSE, !.lastPage = "other"], "find-test-centre")
<1>. DEFINE r == [s EXCEPT !.answers.bsl = FALSE, !.answers.voiceover = FALSE,
                            !.edit = FALSE, !.lastPage = "other"]
<1>. DEFINE a == [s.answers EXCEPT !.bsl = FALSE, !.voiceover = FALSE]
<1>0. s \in SessionData /\ s.answers \in Answers BY SessionFields DEF Seen
<1>a. a \in Answers /\ SameOtherwise(a, s.answers) BY <1>0, OptionsSet
<1>b. r = [s EXCEPT !.answers = a, !.edit = FALSE, !.lastPage = "other"]
  BY <1>0 DEF SessionData, Answers
<1>. HIDE DEF a, r
<1>c. r \in SessionData BY <1>0, <1>a, <1>b, Zenon DEF SessionData
<1>1. /\ r \in SessionData
      /\ r.candidate = s.candidate /\ r.support = s.support /\ r.standard = s.standard
      /\ ~r.edit
      /\ r.confirming = s.confirming /\ r.received = s.received /\ r.edited = s.edited
      /\ SameOtherwise(r.answers, s.answers)
      /\ r.shownVoiceover = s.shownVoiceover
      /\ r.needs = s.needs /\ r.target = s.target
      /\ r.lastPage = "other"
  BY <1>0, <1>a, <1>b, <1>c DEF Seen, SessionData
<1>. HIDE DEF r
<1>. USE <1>1, SessionFields
     DEF Seen, Kept, Asked, Shown, Pages, StartPages, StandardPages, SupportPages,
         CommonPages, EitherPages, AnswerPages, LastPages, EditPages, LatePages,
         BookingPages, DynamicPages, Selected, IsStandard, IsNonStandard,
         IsSupportedStandard, SameOtherwise
<1>2. PlaceKept(r) /\ PlaceAsked(r, "find-test-centre")
  BY DEF PlaceKept, PlaceAsked, PlaceShown, Settled, SideKept, SideAsked, SideShown
<1>3. SideKept(r) /\ SideAsked(r, "find-test-centre")
  BY DEF SideKept, SideAsked, SideShown, PlaceKept, PlaceAsked, PlaceShown, OnlyOther, Standardable
<1>4. ToldKept(r) /\ ToldAsked(r, "find-test-centre")
  BY DEF ToldKept, ToldAsked, ToldShown, PlaceKept, PlaceAsked, PlaceShown, SideKept, SideAsked, SideShown,
         Told, Voiced, Translated
<1>. QED BY <1>2, <1>3, <1>4 DEF Ready, r

LEMMA VoiceoverEdited ==
  ASSUME NEW s, Seen(s, "change-voiceover"),
         NEW wanted \in BOOLEAN,
         s.edit,
         NEW q, q = IF IsNonStandard(s) THEN "check-your-details"
                    ELSE "check-your-answers"
  PROVE  Ready([s EXCEPT !.shownVoiceover = TRUE, !.answers.voiceover = wanted], q)
<1>. DEFINE r == [s EXCEPT !.shownVoiceover = TRUE, !.answers.voiceover = wanted]
<1>. DEFINE a == [s.answers EXCEPT !.voiceover = wanted]
<1>0. s \in SessionData /\ s.answers \in Answers BY SessionFields DEF Seen
<1>a. a \in Answers /\ SameOtherwise(a, s.answers) BY <1>0, OptionSet
<1>b. r = [s EXCEPT !.shownVoiceover = TRUE, !.answers = a]
  BY <1>0 DEF SessionData, Answers
<1>. HIDE DEF a, r
<1>c. r \in SessionData BY <1>0, <1>a, <1>b, Zenon DEF SessionData
<1>1. /\ r \in SessionData
      /\ r.candidate = s.candidate /\ r.support = s.support /\ r.standard = s.standard
      /\ r.edit = s.edit
      /\ r.confirming = s.confirming /\ r.received = s.received /\ r.edited = s.edited
      /\ SameOtherwise(r.answers, s.answers)
      /\ r.shownVoiceover
      /\ r.needs = s.needs /\ r.target = s.target
      /\ r.lastPage = s.lastPage
  BY <1>0, <1>a, <1>b, <1>c DEF Seen, SessionData
<1>. HIDE DEF r
<1>. USE <1>1, SessionFields, NothingToApply
     DEF Seen, Kept, Asked, Shown, Pages, StartPages, StandardPages, SupportPages,
         CommonPages, EitherPages, AnswerPages, LastPages, EditPages, LatePages,
         BookingPages, DynamicPages, Selected, IsStandard, IsNonStandard,
         IsSupportedStandard, SameOtherwise
<1>2. PlaceKept(r) /\ PlaceAsked(r, q)
  BY DEF PlaceKept, PlaceAsked, PlaceShown, Settled, SideKept, SideAsked, SideShown
<1>3. SideKept(r) /\ SideAsked(r, q)
  BY DEF SideKept, SideAsked, SideShown, PlaceKept, PlaceAsked, PlaceShown, OnlyOther, Standardable
<1>4. ToldKept(r) /\ ToldAsked(r, q)
  BY DEF ToldKept, ToldAsked, ToldShown, PlaceKept, PlaceAsked, PlaceShown, SideKept, SideAsked, SideShown,
         Told, Voiced, Translated
<1>. QED BY <1>2, <1>3, <1>4 DEF Ready, r

LEMMA VoiceoverAnswered ==
  ASSUME NEW s, Seen(s, "change-voiceover"),
         NEW wanted \in BOOLEAN,
         ~s.edit,
         ~IsNonStandard(s)
  PROVE  Ready([s EXCEPT !.shownVoiceover = TRUE, !.answers.voiceover = wanted,
                   !.lastPage = "other"], "find-test-centre")
<1>. DEFINE r == [s EXCEPT !.shownVoiceover = TRUE, !.answers.voiceover = wanted,
                   !.lastPage = "other"]
<1>. DEFINE a == [s.answers EXCEPT !.voiceover = wanted]
<1>0. s \in SessionData /\ s.answers \in Answers BY SessionFields DEF Seen
<1>a. a \in Answers /\ SameOtherwise(a, s.answers) BY <1>0, OptionSet
<1>b. r = [s EXCEPT !.shownVoiceover = TRUE, !.answers = a, !.lastPage = "other"]
  BY <1>0 DEF SessionData, Answers
<1>. HIDE DEF a, r
<1>c. r \in SessionData BY <1>0, <1>a, <1>b, Zenon DEF SessionData
<1>1. /\ r \in SessionData
      /\ r.candidate = s.candidate /\ r.support = s.support /\ r.standard = s.standard
      /\ r.edit = s.edit
      /\ r.confirming = s.confirming /\ r.received = s.received /\ r.edited = s.edited
      /\ SameOtherwise(r.answers, s.answers)
      /\ r.shownVoiceover
      /\ r.needs = s.needs /\ r.target = s.target
      /\ r.lastPage = "other"
  BY <1>0, <1>a, <1>b, <1>c DEF Seen, SessionData
<1>. HIDE DEF r
<1>. USE <1>1, SessionFields
     DEF Seen, Kept, Asked, Shown, Pages, StartPages, StandardPages, SupportPages,
         CommonPages, EitherPages, AnswerPages, LastPages, EditPages, LatePages,
         BookingPages, DynamicPages, Selected, IsStandard, IsNonStandard,
         IsSupportedStandard, SameOtherwise
<1>2. PlaceKept(r) /\ PlaceAsked(r, "find-test-centre")
  BY DEF PlaceKept, PlaceAsked, PlaceShown, Settled, SideKept, SideAsked, SideShown
<1>3. SideKept(r) /\ SideAsked(r, "find-test-centre")
  BY DEF SideKept, SideAsked, SideShown, PlaceKept, PlaceAsked, PlaceShown, OnlyOther, Standardable
<1>4. ToldKept(r) /\ ToldAsked(r, "find-test-centre")
  BY DEF ToldKept, ToldAsked, ToldShown, PlaceKept, PlaceAsked, PlaceShown, SideKept, SideAsked, SideShown,
         Told, Voiced, Translated
<1>. QED BY <1>2, <1>3, <1>4 DEF Ready, r


-----------------------------------------------------------------------------
(* The pages of the support. *)

(* The page the navigator leads to next may be asked for, when what the *)
(* pages up to this one ask has been answered.                          *)
LEMMA NextPageReady ==
  ASSUME NEW s \in SessionData, Kept(s), NEW p, NEW routes \in Routes(s),
         IsNonStandard(s), ~s.edit, s.answers.type # None, s.edited.slot = None,
         ~s.received /\ p \in DynamicPages => Voiced(s),
         ~s.received /\ p \in {"translator", "custom-support"} => Translated(s)
  PROVE  Ready(s, NextPage(s, p, routes))
<1>. DEFINE next == NextPage(s, p, routes)
<1>0. routes \in SUBSET DynamicPages /\ (Selected(s) => routes = OwnPages(s))
  BY RoutesAreOwn
<1>1. /\ next \in routes \cup {"leaving-nsa", "staying-nsa"}
      /\ \A x \in routes :
           next \notin routes \/ Position[x] < Position[next] =>
             p \in routes /\ Position[x] <= Position[p]
      /\ next = "leaving-nsa" /\ Selected(s) => IsOnlyStandardSupport(s.answers.selected)
  BY <1>0, NextIs
<1>2. next \in DynamicPages \cup {"leaving-nsa", "staying-nsa"}
  BY <1>0, <1>1
<1>. HIDE DEF next
<1>3. ~s.received /\ next \in {"translator", "custom-support", "leaving-nsa", "staying-nsa"}
        => Voiced(s)
  <2>. SUFFICES ASSUME ~s.received, next \in {"translator", "custom-support", "leaving-nsa", "staying-nsa"},
                       Selected(s), "voiceover" \in s.answers.selected
                PROVE  p \in DynamicPages
    BY DEF Voiced
  <2>1. "change-voiceover" \in routes
    BY <1>0 DEF OwnPages, DynamicPages, OptionOf
  <2>2. next \notin routes \/ Position["change-voiceover"] < Position[next]
    BY <1>0, PositionIs DEF DynamicPages
  <2>. QED BY <1>0, <1>1, <2>1, <2>2
<1>4. ~s.received /\ next \in {"custom-support", "leaving-nsa", "staying-nsa"}
        => Translated(s)
  <2>. SUFFICES ASSUME ~s.received, next \in {"custom-support", "leaving-nsa", "staying-nsa"},
                       Selected(s), "translator" \in s.answers.selected
                PROVE  p \in {"translator", "custom-support"}
    BY DEF Translated
  <2>1. "translator" \in routes
    BY <1>0 DEF OwnPages, DynamicPages, OptionOf
  <2>2. next \notin routes \/ Position["translator"] < Position[next]
    BY <1>0, PositionIs DEF DynamicPages
  <2>3. p \in DynamicPages /\ Position["translator"] <= Position[p]
    BY <1>0, <1>1, <2>1, <2>2
  <2>. QED BY <2>3, PositionIs DEF DynamicPages
<1>5. next \in DynamicPages /\ Selected(s) => next \in OwnPages(s)
  BY <1>0, <1>1 DEF DynamicPages
<1>6. next = "leaving-nsa" => Standardable(s)
  BY <1>1 DEF Standardable, IsOnlyStandardSupport, NonStandardSupport
<1>. USE <1>2, SessionFields
     DEF Kept, Asked, Pages, SupportPages, StandardPages, CommonPages, EitherPages, AnswerPages,
         LatePages, BookingPages, DynamicPages, IsNonStandard, IsSupportedStandard
<1>7. PlaceAsked(s, next) BY DEF PlaceAsked
<1>8. SideAsked(s, next) BY <1>5, <1>6 DEF SideAsked
<1>9. ToldAsked(s, next) BY <1>3, <1>4 DEF ToldAsked
<1>. QED BY <1>7, <1>8, <1>9 DEF Ready, next

LEMMA VoiceoverNext ==
  ASSUME NEW s, Seen(s, "change-voiceover"),
         NEW wanted \in BOOLEAN,
         ~s.edit,
         IsNonStandard(s),
         NEW routes \in Routes(s)
  PROVE  Ready([s EXCEPT !.shownVoiceover = TRUE, !.answers.voiceover = wanted], NextPage([s EXCEPT !.shownVoiceover = TRUE, !.answers.voiceover = wanted], "change-voiceover", routes))
<1>. DEFINE r == [s EXCEPT !.shownVoiceover = TRUE, !.answers.voiceover = wanted]
<1>. DEFINE a == [s.answers EXCEPT !.voiceover = wanted]
<1>0. s \in SessionData /\ s.answers \in Answers BY SessionFields DEF Seen
<1>a. a \in Answers /\ SameOtherwise(a, s.answers) BY <1>0, OptionSet
<1>b. r = [s EXCEPT !.shownVoiceover = TRUE, !.answers = a]
  BY <1>0 DEF SessionData, Answers
<1>. HIDE DEF a, r
<1>c. r \in SessionData BY <1>0, <1>a, <1>b, Zenon DEF SessionData
<1>1. /\ r \in SessionData
      /\ r.candidate = s.candidate /\ r.support = s.support /\ r.standard = s.standard
      /\ r.edit = s.edit
      /\ r.confirming = s.confirming /\ r.received = s.received /\ r.edited = s.edited
      /\ SameOtherwise(r.answers, s.answers)
      /\ r.shownVoiceover
      /\ r.needs = s.needs /\ r.target = s.target
      /\ r.lastPage = s.lastPage
  BY <1>0, <1>a, <1>b, <1>c DEF Seen, SessionData
<1>. HIDE DEF r
<1>. USE <1>1, SessionFields
     DEF Seen, Kept, Asked, Shown, Pages, StartPages, StandardPages, SupportPages,
         CommonPages, EitherPages, AnswerPages, LastPages, EditPages, LatePages,
         BookingPages, DynamicPages, Selected, IsStandard, IsNonStandard,
         IsSupportedStandard, SameOtherwise
<1>2. PlaceKept(r) /\ IsNonStandard(r) /\ ~r.edit
      /\ r.answers.type # None /\ r.edited.slot = None
  BY DEF PlaceKept, PlaceAsked, PlaceShown, SideAsked, SideShown
<1>3. SideKept(r) /\ ToldKept(r)
  BY <1>2 DEF SideKept, ToldKept, SideAsked, SideShown, OnlyOther
<1>4. ~r.received => Voiced(r)
  BY DEF ToldAsked, Voiced, Translated
<1>5. routes \in Routes(r)
  BY DEF Routes, OwnPages
<1>. QED
  <2>1. Kept(r) BY <1>2, <1>3
  <2>. QED BY <1>1, <1>2, <1>4, <1>5, <2>1, NextPageReady DEF r

LEMMA TranslatorNext ==
  ASSUME NEW s, Seen(s, "translator"),
         ~s.edit,
         NEW routes \in Routes(s)
  PROVE  Ready([s EXCEPT !.answers.translator = TRUE], NextPage([s EXCEPT !.answers.translator = TRUE], "translator", routes))
<1>. DEFINE r == [s EXCEPT !.answers.translator = TRUE]
<1>1. /\ r \in SessionData
      /\ SameFlags(r, s) /\ SamePlace(r, s)
      /\ r.edited = s.edited /\ r.answers.told = s.answers.told
      /\ r.answers.selected = s.answers.selected /\ r.answers.translator
  BY TranslatorSet DEF Seen
<1>. HIDE DEF r
<1>. USE <1>1, SessionFields
     DEF Seen, Kept, Asked, Shown, Pages, StartPages, StandardPages, SupportPages,
         CommonPages, EitherPages, AnswerPages, LastPages, EditPages, LatePages,
         BookingPages, DynamicPages, Selected, IsStandard, IsNonStandard,
         IsSupportedStandard, SameFlags, SamePlace
<1>2. PlaceKept(r) /\ IsNonStandard(r) /\ ~r.edit
      /\ r.answers.type # None /\ r.edited.slot = None
  BY DEF PlaceKept, PlaceAsked, PlaceShown, SideAsked, SideShown
<1>3. SideKept(r) /\ ToldKept(r)
  BY <1>2 DEF SideKept, ToldKept, SideAsked, SideShown, OnlyOther
<1>4. ~r.received => Voiced(r) /\ Translated(r)
  BY DEF ToldAsked, Voiced, Translated
<1>5. routes \in Routes(r)
  BY DEF Routes, OwnPages
<1>. QED
  <2>1. Kept(r) BY <1>2, <1>3
  <2>. QED BY <1>1, <1>2, <1>4, <1>5, <2>1, NextPageReady DEF r

LEMMA CustomSupportNext ==
  ASSUME NEW s, Seen(s, "custom-support"),
         ~s.edit
  PROVE  Ready(s, NextPage(s, "custom-support", OwnPages(s)))
<1>1. s \in SessionData BY DEF Seen
<1>. USE <1>1, SessionFields
     DEF Seen, Kept, Asked, Shown, Pages, StartPages, StandardPages, SupportPages,
         CommonPages, EitherPages, AnswerPages, LastPages, EditPages, LatePages,
         BookingPages, DynamicPages, Selected, IsStandard, IsNonStandard,
         IsSupportedStandard
<1>2. PlaceKept(s) /\ IsNonStandard(s) /\ ~s.edit
      /\ s.answers.type # None /\ s.edited.slot = None
  BY DEF PlaceKept, PlaceAsked, PlaceShown, SideAsked, SideShown
<1>3. SideKept(s) /\ ToldKept(s)
  BY <1>2 DEF SideKept, ToldKept, SideAsked, SideShown, OnlyOther
<1>4. ~s.received => Voiced(s) /\ Translated(s)
  BY DEF ToldAsked, Voiced, Translated
<1>5. OwnPages(s) \in Routes(s)
  BY DEF Routes, SideShown
<1>. QED
  <2>1. Kept(s) BY <1>2, <1>3
  <2>. QED BY <1>1, <1>2, <1>4, <1>5, <2>1, NextPageReady

LEMMA SupportNext ==
  ASSUME NEW s, Seen(s, "select-support-type"),
         NEW selected \in SUBSET SupportTypes
  PROVE  Ready(SelectSupport(s, selected), NextPage(SelectSupport(s, selected), "select-support-type", OwnPages(SelectSupport(s, selected))))
<1>. DEFINE r == SelectSupport(s, selected)
<1>1. /\ r \in SessionData
      /\ ~r.edit /\ ~r.confirming /\ r.edited = s.edited
      /\ r.candidate = s.candidate /\ r.support = s.support /\ r.standard = s.standard
      /\ r.answers.type = s.answers.type /\ r.answers.selected = selected
  BY SelectedSet DEF Seen
<1>. HIDE DEF r
<1>. USE <1>1, SessionFields, NoneIsFresh
     DEF Seen, Kept, Asked, Shown, Pages, StartPages, StandardPages, SupportPages,
         CommonPages, EitherPages, AnswerPages, LastPages, EditPages, LatePages,
         BookingPages, DynamicPages, Selected, IsStandard, IsNonStandard,
         IsSupportedStandard
<1>2. PlaceKept(r) /\ IsNonStandard(r) /\ ~r.edit
      /\ r.answers.type # None /\ r.edited.slot = None
  BY DEF PlaceKept, PlaceAsked, PlaceShown, SideAsked, SideShown
<1>3. SideKept(r) /\ ToldKept(r)
  BY <1>2 DEF SideKept, ToldKept, SideAsked, SideShown, OnlyOther
<1>4. "select-support-type" \notin DynamicPages OBVIOUS
<1>5. OwnPages(r) \in Routes(r)
  BY DEF Routes, SideShown
<1>. QED
  <2>1. Kept(r) BY <1>2, <1>3
  <2>. QED BY <1>1, <1>2, <1>4, <1>5, <2>1, NextPageReady DEF r

LEMMA TranslatorEdited ==
  ASSUME NEW s, Seen(s, "translator"),
         s.edit
  PROVE  Ready([s EXCEPT !.answers.translator = TRUE], "check-your-details")
<1>. DEFINE r == [s EXCEPT !.answers.translator = TRUE]
<1>1. /\ r \in SessionData
      /\ SameFlags(r, s) /\ SamePlace(r, s)
      /\ r.edited = s.edited /\ r.answers.told = s.answers.told
      /\ r.answers.selected = s.answers.selected /\ r.answers.translator
  BY TranslatorSet DEF Seen
<1>. HIDE DEF r
<1>. USE <1>1, SessionFields
     DEF Seen, Kept, Asked, Shown, Pages, StartPages, StandardPages, SupportPages,
         CommonPages, EitherPages, AnswerPages, LastPages, EditPages, LatePages,
         BookingPages, DynamicPages, Selected, IsStandard, IsNonStandard,
         IsSupportedStandard, SameFlags, SamePlace
<1>2. PlaceKept(r) /\ PlaceAsked(r, "check-your-details")
  BY DEF PlaceKept, PlaceAsked, PlaceShown, Settled, SideKept, SideAsked, SideShown
<1>3. SideKept(r) /\ SideAsked(r, "check-your-details")
  BY DEF SideKept, SideAsked, SideShown, PlaceKept, PlaceAsked, PlaceShown, OnlyOther, Standardable
<1>4. ToldKept(r) /\ ToldAsked(r, "check-your-details")
  BY DEF ToldKept, ToldAsked, ToldShown, PlaceKept, PlaceAsked, PlaceShown, SideKept, SideAsked, SideShown,
         Told, Voiced, Translated
<1>. QED BY <1>2, <1>3, <1>4 DEF Ready, r

LEMMA CustomSupportEdited ==
  ASSUME NEW s, Seen(s, "custom-support"),
         s.edit
  PROVE  Ready(s, "check-your-details")
<1>1. s \in SessionData BY DEF Seen
<1>. USE <1>1, SessionFields
     DEF Seen, Kept, Asked, Shown, Pages, StartPages, StandardPages, SupportPages,
         CommonPages, EitherPages, AnswerPages, LastPages, EditPages, LatePages,
         BookingPages, DynamicPages, Selected, IsStandard, IsNonStandard,
         IsSupportedStandard
<1>2. PlaceKept(s) /\ PlaceAsked(s, "check-your-details")
  BY DEF PlaceKept, PlaceAsked, PlaceShown, Settled, SideKept, SideAsked, SideShown
<1>3. SideKept(s) /\ SideAsked(s, "check-your-details")
  BY DEF SideKept, SideAsked, SideShown, PlaceKept, PlaceAsked, PlaceShown, OnlyOther, Standardable
<1>4. ToldKept(s) /\ ToldAsked(s, "check-your-details")
  BY DEF ToldKept, ToldAsked, ToldShown, PlaceKept, PlaceAsked, PlaceShown, SideKept, SideAsked, SideShown,
         Told, Voiced, Translated
<1>. QED BY <1>2, <1>3, <1>4 DEF Ready

LEMMA CustomSupportSkipped ==
  ASSUME NEW s, Seen(s, "custom-support"),
         s.answers.selected \cap NonStandardSupport = {},
         NEW q, q = SkipCustomSupport(s.answers.selected)
  PROVE  Ready([s EXCEPT !.edit = FALSE], q)
<1>. DEFINE r == [s EXCEPT !.edit = FALSE]
<1>1. r \in SessionData BY Zenon DEF Seen, SessionData
<1>. USE <1>1, SessionFields
     DEF Seen, Kept, Asked, Shown, Pages, StartPages, StandardPages, SupportPages,
         CommonPages, EitherPages, AnswerPages, LastPages, EditPages, LatePages,
         BookingPages, DynamicPages, Selected, IsStandard, IsNonStandard,
         IsSupportedStandard, SkipCustomSupport
<1>2. PlaceKept(r) /\ PlaceAsked(r, q)
  BY DEF PlaceKept, PlaceAsked, PlaceShown, Settled, SideKept, SideAsked, SideShown
<1>3. SideKept(r) /\ SideAsked(r, q)
  BY DEF SideKept, SideAsked, SideShown, PlaceKept, PlaceAsked, PlaceShown, OnlyOther, Standardable
<1>4. ToldKept(r) /\ ToldAsked(r, q)
  BY DEF ToldKept, ToldAsked, ToldShown, PlaceKept, PlaceAsked, PlaceShown, SideKept, SideAsked, SideShown,
         Told, Voiced, Translated
<1>. QED BY <1>2, <1>3, <1>4 DEF Ready

LEMMA SupportDenied ==
  ASSUME NEW s, Seen(s, "confirm-support")
  PROVE  Ready([s EXCEPT !.confirming = TRUE, !.answers.selected = None], "select-support-type")
<1>. DEFINE r == [s EXCEPT !.confirming = TRUE, !.answers.selected = None]
<1>1. /\ r \in SessionData
      /\ r.edit = s.edit /\ r.confirming /\ r.edited = s.edited
      /\ r.candidate = s.candidate /\ r.support = s.support /\ r.standard = s.standard
      /\ r.answers.type = s.answers.type /\ r.answers.selected = None
  BY DeselectedSet DEF Seen
<1>. HIDE DEF r
<1>. USE <1>1, SessionFields
     DEF Seen, Kept, Asked, Shown, Pages, StartPages, StandardPages, SupportPages,
         CommonPages, EitherPages, AnswerPages, LastPages, EditPages, LatePages,
         BookingPages, DynamicPages, Selected, IsStandard, IsNonStandard,
         IsSupportedStandard
<1>2. PlaceKept(r) /\ PlaceAsked(r, "select-support-type")
  BY DEF PlaceKept, PlaceAsked, PlaceShown, Settled, SideKept, SideAsked, SideShown
<1>3. SideKept(r) /\ SideAsked(r, "select-support-type")
  BY DEF SideKept, SideAsked, SideShown, PlaceKept, PlaceAsked, PlaceShown, OnlyOther, Standardable
<1>4. ToldKept(r) /\ ToldAsked(r, "select-support-type")
  BY DEF ToldKept, ToldAsked, ToldShown, PlaceKept, PlaceAsked, PlaceShown, SideKept, SideAsked, SideShown,
         Told, Voiced, Translated
<1>. QED BY <1>2, <1>3, <1>4 DEF Ready, r

LEMMA SupportConfirmed ==
  ASSUME NEW s, Seen(s, "confirm-support"),
         NEW q \in {"leaving-nsa", "staying-nsa"}
  PROVE  Ready([s EXCEPT !.confirming = TRUE], q)
<1>. DEFINE r == [s EXCEPT !.confirming = TRUE]
<1>1. r \in SessionData BY Zenon DEF Seen, SessionData
<1>. USE <1>1, SessionFields
     DEF Seen, Kept, Asked, Shown, Pages, StartPages, StandardPages, SupportPages,
         CommonPages, EitherPages, AnswerPages, LastPages, EditPages, LatePages,
         BookingPages, DynamicPages, Selected, IsStandard, IsNonStandard,
         IsSupportedStandard, NonStandardSupport, OnlyOther
<1>2. PlaceKept(r) /\ PlaceAsked(r, q)
  BY DEF PlaceKept, PlaceAsked, PlaceShown, Settled, SideKept, SideAsked, SideShown
<1>3. SideKept(r) /\ SideAsked(r, q)
  BY DEF SideKept, SideAsked, SideShown, PlaceKept, PlaceAsked, PlaceShown, OnlyOther, Standardable
<1>4. ToldKept(r) /\ ToldAsked(r, q)
  BY DEF ToldKept, ToldAsked, ToldShown, PlaceKept, PlaceAsked, PlaceShown, SideKept, SideAsked, SideShown,
         Told, Voiced, Translated
<1>. QED BY <1>2, <1>3, <1>4 DEF Ready

LEMMA SupportLeft ==
  ASSUME NEW s, Seen(s, "leaving-nsa"),
         NEW q \in {"received-support-request", "email-contact"}
  PROVE  Ready([s EXCEPT !.standard = TRUE, !.lastPage = "leaving-nsa"], q)
<1>. DEFINE r == [s EXCEPT !.standard = TRUE, !.lastPage = "leaving-nsa"]
<1>1. r \in SessionData BY Zenon DEF Seen, SessionData
<1>. USE <1>1, SessionFields
     DEF Seen, Kept, Asked, Shown, Pages, StartPages, StandardPages, SupportPages,
         CommonPages, EitherPages, AnswerPages, LastPages, EditPages, LatePages,
         BookingPages, DynamicPages, Selected, IsStandard, IsNonStandard,
         IsSupportedStandard
<1>2. PlaceKept(r) /\ PlaceAsked(r, q)
  BY DEF PlaceKept, PlaceAsked, PlaceShown, Settled, SideKept, SideAsked, SideShown
<1>3. SideKept(r) /\ SideAsked(r, q)
  BY DEF SideKept, SideAsked, SideShown, PlaceKept, PlaceAsked, PlaceShown, OnlyOther, Standardable
<1>4. ToldKept(r) /\ ToldAsked(r, q)
  BY DEF ToldKept, ToldAsked, ToldShown, PlaceKept, PlaceAsked, PlaceShown, SideKept, SideAsked, SideShown,
         Told, Voiced, Translated
<1>. QED BY <1>2, <1>3, <1>4 DEF Ready

LEMMA SupportStayed ==
  ASSUME NEW s, Seen(s, "leaving-nsa"),
         NEW q \in {"duplicate-support-request", "staying-nsa"}
  PROVE  Ready([s EXCEPT !.standard = FALSE, !.lastPage = "leaving-nsa"], q)
<1>. DEFINE r == [s EXCEPT !.standard = FALSE, !.lastPage = "leaving-nsa"]
<1>1. r \in SessionData BY Zenon DEF Seen, SessionData
<1>. USE <1>1, SessionFields
     DEF Seen, Kept, Asked, Shown, Pages, StartPages, StandardPages, SupportPages,
         CommonPages, EitherPages, AnswerPages, LastPages, EditPages, LatePages,
         BookingPages, DynamicPages, Selected, IsStandard, IsNonStandard,
         IsSupportedStandard
<1>2. PlaceKept(r) /\ PlaceAsked(r, q)
  BY DEF PlaceKept, PlaceAsked, PlaceShown, Settled, SideKept, SideAsked, SideShown
<1>3. SideKept(r) /\ SideAsked(r, q)
  BY DEF SideKept, SideAsked, SideShown, PlaceKept, PlaceAsked, PlaceShown, OnlyOther, Standardable
<1>4. ToldKept(r) /\ ToldAsked(r, q)
  BY DEF ToldKept, ToldAsked, ToldShown, PlaceKept, PlaceAsked, PlaceShown, SideKept, SideAsked, SideShown,
         Told, Voiced, Translated
<1>. QED BY <1>2, <1>3, <1>4 DEF Ready

LEMMA DayAnswered ==
  ASSUME NEW s, Seen(s, "preferred-day"),
         NEW q, q = IF s.edit THEN "check-your-details" ELSE "preferred-location"
  PROVE  Ready(s, q)
<1>1. s \in SessionData BY DEF Seen
<1>. USE <1>1, SessionFields
     DEF Seen, Kept, Asked, Shown, Pages, StartPages, StandardPages, SupportPages,
         CommonPages, EitherPages, AnswerPages, LastPages, EditPages, LatePages,
         BookingPages, DynamicPages, Selected, IsStandard, IsNonStandard,
         IsSupportedStandard
<1>2. PlaceKept(s) /\ PlaceAsked(s, q)
  BY DEF PlaceKept, PlaceAsked, PlaceShown, Settled, SideKept, SideAsked, SideShown
<1>3. SideKept(s) /\ SideAsked(s, q)
  BY DEF SideKept, SideAsked, SideShown, PlaceKept, PlaceAsked, PlaceShown, OnlyOther, Standardable
<1>4. ToldKept(s) /\ ToldAsked(s, q)
  BY DEF ToldKept, ToldAsked, ToldShown, PlaceKept, PlaceAsked, PlaceShown, SideKept, SideAsked, SideShown,
         Told, Voiced, Translated
<1>. QED BY <1>2, <1>3, <1>4 DEF Ready

LEMMA LocationAnswered ==
  ASSUME NEW s, Seen(s, "preferred-location"),
         NEW q, q = IF s.edit THEN "check-your-details" ELSE "email-contact"
  PROVE  Ready(s, q)
<1>1. s \in SessionData BY DEF Seen
<1>. USE <1>1, SessionFields
     DEF Seen, Kept, Asked, Shown, Pages, StartPages, StandardPages, SupportPages,
         CommonPages, EitherPages, AnswerPages, LastPages, EditPages, LatePages,
         BookingPages, DynamicPages, Selected, IsStandard, IsNonStandard,
         IsSupportedStandard
<1>2. PlaceKept(s) /\ PlaceAsked(s, q)
  BY DEF PlaceKept, PlaceAsked, PlaceShown, Settled, SideKept, SideAsked, SideShown
<1>3. SideKept(s) /\ SideAsked(s, q)
  BY DEF SideKept, SideAsked, SideShown, PlaceKept, PlaceAsked, PlaceShown, OnlyOther, Standardable
<1>4. ToldKept(s) /\ ToldAsked(s, q)
  BY DEF ToldKept, ToldAsked, ToldShown, PlaceKept, PlaceAsked, PlaceShown, SideKept, SideAsked, SideShown,
         Told, Voiced, Translated
<1>. QED BY <1>2, <1>3, <1>4 DEF Ready

LEMMA TelephoneSkipped ==
  ASSUME NEW s, Seen(s, "telephone-contact")
  PROVE  Ready([s EXCEPT !.edit = FALSE], "voicemail")
<1>. DEFINE r == [s EXCEPT !.edit = FALSE]
<1>1. r \in SessionData BY Zenon DEF Seen, SessionData
<1>. USE <1>1, SessionFields
     DEF Seen, Kept, Asked, Shown, Pages, StartPages, StandardPages, SupportPages,
         CommonPages, EitherPages, AnswerPages, LastPages, EditPages, LatePages,
         BookingPages, DynamicPages, Selected, IsStandard, IsNonStandard,
         IsSupportedStandard
<1>2. PlaceKept(r) /\ PlaceAsked(r, "voicemail")
  BY DEF PlaceKept, PlaceAsked, PlaceShown, Settled, SideKept, SideAsked, SideShown
<1>3. SideKept(r) /\ SideAsked(r, "voicemail")
  BY DEF SideKept, SideAsked, SideShown, PlaceKept, PlaceAsked, PlaceShown, OnlyOther, Standardable
<1>4. ToldKept(r) /\ ToldAsked(r, "voicemail")
  BY DEF ToldKept, ToldAsked, ToldShown, PlaceKept, PlaceAsked, PlaceShown, SideKept, SideAsked, SideShown,
         Told, Voiced, Translated
<1>. QED BY <1>2, <1>3, <1>4 DEF Ready

LEMMA TelephoneAnswered ==
  ASSUME NEW s, Seen(s, "telephone-contact")
  PROVE  Ready(s, "check-your-details")
<1>1. s \in SessionData BY DEF Seen
<1>. USE <1>1, SessionFields
     DEF Seen, Kept, Asked, Shown, Pages, StartPages, StandardPages, SupportPages,
         CommonPages, EitherPages, AnswerPages, LastPages, EditPages, LatePages,
         BookingPages, DynamicPages, Selected, IsStandard, IsNonStandard,
         IsSupportedStandard
<1>2. PlaceKept(s) /\ PlaceAsked(s, "check-your-details")
  BY DEF PlaceKept, PlaceAsked, PlaceShown, Settled, SideKept, SideAsked, SideShown
<1>3. SideKept(s) /\ SideAsked(s, "check-your-details")
  BY DEF SideKept, SideAsked, SideShown, PlaceKept, PlaceAsked, PlaceShown, OnlyOther, Standardable
<1>4. ToldKept(s) /\ ToldAsked(s, "check-your-details")
  BY DEF ToldKept, ToldAsked, ToldShown, PlaceKept, PlaceAsked, PlaceShown, SideKept, SideAsked, SideShown,
         Told, Voiced, Translated
<1>. QED BY <1>2, <1>3, <1>4 DEF Ready

LEMMA VoicemailAnswered ==
  ASSUME NEW s, Seen(s, "voicemail")
  PROVE  Ready(s, "check-your-details")
<1>1. s \in SessionData BY DEF Seen
<1>. USE <1>1, SessionFields
     DEF Seen, Kept, Asked, Shown, Pages, StartPages, StandardPages, SupportPages,
         CommonPages, EitherPages, AnswerPages, LastPages, EditPages, LatePages,
         BookingPages, DynamicPages, Selected, IsStandard, IsNonStandard,
         IsSupportedStandard
<1>2. PlaceKept(s) /\ PlaceAsked(s, "check-your-details")
  BY DEF PlaceKept, PlaceAsked, PlaceShown, Settled, SideKept, SideAsked, SideShown
<1>3. SideKept(s) /\ SideAsked(s, "check-your-details")
  BY DEF SideKept, SideAsked, SideShown, PlaceKept, PlaceAsked, PlaceShown, OnlyOther, Standardable
<1>4. ToldKept(s) /\ ToldAsked(s, "check-your-details")
  BY DEF ToldKept, ToldAsked, ToldShown, PlaceKept, PlaceAsked, PlaceShown, SideKept, SideAsked, SideShown,
         Told, Voiced, Translated
<1>. QED BY <1>2, <1>3, <1>4 DEF Ready


-----------------------------------------------------------------------------
(* The place and the time, and where the answers are sent from. *)

LEMMA CentreSought ==
  ASSUME NEW s, Seen(s, "find-test-centre")
  PROVE  Ready(s, "select-test-centre")
<1>1. s \in SessionData BY DEF Seen
<1>. USE <1>1, SessionFields
     DEF Seen, Kept, Asked, Shown, Pages, StartPages, StandardPages, SupportPages,
         CommonPages, EitherPages, AnswerPages, LastPages, EditPages, LatePages,
         BookingPages, DynamicPages, Selected, IsStandard, IsNonStandard,
         IsSupportedStandard
<1>2. PlaceKept(s) /\ PlaceAsked(s, "select-test-centre")
  BY DEF PlaceKept, PlaceAsked, PlaceShown, Settled, SideKept, SideAsked, SideShown
<1>3. SideKept(s) /\ SideAsked(s, "select-test-centre")
  BY DEF SideKept, SideAsked, SideShown, PlaceKept, PlaceAsked, PlaceShown, OnlyOther, Standardable
<1>4. ToldKept(s) /\ ToldAsked(s, "select-test-centre")
  BY DEF ToldKept, ToldAsked, ToldShown, PlaceKept, PlaceAsked, PlaceShown, SideKept, SideAsked, SideShown,
         Told, Voiced, Translated
<1>. QED BY <1>2, <1>3, <1>4 DEF Ready

LEMMA CentreEdited ==
  ASSUME NEW s, Seen(s, "select-test-centre"),
         NEW c \in Centres
  PROVE  Ready([s EXCEPT !.edited.centre = c], "select-date")
<1>. DEFINE r == [s EXCEPT !.edited.centre = c]
<1>1. /\ r \in SessionData
      /\ SameFlags(r, s) /\ r.answers = s.answers /\ r.edited.slot = s.edited.slot
  BY EditedCentreSet DEF Seen
<1>. HIDE DEF r
<1>. USE <1>1, SessionFields
     DEF Seen, Kept, Asked, Shown, Pages, StartPages, StandardPages, SupportPages,
         CommonPages, EitherPages, AnswerPages, LastPages, EditPages, LatePages,
         BookingPages, DynamicPages, Selected, IsStandard, IsNonStandard,
         IsSupportedStandard, SameFlags
<1>2. PlaceKept(r) /\ PlaceAsked(r, "select-date")
  BY DEF PlaceKept, PlaceAsked, PlaceShown, Settled, SideKept, SideAsked, SideShown
<1>3. SideKept(r) /\ SideAsked(r, "select-date")
  BY DEF SideKept, SideAsked, SideShown, PlaceKept, PlaceAsked, PlaceShown, OnlyOther, Standardable
<1>4. ToldKept(r) /\ ToldAsked(r, "select-date")
  BY DEF ToldKept, ToldAsked, ToldShown, PlaceKept, PlaceAsked, PlaceShown, SideKept, SideAsked, SideShown,
         Told, Voiced, Translated
<1>. QED BY <1>2, <1>3, <1>4 DEF Ready, r

LEMMA CentreAnswered ==
  ASSUME NEW s, Seen(s, "select-test-centre"),
         NEW c \in Centres,
         ~s.edit
  PROVE  Ready([s EXCEPT !.answers.centre = c], "select-date")
<1>. DEFINE r == [s EXCEPT !.answers.centre = c]
<1>1. /\ r \in SessionData
      /\ SameFlags(r, s) /\ SameSupport(r, s)
      /\ r.edited = s.edited /\ r.answers.told = s.answers.told
      /\ r.answers.type = s.answers.type /\ r.answers.language = s.answers.language
  BY CentreSet DEF Seen
<1>. HIDE DEF r
<1>. USE <1>1, SessionFields
     DEF Seen, Kept, Asked, Shown, Pages, StartPages, StandardPages, SupportPages,
         CommonPages, EitherPages, AnswerPages, LastPages, EditPages, LatePages,
         BookingPages, DynamicPages, Selected, IsStandard, IsNonStandard,
         IsSupportedStandard, SameFlags, SameSupport
<1>2. PlaceKept(r) /\ PlaceAsked(r, "select-date")
  BY DEF PlaceKept, PlaceAsked, PlaceShown, Settled, SideKept, SideAsked, SideShown
<1>3. SideKept(r) /\ SideAsked(r, "select-date")
  BY DEF SideKept, SideAsked, SideShown, PlaceKept, PlaceAsked, PlaceShown, OnlyOther, Standardable
<1>4. ToldKept(r) /\ ToldAsked(r, "select-date")
  BY DEF ToldKept, ToldAsked, ToldShown, PlaceKept, PlaceAsked, PlaceShown, SideKept, SideAsked, SideShown,
         Told, Voiced, Translated
<1>. QED BY <1>2, <1>3, <1>4 DEF Ready, r

LEMMA DateAnswered ==
  ASSUME NEW s, Seen(s, "select-date")
  PROVE  Ready(s, "choose-appointment")
<1>1. s \in SessionData BY DEF Seen
<1>. USE <1>1, SessionFields
     DEF Seen, Kept, Asked, Shown, Pages, StartPages, StandardPages, SupportPages,
         CommonPages, EitherPages, AnswerPages, LastPages, EditPages, LatePages,
         BookingPages, DynamicPages, Selected, IsStandard, IsNonStandard,
         IsSupportedStandard
<1>2. PlaceKept(s) /\ PlaceAsked(s, "choose-appointment")
  BY DEF PlaceKept, PlaceAsked, PlaceShown, Settled, SideKept, SideAsked, SideShown
<1>3. SideKept(s) /\ SideAsked(s, "choose-appointment")
  BY DEF SideKept, SideAsked, SideShown, PlaceKept, PlaceAsked, PlaceShown, OnlyOther, Standardable
<1>4. ToldKept(s) /\ ToldAsked(s, "choose-appointment")
  BY DEF ToldKept, ToldAsked, ToldShown, PlaceKept, PlaceAsked, PlaceShown, SideKept, SideAsked, SideShown,
         Told, Voiced, Translated
<1>. QED BY <1>2, <1>3, <1>4 DEF Ready

LEMMA AppointmentEdited ==
  ASSUME NEW s, Seen(s, "choose-appointment"),
         s.edit
  PROVE  Ready([s EXCEPT !.edited.slot = OfferedSlot(s)], "check-your-answers")
<1>. DEFINE offered == OfferedSlot(s)
<1>0. offered \in Slot /\ (s.answers.type # None /\ s.answers.centre # None)
  BY SessionFields DEF Seen, Shown, PlaceShown, OfferedSlot, Slot
<1>a. offered = [centre |-> IF s.edit /\ s.edited.centre # None THEN s.edited.centre ELSE s.answers.centre,
             type |-> s.answers.type]
  BY DEF OfferedSlot
<1>. HIDE DEF offered
<1>. DEFINE r == [s EXCEPT !.edited.slot = offered]
<1>c. s \in SessionData /\ r \in SessionData BY <1>0, Zenon DEF Seen, SessionData
<1>1. /\ r \in SessionData
      /\ SameFlags(r, s) /\ r.answers = s.answers
      /\ r.edited.slot = offered /\ r.edited.centre = s.edited.centre
  BY <1>c DEF Seen, SessionData, SameFlags
<1>. HIDE DEF r
<1>b. Settled(ApplyEdits(r))
  <2>. DEFINE t == ApplyEdits(r)
  <2>1. /\ t.answers.type = s.answers.type /\ t.answers.slot = offered
        /\ t.answers.centre = IF s.edited.centre # None THEN s.edited.centre ELSE s.answers.centre
    BY <1>0, <1>1, EditsAppliedSet, NoneIsFresh
  <2>. HIDE DEF t
  <2>2. t.answers.centre # None BY <1>0, <2>1
  <2>3. t.answers.slot = [centre |-> t.answers.centre, type |-> t.answers.type]
    BY <1>a, <2>1
  <2>. QED BY <1>0, <2>1, <2>2, <2>3 DEF Settled, t
<1>. USE <1>1, SessionFields, <1>0, <1>b
     DEF Seen, Kept, Asked, Shown, Pages, StartPages, StandardPages, SupportPages,
         CommonPages, EitherPages, AnswerPages, LastPages, EditPages, LatePages,
         BookingPages, DynamicPages, Selected, IsStandard, IsNonStandard,
         IsSupportedStandard, SameFlags
<1>2. PlaceKept(r) /\ PlaceAsked(r, "check-your-answers")
  BY DEF PlaceKept, PlaceAsked, PlaceShown, Settled, SideKept, SideAsked, SideShown
<1>3. SideKept(r) /\ SideAsked(r, "check-your-answers")
  BY DEF SideKept, SideAsked, SideShown, PlaceKept, PlaceAsked, PlaceShown, OnlyOther, Standardable
<1>4. ToldKept(r) /\ ToldAsked(r, "check-your-answers")
  BY DEF ToldKept, ToldAsked, ToldShown, PlaceKept, PlaceAsked, PlaceShown, SideKept, SideAsked, SideShown,
         Told, Voiced, Translated
<1>. QED BY <1>2, <1>3, <1>4 DEF Ready, r, offered

LEMMA AppointmentAnswered ==
  ASSUME NEW s, Seen(s, "choose-appointment"),
         ~s.edit
  PROVE  Ready([s EXCEPT !.answers.slot = OfferedSlot(s)], "check-your-answers")
<1>. DEFINE offered == OfferedSlot(s)
<1>0. offered \in Slot /\ (s.answers.type # None /\ s.answers.centre # None)
  BY SessionFields DEF Seen, Shown, PlaceShown, OfferedSlot, Slot
<1>a. offered = [centre |-> IF s.edit /\ s.edited.centre # None THEN s.edited.centre ELSE s.answers.centre,
             type |-> s.answers.type]
  BY DEF OfferedSlot
<1>. HIDE DEF offered
<1>. DEFINE r == [s EXCEPT !.answers.slot = offered]
<1>c. s \in SessionData /\ r \in SessionData BY <1>0, Zenon DEF Seen, SessionData, Answers
<1>1. /\ r \in SessionData
      /\ SameFlags(r, s) /\ SameSupport(r, s)
      /\ r.edited = s.edited /\ r.answers.told = s.answers.told
      /\ r.answers.type = s.answers.type /\ r.answers.language = s.answers.language
      /\ r.answers.slot = offered /\ r.answers.centre = s.answers.centre
  BY <1>c DEF Seen, SessionData, Answers, SameFlags, SameSupport
<1>. HIDE DEF r
<1>b. Settled(ApplyEdits(r)) /\ Settled(r)
  <2>1. r.edited.slot = None BY <1>1 DEF Seen, Shown, PlaceShown
  <2>2. Settled(r) BY <1>0, <1>a, <1>1 DEF Settled
  <2>. QED BY <1>1, <2>1, <2>2, NothingToApply
<1>. USE <1>1, SessionFields, <1>0, <1>b
     DEF Seen, Kept, Asked, Shown, Pages, StartPages, StandardPages, SupportPages,
         CommonPages, EitherPages, AnswerPages, LastPages, EditPages, LatePages,
         BookingPages, DynamicPages, Selected, IsStandard, IsNonStandard,
         IsSupportedStandard, SameFlags, SameSupport
<1>2. PlaceKept(r) /\ PlaceAsked(r, "check-your-answers")
  BY DEF PlaceKept, PlaceAsked, PlaceShown, Settled, SideKept, SideAsked, SideShown
<1>3. SideKept(r) /\ SideAsked(r, "check-your-answers")
  BY DEF SideKept, SideAsked, SideShown, PlaceKept, PlaceAsked, PlaceShown, OnlyOther, Standardable
<1>4. ToldKept(r) /\ ToldAsked(r, "check-your-answers")
  BY DEF ToldKept, ToldAsked, ToldShown, PlaceKept, PlaceAsked, PlaceShown, SideKept, SideAsked, SideShown,
         Told, Voiced, Translated
<1>. QED BY <1>2, <1>3, <1>4 DEF Ready, r, offered

LEMMA ChangeAsked ==
  ASSUME NEW s, Seen(s, "change-location-time"),
         NEW q \in {"choose-appointment", "select-date", "find-test-centre"}
  PROVE  Ready([s EXCEPT !.edit = TRUE], q)
<1>. DEFINE r == [s EXCEPT !.edit = TRUE]
<1>1. r \in SessionData BY Zenon DEF Seen, SessionData
<1>. USE <1>1, SessionFields
     DEF Seen, Kept, Asked, Shown, Pages, StartPages, StandardPages, SupportPages,
         CommonPages, EitherPages, AnswerPages, LastPages, EditPages, LatePages,
         BookingPages, DynamicPages, Selected, IsStandard, IsNonStandard,
         IsSupportedStandard
<1>2. PlaceKept(r) /\ PlaceAsked(r, q)
  BY DEF PlaceKept, PlaceAsked, PlaceShown, Settled, SideKept, SideAsked, SideShown
<1>3. SideKept(r) /\ SideAsked(r, q)
  BY DEF SideKept, SideAsked, SideShown, PlaceKept, PlaceAsked, PlaceShown, OnlyOther, Standardable
<1>4. ToldKept(r) /\ ToldAsked(r, q)
  BY DEF ToldKept, ToldAsked, ToldShown, PlaceKept, PlaceAsked, PlaceShown, SideKept, SideAsked, SideShown,
         Told, Voiced, Translated
<1>. QED BY <1>2, <1>3, <1>4 DEF Ready

LEMMA BslAnswered ==
  ASSUME NEW s, Seen(s, "bsl"),
         NEW wanted \in BOOLEAN
  PROVE  Ready([s EXCEPT !.answers.bsl = wanted], "check-your-answers")
<1>. DEFINE r == [s EXCEPT !.answers.bsl = wanted]
<1>. DEFINE a == [s.answers EXCEPT !.bsl = wanted]
<1>0. s \in SessionData /\ s.answers \in Answers BY SessionFields DEF Seen
<1>a. a \in Answers /\ SameOtherwise(a, s.answers) BY <1>0, OptionSet
<1>b. r = [s EXCEPT !.answers = a]
  BY <1>0 DEF SessionData, Answers
<1>. HIDE DEF a, r
<1>c. r \in SessionData BY <1>0, <1>a, <1>b, Zenon DEF SessionData
<1>1. /\ r \in SessionData
      /\ r.candidate = s.candidate /\ r.support = s.support /\ r.standard = s.standard
      /\ r.edit = s.edit
      /\ r.confirming = s.confirming /\ r.received = s.received /\ r.edited = s.edited
      /\ SameOtherwise(r.answers, s.answers)
      /\ r.shownVoiceover = s.shownVoiceover
      /\ r.needs = s.needs /\ r.target = s.target
      /\ r.lastPage = s.lastPage
  BY <1>0, <1>a, <1>b, <1>c DEF Seen, SessionData
<1>. HIDE DEF r
<1>. USE <1>1, SessionFields, NothingToApply
     DEF Seen, Kept, Asked, Shown, Pages, StartPages, StandardPages, SupportPages,
         CommonPages, EitherPages, AnswerPages, LastPages, EditPages, LatePages,
         BookingPages, DynamicPages, Selected, IsStandard, IsNonStandard,
         IsSupportedStandard, SameOtherwise
<1>2. PlaceKept(r) /\ PlaceAsked(r, "check-your-answers")
  BY DEF PlaceKept, PlaceAsked, PlaceShown, Settled, SideKept, SideAsked, SideShown
<1>3. SideKept(r) /\ SideAsked(r, "check-your-answers")
  BY DEF SideKept, SideAsked, SideShown, PlaceKept, PlaceAsked, PlaceShown, OnlyOther, Standardable
<1>4. ToldKept(r) /\ ToldAsked(r, "check-your-answers")
  BY DEF ToldKept, ToldAsked, ToldShown, PlaceKept, PlaceAsked, PlaceShown, SideKept, SideAsked, SideShown,
         Told, Voiced, Translated
<1>. QED BY <1>2, <1>3, <1>4 DEF Ready, r

LEMMA BookingExists ==
  ASSUME NEW s, Seen(s, "check-your-answers")
  PROVE  Ready([s EXCEPT !.edit = FALSE, !.lastPage = "check-your-answers"], "booking-exists")
<1>. DEFINE r == [s EXCEPT !.edit = FALSE, !.lastPage = "check-your-answers"]
<1>1. r \in SessionData BY Zenon DEF Seen, SessionData
<1>. USE <1>1, SessionFields
     DEF Seen, Kept, Asked, Shown, Pages, StartPages, StandardPages, SupportPages,
         CommonPages, EitherPages, AnswerPages, LastPages, EditPages, LatePages,
         BookingPages, DynamicPages, Selected, IsStandard, IsNonStandard,
         IsSupportedStandard
<1>2. PlaceKept(r) /\ PlaceAsked(r, "booking-exists")
  BY DEF PlaceKept, PlaceAsked, PlaceShown, Settled, SideKept, SideAsked, SideShown
<1>3. SideKept(r) /\ SideAsked(r, "booking-exists")
  BY DEF SideKept, SideAsked, SideShown, PlaceKept, PlaceAsked, PlaceShown, OnlyOther, Standardable
<1>4. ToldKept(r) /\ ToldAsked(r, "booking-exists")
  BY DEF ToldKept, ToldAsked, ToldShown, PlaceKept, PlaceAsked, PlaceShown, SideKept, SideAsked, SideShown,
         Told, Voiced, Translated
<1>. QED BY <1>2, <1>3, <1>4 DEF Ready

LEMMA PaymentAsked ==
  ASSUME NEW s, Seen(s, "check-your-answers")
  PROVE  Ready([s EXCEPT !.edit = FALSE], "payment")
<1>. DEFINE r == [s EXCEPT !.edit = FALSE]
<1>1. r \in SessionData BY Zenon DEF Seen, SessionData
<1>. USE <1>1, SessionFields
     DEF Seen, Kept, Asked, Shown, Pages, StartPages, StandardPages, SupportPages,
         CommonPages, EitherPages, AnswerPages, LastPages, EditPages, LatePages,
         BookingPages, DynamicPages, Selected, IsStandard, IsNonStandard,
         IsSupportedStandard
<1>2. PlaceKept(r) /\ PlaceAsked(r, "payment")
  BY DEF PlaceKept, PlaceAsked, PlaceShown, Settled, SideKept, SideAsked, SideShown
<1>3. SideKept(r) /\ SideAsked(r, "payment")
  BY DEF SideKept, SideAsked, SideShown, PlaceKept, PlaceAsked, PlaceShown, OnlyOther, Standardable
<1>4. ToldKept(r) /\ ToldAsked(r, "payment")
  BY DEF ToldKept, ToldAsked, ToldShown, PlaceKept, PlaceAsked, PlaceShown, SideKept, SideAsked, SideShown,
         Told, Voiced, Translated
<1>. QED BY <1>2, <1>3, <1>4 DEF Ready

LEMMA SlotTaken ==
  ASSUME NEW s, Seen(s, "check-your-answers")
  PROVE  Ready([s EXCEPT !.edit = FALSE], "slot-unavailable")
<1>. DEFINE r == [s EXCEPT !.edit = FALSE]
<1>1. r \in SessionData BY Zenon DEF Seen, SessionData
<1>. USE <1>1, SessionFields
     DEF Seen, Kept, Asked, Shown, Pages, StartPages, StandardPages, SupportPages,
         CommonPages, EitherPages, AnswerPages, LastPages, EditPages, LatePages,
         BookingPages, DynamicPages, Selected, IsStandard, IsNonStandard,
         IsSupportedStandard
<1>2. PlaceKept(r) /\ PlaceAsked(r, "slot-unavailable")
  BY DEF PlaceKept, PlaceAsked, PlaceShown, Settled, SideKept, SideAsked, SideShown
<1>3. SideKept(r) /\ SideAsked(r, "slot-unavailable")
  BY DEF SideKept, SideAsked, SideShown, PlaceKept, PlaceAsked, PlaceShown, OnlyOther, Standardable
<1>4. ToldKept(r) /\ ToldAsked(r, "slot-unavailable")
  BY DEF ToldKept, ToldAsked, ToldShown, PlaceKept, PlaceAsked, PlaceShown, SideKept, SideAsked, SideShown,
         Told, Voiced, Translated
<1>. QED BY <1>2, <1>3, <1>4 DEF Ready

LEMMA RequestFails ==
  ASSUME NEW s, Seen(s, "check-your-details"),
         NEW q \in FailurePages
  PROVE  Ready([s EXCEPT !.edit = FALSE], q)
<1>. DEFINE r == [s EXCEPT !.edit = FALSE]
<1>1. r \in SessionData BY Zenon DEF Seen, SessionData
<1>. USE <1>1, SessionFields
     DEF Seen, Kept, Asked, Shown, Pages, StartPages, StandardPages, SupportPages,
         CommonPages, EitherPages, AnswerPages, LastPages, EditPages, LatePages,
         BookingPages, DynamicPages, Selected, IsStandard, IsNonStandard,
         IsSupportedStandard, FailurePages
<1>2. PlaceKept(r) /\ PlaceAsked(r, q)
  BY DEF PlaceKept, PlaceAsked, PlaceShown, Settled, SideKept, SideAsked, SideShown
<1>3. SideKept(r) /\ SideAsked(r, q)
  BY DEF SideKept, SideAsked, SideShown, PlaceKept, PlaceAsked, PlaceShown, OnlyOther, Standardable
<1>4. ToldKept(r) /\ ToldAsked(r, q)
  BY DEF ToldKept, ToldAsked, ToldShown, PlaceKept, PlaceAsked, PlaceShown, SideKept, SideAsked, SideShown,
         Told, Voiced, Translated
<1>. QED BY <1>2, <1>3, <1>4 DEF Ready


-----------------------------------------------------------------------------
(* Every answer keeps the invariant. *)

LEMMA PageIsSeen ==
  ASSUME JourneyInv
  PROVE  Seen(session, page)
BY DEF JourneyInv, TypeOK, Seen

LEMMA SeenIsReady ==
  ASSUME NEW s, NEW p, Seen(s, p)
  PROVE  Ready(s, p)
BY DEF Seen, Ready, Shown

LEMMA StartKeeps ==
  ASSUME JourneyInv, ChooseSupport \/ SupportAlert \/ CandidateDetails \/ EmailContact
  PROVE  JourneyInv'
<1>0. Seen(session, page) BY PageIsSeen
<1>1. CASE ChooseSupport
  <2>0. Seen(session, "choose-support") BY <1>0, <1>1 DEF ChooseSupport, Answer
  <2>1. PICK wanted \in BOOLEAN :
          IF session.edit
          THEN Answer("choose-support",
                      ResetBooking([session EXCEPT !.support = wanted, !.standard = ~wanted,
                                                   !.edit = FALSE]),
                      IF wanted THEN "test-type" ELSE "email-contact")
          ELSE Answer("choose-support",
                      [session EXCEPT !.support = FALSE, !.standard = TRUE],
                      IF wanted THEN "support-alert" ELSE "candidate-details")
    BY <1>1 DEF ChooseSupport
  <2>2. CASE session.edit /\ wanted
    <3>1. Answer("choose-support",
                 ResetBooking([session EXCEPT !.support = TRUE, !.standard = FALSE, !.edit = FALSE]),
                 "test-type")
      BY <2>1, <2>2
    <3>. QED BY <2>0, <3>1, SupportChosen, AnswerKeeps
  <2>3. CASE session.edit /\ ~wanted
    <3>1. Answer("choose-support",
                 ResetBooking([session EXCEPT !.support = FALSE, !.standard = TRUE, !.edit = FALSE]),
                 "email-contact")
      BY <2>1, <2>3
    <3>. QED BY <2>0, <3>1, SupportDeclined, AnswerKeeps
  <2>4. CASE ~session.edit
    <3>1. PICK q \in {"support-alert", "candidate-details"} :
            Answer("choose-support", [session EXCEPT !.support = FALSE, !.standard = TRUE], q)
      BY <2>1, <2>4
    <3>. QED BY <2>0, <2>4, <3>1, StartChosen, AnswerKeeps
  <2>. QED BY <2>2, <2>3, <2>4
<1>2. CASE SupportAlert
  <2>1. /\ page = "support-alert"
        /\ Answer("support-alert",
                  [session EXCEPT !.support = TRUE, !.standard = FALSE, !.edit = FALSE],
                  "candidate-details")
    BY <1>2 DEF SupportAlert, AnswerOneOf, SupportAlertReplies
  <2>. QED BY <1>0, <2>1, AlertAnswered, AnswerKeeps
<1>3. CASE CandidateDetails
  <2>1. PICK needs \in BOOLEAN :
          Answer("candidate-details",
                 [session EXCEPT !.candidate = TRUE, !.needs = needs,
                                 !.answers.bsl = FALSE, !.answers.voiceover = FALSE],
                 IF session.support THEN "test-type" ELSE "email-contact")
    BY <1>3 DEF CandidateDetails
  <2>2. page = "candidate-details" BY <2>1 DEF Answer
  <2>3. Ready([session EXCEPT !.candidate = TRUE, !.needs = needs,
                              !.answers.bsl = FALSE, !.answers.voiceover = FALSE],
              IF session.support THEN "test-type" ELSE "email-contact")
    BY <1>0, <2>2, CandidateNamed, Zenon
  <2>. QED BY <2>1, <2>3, AnswerKeeps
<1>4. CASE EmailContact
  <2>1. PICK q :
          /\ q = IF session.edit THEN CheckPage(session)
                 ELSE IF IsStandard(session) THEN "test-type"
                 ELSE IF IsSupportedStandard(session) THEN "find-test-centre"
                 ELSE "telephone-contact"
          /\ page = "email-contact" /\ Answer("email-contact", session, q)
    BY <1>4 DEF EmailContact, AnswerOneOf, EmailContactReplies
  <2>. QED BY <1>0, <2>1, EmailAnswered, AnswerKeeps
<1>. QED BY <1>1, <1>2, <1>3, <1>4

LEMMA TestKeeps ==
  ASSUME JourneyInv, TestType \/ TestLanguage
  PROVE  JourneyInv'
<1>0. Seen(session, page) BY PageIsSeen
<1>1. CASE TestType
  <2>1. PICK type \in person.types :
          \/ /\ ~IsNonStandard(ChooseType(session, type))
             /\ Answer("test-type", [ChooseType(session, type) EXCEPT !.lastPage = "test-type"],
                       "received-support-request")
          \/ Answer("test-type", ChooseType(session, type), "test-language")
    BY <1>1 DEF TestType, AnswerOneOf, TestTypeReplies
  <2>2. type \in Types BY DEF JourneyInv, TypeOK, Types
  <2>3. page = "test-type" BY <2>1 DEF Answer
  <2>. QED BY <1>0, <2>1, <2>2, <2>3, TypeWarned, TypeAnswered, AnswerKeeps
<1>2. CASE TestLanguage
  <2>1. page = "test-language" BY <1>2 DEF TestLanguage, AnswerOneOf
  <2>2. CASE CanChangeTestLanguage(session)
    <3>. DEFINE s == [session EXCEPT !.answers.language = TRUE]
                q == IF session.edit THEN CheckPage(session)
                     ELSE IF IsNonStandard(session) THEN "select-support-type"
                     ELSE "select-standard-support"
    <3>1. Ready(s, q) BY <1>0, <2>1, LanguageAnswered, Zenon
    <3>2. TestLanguageReplies = {<<s, q>>} BY <2>2 DEF TestLanguageReplies
    <3>. HIDE DEF s, q
    <3>3. Answer("test-language", s, q) BY <1>2, <3>2 DEF TestLanguage, AnswerOneOf
    <3>. QED BY <3>1, <3>3, AnswerKeeps
  <2>3. CASE ~CanChangeTestLanguage(session)
    <3>1. Answer("test-language", session, "error")
      BY <1>2, <2>3 DEF TestLanguage, AnswerOneOf, TestLanguageReplies
    <3>2. Ready(session, "error")
      BY <1>0, SeenIsReady, LastPageReady DEF LastPages, Seen, Shown, PlaceShown
    <3>. QED BY <3>1, <3>2, AnswerKeeps
  <2>. QED BY <2>2, <2>3
<1>. QED BY <1>1, <1>2

LEMMA StandardSupportKeeps ==
  ASSUME JourneyInv, SelectStandardSupport \/ ChangeVoiceover
  PROVE  JourneyInv'
<1>0. Seen(session, page) BY PageIsSeen
<1>1. CASE SelectStandardSupport
  <2>1. Seen(session, "select-standard-support")
    BY <1>0, <1>1 DEF SelectStandardSupport, Answer
  <2>2. CASE Answer("select-standard-support",
                    [session EXCEPT !.answers.bsl = TRUE, !.answers.voiceover = FALSE,
                                    !.lastPage = "other"],
                    "find-test-centre")
    BY <2>1, <2>2, SignLanguageChosen, AnswerKeeps
  <2>3. CASE Answer("select-standard-support", [session EXCEPT !.answers.bsl = FALSE],
                    "change-voiceover")
    BY <2>1, <2>3, VoiceoverChosen, AnswerKeeps
  <2>4. CASE Answer("select-standard-support",
                    [session EXCEPT !.answers.bsl = FALSE, !.answers.voiceover = FALSE,
                                    !.edit = FALSE, !.lastPage = "other"],
                    "find-test-centre")
    BY <2>1, <2>4, NeitherChosen, AnswerKeeps
  <2>. QED BY <1>1, <2>2, <2>3, <2>4 DEF SelectStandardSupport
<1>2. CASE ChangeVoiceover
  <2>. DEFINE Changed(wanted) ==
         [session EXCEPT !.shownVoiceover = TRUE, !.answers.voiceover = wanted]
  <2>0. session \in SessionData BY <1>0 DEF Seen
  <2>1. PICK wanted \in BOOLEAN, routes \in Routes(session) :
          IF Changed(wanted).edit
          THEN Answer("change-voiceover", Changed(wanted),
                      IF IsNonStandard(Changed(wanted)) THEN "check-your-details"
                      ELSE "check-your-answers")
          ELSE IF IsNonStandard(Changed(wanted))
          THEN Answer("change-voiceover", Changed(wanted),
                      NextPage(Changed(wanted), "change-voiceover", routes))
          ELSE Answer("change-voiceover", [Changed(wanted) EXCEPT !.lastPage = "other"],
                      "find-test-centre")
    BY <1>2, ZenonT(60) DEF ChangeVoiceover
  <2>2. /\ Changed(wanted).edit = session.edit
        /\ IsNonStandard(Changed(wanted)) <=> IsNonStandard(session)
        /\ [Changed(wanted) EXCEPT !.lastPage = "other"] =
             [session EXCEPT !.shownVoiceover = TRUE, !.answers.voiceover = wanted,
                             !.lastPage = "other"]
    BY <2>0 DEF SessionData, IsNonStandard
  <2>3. page = "change-voiceover" BY <2>1 DEF Answer
  <2>4. CASE session.edit
    <3>1. PICK q :
            /\ q = IF IsNonStandard(session) THEN "check-your-details" ELSE "check-your-answers"
            /\ Answer("change-voiceover", Changed(wanted), q)
      BY <2>1, <2>2, <2>4
    <3>. QED BY <1>0, <2>3, <2>4, <3>1, VoiceoverEdited, AnswerKeeps
  <2>5. CASE ~session.edit /\ IsNonStandard(session)
    <3>1. Answer("change-voiceover", Changed(wanted),
                 NextPage(Changed(wanted), "change-voiceover", routes))
      BY <2>1, <2>2, <2>5
    <3>. QED BY <1>0, <2>3, <2>5, <3>1, VoiceoverNext, AnswerKeeps
  <2>6. CASE ~session.edit /\ ~IsNonStandard(session)
    <3>1. Answer("change-voiceover",
                 [session EXCEPT !.shownVoiceover = TRUE, !.answers.voiceover = wanted,
                                 !.lastPage = "other"],
                 "find-test-centre")
      BY <2>1, <2>2, <2>6
    <3>. QED BY <1>0, <2>3, <2>6, <3>1, VoiceoverAnswered, AnswerKeeps
  <2>. QED BY <2>4, <2>5, <2>6
<1>. QED BY <1>1, <1>2

LEMMA SupportTypeKeeps ==
  ASSUME JourneyInv, SelectSupportType \/ CustomSupport \/ Translator \/ ConfirmSupport
  PROVE  JourneyInv'
<1>0. Seen(session, page) BY PageIsSeen
<1>1. CASE SelectSupportType
  <2>1. PICK selected \in SUBSET person.support :
          LET s == SelectSupport(session, selected)
          IN  Answer("select-support-type", s, NextPage(s, "select-support-type", OwnPages(s)))
    BY <1>1 DEF SelectSupportType, AnswerOneOf, SelectSupportTypeReplies
  <2>2. selected \in SUBSET SupportTypes BY PeopleAssumption DEF JourneyInv, TypeOK
  <2>3. page = "select-support-type" BY <2>1 DEF Answer
  <2>4. LET s == SelectSupport(session, selected)
        IN  Ready(s, NextPage(s, "select-support-type", OwnPages(s)))
    BY <1>0, <2>2, <2>3, SupportNext
  <2>. QED BY <2>1, <2>4, AnswerKeeps
<1>2. CASE CustomSupport
  <2>. DEFINE selected == session.answers.selected
  <2>1. /\ page = "custom-support"
        /\ \/ /\ selected \cap NonStandardSupport = {}
              /\ Answer("custom-support", [session EXCEPT !.edit = FALSE],
                        SkipCustomSupport(selected))
           \/ session.edit /\ Answer("custom-support", session, "check-your-details")
           \/ /\ ~session.edit
              /\ Answer("custom-support", session,
                        NextPage(session, "custom-support", OwnPages(session)))
    BY <1>2 DEF CustomSupport
  <2>2. Seen(session, "custom-support") BY <1>0, <2>1
  <2>3. /\ session.edit => Ready(session, "check-your-details")
        /\ ~session.edit =>
             Ready(session, NextPage(session, "custom-support", OwnPages(session)))
    BY <2>2, CustomSupportEdited, CustomSupportNext
  <2>4. selected \cap NonStandardSupport = {} =>
          Ready([session EXCEPT !.edit = FALSE], SkipCustomSupport(selected))
    BY <2>2, CustomSupportSkipped
  <2>. QED BY <2>1, <2>3, <2>4, AnswerKeeps
<1>3. CASE Translator
  <2>. DEFINE s == [session EXCEPT !.answers.translator = TRUE]
  <2>1. PICK routes \in Routes(session) :
          \/ session.edit /\ Answer("translator", s, "check-your-details")
          \/ /\ ~session.edit
             /\ Answer("translator", s, NextPage(session, "translator", routes))
    BY <1>3 DEF Translator
  <2>2. Seen(session, "translator") BY <1>0, <2>1 DEF Answer
  <2>3. NextPage(s, "translator", routes) = NextPage(session, "translator", routes)
    <3>1. s.answers.selected = session.answers.selected
      BY <2>2, TranslatorSet DEF Seen
    <3>. HIDE DEF s
    <3>. QED BY <3>1 DEF NextPage
  <2>4. /\ session.edit => Ready(s, "check-your-details")
        /\ ~session.edit => Ready(s, NextPage(s, "translator", routes))
    BY <2>2, TranslatorEdited, TranslatorNext
  <2>. HIDE DEF s
  <2>. QED BY <2>1, <2>3, <2>4, AnswerKeeps
<1>4. CASE ConfirmSupport
  <2>1. Seen(session, "confirm-support") BY <1>0, <1>4 DEF ConfirmSupport, Answer
  <2>2. \/ Answer("confirm-support",
                  [session EXCEPT !.confirming = TRUE, !.answers.selected = None],
                  "select-support-type")
        \/ \E q \in {"leaving-nsa", "staying-nsa"} :
             Answer("confirm-support", [session EXCEPT !.confirming = TRUE], q)
    BY <1>4 DEF ConfirmSupport
  <2>. QED BY <2>1, <2>2, SupportDenied, SupportConfirmed, AnswerKeeps
<1>. QED BY <1>1, <1>2, <1>3, <1>4

LEMMA SupportPagesKeep ==
  ASSUME JourneyInv,
         LeavingNsa \/ PreferredDay \/ PreferredLocation \/ TelephoneContact \/ Voicemail
  PROVE  JourneyInv'
<1>0. Seen(session, page) BY PageIsSeen
<1>1. CASE LeavingNsa
  <2>. DEFINE Left(standard) ==
         [session EXCEPT !.standard = standard, !.lastPage = "leaving-nsa"]
  <2>1. PICK r \in LeavingNsaReplies : Answer("leaving-nsa", r[1], r[2])
    BY <1>1 DEF LeavingNsa, AnswerOneOf
  <2>2. Seen(session, "leaving-nsa") BY <1>0, <2>1 DEF Answer
  <2>3. \/ \E q \in {"received-support-request", "email-contact"} : r = <<Left(TRUE), q>>
        \/ \E q \in {"duplicate-support-request", "staying-nsa"} : r = <<Left(FALSE), q>>
    BY <2>1 DEF LeavingNsaReplies
  <2>4. \/ \E q \in {"received-support-request", "email-contact"} :
             Answer("leaving-nsa", Left(TRUE), q)
        \/ \E q \in {"duplicate-support-request", "staying-nsa"} :
             Answer("leaving-nsa", Left(FALSE), q)
    <3>. DEFINE leaves == Left(TRUE)
                stays == Left(FALSE)
    <3>. HIDE DEF leaves, stays
    <3>1. \A q : <<leaves, q>>[1] = leaves /\ <<leaves, q>>[2] = q OBVIOUS
    <3>2. \A q : <<stays, q>>[1] = stays /\ <<stays, q>>[2] = q OBVIOUS
    <3>3. \A q : r = <<leaves, q>> => Answer("leaving-nsa", leaves, q)
      BY <2>1, <3>1
    <3>4. \A q : r = <<stays, q>> => Answer("leaving-nsa", stays, q)
      BY <2>1, <3>2
    <3>. QED BY <2>3, <3>3, <3>4 DEF leaves, stays
  <2>. QED BY <2>2, <2>4, SupportLeft, SupportStayed, AnswerKeeps
<1>2. CASE PreferredDay
  <2>1. \E q : /\ q = IF session.edit THEN "check-your-details" ELSE "preferred-location"
               /\ Answer("preferred-day", session, q)
    BY <1>2 DEF PreferredDay
  <2>. QED BY <1>0, <2>1, DayAnswered, AnswerKeeps DEF Answer
<1>3. CASE PreferredLocation
  <2>1. \E q : /\ q = IF session.edit THEN "check-your-details" ELSE "email-contact"
               /\ Answer("preferred-location", session, q)
    BY <1>3 DEF PreferredLocation
  <2>. QED BY <1>0, <2>1, LocationAnswered, AnswerKeeps DEF Answer
<1>4. CASE TelephoneContact
  <2>1. Seen(session, "telephone-contact") BY <1>0, <1>4 DEF TelephoneContact, Answer
  <2>. QED BY <1>4, <2>1, TelephoneSkipped, TelephoneAnswered, AnswerKeeps DEF TelephoneContact
<1>5. CASE Voicemail
  <2>1. Seen(session, "voicemail") BY <1>0, <1>5 DEF Voicemail, Answer
  <2>. QED BY <1>5, <2>1, VoicemailAnswered, AnswerKeeps DEF Voicemail
<1>. QED BY <1>1, <1>2, <1>3, <1>4, <1>5

LEMMA PlaceKeeps ==
  ASSUME JourneyInv,
         \/ FindTestCentre \/ SelectTestCentre \/ SelectDate \/ ChooseAppointment
         \/ ChangeLocationTime \/ BritishSignLanguage
  PROVE  JourneyInv'
<1>0. Seen(session, page) BY PageIsSeen
<1>1. CASE FindTestCentre
  <2>1. Seen(session, "find-test-centre") BY <1>0, <1>1 DEF FindTestCentre, Answer
  <2>. QED BY <1>1, <2>1, CentreSought, AnswerKeeps DEF FindTestCentre
<1>2. CASE SelectTestCentre
  <2>1. PICK c \in Centres :
          \/ /\ session.edit
             /\ Answer("select-test-centre", [session EXCEPT !.edited.centre = c], "select-date")
          \/ /\ ~session.edit
             /\ Answer("select-test-centre", [session EXCEPT !.answers.centre = c], "select-date")
    BY <1>2 DEF SelectTestCentre
  <2>2. Seen(session, "select-test-centre") BY <1>0, <2>1 DEF Answer
  <2>. QED BY <2>1, <2>2, CentreEdited, CentreAnswered, AnswerKeeps
<1>3. CASE SelectDate
  <2>1. Seen(session, "select-date") BY <1>0, <1>3 DEF SelectDate, Answer
  <2>. QED BY <1>3, <2>1, DateAnswered, AnswerKeeps DEF SelectDate
<1>4. CASE ChooseAppointment
  <2>1. /\ page = "choose-appointment"
        /\ \/ /\ session.edit
              /\ Answer("choose-appointment",
                        [session EXCEPT !.edited.slot = OfferedSlot(session)],
                        "check-your-answers")
           \/ /\ ~session.edit
              /\ Answer("choose-appointment",
                        [session EXCEPT !.answers.slot = OfferedSlot(session)],
                        "check-your-answers")
    BY <1>4 DEF ChooseAppointment, AnswerOneOf, ChooseAppointmentReplies
  <2>2. Seen(session, "choose-appointment") BY <1>0, <2>1
  <2>. QED BY <2>1, <2>2, AppointmentEdited, AppointmentAnswered, AnswerKeeps
<1>5. CASE ChangeLocationTime
  <2>1. Seen(session, "change-location-time") BY <1>0, <1>5 DEF ChangeLocationTime, Answer
  <2>. QED BY <1>5, <2>1, ChangeAsked, AnswerKeeps DEF ChangeLocationTime
<1>6. CASE BritishSignLanguage
  <2>1. Seen(session, "bsl") BY <1>0, <1>6 DEF BritishSignLanguage, Answer
  <2>. QED BY <1>6, <2>1, BslAnswered, AnswerKeeps DEF BritishSignLanguage
<1>. QED BY <1>1, <1>2, <1>3, <1>4, <1>5, <1>6

-----------------------------------------------------------------------------
(* The answers go to the CRM. *)

(* The test a request or a booking is made for. *)
LEMMA BookedType ==
  ASSUME NEW s, NEW p, Seen(s, p), p \in {"payment", "check-your-details"}
  PROVE  s.answers.type \in Types
<1>1. s.answers.type # None
  BY DEF Seen, Shown, Asked, PlaceAsked, PlaceShown, BookingPages, Settled
<1>. QED BY <1>1, SessionFields DEF Seen

LEMMA LastPageSeen ==
  ASSUME NEW s \in SessionData, NEW q \in LastPages
  PROVE  Seen(ResetSession(s), q) /\ ~ResetSession(s).support
<1>1. Ready(ResetSession(s), q) /\ Permitted(ResetSession(s), q) BY ResetReady
<1>2. Seen(ResetSession(s), q) BY <1>1, SamePageShown DEF LastPages
<1>3. ~ResetSession(s).support BY DEF ResetSession, Fresh
<1>. QED BY <1>2, <1>3

LEMMA CheckYourAnswersKeeps ==
  ASSUME JourneyInv, CheckYourAnswers
  PROVE  JourneyInv'
<1>. DEFINE a == session.answers
            s == [session EXCEPT !.edit = FALSE]
<1>0. page = "check-your-answers" /\ Seen(session, page)
  BY PageIsSeen DEF CheckYourAnswers
<1>1. /\ session \in SessionData /\ a \in Answers
      /\ Permitted(session, page) /\ a.language /\ session.answers.type # None
  BY <1>0, SessionFields
  DEF Seen, Shown, PlaceShown, Kept, PlaceKept, Settled, Permitted, StartPages, StandardPages,
      SupportPages, CommonPages, EitherPages
<1>2. drafts' = drafts /\ confirmed' = confirmed BY DEF CheckYourAnswers
<1>3. DraftsGrowWarned /\ confirmed' \subseteq Types
  BY <1>2, DraftsStay DEF JourneyInv, TypeOK
<1>4. CASE ShowPage(ApplyEdits(session), page) /\ UNCHANGED submitted
  <2>1. Seen(ApplyEdits(session), page) BY <1>0, <1>1, SeenIsReady, AnswersShown
  <2>. QED BY <1>3, <1>4, <2>1, ShowPageKeeps DEF DraftsGrowWarned, JourneyInv, TypeOK
<1>5. CASE Goto([s EXCEPT !.lastPage = "check-your-answers"], "booking-exists") /\ UNCHANGED submitted
  <2>1. [s EXCEPT !.lastPage = "check-your-answers"]
          = [session EXCEPT !.edit = FALSE, !.lastPage = "check-your-answers"]
    OBVIOUS
  <2>2. Ready([session EXCEPT !.edit = FALSE, !.lastPage = "check-your-answers"], "booking-exists")
    BY <1>0, BookingExists
  <2>. QED BY <1>3, <1>5, <2>1, <2>2, GotoKeeps DEF JourneyInv, TypeOK
<1>6. CASE ShowPage(s, "slot-unavailable") /\ UNCHANGED submitted
  <2>1. Ready(s, "slot-unavailable") BY <1>0, SlotTaken
  <2>2. Permitted(s, "slot-unavailable")
    BY Zenon DEF Permitted, StartPages, StandardPages, SupportPages, CommonPages, EitherPages
  <2>3. Seen(s, "slot-unavailable") BY <2>1, <2>2, SamePageShown
  <2>. QED BY <1>3, <1>6, <2>3, ShowPageKeeps DEF DraftsGrowWarned, JourneyInv, TypeOK
<1>7. CASE Goto(s, "payment") /\ submitted' = a
  <2>1. Ready(s, "payment") BY <1>0, PaymentAsked
  <2>. QED BY <1>1, <1>3, <1>7, <2>1, GotoKeeps
<1>. QED BY <1>4, <1>5, <1>6, <1>7 DEF CheckYourAnswers

LEMMA PaymentKeeps ==
  ASSUME JourneyInv, Payment
  PROVE  JourneyInv'
<1>. DEFINE type == session.answers.type
            r == ResetSession(session)
<1>0. /\ session \in SessionData /\ type \in Types
      /\ drafts \in [Types -> [Draft -> Nat]] /\ confirmed \subseteq Types
  BY PageIsSeen, BookedType DEF Payment, JourneyInv, TypeOK
<1>1. \A q \in LastPages : Seen(r, q) /\ ~r.support BY <1>0, LastPageSeen
<1>2. "booking-confirmation" \in LastPages /\ "start" \in LastPages /\ "staying-nsa" \notin LastPages
  BY DEF LastPages
<1>3. /\ drafts' \in [Types -> [Draft -> Nat]] /\ confirmed' \subseteq Types
      /\ submitted' = None
      /\ \E q \in LastPages : ShowPage(r, q)
  <2>. HIDE DEF r
  <2>1. CASE /\ confirmed' = confirmed \cup {type}
             /\ drafts' = [drafts EXCEPT ![type] =
                             [d \in Draft |-> IF IsClosed(FoundDraft(d)) THEN 0 ELSE drafts[type][d]]]
             /\ ShowPage(r, "booking-confirmation")
    <3>1. [d \in Draft |-> IF IsClosed(FoundDraft(d)) THEN 0 ELSE drafts[type][d]] \in [Draft -> Nat]
      BY <1>0
    <3>. HIDE DEF type
    <3>. QED BY <1>0, <1>2, <2>1, <3>1 DEF Payment
  <2>2. CASE UNCHANGED <<confirmed, drafts>> /\ ShowPage(r, "start")
    BY <1>0, <1>2, <2>2 DEF Payment
  <2>. QED BY <1>0, <2>1, <2>2 DEF Payment, r
<1>. HIDE DEF r
<1>. QED BY <1>1, <1>2, <1>3, ShowPageKeeps

(* A request is made for a test of which the candidate was not warned only *)
(* when it has no other such request.                                      *)
LEMMA RequestKeeps ==
  ASSUME JourneyInv, NoDuplicateRequest, CheckYourDetails
  PROVE  /\ JourneyInv' /\ NoDuplicateRequest'
         /\ \/ \A t \in Types : NoneUnwarned(t) => NoneUnwarned(t)'
            \/ ~session'.support /\ page' # "staying-nsa"
<1>. DEFINE a == session.answers
            type == a.type
            s == [session EXCEPT !.edit = FALSE]
            made(answered) == [status |-> NsaStatus(s), unwarned |-> answered /\ ~s.received]
            Made(answered) ==
              drafts' = [drafts EXCEPT ![type][made(answered)] = @ + 1]
<1>0. page = "check-your-details" /\ Seen(session, page)
  BY PageIsSeen DEF CheckYourDetails
<1>1. /\ session \in SessionData /\ a \in Answers /\ type \in Types
      /\ drafts \in [Types -> [Draft -> Nat]] /\ confirmed \subseteq Types
      /\ submitted \in Answers \cup {None}
  BY <1>0, BookedType, SessionFields DEF Seen, JourneyInv, TypeOK
<1>2. s \in SessionData /\ s.received = session.received
  BY <1>1, Zenon DEF SessionData
<1>3. ASSUME NEW answered \in BOOLEAN
      PROVE  made(answered) \in Draft
  BY <1>2, SessionFields DEF NsaStatus, Draft
<1>4. ~session.received => NoneUnwarned(type)
  BY <1>0
  DEF Seen, Kept, Shown, PlaceShown, SideShown, SupportPages, ToldKept, IsNonStandard, Told
<1>5. confirmed' = confirmed BY DEF CheckYourDetails
<1>6. ASSUME NEW answered \in BOOLEAN, Made(answered)
      PROVE  /\ drafts' \in [Types -> [Draft -> Nat]]
             /\ \A t \in Types, d \in Draft :
                  drafts'[t][d] = IF t = type /\ d = made(answered) THEN drafts[t][d] + 1
                                  ELSE drafts[t][d]
  <2>. DEFINE m == made(answered)
  <2>1. m \in Draft BY <1>3
  <2>2. drafts' = [drafts EXCEPT ![type] = [drafts[type] EXCEPT ![m] = drafts[type][m] + 1]]
    BY <1>6
  <2>. HIDE DEF m, type
  <2>3. [drafts[type] EXCEPT ![m] = drafts[type][m] + 1] \in [Draft -> Nat]
    BY <1>1, <2>1
  <2>. QED BY <1>1, <2>1, <2>2, <2>3 DEF m
<1>7. ASSUME NEW answered \in BOOLEAN, Made(answered)
      PROVE  NoDuplicateRequest'
  <2>. SUFFICES ASSUME NEW t \in Types
                PROVE  drafts'[t][[status |-> "evidence", unwarned |-> TRUE]]
                         + drafts'[t][[status |-> "csc", unwarned |-> TRUE]] <= 1
    BY DEF NoDuplicateRequest
  <2>. DEFINE e == [status |-> "evidence", unwarned |-> TRUE]
              c == [status |-> "csc", unwarned |-> TRUE]
              m == made(answered)
  <2>1. e \in Draft /\ c \in Draft /\ e # c BY DEF Draft
  <2>2. drafts[t][e] \in Nat /\ drafts[t][c] \in Nat /\ drafts[t][e] + drafts[t][c] <= 1
    BY <1>1, <2>1 DEF NoDuplicateRequest
  <2>3. t = type /\ m \in {e, c} => drafts[t][e] = 0 /\ drafts[t][c] = 0
    <3>1. e.unwarned /\ c.unwarned OBVIOUS
    <3>2. m.unwarned => ~session.received BY <1>2
    <3>. QED BY <1>4, <2>1, <3>1, <3>2 DEF NoneUnwarned
  <2>4. /\ drafts'[t][e] = IF t = type /\ e = m THEN drafts[t][e] + 1 ELSE drafts[t][e]
        /\ drafts'[t][c] = IF t = type /\ c = m THEN drafts[t][c] + 1 ELSE drafts[t][c]
    <3>1. \A d \in Draft : drafts'[t][d] = IF t = type /\ d = made(answered) THEN drafts[t][d] + 1
                                         ELSE drafts[t][d]
      BY <1>6, <1>7
    <3>. HIDE DEF made, e, c
    <3>. QED BY <2>1, <3>1
  <2>. HIDE DEF e, c, m, type
  <2>5. drafts'[t][e] + drafts'[t][c] <= 1 BY <2>1, <2>2, <2>3, <2>4
  <2>. QED BY <2>5 DEF e, c
<1>8. drafts' = drafts => NoDuplicateRequest'
  BY DEF NoDuplicateRequest
<1>9. ASSUME NEW q \in FailurePages
      PROVE  Seen(s, q)
  <2>1. Ready(s, q) BY <1>0, RequestFails
  <2>2. Permitted(s, q)
    BY Zenon DEF Permitted, FailurePages, StartPages, StandardPages, SupportPages, CommonPages,
                 EitherPages
  <2>. QED BY <2>1, <2>2, SamePageShown DEF FailurePages
<1>10. CASE Made(TRUE) /\ submitted' = a /\ ShowPage(ResetSession(s), "booking-confirmation")
  <2>1. /\ Seen(ResetSession(s), "booking-confirmation") /\ ~ResetSession(s).support
    BY <1>2, LastPageSeen DEF LastPages
  <2>2. drafts' \in [Types -> [Draft -> Nat]] /\ NoDuplicateRequest'
    BY <1>6, <1>7, <1>10
  <2>3. submitted' \in Answers \cup {None} BY <1>1, <1>10
  <2>. HIDE DEF s
  <2>4. session' = ResetSession(s) /\ page' = "booking-confirmation" BY <1>10 DEF ShowPage
  <2>. QED BY <1>1, <1>5, <1>10, <2>1, <2>2, <2>3, <2>4, ShowPageKeeps
<1>11. CASE Made(FALSE) /\ UNCHANGED submitted /\ \E q \in FailurePages : ShowPage(s, q)
  <2>1. drafts' \in [Types -> [Draft -> Nat]] /\ NoDuplicateRequest'
    BY <1>6, <1>7, <1>11
  <2>2. ASSUME NEW t \in Types, NoneUnwarned(t)
        PROVE  NoneUnwarned(t)'
    <3>. SUFFICES ASSUME NEW d \in Draft, d.unwarned PROVE drafts'[t][d] = 0
      BY DEF NoneUnwarned
    <3>. DEFINE m == made(FALSE)
    <3>0. ~m.unwarned OBVIOUS
    <3>. HIDE DEF m
    <3>1. d # m BY <3>0
    <3>2. made(FALSE) = m BY DEF m
    <3>. QED BY <1>6, <1>11, <2>2, <3>1, <3>2 DEF NoneUnwarned
  <2>. HIDE DEF s
  <2>. QED BY <1>1, <1>5, <1>9, <1>11, <2>1, <2>2, ShowPageKeeps
<1>12. CASE UNCHANGED <<drafts, submitted>> /\ \E q \in FailurePages : ShowPage(s, q)
  <2>1. DraftsGrowWarned BY <1>12, DraftsStay DEF JourneyInv, TypeOK
  <2>. HIDE DEF s
  <2>. QED BY <1>1, <1>5, <1>8, <1>9, <1>12, <2>1, ShowPageKeeps DEF DraftsGrowWarned
<1>. QED
  <2>1. \/ Made(TRUE) /\ submitted' = a /\ ShowPage(ResetSession(s), "booking-confirmation")
        \/ Made(FALSE) /\ UNCHANGED submitted /\ \E q \in FailurePages : ShowPage(s, q)
        \/ UNCHANGED <<drafts, submitted>> /\ \E q \in FailurePages : ShowPage(s, q)
    BY Zenon DEF CheckYourDetails, FailurePages
  <2>. QED BY <1>10, <1>11, <1>12, <2>1

(* Closing a request leaves no more of any kind. *)
LEMMA ResolveCloses ==
  ASSUME TypeOK, NoDuplicateRequest, Resolve
  PROVE  /\ TypeOK' /\ NoDuplicateRequest'
         /\ \A t \in Types : NoneUnwarned(t) => NoneUnwarned(t)'
         /\ session' = session /\ page' = page /\ links' = links /\ person' = person
<1>1. PICK t \in Types : \E d \in Open(t) : drafts' = [drafts EXCEPT ![t][d] = @ - 1]
  BY DEF Resolve
<1>2. PICK d \in Draft : drafts[t][d] > 0 /\ drafts' = [drafts EXCEPT ![t][d] = @ - 1]
  BY <1>1 DEF Open
<1>3. drafts \in [Types -> [Draft -> Nat]] BY DEF TypeOK
<1>4. drafts' = [drafts EXCEPT ![t] = [drafts[t] EXCEPT ![d] = drafts[t][d] - 1]]
  BY <1>2
<1>5. [drafts[t] EXCEPT ![d] = drafts[t][d] - 1] \in [Draft -> Nat]
  BY <1>2, <1>3
<1>6. /\ drafts' \in [Types -> [Draft -> Nat]]
      /\ \A u \in Types, x \in Draft : drafts'[u][x] <= drafts[u][x] /\ drafts[u][x] \in Nat
                                       /\ drafts'[u][x] \in Nat
  BY <1>2, <1>3, <1>4, <1>5
<1>7. /\ session' = session /\ page' = page /\ links' = links /\ person' = person
      /\ confirmed' = confirmed /\ submitted' = submitted
  BY DEF Resolve
<1>8. \A u \in Types : NoneUnwarned(u) => NoneUnwarned(u)' BY <1>6 DEF NoneUnwarned
<1>9. TypeOK' BY <1>6, <1>7 DEF TypeOK
<1>10. NoDuplicateRequest'
  <2>1. /\ [status |-> "evidence", unwarned |-> TRUE] \in Draft
        /\ [status |-> "csc", unwarned |-> TRUE] \in Draft
    BY DEF Draft
  <2>. QED BY <1>6, <2>1 DEF NoDuplicateRequest
<1>. QED BY <1>7, <1>8, <1>9, <1>10

LEMMA ResolveKeeps ==
  ASSUME JourneyInv, NoDuplicateRequest, Resolve
  PROVE  JourneyInv' /\ NoDuplicateRequest'
<1>1. /\ TypeOK' /\ NoDuplicateRequest'
      /\ \A t \in Types : NoneUnwarned(t) => NoneUnwarned(t)'
      /\ session' = session /\ page' = page /\ links' = links
  BY ResolveCloses DEF JourneyInv
<1>2. /\ Kept(session') /\ Shown(session', page') /\ session' \in SessionData
      /\ \A q \in links' : Asked(session', q)
  BY <1>1 DEF JourneyInv, TypeOK
<1>. QED BY <1>1, <1>2, KeptWithDrafts DEF JourneyInv

(* A booking closes requests, and makes none. *)
LEMMA PaymentKeepsSingle ==
  ASSUME JourneyInv, NoDuplicateRequest, Payment
  PROVE  NoDuplicateRequest'
<1>. DEFINE type == session.answers.type
<1>0. type \in Types /\ drafts \in [Types -> [Draft -> Nat]]
  BY PageIsSeen, BookedType DEF Payment, JourneyInv, TypeOK
<1>. HIDE DEF type
<1>1. \/ drafts' = [drafts EXCEPT ![type] =
                      [d \in Draft |-> IF IsClosed(FoundDraft(d)) THEN 0 ELSE drafts[type][d]]]
      \/ drafts' = drafts
  BY DEF Payment, type
<1>2. \A t \in Types, d \in Draft :
        drafts[t][d] \in Nat /\ drafts'[t][d] \in Nat /\ drafts'[t][d] <= drafts[t][d]
  BY <1>0, <1>1
<1>3. /\ [status |-> "evidence", unwarned |-> TRUE] \in Draft
      /\ [status |-> "csc", unwarned |-> TRUE] \in Draft
  BY DEF Draft
<1>. QED BY <1>2, <1>3 DEF NoDuplicateRequest

(* Where the answers are checked and paid for, place and time are settled. *)
LEMMA SettledSlot ==
  ASSUME NEW s, NEW p, Seen(s, p), p \in {"check-your-answers", "payment"}
  PROVE  /\ s.answers.type # None /\ s.answers.language
         /\ s.answers.centre # None /\ s.answers.slot # None
         /\ s.answers.slot = [centre |-> s.answers.centre, type |-> s.answers.type]
<1>0. s \in SessionData BY DEF Seen
<1>1. Settled(s) /\ s.answers.language
  BY DEF Seen, Kept, PlaceKept, Shown, Asked, PlaceAsked, PlaceShown, BookingPages, StandardPages
<1>2. [centre |-> s.answers.centre, type |-> s.answers.type] \in Slot
  BY <1>0, <1>1, SessionFields DEF Settled, Slot
<1>. QED BY <1>1, <1>2, NoneIsFresh DEF Settled

-----------------------------------------------------------------------------
(* The theorems. *)

DraftInv == JourneyInv /\ NoDuplicateRequest

LEMMA JourneyStarts ==
  ASSUME Init
  PROVE  DraftInv
<1>1. PICK target \in Targets : session = Fresh(target) BY DEF Init
<1>2. /\ session \in SessionData /\ ~session.candidate /\ ~session.support /\ session.standard
      /\ ~session.edit /\ ~session.confirming /\ session.edited.slot = None
      /\ session.answers.selected = None
  <2>1. session \in SessionData
    BY <1>1, Zenon DEF SessionData, Fresh, NoAnswers, Answers, NoEdits
  <2>. QED BY <1>1, <2>1 DEF Fresh, NoAnswers, NoEdits
<1>3. page = "choose-support" /\ links = {} BY DEF Init
<1>4. drafts \in [Types -> [Draft -> Nat]] /\ \A t \in Types, d \in Draft : drafts[t][d] = 0
  BY DEF Init, NoDrafts
<1>5. TypeOK
  BY <1>2, <1>3, <1>4
  DEF Init, TypeOK, Pages, StartPages
<1>. USE <1>2, <1>3 DEF Pages, StartPages, StandardPages, SupportPages, CommonPages, EitherPages,
         AnswerPages, LastPages, EditPages, LatePages, BookingPages, DynamicPages,
         Selected, IsNonStandard, IsSupportedStandard
<1>6. PlaceKept(session) /\ SideKept(session) /\ ToldKept(session)
  BY DEF PlaceKept, SideKept, ToldKept, OnlyOther
<1>7. PlaceAsked(session, page) /\ SideAsked(session, page) /\ ToldAsked(session, page)
  BY DEF PlaceAsked, SideAsked, ToldAsked
<1>8. PlaceShown(session, page) /\ SideShown(session, page) /\ ToldShown(session, page)
  BY DEF PlaceShown, SideShown, ToldShown
<1>9. NoDuplicateRequest
  <2>1. /\ [status |-> "evidence", unwarned |-> TRUE] \in Draft
        /\ [status |-> "csc", unwarned |-> TRUE] \in Draft
    BY DEF Draft
  <2>. QED BY <1>4, <2>1 DEF NoDuplicateRequest
<1>. QED BY <1>5, <1>6, <1>7, <1>8, <1>9 DEF DraftInv, JourneyInv, Kept, Shown, Asked

LEMMA JourneyGoesOn ==
  ASSUME DraftInv, [Next]_vars
  PROVE  DraftInv'
<1>0. JourneyInv /\ NoDuplicateRequest BY DEF DraftInv
<1>1. CASE Resolve \/ CheckYourDetails
  BY <1>0, <1>1, ResolveKeeps, RequestKeeps DEF DraftInv
<1>2. CASE Payment
  <2>1. JourneyInv' BY <1>0, <1>2, PaymentKeeps
  <2>2. NoDuplicateRequest' BY <1>0, <1>2, PaymentKeepsSingle
  <2>. QED BY <2>1, <2>2 DEF DraftInv
<1>3. CASE UNCHANGED vars
  <2>1. JourneyInv'
    <3>1. /\ session' = session /\ page' = page /\ links' = links /\ person' = person
          /\ confirmed' = confirmed /\ submitted' = submitted /\ drafts' = drafts
      BY <1>3 DEF vars
    <3>2. TypeOK' BY <1>0, <3>1 DEF JourneyInv, TypeOK
    <3>3. \A t \in Types : NoneUnwarned(t) => NoneUnwarned(t)' BY <3>1 DEF NoneUnwarned
    <3>4. /\ Kept(session') /\ Shown(session', page') /\ session' \in SessionData
          /\ \A q \in links' : Asked(session', q)
      BY <1>0, <3>1 DEF JourneyInv, TypeOK
    <3>. QED BY <3>2, <3>3, <3>4, KeptWithDrafts DEF JourneyInv
  <2>2. NoDuplicateRequest' BY <1>0, <1>3 DEF NoDuplicateRequest, vars
  <2>. QED BY <2>1, <2>2 DEF DraftInv
<1>4. ASSUME drafts' = drafts, JourneyInv'
      PROVE  DraftInv'
  BY <1>0, <1>4 DEF DraftInv, NoDuplicateRequest
<1>5. CASE Follow
  <2>1. drafts' = drafts BY <1>5 DEF Follow
  <2>. QED BY <1>0, <1>4, <1>5, <2>1, FollowKeeps
<1>6. CASE StartAgain
  <2>1. drafts' = drafts BY <1>6 DEF StartAgain
  <2>. QED BY <1>0, <1>4, <1>6, <2>1, StartAgainKeeps
<1>7. CASE CheckYourAnswers
  <2>1. drafts' = drafts BY <1>7 DEF CheckYourAnswers
  <2>. QED BY <1>0, <1>4, <1>7, <2>1, CheckYourAnswersKeeps
<1>8. CASE ChooseSupport \/ SupportAlert \/ CandidateDetails \/ EmailContact
  <2>1. drafts' = drafts
    BY <1>8 DEF ChooseSupport, SupportAlert, CandidateDetails, EmailContact, AnswerOneOf, Answer
  <2>. QED BY <1>0, <1>4, <1>8, <2>1, StartKeeps
<1>9. CASE TestType \/ TestLanguage
  <2>1. drafts' = drafts BY <1>9 DEF TestType, TestLanguage, AnswerOneOf, Answer
  <2>. QED BY <1>0, <1>4, <1>9, <2>1, TestKeeps
<1>10. CASE SelectStandardSupport \/ ChangeVoiceover
  <2>1. drafts' = drafts BY <1>10 DEF SelectStandardSupport, ChangeVoiceover, Answer
  <2>. QED BY <1>0, <1>4, <1>10, <2>1, StandardSupportKeeps
<1>11. CASE SelectSupportType \/ CustomSupport \/ Translator \/ ConfirmSupport
  <2>1. drafts' = drafts
    BY <1>11 DEF SelectSupportType, CustomSupport, Translator, ConfirmSupport, AnswerOneOf, Answer
  <2>. QED BY <1>0, <1>4, <1>11, <2>1, SupportTypeKeeps
<1>12. CASE LeavingNsa \/ PreferredDay \/ PreferredLocation \/ TelephoneContact \/ Voicemail
  <2>1. drafts' = drafts
    BY <1>12 DEF LeavingNsa, PreferredDay, PreferredLocation, TelephoneContact, Voicemail,
                 AnswerOneOf, Answer
  <2>. QED BY <1>0, <1>4, <1>12, <2>1, SupportPagesKeep
<1>13. CASE \/ FindTestCentre \/ SelectTestCentre \/ SelectDate \/ ChooseAppointment
            \/ ChangeLocationTime \/ BritishSignLanguage
  <2>1. drafts' = drafts
    BY <1>13 DEF FindTestCentre, SelectTestCentre, SelectDate, ChooseAppointment,
                 ChangeLocationTime, BritishSignLanguage, AnswerOneOf, Answer
  <2>. QED BY <1>0, <1>4, <1>13, <2>1, PlaceKeeps
<1>. QED
  BY <1>1, <1>2, <1>3, <1>5, <1>6, <1>7, <1>8, <1>9, <1>10, <1>11, <1>12, <1>13 DEF Next

(* For any candidates, centres and bounds the invariant holds throughout. *)
THEOREM JourneyIsSound == Spec => []DraftInv
<1>1. Init => DraftInv BY JourneyStarts
<1>2. DraftInv /\ [Next]_vars => DraftInv' BY JourneyGoesOn
<1>. QED BY <1>1, <1>2, PTL DEF Spec

(* Every variable keeps its type: a session as the store keeps it, a page *)
(* the service has, and a count of requests that is never below zero.     *)
THEOREM TypeCorrect == Spec => []TypeOK
<1>1. DraftInv => TypeOK BY DEF DraftInv, JourneyInv
<1>. QED BY <1>1, JourneyIsSound, PTL

(* However the candidate wandered, links, edits and answers given twice, the *)
(* pages that check and send the answers have every answer that the booking, *)
(* or the support request, is made from.                                     *)
THEOREM AnswersAreComplete == Spec => []AnswersComplete
<1>1. ASSUME DraftInv PROVE AnswersComplete
  <2>0. Seen(session, page) BY <1>1, PageIsSeen DEF DraftInv
  <2>1. page \in {"check-your-answers", "payment"} =>
          /\ session.answers.type # None /\ session.answers.language
          /\ session.answers.centre # None /\ session.answers.slot # None
    BY <2>0, SettledSlot
  <2>2. page = "check-your-details" /\ ~session.received =>
          IsNonStandard(session) /\ Told(session)
    BY <2>0
    DEF Seen, Kept, Shown, PlaceShown, SideShown, SupportPages, ToldKept
  <2>3. page = "check-your-details" /\ ~session.received => session.answers.told # None
    BY <2>2, EvidenceType, NoneIsFresh DEF Told
  <2>. QED
    BY <2>1, <2>2, <2>3 DEF AnswersComplete, Told, Voiced, Translated, Selected
<1>. QED BY <1>1, JourneyIsSound, PTL

(* The time the candidate confirms and pays for was offered for the test and *)
(* at the centre the answers name, whatever edit of either was finished or   *)
(* given up on the way.                                                      *)
THEOREM TimeWasOffered == Spec => []OfferedTogether
<1>1. ASSUME DraftInv PROVE OfferedTogether
  <2>1. Seen(session, page) BY <1>1, PageIsSeen DEF DraftInv
  <2>. QED BY <2>1, SettledSlot DEF OfferedTogether
<1>. QED BY <1>1, JourneyIsSound, PTL

(* A candidate who named support a standard test cannot give is never led to *)
(* the pages that book one.                                                  *)
THEOREM NonStandardIsKept == Spec => []NonStandardStaysSupported
<1>1. ASSUME DraftInv PROVE NonStandardStaysSupported
  <2>1. Seen(session, page) BY <1>1, PageIsSeen DEF DraftInv
  <2>. QED
    BY <2>1
    DEF NonStandardStaysSupported, Seen, Kept, Shown, PlaceShown, SideKept, IsSupportedStandard,
        Standardable, Selected
<1>. QED BY <1>1, JourneyIsSound, PTL

(* The pages of detail a candidate meets and is led to are those of the own *)
(* selection, although the navigator that works them out is shared by all   *)
(* sessions.                                                                *)
THEOREM WalkIsOnesOwn == Spec => []WalkIsOwn
<1>1. ASSUME DraftInv PROVE WalkIsOwn
  <2>1. \A q \in {page} \cup links : SideAsked(session, q)
    BY <1>1 DEF DraftInv, JourneyInv, Shown, Asked
  <2>. QED BY <2>1 DEF WalkIsOwn, SideAsked, Selected
<1>. QED BY <1>1, JourneyIsSound, PTL

(* Of a candidate's requests for one test the service makes only one that *)
(* the candidate was not warned about while it is open.                   *)
THEOREM RequestIsSingle == Spec => []NoDuplicateRequest
<1>1. DraftInv => NoDuplicateRequest BY DEF DraftInv
<1>. QED BY <1>1, JourneyIsSound, PTL

(* A request waits for medical evidence exactly if the candidate was told *)
(* on the last page about it that evidence is required.                   *)
THEOREM ToldOfEvidence == Spec => []EvidenceAsTold
<1>1. ASSUME DraftInv PROVE EvidenceAsTold
  <2>0. Seen(session, page) BY <1>1, PageIsSeen DEF DraftInv
  <2>1. page = "check-your-details" /\ ~session.received => Told(session)
    BY <2>0
    DEF Seen, Kept, Shown, PlaceShown, SideShown, SupportPages, ToldKept
  <2>. QED BY <2>1 DEF EvidenceAsTold, NsaStatus, Told
<1>. QED BY <1>1, JourneyIsSound, PTL

-----------------------------------------------------------------------------
(* Sign language or a voiceover.  On the standard side the options may be  *)
(* edited freely and are checked when the answers are sent; but an edit    *)
(* may end there and the candidate go on to the pages of the support.      *)

Checking == {"booking-exists", "payment", "check-your-answers"}

Apart(s) ==
  /\ ~(s.answers.bsl /\ s.answers.voiceover)
  /\ "voiceover" \in s.answers.selected => ~s.answers.bsl

(* A selection is one's own, and but for an edit on the standard side the *)
(* options go together with it.                                           *)
ApartAt(s, p) ==
  Selected(s) =>
    /\ s.answers.selected \subseteq person.support
    /\ s.support /\ (~s.standard \/ (~s.edit /\ p \notin Checking)) => Apart(s)

ApartShown == ApartAt(session, page) /\ \A q \in links : ApartAt(session, q)

(* Whose slot may be taken asks for no voiceover. *)
TakenWithoutVoiceover ==
  \A p \in People : "taken" \in p.faults => "voiceover" \notin p.support

SameOptions(r, s) ==
  /\ r.answers.selected = s.answers.selected
  /\ r.answers.bsl = s.answers.bsl /\ r.answers.voiceover = s.answers.voiceover
SameSide(r, s) == r.support = s.support /\ r.standard = s.standard /\ r.edit = s.edit

(* Five ways in which a session stays so. *)
LEMMA SameApart ==
  ASSUME NEW s, NEW p, NEW r, NEW q, ApartAt(s, p), SameOptions(r, s), SameSide(r, s),
         p \notin Checking \/ q \in Checking
  PROVE  ApartAt(r, q)
BY DEF ApartAt, Apart, Selected, SameOptions, SameSide

LEMMA CarriedApart ==
  ASSUME NEW s, NEW p, NEW r, NEW q, ApartAt(s, p), SameOptions(r, s), s.support,
         ~s.standard \/ (~s.edit /\ p \notin Checking)
  PROVE  ApartAt(r, q)
BY DEF ApartAt, Apart, Selected, SameOptions

LEMMA EditingApart ==
  ASSUME NEW s, NEW p, NEW r, NEW q, ApartAt(s, p),
         r.answers.selected = s.answers.selected, r.standard, r.edit \/ q \in Checking
  PROVE  ApartAt(r, q)
BY DEF ApartAt, Selected

LEMMA UnsupportedApart ==
  ASSUME NEW s, NEW p, NEW r, NEW q, ApartAt(s, p),
         r.answers.selected = s.answers.selected, Selected(s) => ~r.support
  PROVE  ApartAt(r, q)
BY DEF ApartAt, Selected

LEMMA UnselectedApart ==
  ASSUME NEW r, NEW q, r.answers.selected = None
  PROVE  ApartAt(r, q)
BY DEF ApartAt, Selected

LEMMA ResetApart ==
  ASSUME NEW s \in SessionData, NEW q
  PROVE  ApartAt(ResetSession(s), q)
<1>1. ResetSession(s).answers.selected = None
  BY DEF ResetSession, Fresh, NoAnswers, SessionData
<1>. QED BY <1>1, UnselectedApart

(* Showing a page, and the pages it links to. *)
LEMMA HandleApart ==
  ASSUME NEW s, NEW p, Ready(s, p), Permitted(s, p), ApartAt(s, p)
  PROVE  ApartAt(Handle(s, p)[1], Handle(s, p)[2])
<1>. DEFINE h == Handle(s, p)
<1>0. s \in SessionData /\ p \in Pages BY DEF Ready
<1>1. CASE p \in {"leaving-nsa", "confirm-support"}
  <2>. DEFINE r == [s EXCEPT !.standard = FALSE]
  <2>1. h = <<r, p>> BY <1>1, Zenon DEF Handle
  <2>2. SameOptions(r, s) BY <1>0 DEF SessionData, SameOptions
  <2>3. s.support /\ ~s.edit /\ p \notin Checking
    BY <1>1 DEF Ready, Asked, PlaceAsked, Permitted, SupportPages, EditPages, LastPages, Checking
  <2>. HIDE DEF r
  <2>. QED BY <2>1, <2>2, <2>3, CarriedApart
<1>2. CASE p = "check-your-details"
  <2>. DEFINE r == [s EXCEPT !.edit = TRUE]
  <2>1. \E q : h = <<r, q>> BY <1>2, Zenon DEF Handle
  <2>2. SameOptions(r, s) BY <1>0 DEF SessionData, SameOptions
  <2>3. s.support /\ ~s.standard
    BY <1>2 DEF Ready, Asked, SideAsked, SupportPages, IsNonStandard
  <2>. HIDE DEF r
  <2>. QED BY <2>1, <2>2, <2>3, CarriedApart
<1>3. CASE p = "check-your-answers"
  <2>. DEFINE r == ApplyEdits(s)
  <2>1. \E q : h = <<r, q>> BY <1>3, Zenon DEF Handle
  <2>2. r.answers.selected = s.answers.selected /\ r.standard /\ r.edit
    BY <1>0, EditsAppliedSet DEF SameSupport
  <2>. HIDE DEF r
  <2>. QED BY <2>1, <2>2, EditingApart
<1>4. CASE p = "received-support-request"
  <2>. DEFINE r == [s EXCEPT !.received = s.received \/ ~IsNonStandard(s)]
  <2>1. h = <<r, p>> BY <1>4, Zenon DEF Handle
  <2>2. SameOptions(r, s) /\ SameSide(r, s) BY <1>0 DEF SessionData, SameOptions, SameSide
  <2>. HIDE DEF r
  <2>. QED BY <1>4, <2>1, <2>2, SameApart DEF Checking
<1>5. CASE p = "select-standard-support"
  <2>. DEFINE r == [s EXCEPT !.shownVoiceover = FALSE]
              t == [r EXCEPT !.shownStandard = TRUE]
  <2>1. h = ShowStandardSupport(r) BY <1>5, Zenon DEF Handle
  <2>2. h \in {<<r, "change-voiceover">>, <<t, "select-standard-support">>}
    BY <2>1, Zenon DEF ShowStandardSupport
  <2>3. /\ SameOptions(r, s) /\ SameSide(r, s)
        /\ SameOptions(t, s) /\ SameSide(t, s)
    BY <1>0 DEF SessionData, SameOptions, SameSide
  <2>. HIDE DEF r, t
  <2>. QED BY <1>5, <2>2, <2>3, SameApart DEF Checking
<1>6. CASE p = "test-language" /\ s.target = "ni"
  <2>. DEFINE r == [s EXCEPT !.answers.language = TRUE]
  <2>1. \E q : h = <<r, q>> BY <1>6, Zenon DEF Handle
  <2>2. SameOptions(r, s) /\ SameSide(r, s)
    BY <1>0, LanguageSet DEF SameOptions, SameSide, SameSupport, SameFlags
  <2>. HIDE DEF r
  <2>. QED BY <1>6, <2>1, <2>2, SameApart DEF Checking
<1>7. CASE p = "staying-nsa"
  <2>. DEFINE r == [s EXCEPT !.lastPage = "other"]
              t == [s EXCEPT !.answers.told = EvidenceRoute(s.answers.selected, s.needs)]
  <2>1. h \in {<<r, "duplicate-support-request">>, <<s, "no-options">>, <<t, p>>}
    BY <1>7, Zenon DEF Handle
  <2>2. /\ SameOptions(r, s) /\ SameSide(r, s)
        /\ SameOptions(s, s) /\ SameSide(s, s)
    BY <1>0 DEF SessionData, SameOptions, SameSide
  <2>3. SameOptions(t, s) /\ SameSide(t, s)
    BY <1>0, ToldSet DEF SameOptions, SameSide, SameSupport, SameFlags
  <2>. HIDE DEF r, t
  <2>. QED BY <1>7, <2>1, <2>2, <2>3, SameApart DEF Checking
<1>8. CASE p \in {"choose-appointment", "change-voiceover", "select-date", "custom-support"}
  <2>1. \E q : h = <<s, q>> BY <1>8, Zenon DEF Handle
  <2>2. SameOptions(s, s) /\ SameSide(s, s) BY DEF SameOptions, SameSide
  <2>. QED BY <1>8, <2>1, <2>2, SameApart DEF Checking
<1>9. CASE /\ p \notin {"leaving-nsa", "confirm-support", "check-your-details",
                        "check-your-answers", "received-support-request",
                        "select-standard-support", "staying-nsa", "choose-appointment",
                        "change-voiceover", "select-date", "custom-support"}
           /\ ~(p = "test-language" /\ s.target = "ni")
  <2>1. h = <<s, p>> BY <1>9, Zenon DEF Handle
  <2>. QED BY <2>1
<1>. QED BY <1>1, <1>2, <1>3, <1>4, <1>5, <1>6, <1>7, <1>8, <1>9

LEMMA GetApart ==
  ASSUME NEW s, NEW p, Ready(s, p), ApartAt(s, p)
  PROVE  ApartAt(Get(s, p)[1], Get(s, p)[2])
<1>0. s \in SessionData BY DEF Ready
<1>1. \/ \E q : Get(s, p) = <<ResetSession(s), q>>
      \/ Permitted(s, p) /\ Get(s, p) = Handle(s, p)
  BY DEF Get
<1>. QED BY <1>0, <1>1, ResetApart, HandleApart

LEMMA ArriveApart ==
  ASSUME NEW s, NEW p, Ready(s, p), ApartAt(s, p), drafts \in [Types -> [Draft -> Nat]]
  PROVE  ApartAt(Arrive(s, p)[1], Arrive(s, p)[2])
<1>. DEFINE first == Get(s, p)
            second == Get(first[1], first[2])
            third == Get(second[1], second[2])
<1>1. Served(first, p) /\ ApartAt(first[1], first[2]) BY GetServes, GetApart
<1>2. CASE first[2] = p
  BY <1>1, <1>2 DEF Arrive
<1>3. CASE first[2] # p
  <2>1. Ready(first[1], first[2]) BY <1>1, <1>3 DEF Served
  <2>2. Served(second, first[2]) /\ ApartAt(second[1], second[2])
    BY <1>1, <2>1, GetServes, GetApart
  <2>3. CASE second[2] = first[2]
    <3>1. Arrive(s, p) = second BY <1>3, <2>3 DEF Arrive
    <3>. QED BY <2>2, <3>1
  <2>4. CASE second[2] # first[2]
    <3>1. Ready(second[1], second[2]) BY <2>2, <2>4 DEF Served
    <3>2. ApartAt(third[1], third[2]) BY <2>2, <3>1, GetApart
    <3>3. Arrive(s, p) = third BY <1>3, <2>4 DEF Arrive
    <3>. QED BY <3>2, <3>3
  <2>. QED BY <2>3, <2>4
<1>. QED BY <1>2, <1>3

LEMMA LinksApart ==
  ASSUME NEW s, NEW p, Seen(s, p), ApartAt(s, p), NEW routes, NEW q \in Links(s, p, routes)
  PROVE  ApartAt(s, q)
<1>0. SameOptions(s, s) /\ SameSide(s, s) BY DEF SameOptions, SameSide
<1>1. CASE p = "check-your-answers"
  <2>1. s.standard /\ s.edit
    BY <1>1 DEF Seen, Shown, PlaceShown, StandardPages
  <2>. QED BY <2>1, EditingApart
<1>2. CASE p = "booking-exists"
  <2>1. q = s.lastPage
    <3>1. Links(s, p, routes) = ForwardLinks(s, p, routes)
      BY <1>2, Zenon DEF Links, EditedFromCheckPage
    <3>2. ForwardLinks(s, p, routes) = {s.lastPage} \cap Pages
      BY <1>2, Zenon DEF ForwardLinks
    <3>. QED BY <3>1, <3>2
  <2>2. s.lastPage = "check-your-answers"
    BY <1>2 DEF Seen, Shown, Asked, PlaceAsked
  <2>. QED BY <1>0, <2>1, <2>2, SameApart DEF Checking
<1>3. CASE p = "payment"
  <2>1. Links(s, p, routes) = ForwardLinks(s, p, routes)
    BY <1>3, Zenon DEF Links, EditedFromCheckPage
  <2>2. ForwardLinks(s, p, routes) = {}
    BY <1>3, Zenon DEF ForwardLinks
  <2>. QED BY <2>1, <2>2
<1>4. CASE p \notin Checking
  BY <1>0, <1>4, SameApart
<1>. QED BY <1>1, <1>2, <1>3, <1>4 DEF Checking

LEMMA ShowPageApart ==
  ASSUME NEW s, NEW p, ShowPage(s, p), Seen(s, p), ApartAt(s, p)
  PROVE  ApartShown'
<1>1. session' = s /\ page' = p /\ person' = person BY DEF ShowPage
<1>2. PICK routes : links' = Links(s, p, routes) BY DEF ShowPage
<1>3. \A q \in links' : ApartAt(s, q) BY <1>2, LinksApart
<1>. QED BY <1>1, <1>3 DEF ApartShown, ApartAt

LEMMA GotoApart ==
  ASSUME JourneyInv, NEW s, NEW p, Goto(s, p), Ready(s, p), ApartAt(s, p)
  PROVE  ApartShown'
<1>. DEFINE shown == Arrive(s, p)
<1>1. drafts \in [Types -> [Draft -> Nat]] BY DEF JourneyInv, TypeOK
<1>2. Seen(shown[1], shown[2]) /\ ApartAt(shown[1], shown[2])
  BY <1>1, ArriveIsSeen, ArriveApart
<1>3. ShowPage(shown[1], shown[2]) BY DEF Goto
<1>. QED BY <1>2, <1>3, ShowPageApart

LEMMA AnswerApart ==
  ASSUME JourneyInv, NEW p, NEW s, NEW next, Answer(p, s, next), Ready(s, next), ApartAt(s, next)
  PROVE  ApartShown' /\ submitted' = submitted
BY GotoApart DEF Answer

(* The answers.  A candidate who is not yet one has selected nothing, and *)
(* one on the pages of the support keeps the options with the selection.  *)
LEMMA StartApart ==
  ASSUME JourneyInv, ApartShown,
         ChooseSupport \/ SupportAlert \/ CandidateDetails \/ EmailContact
  PROVE  ApartShown' /\ submitted' = submitted
<1>0. Seen(session, page) /\ session \in SessionData /\ ApartAt(session, page)
  BY PageIsSeen DEF ApartShown, Seen
<1>1. CASE ChooseSupport
  <2>0. Seen(session, "choose-support") BY <1>0, <1>1 DEF ChooseSupport, Answer
  <2>1. PICK wanted \in BOOLEAN :
          IF session.edit
          THEN Answer("choose-support",
                      ResetBooking([session EXCEPT !.support = wanted, !.standard = ~wanted,
                                                   !.edit = FALSE]),
                      IF wanted THEN "test-type" ELSE "email-contact")
          ELSE Answer("choose-support",
                      [session EXCEPT !.support = FALSE, !.standard = TRUE],
                      IF wanted THEN "support-alert" ELSE "candidate-details")
    BY <1>1 DEF ChooseSupport
  <2>2. CASE session.edit
    <3>. DEFINE t == [session EXCEPT !.support = wanted, !.standard = ~wanted, !.edit = FALSE]
                r == ResetBooking(t)
                q == IF wanted THEN "test-type" ELSE "email-contact"
    <3>1. Answer("choose-support", r, q) BY <2>1, <2>2
    <3>2. wanted => /\ r = ResetBooking([session EXCEPT !.support = TRUE, !.standard = FALSE, !.edit = FALSE])
                    /\ q = "test-type"
      OBVIOUS
    <3>3. ~wanted => /\ r = ResetBooking([session EXCEPT !.support = FALSE, !.standard = TRUE, !.edit = FALSE])
                     /\ q = "email-contact"
      OBVIOUS
    <3>4. Ready(r, q) BY <2>0, <3>2, <3>3, SupportChosen, SupportDeclined
    <3>5. r.answers.selected = None
      <4>1. t \in SessionData BY <1>0 DEF SessionData
      <4>. HIDE DEF t
      <4>. QED BY <4>1, BookingResetSet DEF NoAnswers
    <3>. HIDE DEF r, q
    <3>. QED BY <3>1, <3>4, <3>5, UnselectedApart, AnswerApart
  <2>3. CASE ~session.edit
    <3>. DEFINE r == [session EXCEPT !.support = FALSE, !.standard = TRUE]
    <3>1. PICK q \in {"support-alert", "candidate-details"} : Answer("choose-support", r, q)
      BY <2>1, <2>3
    <3>2. Ready(r, q) BY <2>0, <2>3, StartChosen
    <3>3. r.answers.selected = session.answers.selected /\ ~r.support
      BY <1>0 DEF SessionData
    <3>4. ApartAt(r, q)
      <4>. HIDE DEF r
      <4>. QED BY <1>0, <3>3, UnsupportedApart
    <3>. QED BY <3>1, <3>2, <3>4, AnswerApart
  <2>. QED BY <2>2, <2>3
<1>2. CASE SupportAlert
  <2>. DEFINE r == [session EXCEPT !.support = TRUE, !.standard = FALSE, !.edit = FALSE]
  <2>1. page = "support-alert" /\ Answer("support-alert", r, "candidate-details")
    BY <1>2 DEF SupportAlert, AnswerOneOf, SupportAlertReplies
  <2>2. Ready(r, "candidate-details") BY <1>0, <2>1, AlertAnswered
  <2>3. ~Selected(session)
    BY <1>0, <2>1 DEF Seen, Shown, PlaceShown, Kept, PlaceKept
  <2>4. r.answers.selected = None
    BY <1>0, <2>3 DEF SessionData, Selected
  <2>. QED BY <2>1, <2>2, <2>4, UnselectedApart, AnswerApart
<1>3. CASE CandidateDetails
  <2>1. PICK needs \in BOOLEAN :
          Answer("candidate-details",
                 [session EXCEPT !.candidate = TRUE, !.needs = needs,
                                 !.answers.bsl = FALSE, !.answers.voiceover = FALSE],
                 IF session.support THEN "test-type" ELSE "email-contact")
    BY <1>3 DEF CandidateDetails
  <2>. DEFINE r == [session EXCEPT !.candidate = TRUE, !.needs = needs,
                                   !.answers.bsl = FALSE, !.answers.voiceover = FALSE]
              q == IF session.support THEN "test-type" ELSE "email-contact"
  <2>2. page = "candidate-details" BY <2>1 DEF Answer
  <2>3. Ready(r, q) BY <1>0, <2>2, CandidateNamed, Zenon
  <2>4. ~Selected(session)
    BY <1>0, <2>2 DEF Seen, Shown, PlaceShown, Kept, PlaceKept
  <2>5. r.answers.selected = None
    BY <1>0, <2>4 DEF SessionData, Answers, Selected
  <2>6. Answer("candidate-details", r, q) BY <2>1
  <2>. HIDE DEF r, q
  <2>. QED BY <2>3, <2>5, <2>6, UnselectedApart, AnswerApart
<1>4. CASE EmailContact
  <2>1. PICK q :
          /\ q = IF session.edit THEN CheckPage(session)
                 ELSE IF IsStandard(session) THEN "test-type"
                 ELSE IF IsSupportedStandard(session) THEN "find-test-centre"
                 ELSE "telephone-contact"
          /\ page = "email-contact" /\ Answer("email-contact", session, q)
    BY <1>4 DEF EmailContact, AnswerOneOf, EmailContactReplies
  <2>2. Ready(session, q) BY <1>0, <2>1, EmailAnswered
  <2>3. ApartAt(session, q)
    BY <1>0, <2>1, SameApart DEF SameOptions, SameSide, Checking
  <2>. QED BY <2>1, <2>2, <2>3, AnswerApart
<1>. QED BY <1>1, <1>2, <1>3, <1>4

LEMMA TestApart ==
  ASSUME JourneyInv, ApartShown, TestType \/ TestLanguage
  PROVE  ApartShown' /\ submitted' = submitted
<1>0. Seen(session, page) /\ session \in SessionData /\ ApartAt(session, page)
  BY PageIsSeen DEF ApartShown, Seen
<1>1. CASE TestType
  <2>1. PICK type \in person.types :
          \/ /\ ~IsNonStandard(ChooseType(session, type))
             /\ Answer("test-type", [ChooseType(session, type) EXCEPT !.lastPage = "test-type"],
                       "received-support-request")
          \/ Answer("test-type", ChooseType(session, type), "test-language")
    BY <1>1 DEF TestType, AnswerOneOf, TestTypeReplies
  <2>2. type \in Types BY DEF JourneyInv, TypeOK, Types
  <2>3. page = "test-type" BY <2>1 DEF Answer
  <2>. DEFINE c == ChooseType(session, type)
              w == [c EXCEPT !.lastPage = "test-type"]
  <2>4. /\ c \in SessionData /\ ~c.edit /\ c.support = session.support
        /\ c.standard = session.standard
        /\ session.edit => c.answers.selected = None
    BY <1>0, <2>2, TypeSet
  <2>5. w.answers = c.answers /\ SameSide(w, c)
    <3>. HIDE DEF c
    <3>. QED BY <2>4 DEF SessionData, SameSide
  <2>6. ApartAt(c, "test-language")
    <3>1. CASE session.edit BY <2>4, <3>1, UnselectedApart
    <3>2. CASE ~session.edit
      <4>1. SameOptions(c, session)
        BY <1>0, <3>2 DEF ChooseType, SameOptions, SessionData, Answers
      <4>. HIDE DEF c
      <4>. QED BY <1>0, <2>3, <2>4, <3>2, <4>1, SameApart DEF SameSide, Checking, SessionData
    <3>. QED BY <3>1, <3>2
  <2>7. ApartAt(w, "received-support-request")
    <3>. HIDE DEF c, w
    <3>. QED BY <2>5, <2>6, SameApart DEF SameOptions, Checking
  <2>. QED BY <1>0, <2>1, <2>2, <2>3, <2>6, <2>7, TypeWarned, TypeAnswered, AnswerApart
<1>2. CASE TestLanguage
  <2>1. page = "test-language" BY <1>2 DEF TestLanguage, AnswerOneOf
  <2>2. CASE CanChangeTestLanguage(session)
    <3>. DEFINE s == [session EXCEPT !.answers.language = TRUE]
                q == IF session.edit THEN CheckPage(session)
                     ELSE IF IsNonStandard(session) THEN "select-support-type"
                     ELSE "select-standard-support"
    <3>1. Ready(s, q) BY <1>0, <2>1, LanguageAnswered, Zenon
    <3>2. TestLanguageReplies = {<<s, q>>} BY <2>2 DEF TestLanguageReplies
    <3>3. SameOptions(s, session) /\ SameSide(s, session)
      BY <1>0, LanguageSet DEF SameOptions, SameSide, SameSupport, SameFlags
    <3>. HIDE DEF s, q
    <3>4. ApartAt(s, q) BY <1>0, <2>1, <3>3, SameApart DEF Checking
    <3>5. Answer("test-language", s, q) BY <1>2, <3>2 DEF TestLanguage, AnswerOneOf
    <3>. QED BY <3>1, <3>4, <3>5, AnswerApart
  <2>3. CASE ~CanChangeTestLanguage(session)
    <3>1. Answer("test-language", session, "error")
      BY <1>2, <2>3 DEF TestLanguage, AnswerOneOf, TestLanguageReplies
    <3>2. Ready(session, "error")
      BY <1>0, SeenIsReady, LastPageReady DEF LastPages, Seen, Shown, PlaceShown
    <3>3. ApartAt(session, "error")
      BY <1>0, <2>1, SameApart DEF SameOptions, SameSide, Checking
    <3>. QED BY <3>1, <3>2, <3>3, AnswerApart
  <2>. QED BY <2>2, <2>3
<1>. QED BY <1>1, <1>2

(* Nobody with a selection is asked for options on the standard side but *)
(* in an edit.                                                           *)
LEMMA StandardSupportApart ==
  ASSUME JourneyInv, ApartShown, SelectStandardSupport \/ ChangeVoiceover
  PROVE  ApartShown' /\ submitted' = submitted
<1>0. Seen(session, page) /\ session \in SessionData /\ ApartAt(session, page)
  BY PageIsSeen DEF ApartShown, Seen
<1>1. CASE SelectStandardSupport
  <2>1. Seen(session, "select-standard-support") /\ page = "select-standard-support"
    BY <1>0, <1>1 DEF SelectStandardSupport, Answer
  <2>2. Selected(session) => ~session.support
    BY <2>1
    DEF Seen, Shown, Asked, SideAsked, PlaceAsked, EditPages, LastPages, IsNonStandard,
        IsSupportedStandard
  <2>3. \A r, q : r.answers.selected = session.answers.selected /\ r.support = session.support
                    => ApartAt(r, q)
    BY <1>0, <2>2, UnsupportedApart
  <2>4. CASE Answer("select-standard-support",
                    [session EXCEPT !.answers.bsl = TRUE, !.answers.voiceover = FALSE,
                                    !.lastPage = "other"],
                    "find-test-centre")
    <3>. DEFINE r == [session EXCEPT !.answers.bsl = TRUE, !.answers.voiceover = FALSE,
                                     !.lastPage = "other"]
    <3>1. Ready(r, "find-test-centre") BY <2>1, SignLanguageChosen
    <3>2. r.answers.selected = session.answers.selected /\ r.support = session.support
      BY <1>0 DEF SessionData, Answers
    <3>. QED BY <2>3, <2>4, <3>1, <3>2, AnswerApart
  <2>5. CASE Answer("select-standard-support", [session EXCEPT !.answers.bsl = FALSE],
                    "change-voiceover")
    <3>. DEFINE r == [session EXCEPT !.answers.bsl = FALSE]
    <3>1. Ready(r, "change-voiceover") BY <2>1, VoiceoverChosen
    <3>2. r.answers.selected = session.answers.selected /\ r.support = session.support
      BY <1>0 DEF SessionData, Answers
    <3>. QED BY <2>3, <2>5, <3>1, <3>2, AnswerApart
  <2>6. CASE Answer("select-standard-support",
                    [session EXCEPT !.answers.bsl = FALSE, !.answers.voiceover = FALSE,
                                    !.edit = FALSE, !.lastPage = "other"],
                    "find-test-centre")
    <3>. DEFINE r == [session EXCEPT !.answers.bsl = FALSE, !.answers.voiceover = FALSE,
                                     !.edit = FALSE, !.lastPage = "other"]
    <3>1. Ready(r, "find-test-centre") BY <2>1, NeitherChosen
    <3>2. r.answers.selected = session.answers.selected /\ r.support = session.support
      BY <1>0 DEF SessionData, Answers
    <3>. QED BY <2>3, <2>6, <3>1, <3>2, AnswerApart
  <2>. QED BY <1>1, <2>4, <2>5, <2>6 DEF SelectStandardSupport
<1>2. CASE ChangeVoiceover
  <2>. DEFINE Changed(wanted) ==
         [session EXCEPT !.shownVoiceover = TRUE, !.answers.voiceover = wanted]
  <2>1. PICK wanted \in BOOLEAN, routes \in Routes(session) :
          /\ IsNonStandard(session) => wanted
          /\ IF Changed(wanted).edit
             THEN Answer("change-voiceover", Changed(wanted),
                         IF IsNonStandard(Changed(wanted)) THEN "check-your-details"
                         ELSE "check-your-answers")
             ELSE IF IsNonStandard(Changed(wanted))
             THEN Answer("change-voiceover", Changed(wanted),
                         NextPage(Changed(wanted), "change-voiceover", routes))
             ELSE Answer("change-voiceover", [Changed(wanted) EXCEPT !.lastPage = "other"],
                         "find-test-centre")
    BY <1>2, ZenonT(60) DEF ChangeVoiceover
  <2>. DEFINE r == Changed(wanted)
  <2>2. /\ r.edit = session.edit /\ r.standard = session.standard
        /\ r.support = session.support
        /\ r.answers.selected = session.answers.selected
        /\ r.answers.bsl = session.answers.bsl /\ r.answers.voiceover = wanted
        /\ IsNonStandard(r) <=> IsNonStandard(session)
        /\ [r EXCEPT !.lastPage = "other"] =
             [session EXCEPT !.shownVoiceover = TRUE, !.answers.voiceover = wanted,
                             !.lastPage = "other"]
    BY <1>0 DEF SessionData, Answers, IsNonStandard
  <2>3. page = "change-voiceover" BY <2>1 DEF Answer
  <2>4. ASSUME IsNonStandard(session), NEW q
        PROVE  ApartAt(r, q)
    <3>1. Selected(session) =>
            "voiceover" \in session.answers.selected /\ Apart(session)
              /\ session.answers.selected \subseteq person.support
      <4>1. Selected(session) => "change-voiceover" \in OwnPages(session)
        BY <1>0, <2>3, <2>4 DEF Seen, Shown, Asked, SideAsked, DynamicPages
      <4>2. OptionOf["change-voiceover"] = "voiceover" BY DEF OptionOf, DynamicPages
      <4>. QED BY <1>0, <2>4, <4>1, <4>2 DEF OwnPages, ApartAt, IsNonStandard
    <3>. HIDE DEF r
    <3>. QED BY <2>2, <3>1 DEF ApartAt, Apart, Selected
  <2>5. CASE session.edit
    <3>1. PICK q :
            /\ q = IF IsNonStandard(session) THEN "check-your-details" ELSE "check-your-answers"
            /\ Answer("change-voiceover", r, q)
      BY <2>1, <2>2, <2>5
    <3>2. Ready(r, q) BY <1>0, <2>3, <2>5, <3>1, VoiceoverEdited
    <3>3. CASE IsNonStandard(session) BY <2>4, <3>1, <3>2, <3>3, AnswerApart
    <3>4. CASE ~IsNonStandard(session)
      <4>1. session.standard
        BY <1>0, <3>4 DEF Seen, Kept, PlaceKept, IsNonStandard
      <4>2. ApartAt(r, q)
        <5>. HIDE DEF r
        <5>. QED BY <1>0, <2>2, <2>5, <4>1, EditingApart
      <4>. QED BY <3>1, <3>2, <4>2, AnswerApart
    <3>. QED BY <3>3, <3>4
  <2>6. CASE ~session.edit /\ IsNonStandard(session)
    <3>1. Answer("change-voiceover", r, NextPage(r, "change-voiceover", routes))
      BY <2>1, <2>2, <2>6
    <3>2. Ready(r, NextPage(r, "change-voiceover", routes)) BY <1>0, <2>3, <2>6, VoiceoverNext
    <3>. QED BY <2>4, <2>6, <3>1, <3>2, AnswerApart
  <2>7. CASE ~session.edit /\ ~IsNonStandard(session)
    <3>. DEFINE t == [session EXCEPT !.shownVoiceover = TRUE, !.answers.voiceover = wanted,
                                     !.lastPage = "other"]
    <3>1. Answer("change-voiceover", t, "find-test-centre") BY <2>1, <2>2, <2>7
    <3>2. Ready(t, "find-test-centre") BY <1>0, <2>3, <2>7, VoiceoverAnswered
    <3>3. Selected(session) => ~session.support
      BY <1>0, <2>3, <2>7
      DEF Seen, Shown, Asked, SideAsked, IsNonStandard, IsSupportedStandard
    <3>4. t.answers.selected = session.answers.selected /\ t.support = session.support
      BY <1>0 DEF SessionData, Answers
    <3>5. ApartAt(t, "find-test-centre")
      <4>. HIDE DEF t
      <4>. QED BY <1>0, <3>3, <3>4, UnsupportedApart
    <3>. QED BY <3>1, <3>2, <3>5, AnswerApart
  <2>. QED BY <2>5, <2>6, <2>7
<1>. QED BY <1>1, <1>2

LEMMA SupportTypeApart ==
  ASSUME JourneyInv, ApartShown, SelectSupportType \/ CustomSupport \/ Translator \/ ConfirmSupport
  PROVE  ApartShown' /\ submitted' = submitted
<1>0. Seen(session, page) /\ session \in SessionData /\ ApartAt(session, page)
  BY PageIsSeen DEF ApartShown, Seen
<1>1. ASSUME page \in {"custom-support", "translator", "confirm-support"}, NEW r, NEW q,
             SameOptions(r, session)
      PROVE  ApartAt(r, q)
  <2>1. session.support /\ ~session.standard
    BY <1>0, <1>1 DEF Seen, Shown, SideShown, SupportPages, IsNonStandard
  <2>. QED BY <1>0, <1>1, <2>1, CarriedApart
<1>2. CASE SelectSupportType
  <2>1. PICK selected \in SUBSET person.support :
          LET s == SelectSupport(session, selected)
          IN  /\ ~({"bsl", "voiceover"} \subseteq selected)
              /\ Answer("select-support-type", s, NextPage(s, "select-support-type", OwnPages(s)))
    BY <1>2 DEF SelectSupportType, AnswerOneOf, SelectSupportTypeReplies
  <2>. DEFINE r == SelectSupport(session, selected)
              q == NextPage(r, "select-support-type", OwnPages(r))
  <2>2. selected \in SUBSET SupportTypes BY PeopleAssumption DEF JourneyInv, TypeOK
  <2>3. page = "select-support-type" BY <2>1 DEF Answer
  <2>4. Ready(r, q) BY <1>0, <2>2, <2>3, SupportNext
  <2>5. /\ r.answers.selected = selected
        /\ r.answers.bsl <=> "bsl" \in selected
        /\ r.answers.voiceover => "voiceover" \in selected
    BY <1>0 DEF SelectSupport, SessionData, Answers
  <2>6. ApartAt(r, q)
    <3>. HIDE DEF r, q
    <3>. QED BY <2>1, <2>5 DEF ApartAt, Apart
  <2>. QED BY <2>1, <2>4, <2>6, AnswerApart
<1>3. CASE CustomSupport
  <2>. DEFINE selected == session.answers.selected
              r == [session EXCEPT !.edit = FALSE]
  <2>1. /\ page = "custom-support"
        /\ \/ /\ selected \cap NonStandardSupport = {}
              /\ Answer("custom-support", r, SkipCustomSupport(selected))
           \/ session.edit /\ Answer("custom-support", session, "check-your-details")
           \/ /\ ~session.edit
              /\ Answer("custom-support", session,
                        NextPage(session, "custom-support", OwnPages(session)))
    BY <1>3 DEF CustomSupport
  <2>2. Seen(session, "custom-support") BY <1>0, <2>1
  <2>3. /\ session.edit => Ready(session, "check-your-details")
        /\ ~session.edit =>
             Ready(session, NextPage(session, "custom-support", OwnPages(session)))
    BY <2>2, CustomSupportEdited, CustomSupportNext
  <2>4. selected \cap NonStandardSupport = {} => Ready(r, SkipCustomSupport(selected))
    BY <2>2, CustomSupportSkipped
  <2>5. SameOptions(r, session) /\ SameOptions(session, session)
    BY <1>0 DEF SessionData, SameOptions
  <2>6. \A q : ApartAt(r, q) /\ ApartAt(session, q) BY <1>1, <2>1, <2>5
  <2>. HIDE DEF r
  <2>. QED BY <2>1, <2>3, <2>4, <2>6, AnswerApart
<1>4. CASE Translator
  <2>. DEFINE s == [session EXCEPT !.answers.translator = TRUE]
  <2>1. PICK routes \in Routes(session) :
          \/ session.edit /\ Answer("translator", s, "check-your-details")
          \/ /\ ~session.edit
             /\ Answer("translator", s, NextPage(session, "translator", routes))
    BY <1>4 DEF Translator
  <2>2. Seen(session, "translator") /\ page = "translator" BY <1>0, <2>1 DEF Answer
  <2>3. NextPage(s, "translator", routes) = NextPage(session, "translator", routes)
    <3>1. s.answers.selected = session.answers.selected
      BY <2>2, TranslatorSet DEF Seen
    <3>. HIDE DEF s
    <3>. QED BY <3>1 DEF NextPage
  <2>4. /\ session.edit => Ready(s, "check-your-details")
        /\ ~session.edit => Ready(s, NextPage(s, "translator", routes))
    BY <2>2, TranslatorEdited, TranslatorNext
  <2>5. SameOptions(s, session)
    BY <1>0 DEF SessionData, Answers, SameOptions
  <2>6. \A q : ApartAt(s, q) BY <1>1, <2>2, <2>5
  <2>. HIDE DEF s
  <2>. QED BY <2>1, <2>3, <2>4, <2>6, AnswerApart
<1>5. CASE ConfirmSupport
  <2>. DEFINE r == [session EXCEPT !.confirming = TRUE, !.answers.selected = None]
              t == [session EXCEPT !.confirming = TRUE]
  <2>1. Seen(session, "confirm-support") /\ page = "confirm-support"
    BY <1>0, <1>5 DEF ConfirmSupport, Answer
  <2>2. \/ Answer("confirm-support", r, "select-support-type")
        \/ \E q \in {"leaving-nsa", "staying-nsa"} : Answer("confirm-support", t, q)
    BY <1>5 DEF ConfirmSupport
  <2>3. Ready(r, "select-support-type") /\ r.answers.selected = None
    BY <1>0, <2>1, SupportDenied, DeselectedSet
  <2>4. \A q \in {"leaving-nsa", "staying-nsa"} : Ready(t, q)
    BY <2>1, SupportConfirmed
  <2>5. SameOptions(t, session) BY <1>0 DEF SessionData, SameOptions
  <2>. HIDE DEF r, t
  <2>. QED BY <1>1, <2>1, <2>2, <2>3, <2>4, <2>5, UnselectedApart, AnswerApart
<1>. QED BY <1>2, <1>3, <1>4, <1>5

LEMMA SupportPagesApart ==
  ASSUME JourneyInv, ApartShown,
         LeavingNsa \/ PreferredDay \/ PreferredLocation \/ TelephoneContact \/ Voicemail
  PROVE  ApartShown' /\ submitted' = submitted
<1>0. Seen(session, page) /\ session \in SessionData /\ ApartAt(session, page)
  BY PageIsSeen DEF ApartShown, Seen
<1>1. /\ page \in SupportPages
      /\ page \in {"leaving-nsa", "preferred-day", "preferred-location", "telephone-contact",
                   "voicemail"}
  BY DEF LeavingNsa, PreferredDay, PreferredLocation, TelephoneContact, Voicemail, AnswerOneOf,
         Answer, SupportPages
<1>2. session.support /\ ~session.standard
  BY <1>0, <1>1 DEF Seen, Shown, SideShown, IsNonStandard
<1>3. ASSUME NEW r, NEW q, SameOptions(r, session)
      PROVE  ApartAt(r, q)
  BY <1>0, <1>2, <1>3, CarriedApart
<1>4. \A q : ApartAt(session, q) BY <1>3 DEF SameOptions
<1>5. CASE LeavingNsa
  <2>. DEFINE RepliesToLeaving ==
         {"received-support-request", "email-contact", "duplicate-support-request",
          "staying-nsa"}
              Left(standard) ==
         [session EXCEPT !.standard = standard, !.lastPage = "leaving-nsa"]
  <2>1. PICK standard \in BOOLEAN, q \in RepliesToLeaving :
          /\ IF standard THEN q \in {"received-support-request", "email-contact"}
             ELSE q \in {"duplicate-support-request", "staying-nsa"}
          /\ Answer("leaving-nsa", Left(standard), q)
    <3>1. PICK r \in LeavingNsaReplies : Answer("leaving-nsa", r[1], r[2])
      BY <1>5 DEF LeavingNsa, AnswerOneOf
    <3>2. PICK standard \in BOOLEAN, q \in RepliesToLeaving :
            /\ IF standard THEN q \in {"received-support-request", "email-contact"}
               ELSE q \in {"duplicate-support-request", "staying-nsa"}
            /\ r = <<Left(standard), q>>
      BY <3>1 DEF LeavingNsaReplies
    <3>3. r[1] = Left(standard) /\ r[2] = q
      <4>. DEFINE l == Left(standard)
      <4>. HIDE DEF l
      <4>1. r = <<l, q>> BY <3>2 DEF l
      <4>2. r[1] = l /\ r[2] = q BY <4>1
      <4>. QED BY <4>2 DEF l
    <3>. QED BY <3>1, <3>2, <3>3
  <2>. DEFINE r == Left(standard)
  <2>2. Seen(session, "leaving-nsa") BY <1>0, <2>1 DEF Answer
  <2>3. Ready(r, q)
    <3>1. CASE standard
      <4>1. r = [session EXCEPT !.standard = TRUE, !.lastPage = "leaving-nsa"] BY <3>1
      <4>2. q \in {"received-support-request", "email-contact"} BY <2>1, <3>1
      <4>. QED BY <2>2, <4>1, <4>2, SupportLeft
    <3>2. CASE ~standard
      <4>1. r = [session EXCEPT !.standard = FALSE, !.lastPage = "leaving-nsa"] BY <3>2
      <4>2. q \in {"duplicate-support-request", "staying-nsa"} BY <2>1, <3>2
      <4>. QED BY <2>2, <4>1, <4>2, SupportStayed
    <3>. QED BY <3>1, <3>2
  <2>4. SameOptions(r, session) BY <1>0 DEF SessionData, SameOptions
  <2>5. ApartAt(r, q) BY <1>3, <2>4
  <2>. QED BY <2>1, <2>3, <2>5, AnswerApart
<1>6. CASE PreferredDay
  <2>1. \E q : /\ q = IF session.edit THEN "check-your-details" ELSE "preferred-location"
               /\ Answer("preferred-day", session, q)
    BY <1>6 DEF PreferredDay
  <2>. QED BY <1>0, <1>4, <2>1, DayAnswered, AnswerApart DEF Answer
<1>7. CASE PreferredLocation
  <2>1. \E q : /\ q = IF session.edit THEN "check-your-details" ELSE "email-contact"
               /\ Answer("preferred-location", session, q)
    BY <1>7 DEF PreferredLocation
  <2>. QED BY <1>0, <1>4, <2>1, LocationAnswered, AnswerApart DEF Answer
<1>8. CASE TelephoneContact
  <2>. DEFINE r == [session EXCEPT !.edit = FALSE]
  <2>1. Seen(session, "telephone-contact") BY <1>0, <1>8 DEF TelephoneContact, Answer
  <2>2. SameOptions(r, session) BY <1>0 DEF SessionData, SameOptions
  <2>3. \A q : ApartAt(r, q) BY <1>3, <2>2
  <2>4. Ready(r, "voicemail") /\ Ready(session, "check-your-details")
    BY <2>1, TelephoneSkipped, TelephoneAnswered
  <2>5. \/ Answer("telephone-contact", r, "voicemail")
        \/ Answer("telephone-contact", session, "check-your-details")
    BY <1>8 DEF TelephoneContact
  <2>. HIDE DEF r
  <2>. QED BY <1>4, <2>3, <2>4, <2>5, AnswerApart
<1>9. CASE Voicemail
  <2>1. Seen(session, "voicemail") BY <1>0, <1>9 DEF Voicemail, Answer
  <2>. QED BY <1>4, <1>9, <2>1, VoicemailAnswered, AnswerApart DEF Voicemail
<1>. QED BY <1>5, <1>6, <1>7, <1>8, <1>9

LEMMA PlaceApart ==
  ASSUME JourneyInv, ApartShown,
         \/ FindTestCentre \/ SelectTestCentre \/ SelectDate \/ ChooseAppointment
         \/ ChangeLocationTime \/ BritishSignLanguage
  PROVE  ApartShown' /\ submitted' = submitted
<1>0. Seen(session, page) /\ session \in SessionData /\ ApartAt(session, page)
  BY PageIsSeen DEF ApartShown, Seen
<1>1. /\ page \in StandardPages
      /\ page \notin Checking
  BY DEF FindTestCentre, SelectTestCentre, SelectDate, ChooseAppointment, ChangeLocationTime,
         BritishSignLanguage, AnswerOneOf, Answer, StandardPages, Checking
<1>2. session.standard BY <1>0, <1>1 DEF Seen, Shown, PlaceShown
<1>3. ASSUME NEW r, NEW q, SameOptions(r, session), SameSide(r, session)
      PROVE  ApartAt(r, q)
  BY <1>0, <1>1, <1>3, SameApart
<1>4. \A q : ApartAt(session, q) BY <1>3 DEF SameOptions, SameSide
<1>5. CASE FindTestCentre
  <2>1. Seen(session, "find-test-centre") BY <1>0, <1>5 DEF FindTestCentre, Answer
  <2>. QED BY <1>4, <1>5, <2>1, CentreSought, AnswerApart DEF FindTestCentre
<1>6. CASE SelectTestCentre
  <2>1. PICK c \in Centres :
          \/ /\ session.edit
             /\ Answer("select-test-centre", [session EXCEPT !.edited.centre = c], "select-date")
          \/ /\ ~session.edit
             /\ Answer("select-test-centre", [session EXCEPT !.answers.centre = c], "select-date")
    BY <1>6 DEF SelectTestCentre
  <2>. DEFINE r == [session EXCEPT !.edited.centre = c]
              t == [session EXCEPT !.answers.centre = c]
  <2>2. Seen(session, "select-test-centre") BY <1>0, <2>1 DEF Answer
  <2>3. Ready(r, "select-date") /\ (~session.edit => Ready(t, "select-date"))
    BY <2>2, CentreEdited, CentreAnswered
  <2>4. /\ SameOptions(r, session) /\ SameSide(r, session)
        /\ SameOptions(t, session) /\ SameSide(t, session)
    BY <1>0 DEF SessionData, Answers, SameOptions, SameSide
  <2>5. ApartAt(r, "select-date") /\ ApartAt(t, "select-date") BY <1>3, <2>4
  <2>. HIDE DEF r, t
  <2>. QED BY <2>1, <2>3, <2>5, AnswerApart DEF r, t
<1>7. CASE SelectDate
  <2>1. Seen(session, "select-date") BY <1>0, <1>7 DEF SelectDate, Answer
  <2>. QED BY <1>4, <1>7, <2>1, DateAnswered, AnswerApart DEF SelectDate
<1>8. CASE ChooseAppointment
  <2>. DEFINE r == [session EXCEPT !.edited.slot = OfferedSlot(session)]
              t == [session EXCEPT !.answers.slot = OfferedSlot(session)]
  <2>1. /\ page = "choose-appointment"
        /\ \/ session.edit /\ Answer("choose-appointment", r, "check-your-answers")
           \/ ~session.edit /\ Answer("choose-appointment", t, "check-your-answers")
    BY <1>8 DEF ChooseAppointment, AnswerOneOf, ChooseAppointmentReplies
  <2>2. /\ session.edit => Ready(r, "check-your-answers")
        /\ ~session.edit => Ready(t, "check-your-answers")
    BY <1>0, <2>1, AppointmentEdited, AppointmentAnswered
  <2>3. /\ SameOptions(r, session) /\ SameSide(r, session)
        /\ SameOptions(t, session) /\ SameSide(t, session)
    BY <1>0 DEF SessionData, Answers, SameOptions, SameSide
  <2>4. ApartAt(r, "check-your-answers") /\ ApartAt(t, "check-your-answers") BY <1>3, <2>3
  <2>. HIDE DEF r, t
  <2>. QED BY <2>1, <2>2, <2>4, AnswerApart
<1>9. CASE ChangeLocationTime
  <2>. DEFINE r == [session EXCEPT !.edit = TRUE]
  <2>1. Seen(session, "change-location-time") BY <1>0, <1>9 DEF ChangeLocationTime, Answer
  <2>2. r.answers = session.answers /\ r.standard /\ r.edit BY <1>0, <1>2 DEF SessionData
  <2>3. \A q : ApartAt(r, q)
    <3>. HIDE DEF r
    <3>. QED BY <1>0, <2>2, EditingApart
  <2>. QED BY <1>9, <2>1, <2>3, ChangeAsked, AnswerApart DEF ChangeLocationTime
<1>10. CASE BritishSignLanguage
  <2>1. PICK wanted \in BOOLEAN :
          Answer("bsl", [session EXCEPT !.answers.bsl = wanted], "check-your-answers")
    BY <1>10 DEF BritishSignLanguage
  <2>. DEFINE r == [session EXCEPT !.answers.bsl = wanted]
  <2>2. Seen(session, "bsl") BY <1>0, <2>1 DEF Answer
  <2>3. Ready(r, "check-your-answers") BY <2>2, BslAnswered
  <2>4. /\ r.answers.selected = session.answers.selected /\ r.standard
        /\ "check-your-answers" \in Checking
    BY <1>0, <1>2 DEF SessionData, Answers, Checking
  <2>5. ApartAt(r, "check-your-answers")
    <3>. HIDE DEF r
    <3>. QED BY <1>0, <2>4, EditingApart
  <2>. QED BY <2>1, <2>3, <2>5, AnswerApart
<1>. QED BY <1>5, <1>6, <1>7, <1>8, <1>9, <1>10

(* What is checked before it is sent is apart; when the slot was taken the *)
(* candidate goes on with it to the pages of the support.                  *)
LEMMA CheckYourAnswersApart ==
  ASSUME JourneyInv, ApartShown, TakenWithoutVoiceover, CheckYourAnswers
  PROVE  /\ ApartShown'
         /\ \/ submitted' = submitted
            \/ submitted' = session.answers /\ ~(session.answers.bsl /\ session.answers.voiceover)
<1>. DEFINE a == session.answers
            s == [session EXCEPT !.edit = FALSE]
            t == [s EXCEPT !.lastPage = "check-your-answers"]
<1>0. /\ page = "check-your-answers" /\ Seen(session, page)
      /\ session \in SessionData /\ ApartAt(session, page)
  BY PageIsSeen DEF CheckYourAnswers, ApartShown, Seen
<1>1. /\ Permitted(session, page) /\ a.language /\ session.standard
  BY <1>0
  DEF Seen, Shown, PlaceShown, Kept, PlaceKept, Permitted, StartPages, StandardPages,
      SupportPages, CommonPages, EitherPages
<1>2. /\ s.answers = a /\ s.standard /\ t.answers = a /\ t.standard
      /\ t = [session EXCEPT !.edit = FALSE, !.lastPage = "check-your-answers"]
  BY <1>0, <1>1 DEF SessionData
<1>3. CASE ShowPage(ApplyEdits(session), page) /\ UNCHANGED submitted
  <2>. DEFINE r == ApplyEdits(session)
  <2>1. Seen(r, page) BY <1>0, <1>1, SeenIsReady, AnswersShown
  <2>2. r.answers.selected = session.answers.selected /\ r.standard /\ r.edit
    BY <1>0, EditsAppliedSet DEF SameSupport
  <2>. HIDE DEF r
  <2>. QED BY <1>0, <1>3, <2>1, <2>2, EditingApart, ShowPageApart DEF r
<1>4. CASE Goto(t, "booking-exists") /\ UNCHANGED submitted
  <2>1. Ready(t, "booking-exists") BY <1>0, <1>2, BookingExists
  <2>. HIDE DEF s, t
  <2>. QED BY <1>0, <1>2, <1>4, <2>1, EditingApart, GotoApart DEF Checking
<1>5. CASE /\ "taken" \in person.faults /\ ~(a.bsl /\ a.voiceover)
           /\ ShowPage(s, "slot-unavailable") /\ UNCHANGED submitted
  <2>1. Ready(s, "slot-unavailable") BY <1>0, SlotTaken
  <2>2. Permitted(s, "slot-unavailable")
    BY Zenon DEF Permitted, StartPages, StandardPages, SupportPages, CommonPages, EitherPages
  <2>3. Seen(s, "slot-unavailable") BY <2>1, <2>2, SamePageShown
  <2>4. "voiceover" \notin person.support
    BY <1>5 DEF TakenWithoutVoiceover, JourneyInv, TypeOK
  <2>5. ApartAt(s, "slot-unavailable")
    <3>. HIDE DEF s
    <3>. QED BY <1>0, <1>2, <1>5, <2>4 DEF ApartAt, Apart, Selected
  <2>. QED BY <1>5, <2>3, <2>5, ShowPageApart
<1>6. CASE ~(a.bsl /\ a.voiceover) /\ Goto(s, "payment") /\ submitted' = a
  <2>1. Ready(s, "payment") BY <1>0, PaymentAsked
  <2>. HIDE DEF s
  <2>. QED BY <1>0, <1>2, <1>6, <2>1, EditingApart, GotoApart DEF Checking
<1>. QED BY <1>3, <1>4, <1>5, <1>6 DEF CheckYourAnswers

(* On the page that sends a request the options are apart. *)
LEMMA CheckYourDetailsApart ==
  ASSUME JourneyInv, ApartShown, CheckYourDetails
  PROVE  /\ ApartShown'
         /\ \/ submitted' = submitted
            \/ submitted' = session.answers /\ ~(session.answers.bsl /\ session.answers.voiceover)
<1>. DEFINE s == [session EXCEPT !.edit = FALSE]
<1>0. /\ page = "check-your-details" /\ Seen(session, page)
      /\ session \in SessionData /\ ApartAt(session, page)
  BY PageIsSeen DEF CheckYourDetails, ApartShown, Seen
<1>1. session.support /\ ~session.standard
  BY <1>0 DEF Seen, Shown, SideShown, SupportPages, IsNonStandard
<1>2. s \in SessionData /\ SameOptions(s, session) BY <1>0 DEF SessionData, SameOptions
<1>3. ASSUME NEW q \in FailurePages, ShowPage(s, q)
      PROVE  ApartShown'
  <2>1. Ready(s, q) BY <1>0, RequestFails
  <2>2. Permitted(s, q)
    BY DEF FailurePages, Permitted, StartPages, StandardPages, SupportPages, CommonPages,
           EitherPages
  <2>3. Seen(s, q) BY <2>1, <2>2, SamePageShown DEF FailurePages
  <2>4. ApartAt(s, q) BY <1>0, <1>1, <1>2, CarriedApart
  <2>. QED BY <1>3, <2>3, <2>4, ShowPageApart
<1>4. ASSUME ShowPage(ResetSession(s), "booking-confirmation")
      PROVE  ApartShown'
  <2>1. Seen(ResetSession(s), "booking-confirmation")
    BY <1>2, LastPageSeen DEF LastPages
  <2>. QED BY <1>2, <1>4, <2>1, ResetApart, ShowPageApart
<1>5. CASE session.answers.selected = None \/ session.answers.told = None
  <2>1. ShowPage(s, "error") /\ submitted' = submitted BY <1>5 DEF CheckYourDetails
  <2>. QED BY <1>3, <2>1 DEF FailurePages
<1>6. CASE session.answers.selected # None /\ session.answers.told # None
  <2>1. ~(session.answers.bsl /\ session.answers.voiceover)
    BY <1>0, <1>1, <1>6 DEF ApartAt, Apart, Selected
  <2>2. \/ submitted' = session.answers /\ ShowPage(ResetSession(s), "booking-confirmation")
        \/ submitted' = submitted /\ \E q \in FailurePages : ShowPage(s, q)
    BY <1>6 DEF CheckYourDetails
  <2>. QED BY <1>3, <1>4, <2>1, <2>2
<1>. QED BY <1>5, <1>6

LEMMA OtherStepsApart ==
  ASSUME JourneyInv, ApartShown, Follow \/ StartAgain \/ Resolve \/ Payment \/ UNCHANGED vars
  PROVE  ApartShown' /\ submitted' \in {submitted, None}
<1>0. session \in SessionData BY DEF JourneyInv, TypeOK
<1>1. CASE Follow
  <2>1. PICK p \in links : Goto(session, p) /\ UNCHANGED submitted BY <1>1 DEF Follow
  <2>2. Ready(session, p) BY <2>1 DEF JourneyInv, TypeOK, Ready
  <2>. QED BY <2>1, <2>2, GotoApart DEF ApartShown
<1>2. CASE StartAgain
  <2>1. Goto(ResetSession(session), "choose-support") /\ submitted' = None
    BY <1>2 DEF StartAgain
  <2>2. Ready(ResetSession(session), "choose-support") BY <1>0, ResetReady
  <2>. QED BY <1>0, <2>1, <2>2, ResetApart, GotoApart
<1>3. CASE Resolve \/ UNCHANGED vars
  BY <1>3 DEF Resolve, vars, ApartShown, ApartAt
<1>4. CASE Payment
  <2>1. submitted' = None BY <1>4 DEF Payment
  <2>2. PICK q \in LastPages : ShowPage(ResetSession(session), q)
    <3>1. "booking-confirmation" \in LastPages /\ "start" \in LastPages BY DEF LastPages
    <3>. QED BY <1>4, <3>1 DEF Payment
  <2>3. Seen(ResetSession(session), q) BY <1>0, LastPageSeen
  <2>. QED BY <1>0, <2>1, <2>2, <2>3, ResetApart, ShowPageApart
<1>. QED BY <1>1, <1>2, <1>3, <1>4

(* As long as whoever may lose the slot they chose asks for no voiceover, *)
(* nothing goes to the CRM with both sign language and a voiceover.       *)
THEOREM OptionsAreApart ==
  TakenWithoutVoiceover => (Spec => []BslOrVoiceover)
<1>. SUFFICES ASSUME TakenWithoutVoiceover PROVE Spec => []BslOrVoiceover
  OBVIOUS
<1>1. ASSUME Init PROVE ApartShown /\ BslOrVoiceover
  <2>1. session.answers.selected = None
    BY <1>1 DEF Init, Fresh, NoAnswers
  <2>. QED BY <1>1, <2>1, UnselectedApart DEF Init, ApartShown, BslOrVoiceover
<1>2. ASSUME DraftInv, ApartShown, BslOrVoiceover, [Next]_vars
      PROVE  ApartShown' /\ BslOrVoiceover'
  <2>0. JourneyInv BY <1>2 DEF DraftInv
  <2>1. /\ ApartShown'
        /\ \/ submitted' \in {submitted, None}
           \/ submitted' = session.answers /\ ~(session.answers.bsl /\ session.answers.voiceover)
    BY <1>2, <2>0, StartApart, TestApart, StandardSupportApart, SupportTypeApart,
       SupportPagesApart, PlaceApart, CheckYourAnswersApart, CheckYourDetailsApart,
       OtherStepsApart
    DEF Next
  <2>. QED BY <1>2, <2>1 DEF BslOrVoiceover
<1>. QED BY <1>1, <1>2, JourneyIsSound, PTL DEF Spec

=============================================================================
