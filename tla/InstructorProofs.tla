--------------------------- MODULE InstructorProofs ---------------------------
(***************************************************************************)
(* For any instructors, centres and bounds: the answers that are checked   *)
(* and sent are complete and of one piece, and whoever follows the links   *)
(* is served.  What a candidate's pages rely on is proved in JourneyProofs *)
(* and used here; what the instructors' guards, redirects and links rely   *)
(* on besides is the way.                                                  *)
(***************************************************************************)
EXTENDS InstructorJourney, JourneyProofs

(***************************************************************************)
(* The way of an instructor: what holds besides of any session, of one     *)
(* that may ask for page p, and of one that is shown it.                   *)
(***************************************************************************)
LaterPages ==
  StandardPages \cup SupportPages \cup AnswerPages
    \cup {"select-standard-support", "change-voiceover"}
NamedPages ==
  {"translator", "custom-support", "leaving-nsa", "staying-nsa", "duplicate-support-request"}

Astray(s) == s.received \/ s.confirming
WayKept(s) ==
  /\ s.target = "ni" => ~s.support /\ (s.received => s.answers.type # None)
  /\ s.edit => s.answers.language
  /\ IsSupportedStandard(s) => s.candidate /\ s.answers.language /\ (Astray(s) \/ Selected(s))
WayAsked(s, p) ==
  /\ Permitted(s, p)
  /\ p = "choose-support" /\ s.target = "ni" => ~s.candidate
  /\ p = "support-alert" => s.target # "ni"
  /\ p = "test-type" => ~s.edit /\ ~IsSupportedStandard(s)
  /\ p \in {"test-language", "select-standard-support", "change-voiceover"}
       /\ IsSupportedStandard(s) => s.edit
  /\ p = "test-language" =>
       /\ s.edit => CanChangeTestLanguage(s)
       /\ s.received /\ s.support => s.answers.language
  /\ p = "received-support-request" /\ IsSupportedStandard(s) => s.lastPage # "test-type"
  /\ p \in LaterPages \/ (p \in {"email-contact", "received-support-request"} /\ s.support)
       => s.answers.type # None /\ s.answers.language
  /\ p \in NamedPages \/ (p = "change-voiceover" /\ IsNonStandard(s))
       => Astray(s) \/ Selected(s)
  /\ p # "timeout"
  /\ p \in {"no-options", "not-found"} => Astray(s)
  /\ p = "error" => Astray(s) \/ person.faults \cap {"create", "lost"} # {}
WayShown(s, p) ==
  IF p = "test-language"
  THEN s.edited.slot = None /\ (CanChangeTestLanguage(s) \/ s.received)
  ELSE Shown(s, p) /\ (p \in {"choose-support", "support-alert"} => s.target # "ni")

InstructorInv ==
  /\ TypeOK
  /\ Kept(session) /\ WayKept(session)
  /\ WayShown(session, page)
  /\ \A q \in {page} \cup links : Asked(session, q) /\ WayAsked(session, q)

InstructorReady(s, p) == Ready(s, p) /\ WayKept(s) /\ WayAsked(s, p)
InstructorSeen(s, p) == InstructorReady(s, p) /\ WayShown(s, p)

-----------------------------------------------------------------------------
(* What the way asks for, on either side. *)

LEMMA SeenAsCandidate ==
  ASSUME NEW s, NEW p, InstructorSeen(s, p), p # "test-language"
  PROVE  Seen(s, p)
BY DEF InstructorSeen, InstructorReady, WayShown, Ready, Seen

LEMMA NobodyDrives ==
  ASSUME NEW s \in SessionData
  PROVE  ~BslIsAvailable(s.answers.type)
<1>1. "car" \notin Types
  BY InstructorsAssumption DEF Types, InstructorTypes
<1>. QED BY <1>1, SessionFields, NoneIsFresh DEF BslIsAvailable

LEMMA SupportWay ==
  ASSUME NEW r \in SessionData, r.candidate, IsNonStandard(r), Astray(r) \/ Selected(r),
         r.answers.type # None, r.answers.language,
         NEW q \in SupportPages \cup {"change-voiceover", "email-contact"}
  PROVE  WayAsked(r, q)
BY DEF WayAsked, Permitted, IsNonStandard, IsSupportedStandard, StartPages, StandardPages,
       SupportPages, CommonPages, EitherPages

LEMMA StandardWay ==
  ASSUME NEW r \in SessionData, r.candidate, r.standard, r.answers.type # None,
         r.answers.language,
         NEW q \in StandardPages \cup {"slot-unavailable", "email-contact"}
  PROVE  WayAsked(r, q)
BY DEF WayAsked, Permitted, IsNonStandard, IsSupportedStandard, StartPages, StandardPages,
       SupportPages, CommonPages, EitherPages, NamedPages

LEMMA LastWay ==
  ASSUME NEW r, NEW q \in LastPages \ {"timeout"},
         q \in {"no-options", "not-found"} => Astray(r),
         q = "error" => Astray(r) \/ person.faults \cap {"create", "lost"} # {}
  PROVE  WayAsked(r, q)
BY DEF WayAsked, Permitted, StartPages, StandardPages, SupportPages, CommonPages, EitherPages,
       NamedPages, LastPages, LaterPages, AnswerPages

LEMMA ResetWay ==
  ASSUME NEW s \in SessionData
  PROVE  /\ WayKept(ResetSession(s)) /\ WayAsked(ResetSession(s), "choose-support")
         /\ ResetSession(s).answers.type = None /\ ~ResetSession(s).candidate
         /\ ResetSession(s) \in SessionData
<1>. DEFINE r == ResetSession(s)
<1>1. /\ r \in SessionData /\ ~r.candidate /\ ~r.support /\ r.standard /\ ~r.edit
      /\ ~r.received /\ r.answers.type = None
  BY SessionsReset DEF ResetSession, Fresh, NoAnswers, SessionData
<1>. HIDE DEF r
<1>2. WayKept(r) BY <1>1 DEF WayKept, IsSupportedStandard
<1>3. WayAsked(r, "choose-support")
  BY <1>1 DEF WayAsked, Permitted, StartPages, StandardPages, SupportPages, CommonPages,
              EitherPages, NamedPages, LaterPages, AnswerPages
<1>. QED BY <1>1, <1>2, <1>3 DEF r

-----------------------------------------------------------------------------
(* Asking for a page. *)

(* A page may be shown with the session as it is. *)
LEMMA SameShown ==
  ASSUME NEW s, NEW p, InstructorReady(s, p),
         p \notin {"leaving-nsa", "confirm-support", "check-your-details", "check-your-answers",
                   "received-support-request", "select-standard-support", "staying-nsa",
                   "test-language"},
         p \in {"choose-support", "support-alert"} => s.target # "ni",
         p = "choose-appointment" => s.answers.centre # None,
         p = "custom-support" => Selected(s)
  PROVE  InstructorSeen(s, p)
<1>1. Ready(s, p) /\ Permitted(s, p) /\ (p \in LaterPages => s.answers.type # None)
  BY DEF InstructorReady, WayAsked
<1>2. p \in {"choose-appointment", "change-voiceover"} => p \in LaterPages
  BY DEF LaterPages, StandardPages
<1>3. Seen(s, p) BY <1>1, <1>2, SamePageShown
<1>. QED BY <1>3 DEF InstructorSeen, WayShown, Seen

(* The session of a page the handler changes is on its way still. *)
LEMMA ShownOnTheWay ==
  ASSUME NEW s, NEW p, NEW r, InstructorReady(s, p), Seen(r, p), WayKept(r), WayAsked(r, p),
         p \notin {"test-language", "choose-support", "support-alert"}
  PROVE  InstructorSeen(r, p)
BY DEF InstructorSeen, InstructorReady, WayShown, Seen, Ready, Shown

(* The pages a request may be sent on to: those shown at once, those that *)
(* may send it on once more, and those that may twice.                    *)
AtOnce(s, q) ==
  \/ q \in LastPages \cup {"duplicate-support-request", "select-test-centre",
                           "select-support-type", "find-test-centre"}
  \/ q = "candidate-details" /\ s.answers.type = None
  \/ q = "choose-support" /\ s.target # "ni"
AtSecond(s, q) ==
  AtOnce(s, q) \/ q = "change-voiceover" \/ (q = "choose-support" /\ s.answers.type = None)
AtThird(s, q) ==
  AtSecond(s, q) \/ q \in {"select-standard-support", "candidate-details"}

(* A request for p is shown p, or is sent on to a page it may ask for. *)
InstructorServed(answer, p) ==
  IF answer[2] = p THEN InstructorSeen(answer[1], p)
  ELSE InstructorReady(answer[1], answer[2]) /\ AtThird(answer[1], answer[2])

LEMMA ChooseSupportServes ==
  ASSUME NEW s, InstructorReady(s, "choose-support")
  PROVE  InstructorServed(ShowChooseSupport(s), "choose-support")
<1>1. CASE s.target # "ni"
  <2>1. InstructorSeen(s, "choose-support") BY <1>1, SameShown
  <2>. QED BY <1>1, <2>1 DEF ShowChooseSupport, InstructorServed
<1>2. CASE s.target = "ni"
  <2>1. s \in SessionData /\ ~s.candidate /\ ~s.edit
    BY <1>2, SessionFields DEF InstructorReady, WayAsked, Ready, Kept, PlaceKept
  <2>2. Ready(s, "candidate-details")
    BY <2>1
    DEF InstructorReady, Ready, Asked, PlaceAsked, SideAsked, ToldAsked, Pages, StartPages,
        StandardPages, SupportPages, CommonPages, EitherPages, AnswerPages, LastPages,
        LatePages, BookingPages, DynamicPages
  <2>3. WayAsked(s, "candidate-details")
    BY <2>1
    DEF WayAsked, Permitted, StartPages, StandardPages, SupportPages, CommonPages,
        EitherPages, NamedPages, LaterPages, AnswerPages
  <2>. QED
    BY <1>2, <2>2, <2>3
    DEF InstructorReady, ShowChooseSupport, InstructorServed, AtThird
<1>. QED BY <1>1, <1>2

LEMMA CandidateDetailsServes ==
  ASSUME NEW s, InstructorReady(s, "candidate-details")
  PROVE  InstructorServed(ShowCandidateDetails(s), "candidate-details")
<1>1. CASE s.answers.type = None
  <2>1. InstructorSeen(s, "candidate-details") BY SameShown
  <2>. QED BY <1>1, <2>1 DEF ShowCandidateDetails, InstructorServed
<1>2. CASE s.answers.type # None
  <2>. DEFINE r == ResetSession(s)
  <2>1. Ready(r, "choose-support")
    BY ResetReady DEF InstructorReady, Ready
  <2>2. InstructorReady(r, "choose-support") /\ r.answers.type = None
    BY <2>1, ResetWay DEF InstructorReady, Ready
  <2>. HIDE DEF r
  <2>3. ShowCandidateDetails(s) = <<r, "choose-support">>
    BY <1>2 DEF ShowCandidateDetails, r
  <2>. QED BY <2>2, <2>3 DEF InstructorServed, AtThird, AtSecond
<1>. QED BY <1>1, <1>2

LEMMA TestLanguageServes ==
  ASSUME NEW s, InstructorReady(s, "test-language")
  PROVE  InstructorServed(ShowTestLanguage(s), "test-language")
<1>0. /\ s \in SessionData /\ s.candidate /\ s.answers.type # None
      /\ (s.support \/ s.standard) /\ s.edited.slot = None
  BY DEF InstructorReady, Ready, Kept, PlaceKept, Asked, PlaceAsked, WayAsked, Permitted,
         CommonPages
<1>1. CASE CanChangeTestLanguage(s) \/ s.received
  <2>1. InstructorSeen(s, "test-language")
    BY <1>0, <1>1 DEF InstructorSeen, WayShown
  <2>. QED BY <1>1, <2>1 DEF ShowTestLanguage, InstructorServed
<1>2. CASE ~CanChangeTestLanguage(s) /\ ~s.received
  <2>. DEFINE r == [s EXCEPT !.answers.language = TRUE]
  <2>1. ~s.edit /\ ~IsSupportedStandard(s)
    BY <1>0, <1>2, SessionFields DEF InstructorReady, WayAsked
  <2>2. /\ r \in SessionData /\ SameFlags(r, s) /\ SamePlace(r, s) /\ SameSupport(r, s)
        /\ r.answers.language
    BY <1>0, LanguageSet
  <2>3. CASE IsStandard(s)
    <3>1. Ready(r, "select-standard-support")
      BY <2>1, <2>3, LanguageToStandard DEF InstructorReady, WayAsked
    <3>2. ShowTestLanguage(s) = <<r, "select-standard-support">>
      BY <1>2, <2>3 DEF ShowTestLanguage
    <3>. HIDE DEF r
    <3>3. WayKept(r) /\ WayAsked(r, "select-standard-support")
      BY <1>0, <1>2, <2>1, <2>2, <2>3
      DEF InstructorReady, WayKept, WayAsked, Permitted, SameFlags, SamePlace, SameSupport,
          IsStandard, IsNonStandard, IsSupportedStandard, StartPages, StandardPages,
          SupportPages, CommonPages, EitherPages, NamedPages, LaterPages, AnswerPages
    <3>. QED BY <3>1, <3>2, <3>3 DEF InstructorServed, InstructorReady, AtThird
  <2>4. CASE IsNonStandard(s)
    <3>1. Ready(r, "select-support-type")
      BY <2>1, <2>4, LanguageToSupport DEF InstructorReady, WayAsked
    <3>2. ShowTestLanguage(s) = <<r, "select-support-type">>
      BY <1>2, <2>4 DEF ShowTestLanguage, IsStandard, IsNonStandard
    <3>. HIDE DEF r
    <3>3. WayKept(r) /\ WayAsked(r, "select-support-type")
      BY <1>0, <1>2, <2>1, <2>2, <2>4
      DEF InstructorReady, WayKept, WayAsked, Permitted, SameFlags, SamePlace, SameSupport,
          IsStandard, IsNonStandard, IsSupportedStandard, StartPages, StandardPages,
          SupportPages, CommonPages, EitherPages, NamedPages, LaterPages, AnswerPages
    <3>. QED BY <3>1, <3>2, <3>3 DEF InstructorServed, InstructorReady, AtThird, AtSecond, AtOnce
  <2>. QED
    BY <1>0, <2>1, <2>3, <2>4, SessionFields DEF IsStandard, IsNonStandard, IsSupportedStandard
<1>. QED BY <1>1, <1>2

(* The voiceover is skipped where the test has none, on the standard side. *)
LEMMA VoiceoverServes ==
  ASSUME NEW s, InstructorReady(s, "change-voiceover")
  PROVE  InstructorServed(ShowVoiceover(s), "change-voiceover")
<1>0. s.answers.type # None /\ s.answers.language /\ s.candidate /\ (s.support \/ s.standard)
  BY DEF InstructorReady, WayAsked, Permitted, LaterPages, EitherPages
<1>1. CASE AvailableOptions(s.target, s.answers.type) = {} /\ ~IsNonStandard(s)
  <2>1. Ready(s, "find-test-centre")
    BY DEF InstructorReady, Ready, Asked, PlaceAsked, SideAsked, ToldAsked, Pages, StartPages,
        StandardPages, SupportPages, CommonPages, EitherPages, AnswerPages, LastPages,
        EditPages, LatePages, BookingPages, DynamicPages
  <2>2. s \in SessionData /\ s.standard
    BY <1>0, <1>1, SessionFields DEF InstructorReady, Ready, IsNonStandard
  <2>3. WayAsked(s, "find-test-centre")
    BY <1>0, <2>2, StandardWay DEF StandardPages
  <2>4. ShowVoiceover(s) = <<s, "find-test-centre">>
    BY <1>0, <1>1 DEF ShowVoiceover
  <2>. QED
    BY <2>1, <2>3, <2>4
    DEF InstructorServed, InstructorReady, AtThird, AtSecond, AtOnce
<1>2. CASE ~(AvailableOptions(s.target, s.answers.type) = {} /\ ~IsNonStandard(s))
  <2>1. InstructorSeen(s, "change-voiceover") BY SameShown
  <2>2. ShowVoiceover(s) = <<s, "change-voiceover">>
    BY <1>0, <1>2, Zenon DEF ShowVoiceover
  <2>. QED BY <2>1, <2>2 DEF InstructorServed
<1>. QED BY <1>1, <1>2

(* What of a session the way depends on. *)
SameWay(r, s) ==
  /\ r.target = s.target /\ r.candidate = s.candidate /\ r.support = s.support
  /\ r.edit = s.edit /\ r.received = s.received /\ r.confirming = s.confirming
  /\ r.answers.type = s.answers.type /\ r.answers.language = s.answers.language
  /\ r.answers.selected = s.answers.selected

LEMMA SameWayGoesOn ==
  ASSUME NEW r, NEW s, SameWay(r, s), r.standard = s.standard
  PROVE  /\ WayKept(s) => WayKept(r)
         /\ \A p :
              WayAsked(s, p) /\ (p = "received-support-request" => r.lastPage = s.lastPage)
                => WayAsked(r, p)
BY DEF SameWay, WayKept, WayAsked, Permitted, Astray, Selected, IsSupportedStandard,
       IsNonStandard, CanChangeTestLanguage

LEMMA StandardSupportServes ==
  ASSUME NEW s, InstructorReady(s, "select-standard-support")
  PROVE  InstructorServed(Handle(s, "select-standard-support"), "select-standard-support")
<1>. DEFINE r == [s EXCEPT !.shownVoiceover = FALSE]
<1>1. s \in SessionData BY DEF InstructorReady, Ready
<1>2. /\ r.answers = s.answers
      /\ Handle(s, "select-standard-support") = ShowStandardSupport(r)
  BY <1>1, Zenon DEF Handle, SessionData
<1>3. ~BslIsAvailable(r.answers.type)
  <2>1. ~BslIsAvailable(s.answers.type) BY <1>1, NobodyDrives
  <2>. QED BY <1>2, <2>1, Zenon
<1>4. Handle(s, "select-standard-support") = <<r, "change-voiceover">>
  BY <1>2, <1>3, Zenon DEF ShowStandardSupport
<1>5. Ready(r, "change-voiceover")
  BY StandardSkipped DEF InstructorReady, WayAsked
<1>6. SameWay(r, s) /\ r.standard = s.standard
  BY <1>1, <1>2 DEF SessionData, SameWay
<1>7. WayKept(r) /\ WayAsked(r, "select-standard-support")
  BY <1>6, SameWayGoesOn DEF InstructorReady
<1>. HIDE DEF r
<1>8. ~IsNonStandard(r)
  BY <1>6 DEF InstructorReady, Ready, Asked, SideAsked, IsNonStandard, SameWay
<1>9. WayAsked(r, "change-voiceover")
  <2>1. r.candidate /\ r.standard
    BY <1>1, <1>6, <1>7, <1>8, SessionFields
    DEF WayAsked, Permitted, CommonPages, IsNonStandard, InstructorReady, Ready, Kept,
        PlaceKept, SameWay
  <2>. QED
    BY <1>7, <1>8, <2>1
    DEF WayAsked, Permitted, StartPages, StandardPages, SupportPages, CommonPages,
        EitherPages, NamedPages, LaterPages, AnswerPages
<1>. QED
  BY <1>4, <1>5, <1>7, <1>9
  DEF InstructorServed, InstructorReady, AtThird, AtSecond

LEMMA StayingServes ==
  ASSUME NEW s, InstructorReady(s, "staying-nsa"), drafts \in [Types -> [Draft -> Nat]]
  PROVE  InstructorServed(Handle(s, "staying-nsa"), "staying-nsa")
<1>. DEFINE h == Handle(s, "staying-nsa")
<1>1. s \in SessionData /\ Ready(s, "staying-nsa") /\ Permitted(s, "staying-nsa")
  BY DEF InstructorReady, Ready, WayAsked
<1>2. CASE HasDrafts(s)
  <2>. DEFINE r == [s EXCEPT !.lastPage = "other"]
  <2>1. h = <<r, "duplicate-support-request">> BY <1>2, Zenon DEF Handle
  <2>2. Ready(r, "duplicate-support-request") BY <1>1, StayingDuplicate
  <2>3. SameWay(r, s) /\ r.standard = s.standard BY <1>1 DEF SessionData, SameWay
  <2>4. WayKept(r) /\ WayAsked(r, "staying-nsa")
    BY <2>3, SameWayGoesOn DEF InstructorReady
  <2>. HIDE DEF r
  <2>5. WayAsked(r, "duplicate-support-request")
    BY <2>4
    DEF WayAsked, Permitted, StartPages, StandardPages, SupportPages, CommonPages,
        EitherPages, NamedPages, LaterPages, AnswerPages
  <2>. QED
    BY <2>1, <2>2, <2>4, <2>5
    DEF InstructorServed, InstructorReady, AtThird, AtSecond, AtOnce
<1>3. CASE ~HasDrafts(s) /\ ~Selected(s)
  <2>1. h = <<s, "no-options">> BY <1>3, Zenon DEF Handle, Selected
  <2>2. Ready(s, "no-options")
    BY <1>1, LastPageReady DEF LastPages, Ready, Asked, PlaceAsked
  <2>3. WayAsked(s, "no-options")
    BY <1>3, LastWay DEF LastPages, InstructorReady, WayAsked, NamedPages
  <2>. QED
    BY <2>1, <2>2, <2>3
    DEF InstructorServed, InstructorReady, AtThird, AtSecond, AtOnce, LastPages
<1>4. CASE ~HasDrafts(s) /\ Selected(s)
  <2>. DEFINE r == [s EXCEPT !.answers.told = EvidenceRoute(s.answers.selected, s.needs)]
  <2>1. h = <<r, "staying-nsa">> BY <1>4, Zenon DEF Handle, Selected
  <2>2. Seen(r, "staying-nsa") BY <1>1, <1>4, StayingShown
  <2>3. SameWay(r, s) /\ r.standard = s.standard
    <3>1. /\ SameFlags(r, s) /\ SamePlace(r, s) /\ SameSupport(r, s)
          /\ r.answers.language = s.answers.language
      BY <1>1, ToldSet, Zenon
    <3>. HIDE DEF r
    <3>. QED BY <3>1, Zenon DEF SameWay, SameFlags, SamePlace, SameSupport
  <2>4. WayKept(r) /\ WayAsked(r, "staying-nsa")
    BY <2>3, SameWayGoesOn DEF InstructorReady
  <2>. HIDE DEF r
  <2>5. InstructorSeen(r, "staying-nsa") BY <2>2, <2>4, ShownOnTheWay
  <2>. QED BY <2>1, <2>5 DEF InstructorServed
<1>. QED BY <1>2, <1>3, <1>4

LEMMA AnswersServe ==
  ASSUME NEW s, InstructorReady(s, "check-your-answers")
  PROVE  InstructorServed(Handle(s, "check-your-answers"), "check-your-answers")
<1>. DEFINE r == ApplyEdits(s)
<1>1. /\ s \in SessionData /\ Ready(s, "check-your-answers")
      /\ Permitted(s, "check-your-answers") /\ s.answers.language
      /\ s.candidate /\ s.standard /\ s.answers.type # None
  BY DEF InstructorReady, Ready, WayAsked, LaterPages, StandardPages, Permitted
<1>2. Handle(s, "check-your-answers") = <<r, "check-your-answers">>
  BY <1>1, Zenon DEF Handle
<1>3. Seen(r, "check-your-answers") BY <1>1, AnswersShown
<1>4. /\ r \in SessionData /\ r.edit /\ r.standard /\ r.target = s.target
      /\ r.candidate = s.candidate /\ r.support = s.support /\ r.confirming = s.confirming
      /\ r.received = s.received /\ r.answers.selected = s.answers.selected
      /\ r.answers.language = s.answers.language /\ r.answers.type = s.answers.type
  BY <1>1, EditsAppliedSet DEF SameSupport
<1>. HIDE DEF r
<1>5. WayKept(r)
  BY <1>1, <1>4 DEF InstructorReady, WayKept, IsSupportedStandard, Astray, Selected
<1>6. WayAsked(r, "check-your-answers")
  BY <1>1, <1>4, StandardWay DEF StandardPages
<1>7. InstructorSeen(r, "check-your-answers") BY <1>3, <1>5, <1>6, ShownOnTheWay
<1>. QED BY <1>2, <1>7 DEF InstructorServed

LEMMA DetailsServe ==
  ASSUME NEW s, InstructorReady(s, "check-your-details")
  PROVE  InstructorServed(Handle(s, "check-your-details"), "check-your-details")
<1>. DEFINE r == [s EXCEPT !.edit = TRUE]
<1>1. /\ s \in SessionData /\ Ready(s, "check-your-details")
      /\ Permitted(s, "check-your-details")
      /\ s.answers.language /\ s.answers.type # None
  BY DEF InstructorReady, Ready, WayAsked, LaterPages, SupportPages
<1>2. Handle(s, "check-your-details") = <<r, "check-your-details">>
  BY <1>1, Zenon DEF Handle
<1>3. Seen(r, "check-your-details") BY <1>1, DetailsShown
<1>4. /\ r.target = s.target /\ r.candidate = s.candidate /\ r.support = s.support
      /\ r.standard = s.standard /\ r.confirming = s.confirming
      /\ r.received = s.received /\ r.answers = s.answers
  BY <1>1 DEF SessionData
<1>. HIDE DEF r
<1>5. WayKept(r)
  BY <1>1, <1>4 DEF InstructorReady, WayKept, IsSupportedStandard, Astray, Selected
<1>6. WayAsked(r, "check-your-details")
  BY <1>1, <1>4
  DEF WayAsked, Permitted, StartPages, StandardPages, SupportPages, CommonPages,
      EitherPages, NamedPages
<1>7. InstructorSeen(r, "check-your-details") BY <1>3, <1>5, <1>6, ShownOnTheWay
<1>. QED BY <1>2, <1>7 DEF InstructorServed

(* The pages on which the side is chosen again. *)
LEMMA SideServes ==
  ASSUME NEW s, NEW p \in {"leaving-nsa", "confirm-support"}, InstructorReady(s, p)
  PROVE  InstructorServed(Handle(s, p), p)
<1>. DEFINE r == [s EXCEPT !.standard = FALSE]
<1>1. s \in SessionData /\ Ready(s, p) /\ Permitted(s, p)
  BY DEF InstructorReady, Ready, WayAsked
<1>2. Handle(s, p) = <<r, p>> BY Zenon DEF Handle
<1>3. Seen(r, p) BY <1>1, LeavingShown, ConfirmShown
<1>4. SameWay(r, s) /\ ~r.standard BY <1>1 DEF SessionData, SameWay
<1>. HIDE DEF r
<1>5. WayKept(r)
  BY <1>4 DEF InstructorReady, WayKept, IsSupportedStandard, SameWay
<1>6. WayAsked(r, p)
  BY <1>4
  DEF InstructorReady, WayAsked, Permitted, StartPages, StandardPages, SupportPages,
      CommonPages, EitherPages, Astray, Selected, SameWay
<1>7. InstructorSeen(r, p) BY <1>3, <1>5, <1>6, ShownOnTheWay
<1>. QED BY <1>2, <1>7 DEF InstructorServed

LEMMA ReceivedServes ==
  ASSUME NEW s, InstructorReady(s, "received-support-request")
  PROVE  InstructorServed(Handle(s, "received-support-request"), "received-support-request")
<1>. DEFINE p == "received-support-request"
            r == [s EXCEPT !.received = s.received \/ ~IsNonStandard(s)]
<1>1. s \in SessionData /\ Ready(s, p) /\ Permitted(s, p)
  BY DEF InstructorReady, Ready, WayAsked
<1>2. Handle(s, p) = <<r, p>> BY Zenon DEF Handle
<1>3. Seen(r, p) BY <1>1, ReceivedShown
<1>4. /\ r.target = s.target /\ r.candidate = s.candidate /\ r.support = s.support
      /\ r.standard = s.standard /\ r.confirming = s.confirming /\ r.edit = s.edit
      /\ (s.received => r.received) /\ r.answers = s.answers /\ r.lastPage = s.lastPage
  BY <1>1 DEF SessionData
<1>5. s.answers.type # None
  BY <1>1 DEF Ready, Asked, PlaceAsked
<1>. HIDE DEF r
<1>6. WayKept(r)
  BY <1>4, <1>5
  DEF InstructorReady, WayKept, IsSupportedStandard, Astray, Selected
<1>7. WayAsked(r, p)
  BY <1>4
  DEF InstructorReady, WayAsked, Permitted, IsSupportedStandard, StartPages, StandardPages, SupportPages,
      CommonPages, EitherPages, NamedPages, LaterPages, AnswerPages
<1>8. InstructorSeen(r, p) BY <1>3, <1>6, <1>7, ShownOnTheWay
<1>. QED BY <1>2, <1>8 DEF InstructorServed

(* The pages that lack the centre, the type or the selection otherwise. *)
LEMMA AppointmentServes ==
  ASSUME NEW s, InstructorReady(s, "choose-appointment")
  PROVE  InstructorServed(Handle(s, "choose-appointment"), "choose-appointment")
<1>1. /\ s \in SessionData /\ Ready(s, "choose-appointment")
      /\ Permitted(s, "choose-appointment") /\ s.answers.language
      /\ s.candidate /\ s.standard /\ s.answers.type # None
  BY DEF InstructorReady, Ready, WayAsked, LaterPages, StandardPages, Permitted
<1>2. Handle(s, "choose-appointment") =
        <<s, IF s.answers.centre = None THEN "select-test-centre" ELSE "choose-appointment">>
  BY <1>1, Zenon DEF Handle
<1>3. InstructorReady(s, "select-test-centre")
  BY <1>1, CentreAsked, StandardWay DEF InstructorReady, StandardPages
<1>4. s.answers.centre # None => InstructorSeen(s, "choose-appointment")
  BY SameShown
<1>. QED BY <1>2, <1>3, <1>4 DEF InstructorServed, AtThird, AtSecond, AtOnce

LEMMA CustomSupportServes ==
  ASSUME NEW s, InstructorReady(s, "custom-support")
  PROVE  InstructorServed(Handle(s, "custom-support"), "custom-support")
<1>1. Handle(s, "custom-support") = <<s, IF ~Selected(s) THEN "error" ELSE "custom-support">>
  BY Zenon DEF Handle, Selected
<1>2. Ready(s, "error")
  BY LastPageReady DEF LastPages, InstructorReady, Ready, Asked, PlaceAsked
<1>3. ~Selected(s) => WayAsked(s, "error")
  BY LastWay DEF LastPages, InstructorReady, WayAsked, NamedPages
<1>4. Selected(s) => InstructorSeen(s, "custom-support") BY SameShown
<1>. QED
  BY <1>1, <1>2, <1>3, <1>4
  DEF InstructorServed, InstructorReady, AtThird, AtSecond, AtOnce, LastPages

LEMMA InstructorHandleServes ==
  ASSUME NEW s, NEW p, InstructorReady(s, p), drafts \in [Types -> [Draft -> Nat]]
  PROVE  InstructorServed(InstructorGet(s, p), p)
<1>1. InstructorGet(s, p) = InstructorHandle(s, p)
  BY DEF InstructorReady, WayAsked, InstructorGet
<1>2. CASE p = "choose-support"
  BY <1>1, <1>2, ChooseSupportServes DEF InstructorHandle
<1>3. CASE p = "candidate-details"
  BY <1>1, <1>3, CandidateDetailsServes DEF InstructorHandle
<1>4. CASE p = "test-language"
  BY <1>1, <1>4, TestLanguageServes DEF InstructorHandle
<1>5. CASE p = "change-voiceover"
  BY <1>1, <1>5, VoiceoverServes DEF InstructorHandle
<1>6. CASE p \notin {"choose-support", "candidate-details", "test-language", "change-voiceover"}
  <2>1. InstructorGet(s, p) = Handle(s, p)
    BY <1>1, <1>6, Zenon DEF InstructorHandle
  <2>2. CASE p = "select-standard-support" BY <2>1, <2>2, StandardSupportServes
  <2>3. CASE p = "staying-nsa" BY <2>1, <2>3, StayingServes
  <2>4. CASE p = "check-your-answers" BY <2>1, <2>4, AnswersServe
  <2>5. CASE p = "check-your-details" BY <2>1, <2>5, DetailsServe
  <2>6. CASE p \in {"leaving-nsa", "confirm-support"} BY <2>1, <2>6, SideServes
  <2>7. CASE p = "received-support-request" BY <2>1, <2>7, ReceivedServes
  <2>8. CASE p = "choose-appointment" BY <2>1, <2>8, AppointmentServes
  <2>9. CASE p = "custom-support" BY <2>1, <2>9, CustomSupportServes
  <2>10. CASE p \notin {"select-standard-support", "staying-nsa", "check-your-answers",
                        "check-your-details", "leaving-nsa", "confirm-support",
                        "received-support-request", "choose-appointment", "custom-support"}
    <3>1. CASE p = "support-alert"
      <4>1. Handle(s, p) = <<s, p>> BY <3>1, Zenon DEF Handle
      <4>2. s.target # "ni" BY <3>1 DEF InstructorReady, WayAsked
      <4>3. InstructorSeen(s, p) BY <3>1, <4>2, SameShown
      <4>. QED BY <2>1, <4>1, <4>3 DEF InstructorServed
    <3>2. CASE p = "select-date"
      <4>1. s.answers.type # None
        BY <3>2 DEF InstructorReady, WayAsked, LaterPages, StandardPages
      <4>2. Handle(s, p) = <<s, p>> BY <3>2, <4>1, Zenon DEF Handle
      <4>3. InstructorSeen(s, p) BY <3>2, SameShown
      <4>. QED BY <2>1, <4>2, <4>3 DEF InstructorServed
    <3>3. CASE p \notin {"support-alert", "select-date"}
      <4>1. Handle(s, p) = <<s, p>> BY <1>6, <2>10, <3>3, Zenon DEF Handle
      <4>2. InstructorSeen(s, p) BY <1>6, <2>10, <3>3, SameShown
      <4>. QED BY <2>1, <4>1, <4>2 DEF InstructorServed
    <3>. QED BY <3>1, <3>2, <3>3
  <2>. QED BY <2>2, <2>3, <2>4, <2>5, <2>6, <2>7, <2>8, <2>9, <2>10
<1>. QED BY <1>2, <1>3, <1>4, <1>5, <1>6

(* The redirects end, after at most three, on a page that is shown. *)
LEMMA AtOnceIsShown ==
  ASSUME NEW s, NEW q, InstructorReady(s, q), AtOnce(s, q)
  PROVE  InstructorGet(s, q) = <<s, q>>
<1>1. InstructorGet(s, q) = InstructorHandle(s, q)
  BY DEF InstructorReady, WayAsked, InstructorGet
<1>2. CASE q = "candidate-details" /\ s.answers.type = None
  BY <1>1, <1>2, Zenon DEF InstructorHandle, ShowCandidateDetails
<1>3. CASE q = "choose-support" /\ s.target # "ni"
  BY <1>1, <1>3, Zenon DEF InstructorHandle, ShowChooseSupport
<1>4. CASE q \in LastPages \cup {"duplicate-support-request", "select-test-centre",
                                  "select-support-type", "find-test-centre"}
  BY <1>1, <1>4, Zenon DEF InstructorHandle, Handle, LastPages
<1>. QED BY <1>2, <1>3, <1>4 DEF AtOnce

LEMMA SecondIsOnce ==
  ASSUME NEW s, NEW q, InstructorReady(s, q), AtSecond(s, q), InstructorGet(s, q)[2] # q
  PROVE  AtOnce(InstructorGet(s, q)[1], InstructorGet(s, q)[2])
<1>1. InstructorGet(s, q) = InstructorHandle(s, q)
  BY DEF InstructorReady, WayAsked, InstructorGet
<1>2. ~AtOnce(s, q) BY AtOnceIsShown
<1>3. CASE q = "change-voiceover"
  <2>1. s.answers.type # None
    BY <1>3 DEF InstructorReady, WayAsked, LaterPages
  <2>2. InstructorGet(s, q) = <<s, IF AvailableOptions(s.target, s.answers.type) = {} /\ ~IsNonStandard(s)
                                   THEN "find-test-centre" ELSE q>>
    BY <1>1, <1>3, <2>1, Zenon DEF InstructorHandle, ShowVoiceover
  <2>. QED BY <2>2 DEF AtOnce
<1>4. CASE q = "choose-support" /\ s.answers.type = None
  <2>1. InstructorGet(s, q) = <<s, IF s.target = "ni" THEN "candidate-details" ELSE q>>
    BY <1>1, <1>4, Zenon DEF InstructorHandle, ShowChooseSupport
  <2>. QED BY <1>4, <2>1 DEF AtOnce
<1>. QED BY <1>2, <1>3, <1>4 DEF AtSecond

LEMMA ThirdIsSecond ==
  ASSUME NEW s, NEW q, InstructorReady(s, q), AtThird(s, q), InstructorGet(s, q)[2] # q
  PROVE  AtSecond(InstructorGet(s, q)[1], InstructorGet(s, q)[2])
<1>1. InstructorGet(s, q) = InstructorHandle(s, q)
  BY DEF InstructorReady, WayAsked, InstructorGet
<1>2. CASE AtSecond(s, q) BY <1>2, SecondIsOnce DEF AtSecond
<1>3. CASE q = "select-standard-support"
  <2>. DEFINE r == [s EXCEPT !.shownVoiceover = FALSE]
  <2>1. InstructorGet(s, q) = ShowStandardSupport(r)
    BY <1>1, <1>3, Zenon DEF InstructorHandle, Handle
  <2>. HIDE DEF r
  <2>2. InstructorGet(s, q)[2] \in {q, "change-voiceover"}
    BY <1>3, <2>1 DEF ShowStandardSupport
  <2>. QED BY <2>2 DEF AtSecond
<1>4. CASE q = "candidate-details"
  <2>1. InstructorGet(s, q) = IF s.answers.type = None THEN <<s, q>>
                              ELSE <<ResetSession(s), "choose-support">>
    BY <1>1, <1>4, Zenon DEF InstructorHandle, ShowCandidateDetails
  <2>2. ResetSession(s).answers.type = None
    BY ResetWay DEF InstructorReady, Ready
  <2>. QED BY <2>1, <2>2 DEF AtSecond
<1>. QED BY <1>2, <1>3, <1>4 DEF AtThird

LEMMA InstructorArriveIsSeen ==
  ASSUME NEW s, NEW p, InstructorReady(s, p), drafts \in [Types -> [Draft -> Nat]]
  PROVE  InstructorSeen(InstructorArrive(s, p)[1], InstructorArrive(s, p)[2])
<1>. DEFINE first == InstructorGet(s, p)
            second == InstructorGet(first[1], first[2])
            third == InstructorGet(second[1], second[2])
            fourth == InstructorGet(third[1], third[2])
<1>1. InstructorServed(first, p) BY InstructorHandleServes
<1>2. CASE first[2] = p
  BY <1>1, <1>2 DEF InstructorArrive, InstructorServed
<1>3. CASE first[2] # p
  <2>1. InstructorReady(first[1], first[2]) /\ AtThird(first[1], first[2])
    BY <1>1, <1>3 DEF InstructorServed
  <2>2. InstructorServed(second, first[2]) BY <2>1, InstructorHandleServes
  <2>3. CASE second[2] = first[2]
    <3>1. InstructorArrive(s, p) = second BY <1>3, <2>3 DEF InstructorArrive
    <3>. HIDE DEF first, second
    <3>. QED BY <2>2, <2>3, <3>1 DEF InstructorServed
  <2>4. CASE second[2] # first[2]
    <3>1. InstructorReady(second[1], second[2]) BY <2>2, <2>4 DEF InstructorServed
    <3>2. AtSecond(second[1], second[2]) BY <2>1, <2>4, ThirdIsSecond
    <3>3. InstructorServed(third, second[2]) BY <3>1, InstructorHandleServes
    <3>4. CASE third[2] = second[2]
      <4>1. InstructorArrive(s, p) = third BY <1>3, <2>4, <3>4 DEF InstructorArrive
      <4>. HIDE DEF first, second, third
      <4>. QED BY <3>3, <3>4, <4>1 DEF InstructorServed
    <3>5. CASE third[2] # second[2]
      <4>1. InstructorReady(third[1], third[2]) BY <3>3, <3>5 DEF InstructorServed
      <4>2. AtOnce(third[1], third[2]) BY <3>1, <3>2, <3>5, SecondIsOnce
      <4>3. fourth = <<third[1], third[2]>> BY <4>1, <4>2, AtOnceIsShown
      <4>4. InstructorServed(fourth, third[2]) BY <4>1, InstructorHandleServes
      <4>5. InstructorArrive(s, p) = fourth
        BY <1>3, <2>4, <3>5 DEF InstructorArrive
      <4>. HIDE DEF first, second, third, fourth
      <4>. QED BY <4>3, <4>4, <4>5 DEF InstructorServed
    <3>. QED BY <3>4, <3>5
  <2>. QED BY <2>3, <2>4
<1>. QED BY <1>2, <1>3

-----------------------------------------------------------------------------
(* The links of a page. *)

(* The page that lists the answers, or the details, of the side chosen. *)
LEMMA CheckPageReady ==
  ASSUME NEW s, NEW p, InstructorReady(s, p), s.candidate, s.edit, s.edited.slot = None,
         NEW q \in {"check-your-answers", "check-your-details"},
         q = "check-your-answers" => s.standard,
         q = "check-your-details" => IsNonStandard(s)
  PROVE  InstructorReady(s, q)
<1>1. s \in SessionData /\ Kept(s) /\ WayKept(s) BY DEF InstructorReady, Ready
<1>2. s.answers.type # None /\ s.answers.language
  BY <1>1 DEF Kept, PlaceKept, WayKept
<1>3. CASE q = "check-your-answers"
  <2>1. Settled(ApplyEdits(s)) BY <1>1, <1>3, NothingToApply DEF Kept, PlaceKept
  <2>2. Asked(s, q)
    BY <1>3, <2>1
    DEF Asked, PlaceAsked, SideAsked, ToldAsked, EditPages, BookingPages, AnswerPages,
        SupportPages, EitherPages, DynamicPages, LatePages
  <2>3. WayAsked(s, q) BY <1>1, <1>2, <1>3, StandardWay DEF StandardPages
  <2>. QED BY <1>1, <1>3, <2>2, <2>3 DEF InstructorReady, Ready, Pages, StandardPages
<1>4. CASE q = "check-your-details"
  <2>1. ~s.received => Told(s) BY <1>1, <1>4 DEF Kept, ToldKept
  <2>2. Asked(s, q)
    BY <1>2, <1>4, <2>1
    DEF Asked, PlaceAsked, SideAsked, ToldAsked, EditPages, BookingPages, AnswerPages,
        SupportPages, EitherPages, DynamicPages, LatePages
  <2>3. WayAsked(s, q)
    BY <1>1, <1>2, <1>4
    DEF WayAsked, Permitted, IsNonStandard, IsSupportedStandard, StartPages, StandardPages,
        SupportPages, CommonPages, EitherPages, NamedPages
  <2>. QED BY <1>1, <1>4, <2>2, <2>3 DEF InstructorReady, Ready, Pages, SupportPages
<1>. QED BY <1>3, <1>4

LEMMA LanguageLinkReady ==
  ASSUME NEW s, InstructorSeen(s, "test-language"),
         NEW q, q = IF s.edit THEN CheckPage(s) ELSE BeforeSupport(s)
  PROVE  InstructorReady(s, q)
<1>1. s \in SessionData /\ s.candidate /\ s.edited.slot = None /\ (s.support \/ s.standard)
  BY DEF InstructorSeen, InstructorReady, Ready, WayAsked, WayShown, Permitted, CommonPages,
         Kept, PlaceKept
<1>2. CASE s.edit
  <2>1. q = IF s.standard THEN "check-your-answers" ELSE "check-your-details"
    BY <1>2 DEF CheckPage
  <2>2. ~s.standard => IsNonStandard(s) BY <1>1 DEF IsNonStandard
  <2>. QED BY <1>1, <1>2, <2>1, <2>2, CheckPageReady DEF InstructorSeen
<1>3. CASE ~s.edit
  <2>1. q = IF s.received THEN "received-support-request" ELSE "test-type"
    BY <1>3 DEF BeforeSupport
  <2>2. ~IsSupportedStandard(s) /\ s.answers.type # None
        /\ (s.received /\ s.support => s.answers.language)
    BY <1>3 DEF InstructorSeen, InstructorReady, WayAsked, Ready, Asked, PlaceAsked
  <2>3. q \in Pages /\ Asked(s, q)
    BY <1>1, <1>3, <2>1, <2>2
    DEF Asked, PlaceAsked, SideAsked, ToldAsked, EditPages, BookingPages, AnswerPages,
        SupportPages, EitherPages, DynamicPages, LatePages, Pages, CommonPages
  <2>4. WayAsked(s, q)
    BY <1>1, <1>3, <2>1, <2>2
    DEF WayAsked, Permitted, StartPages, StandardPages, SupportPages, CommonPages,
        EitherPages, NamedPages, LaterPages, AnswerPages
  <2>. QED BY <2>3, <2>4 DEF InstructorSeen, InstructorReady, Ready
<1>. QED BY <1>2, <1>3

(* Links to pages before the support, and to pages after it. *)
LEMMA LinkBack ==
  ASSUME NEW s, NEW p, InstructorReady(s, p), s.candidate, s.edited.slot = None,
         ~s.edit, ~IsSupportedStandard(s),
         NEW q \in {"test-type", "received-support-request", "test-language"},
         q # "test-type" => s.answers.type # None,
         q = "received-support-request" => s.received,
         s.received /\ s.support => s.answers.language
  PROVE  InstructorReady(s, q)
<1>1. q \in Pages /\ Asked(s, q)
  BY DEF Asked, PlaceAsked, SideAsked, ToldAsked, EditPages, BookingPages, AnswerPages,
         SupportPages, EitherPages, DynamicPages, LatePages, Pages, CommonPages
<1>2. WayAsked(s, q)
  BY DEF WayAsked, Permitted, StartPages, StandardPages, SupportPages, CommonPages,
         EitherPages, NamedPages, LaterPages, AnswerPages
<1>. QED BY <1>1, <1>2 DEF InstructorReady, Ready

LEMMA LinkOn ==
  ASSUME NEW s, NEW p, InstructorReady(s, p), s.candidate, s.edited.slot = None,
         ~s.edit, s.standard, s.answers.type # None, s.answers.language,
         NEW q \in {"select-standard-support", "change-voiceover", "email-contact"},
         q # "email-contact" => ~IsSupportedStandard(s)
  PROVE  InstructorReady(s, q)
<1>0. ~IsNonStandard(s) BY DEF IsNonStandard
<1>1. q \in Pages /\ Asked(s, q)
  BY <1>0
  DEF Asked, PlaceAsked, SideAsked, ToldAsked, EditPages, BookingPages, AnswerPages,
      SupportPages, EitherPages, DynamicPages, LatePages, Pages, CommonPages
<1>2. WayAsked(s, q)
  BY <1>0
  DEF WayAsked, Permitted, StartPages, StandardPages, SupportPages, CommonPages,
      EitherPages, NamedPages, LaterPages, AnswerPages
<1>. QED BY <1>1, <1>2 DEF InstructorReady, Ready

(* A page that may be shown has the answers its links rely on. *)
LEMMA WhatIsSeen ==
  ASSUME NEW s, NEW p, InstructorSeen(s, p)
  PROVE  /\ s \in SessionData /\ s.edited.slot = None /\ Permitted(s, p) /\ WayAsked(s, p)
         /\ s.support \/ s.standard
         /\ s.target \in {"gb", "ni"} /\ (s.target = "ni" => ~s.support)
         /\ p \in SupportPages => IsNonStandard(s)
         /\ p \in LaterPages => s.answers.type # None /\ s.answers.language
         /\ s.edit => p \in EditPages /\ s.answers.type # None /\ s.answers.language
<1>1. s \in SessionData /\ Kept(s) /\ WayKept(s) /\ Asked(s, p) /\ WayAsked(s, p)
  BY DEF InstructorSeen, InstructorReady, Ready
<1>2. s.edited.slot = None /\ (p \in SupportPages => IsNonStandard(s))
  BY DEF InstructorSeen, WayShown, Shown, PlaceShown, SideShown, SupportPages
<1>3. s.target \in {"gb", "ni"} BY <1>1, SessionFields, TargetsAssumption
<1>4. Permitted(s, p) /\ (p \in LaterPages => s.answers.type # None /\ s.answers.language)
  BY <1>1 DEF WayAsked
<1>5. /\ s.support \/ s.standard
      /\ s.edit => p \in EditPages /\ s.answers.type # None /\ s.answers.language
  BY <1>1 DEF Kept, PlaceKept, Asked, PlaceAsked, WayKept
<1>. QED BY <1>1, <1>2, <1>3, <1>4, <1>5 DEF WayKept

LEMMA BackFromSupport ==
  ASSUME NEW s, NEW p \in SupportPages \cup {"change-voiceover"}, InstructorSeen(s, p),
         IsNonStandard(s),
         Astray(s) \/ Selected(s), NEW q \in SupportPages \cup {"change-voiceover", "email-contact"}
  PROVE  WayAsked(s, q)
<1>1. s \in SessionData /\ s.candidate /\ s.answers.type # None /\ s.answers.language
  BY WhatIsSeen DEF Permitted, EitherPages, LaterPages
<1>. QED BY <1>1, SupportWay

(* The links that lead on are on the way: first those of the pages the *)
(* candidates share, then those of the instructors' own.               *)
LEMMA SharedLinkWay ==
  ASSUME NEW s, NEW p, InstructorSeen(s, p), NEW routes \in Routes(s),
         NEW q \in ForwardLinks(s, p, routes), ~(s.edit /\ p \in EditedFromCheckPage),
         p \notin {"candidate-details", "received-support-request", "change-voiceover",
                   "find-test-centre", "check-your-answers", "check-your-details",
                   "test-language"},
         ~(p = "select-support-type" /\ s.answers.type = "ers")
  PROVE  WayAsked(s, q)
<1>0. /\ s \in SessionData /\ s.edited.slot = None /\ Permitted(s, p) /\ WayAsked(s, p)
      /\ s.support \/ s.standard
      /\ s.target \in {"gb", "ni"} /\ (s.target = "ni" => ~s.support)
      /\ p \in SupportPages => IsNonStandard(s)
      /\ p \in LaterPages => s.answers.type # None /\ s.answers.language
      /\ s.edit => p \in EditPages /\ s.answers.type # None /\ s.answers.language
  BY WhatIsSeen
<1>1. CASE p = "support-alert"
  <2>1. q \in {"choose-support", "candidate-details"} BY <1>1, Zenon DEF ForwardLinks
  <2>2. s.target # "ni" /\ (~s.candidate \/ s.edit)
    BY <1>0, <1>1 DEF InstructorSeen, WayShown, Permitted, StartPages
  <2>. QED
    BY <2>1, <2>2
    DEF WayAsked, Permitted, StartPages, StandardPages, SupportPages, CommonPages,
        EitherPages, NamedPages, LaterPages, AnswerPages
<1>2. CASE p = "email-contact"
  <2>1. q \in IF IsNonStandard(s) THEN {"preferred-location"}
              ELSE IF IsSupportedStandard(s) THEN {"leaving-nsa"} ELSE {}
    BY <1>2, Zenon DEF ForwardLinks
  <2>2. s.support /\ s.candidate /\ s.answers.type # None /\ s.answers.language
    BY <1>0, <1>2, <2>1
    DEF WayAsked, Permitted, EitherPages, IsNonStandard, IsSupportedStandard
  <2>3. q = "leaving-nsa" => Astray(s) \/ Selected(s)
    BY <1>2, <2>1 DEF InstructorSeen, InstructorReady, WayKept
  <2>. QED
    BY <2>1, <2>2, <2>3
    DEF WayAsked, Permitted, StartPages, StandardPages, SupportPages, CommonPages,
        EitherPages, NamedPages, LaterPages, AnswerPages
<1>3. CASE p = "test-type"
  <2>1. q \in IF IsNonStandard(s) THEN {} ELSE {"email-contact"}
    BY <1>3, Zenon DEF ForwardLinks
  <2>2. s.candidate /\ ~s.support
    BY <1>0, <1>3, <2>1, SessionFields
    DEF WayAsked, Permitted, CommonPages, IsNonStandard, IsSupportedStandard
  <2>. QED
    BY <1>0, <2>1, <2>2
    DEF WayAsked, Permitted, StartPages, StandardPages, SupportPages, CommonPages,
        EitherPages, NamedPages, LaterPages, AnswerPages
<1>4. CASE p = "select-standard-support"
  <2>1. q = IF s.target = "gb" THEN "test-language" ELSE BeforeSupport(s)
    BY <1>4, Zenon DEF ForwardLinks
  <2>2. q \in {"test-language", "test-type", "received-support-request"}
        /\ (q = "received-support-request" => s.received)
    BY <2>1 DEF BeforeSupport
  <2>3. s.candidate /\ ~s.edit /\ ~IsSupportedStandard(s) /\ s.answers.type # None /\ s.answers.language
    BY <1>0, <1>4 DEF EditPages, LastPages, WayAsked, Permitted, CommonPages, LaterPages
  <2>4. InstructorReady(s, q) BY <1>0, <2>2, <2>3, LinkBack DEF InstructorSeen
  <2>. QED BY <2>4 DEF InstructorReady
<1>5. CASE p = "select-support-type"
  <2>1. q = IF s.confirming THEN "confirm-support"
            ELSE IF s.target = "ni" THEN "test-type" ELSE "test-language"
    BY <1>5, Zenon DEF ForwardLinks
  <2>2. /\ s.candidate /\ ~s.edit /\ IsNonStandard(s)
        /\ s.answers.type # None /\ s.answers.language
    BY <1>0, <1>5 DEF Permitted, SupportPages, LaterPages, EditedFromCheckPage
  <2>3. CASE q = "confirm-support"
    BY <2>2, <2>3
    DEF WayAsked, Permitted, StartPages, StandardPages, SupportPages, CommonPages,
        EitherPages, NamedPages, LaterPages, AnswerPages, IsNonStandard
  <2>4. CASE q \in {"test-type", "test-language"}
    <3>1. InstructorReady(s, q)
      BY <1>0, <2>2, <2>4, LinkBack DEF InstructorSeen, IsNonStandard, IsSupportedStandard
    <3>. QED BY <3>1 DEF InstructorReady
  <2>. QED BY <2>1, <2>3, <2>4
<1>6. CASE p \in {"translator", "custom-support", "leaving-nsa", "staying-nsa",
                  "duplicate-support-request"}
  <2>1. PreviousPage(p, routes) \in DynamicPages \cup {"select-support-type"}
    BY RoutesAreOwn, PreviousIs
  <2>2. q \in {PreviousPage(p, routes), "confirm-support", "leaving-nsa", "staying-nsa",
               "preferred-day"}
    <3>1. CASE p = "translator" BY <3>1, Zenon DEF ForwardLinks
    <3>2. CASE p = "custom-support" BY <3>2, Zenon DEF ForwardLinks, SkipCustomSupport
    <3>3. CASE p = "leaving-nsa" BY <3>3, Zenon DEF ForwardLinks, BackFromNsa
    <3>4. CASE p = "staying-nsa" BY <3>4, Zenon DEF ForwardLinks, BackFromNsa
    <3>5. CASE p = "duplicate-support-request" BY <3>5, Zenon DEF ForwardLinks
    <3>. QED BY <1>6, <3>1, <3>2, <3>3, <3>4, <3>5
  <2>3. q \in SupportPages \cup {"change-voiceover"}
    BY <2>1, <2>2 DEF SupportPages, DynamicPages
  <2>4. p \in SupportPages /\ (Astray(s) \/ Selected(s))
    BY <1>0, <1>6 DEF SupportPages, NamedPages, WayAsked
  <2>. QED BY <1>0, <2>3, <2>4, BackFromSupport
<1>7. CASE p \in {"confirm-support", "preferred-day", "preferred-location",
                  "telephone-contact", "voicemail", "check-your-details-error"}
  <2>1. q \in {"select-support-type", "staying-nsa", "preferred-day", "email-contact",
               "telephone-contact", "check-your-details"}
    <3>1. CASE p = "confirm-support" BY <3>1, Zenon DEF ForwardLinks
    <3>2. CASE p = "preferred-day" BY <3>2, Zenon DEF ForwardLinks
    <3>3. CASE p = "preferred-location" BY <3>3, Zenon DEF ForwardLinks
    <3>4. CASE p = "telephone-contact" BY <3>4, Zenon DEF ForwardLinks
    <3>5. CASE p = "voicemail" BY <3>5, Zenon DEF ForwardLinks
    <3>6. CASE p = "check-your-details-error" BY <3>6, Zenon DEF ForwardLinks
    <3>. QED BY <1>7, <3>1, <3>2, <3>3, <3>4, <3>5, <3>6
  <2>2. /\ s.candidate /\ IsNonStandard(s) /\ s.answers.type # None /\ s.answers.language
    BY <1>0, <1>7, SMTT(30)
    DEF Permitted, SupportPages, LaterPages, AnswerPages, InstructorSeen, InstructorReady,
        Ready, Asked, SideAsked, PlaceAsked
  <2>3. q = "staying-nsa" => Astray(s) \/ Selected(s)
    <3>1. ASSUME q = "staying-nsa" PROVE p = "preferred-day"
      <4>1. CASE p = "confirm-support" BY <3>1, <4>1, Zenon DEF ForwardLinks
      <4>2. CASE p = "preferred-location" BY <3>1, <4>2, Zenon DEF ForwardLinks
      <4>3. CASE p = "telephone-contact" BY <3>1, <4>3, Zenon DEF ForwardLinks
      <4>4. CASE p = "voicemail" BY <3>1, <4>4, Zenon DEF ForwardLinks
      <4>5. CASE p = "check-your-details-error" BY <3>1, <4>5, Zenon DEF ForwardLinks
      <4>. QED BY <1>7, <4>1, <4>2, <4>3, <4>4, <4>5
    <3>2. ASSUME p = "preferred-day" PROVE Astray(s) \/ Selected(s)
      BY <2>2, <3>2 DEF InstructorSeen, WayShown, Shown, Asked, ToldAsked, LatePages, Told, Astray
    <3>. QED BY <3>1, <3>2
  <2>. QED
    BY <2>1, <2>2, <2>3
    DEF WayAsked, Permitted, StartPages, StandardPages, SupportPages, CommonPages,
        EitherPages, NamedPages, LaterPages, AnswerPages, IsNonStandard
<1>8. CASE p \in {"select-test-centre", "select-date", "choose-appointment",
                  "change-location-time", "bsl", "slot-unavailable", "booking-exists"}
  <2>1. q \in {"find-test-centre", "select-test-centre", "select-date", "check-your-answers"}
    <3>1. CASE p = "select-test-centre" BY <3>1 DEF ForwardLinks
    <3>2. CASE p = "select-date" BY <3>2, Zenon DEF ForwardLinks
    <3>3. CASE p = "choose-appointment" BY <3>3 DEF ForwardLinks
    <3>4. CASE p = "change-location-time" BY <3>4, Zenon DEF ForwardLinks
    <3>5. CASE p = "bsl" BY <3>5, Zenon DEF ForwardLinks
    <3>6. CASE p = "slot-unavailable" BY <3>6, Zenon DEF ForwardLinks
    <3>7. CASE p = "booking-exists"
      <4>1. q = s.lastPage BY <3>7, Zenon DEF ForwardLinks
      <4>2. s.lastPage = "check-your-answers"
        BY <3>7 DEF InstructorSeen, WayShown, Shown, Asked, PlaceAsked
      <4>. QED BY <4>1, <4>2
    <3>. QED BY <1>8, <3>1, <3>2, <3>3, <3>4, <3>5, <3>6, <3>7
  <2>2. /\ s.candidate /\ s.standard /\ s.answers.type # None /\ s.answers.language
    BY <1>0, <1>8, SMTT(30)
    DEF Permitted, StandardPages, LaterPages, AnswerPages, InstructorSeen, InstructorReady,
        Ready, Asked, PlaceAsked
  <2>. QED BY <1>0, <2>1, <2>2, StandardWay DEF StandardPages
<1>9. CASE p \in {"choose-support", "payment"} \cup LastPages
  <2>1. q \in {} BY <1>9, ZenonT(90) DEF ForwardLinks, LastPages
  <2>. QED BY <2>1
<1>10. p \in Pages BY DEF InstructorSeen, InstructorReady, Ready
<1>. QED
  BY <1>1, <1>2, <1>3, <1>4, <1>5, <1>6, <1>7, <1>8, <1>9, <1>10, SMTT(60)
  DEF Pages, StartPages, StandardPages, SupportPages, CommonPages, EitherPages, AnswerPages

LEMMA OwnLinkReady ==
  ASSUME NEW s, NEW p, InstructorSeen(s, p), NEW routes \in Routes(s),
         NEW q \in InstructorForwardLinks(s, p, routes), ~(s.edit /\ p \in EditedFromCheckPage),
         \/ p \in {"candidate-details", "received-support-request", "change-voiceover",
                   "find-test-centre", "check-your-answers", "check-your-details",
                   "test-language"}
         \/ p = "select-support-type" /\ s.answers.type = "ers"
  PROVE  InstructorReady(s, q)
<1>0. /\ s \in SessionData /\ s.edited.slot = None /\ Permitted(s, p) /\ WayAsked(s, p)
      /\ s.support \/ s.standard
      /\ s.target \in {"gb", "ni"} /\ (s.target = "ni" => ~s.support)
      /\ p \in SupportPages => IsNonStandard(s)
      /\ p \in LaterPages => s.answers.type # None /\ s.answers.language
      /\ s.edit => p \in EditPages /\ s.answers.type # None /\ s.answers.language
  BY WhatIsSeen
<1>01. InstructorReady(s, p) /\ Ready(s, p) /\ WayKept(s) BY DEF InstructorSeen, InstructorReady
<1>02. p # "test-language" => Seen(s, p) BY SeenAsCandidate
<1>03. p # "test-language" => Shown(s, p) /\ Asked(s, p)
  BY DEF InstructorSeen, WayShown, Shown
<1>1. CASE p = "candidate-details"
  <2>1. q \in {"choose-support"} /\ s.target # "ni"
    BY <1>1, Zenon DEF InstructorForwardLinks
  <2>2. q \in ForwardLinks(s, p, routes) BY <1>1, <2>1, Zenon DEF ForwardLinks
  <2>3. Ready(s, q) BY <1>01, <1>02, <1>1, <2>2, ForwardIsAsked DEF Ready
  <2>4. WayAsked(s, q)
    BY <1>0, <1>1, <2>1
    DEF WayAsked, Permitted, StartPages, StandardPages, SupportPages, CommonPages,
        EitherPages, NamedPages, LaterPages, AnswerPages
  <2>. QED BY <1>01, <2>3, <2>4 DEF InstructorReady
<1>2. CASE p = "received-support-request"
  <2>1. q \in {BackFromReceived(s)} \cup (ForwardLinks(s, p, routes) \ {"leaving-nsa", "test-type"})
    BY <1>2, Zenon DEF InstructorForwardLinks
  <2>2. q \in {IF IsSupportedStandard(s) THEN "other-side" ELSE "test-type"}
          \cup {IF s.lastPage = "test-type" THEN "test-language" ELSE "email-contact"}
    BY <1>2, <2>1 DEF ForwardLinks, BackFromReceived
  <2>3. /\ s.candidate /\ ~s.edit /\ s.received /\ s.answers.type # None
        /\ (s.support => s.answers.language)
        /\ (IsSupportedStandard(s) => s.lastPage # "test-type")
    BY <1>0, <1>03, <1>2
    DEF Permitted, CommonPages, EditPages, LastPages, WayAsked, Shown, SideShown, Asked, PlaceAsked
  <2>4. CASE q = "other-side"
    <3>1. Ready(s, q) BY <1>0, <1>01, <2>4, LastPageReady DEF LastPages
    <3>2. WayAsked(s, q) BY <2>4, LastWay DEF LastPages
    <3>. QED BY <1>01, <3>1, <3>2 DEF InstructorReady
  <2>5. CASE q \in {"test-type", "test-language"}
    BY <1>0, <1>01, <2>2, <2>3, <2>5, LinkBack
  <2>6. CASE q = "email-contact"
    <3>1. q \in ForwardLinks(s, p, routes)
      <4>1. q # BackFromReceived(s) BY <2>6 DEF BackFromReceived
      <4>. QED BY <2>1, <4>1
    <3>2. Ready(s, q) BY <1>01, <1>02, <1>2, <2>3, <3>1, ForwardIsAsked DEF Ready
    <3>3. WayAsked(s, q)
      BY <1>0, <2>3, <2>6
      DEF WayAsked, Permitted, StartPages, StandardPages, SupportPages, CommonPages,
          EitherPages, NamedPages, LaterPages, AnswerPages
    <3>. QED BY <1>01, <3>2, <3>3 DEF InstructorReady
  <2>. QED BY <2>2, <2>4, <2>5, <2>6
<1>3. CASE p = "change-voiceover"
  <2>1. q = InstructorBackFromVoiceover(s, routes)
    BY <1>3, Zenon DEF InstructorForwardLinks
  <2>2. s.candidate /\ ~s.edit /\ s.answers.type # None /\ s.answers.language
    BY <1>0, <1>3 DEF Permitted, EitherPages, LaterPages, EditedFromCheckPage
  <2>3. CASE IsNonStandard(s)
    <3>1. q = PreviousPage("change-voiceover", routes)
      BY <2>1, <2>3 DEF InstructorBackFromVoiceover
    <3>2. q \in ForwardLinks(s, p, routes)
      BY <1>3, <2>3, <3>1, Zenon DEF ForwardLinks, BackFromVoiceover
    <3>3. Ready(s, q) BY <1>01, <1>02, <1>3, <2>2, <3>2, ForwardIsAsked DEF Ready
    <3>4. q \in SupportPages \cup {"change-voiceover"}
      BY <3>1, RoutesAreOwn, PreviousIs DEF DynamicPages, SupportPages
    <3>5. Astray(s) \/ Selected(s) BY <1>0, <1>3, <2>3 DEF WayAsked
    <3>6. WayAsked(s, q) BY <1>3, <2>3, <3>4, <3>5, BackFromSupport
    <3>. QED BY <1>01, <3>3, <3>6 DEF InstructorReady
  <2>4. CASE ~IsNonStandard(s)
    <3>1. /\ q \in {"select-standard-support", "received-support-request", "test-type",
                    "test-language"}
          /\ q = "received-support-request" => s.received
      BY <2>1, <2>4 DEF InstructorBackFromVoiceover, BeforeSupport
    <3>2. s.standard /\ ~IsSupportedStandard(s)
      BY <1>0, <1>3, <2>2, <2>4 DEF IsNonStandard, WayAsked
    <3>3. CASE q = "select-standard-support" BY <1>0, <1>01, <2>2, <3>2, <3>3, LinkOn
    <3>4. CASE q # "select-standard-support" BY <1>0, <1>01, <2>2, <3>1, <3>2, <3>4, LinkBack
    <3>. QED BY <3>3, <3>4
  <2>. QED BY <2>3, <2>4
<1>4. CASE p = "find-test-centre"
  <2>1. q = BackFromFindTestCentre(s) BY <1>4, Zenon DEF InstructorForwardLinks
  <2>2. s.candidate /\ s.standard /\ ~s.edit /\ s.answers.type # None /\ s.answers.language
    BY <1>0, <1>4 DEF Permitted, StandardPages, LaterPages, EditedFromCheckPage
  <2>3. CASE IsSupportedStandard(s)
    <3>1. q = "email-contact" BY <2>1, <2>3 DEF BackFromFindTestCentre
    <3>. QED BY <1>0, <1>01, <2>2, <3>1, LinkOn
  <2>4. CASE ~IsSupportedStandard(s)
    <3>1. /\ q \in {"change-voiceover", "select-standard-support", "received-support-request",
                    "test-type"}
          /\ q = "received-support-request" => s.received
      BY <2>1, <2>4 DEF BackFromFindTestCentre, BeforeSupport
    <3>2. CASE q \in {"change-voiceover", "select-standard-support"}
      BY <1>0, <1>01, <2>2, <2>4, <3>2, LinkOn
    <3>3. CASE q \notin {"change-voiceover", "select-standard-support"}
      BY <1>0, <1>01, <2>2, <2>4, <3>1, <3>3, LinkBack
    <3>. QED BY <3>2, <3>3
  <2>. QED BY <2>3, <2>4
<1>5. CASE p = "test-language"
  <2>1. q = IF s.edit THEN CheckPage(s) ELSE BeforeSupport(s)
    BY <1>5, Zenon DEF InstructorForwardLinks, ForwardLinks
  <2>. QED BY <1>5, <2>1, LanguageLinkReady
<1>6. CASE p = "select-support-type" /\ s.answers.type = "ers"
  <2>1. q = IF s.confirming THEN "confirm-support" ELSE "test-type"
    BY <1>6, Zenon DEF InstructorForwardLinks
  <2>2. /\ s.candidate /\ ~s.edit /\ IsNonStandard(s)
        /\ s.answers.type # None /\ s.answers.language
    BY <1>0, <1>6 DEF Permitted, SupportPages, LaterPages, EditedFromCheckPage
  <2>3. CASE s.confirming
    <3>1. q \in ForwardLinks(s, p, routes) BY <1>6, <2>1, <2>3, Zenon DEF ForwardLinks
    <3>2. Ready(s, q) BY <1>01, <1>02, <1>6, <2>2, <3>1, ForwardIsAsked DEF Ready
    <3>3. WayAsked(s, q)
      BY <2>1, <2>2, <2>3
      DEF WayAsked, Permitted, StartPages, StandardPages, SupportPages, CommonPages,
          EitherPages, NamedPages, LaterPages, AnswerPages, IsNonStandard
    <3>. QED BY <1>01, <3>2, <3>3 DEF InstructorReady
  <2>4. CASE ~s.confirming
    <3>1. ~IsSupportedStandard(s) BY <2>2 DEF IsNonStandard, IsSupportedStandard
    <3>. QED BY <1>0, <1>01, <2>1, <2>2, <2>4, <3>1, LinkBack
  <2>. QED BY <2>3, <2>4
<1>7. CASE p = "check-your-answers"
  <2>1. q \in AnswersLinks(s) BY <1>7, Zenon DEF InstructorForwardLinks
  <2>2. s.candidate /\ s.standard /\ s.edit /\ s.answers.type # None /\ s.answers.language
    BY <1>0, <1>03, <1>7 DEF Permitted, StandardPages, LaterPages, Shown, PlaceShown
  <2>3. /\ q \in {"choose-appointment", "email-contact", "change-location-time",
                  "test-language", "choose-support", "change-voiceover"}
        /\ q = "test-language" => CanChangeTestLanguage(s)
        /\ q = "choose-support" => s.target = "gb"
    BY <2>1 DEF AnswersLinks, LanguageLink
  <2>4. Asked(s, q) /\ q \in Pages
    <3>1. Settled(s) BY <1>01, <2>2 DEF Ready, Kept, PlaceKept
    <3>. QED
      BY <1>0, <1>03, <1>7, <2>2, <2>3, <3>1
      DEF Asked, PlaceAsked, SideAsked, ToldAsked, EditPages, BookingPages, AnswerPages,
          SupportPages, EitherPages, DynamicPages, LatePages, Pages, CommonPages, StartPages,
          StandardPages, IsNonStandard, CanChangeTestLanguage
  <2>5. WayAsked(s, q)
    BY <1>0, <2>2, <2>3
    DEF WayAsked, Permitted, StartPages, StandardPages, SupportPages, CommonPages,
        EitherPages, NamedPages, LaterPages, AnswerPages, IsNonStandard
  <2>. QED BY <1>01, <2>4, <2>5 DEF InstructorReady, Ready
<1>8. CASE p = "check-your-details"
  <2>1. q \in DetailsLinks(s) BY <1>8, Zenon DEF InstructorForwardLinks
  <2>2. /\ s.candidate /\ s.edit /\ IsNonStandard(s) /\ s.target # "ni"
        /\ s.answers.type # None /\ s.answers.language
    BY <1>0, <1>03, <1>8
    DEF Permitted, SupportPages, LaterPages, Shown, PlaceShown, IsNonStandard
  <2>3. /\ \/ q \in DetailsPages
           \/ q = "test-language" /\ CanChangeTestLanguage(s)
           \/ q \in OwnPages(s) /\ Selected(s)
    BY <2>1 DEF DetailsLinks, LanguageLink, Selected
  <2>4. ~s.received => Told(s) BY <1>01, <2>2 DEF Ready, Kept, ToldKept
  <2>5. CASE q \in DetailsPages
    <3>1. Asked(s, q) /\ q \in Pages
      BY <1>0, <2>2, <2>4, <2>5
      DEF Asked, PlaceAsked, SideAsked, ToldAsked, EditPages, BookingPages, AnswerPages,
          SupportPages, EitherPages, DynamicPages, LatePages, Pages, CommonPages, StartPages,
          StandardPages, DetailsPages
    <3>2. WayAsked(s, q)
      BY <1>0, <2>2, <2>5
      DEF WayAsked, Permitted, StartPages, StandardPages, SupportPages, CommonPages,
          EitherPages, NamedPages, LaterPages, AnswerPages, IsNonStandard, DetailsPages
    <3>. QED BY <1>01, <3>1, <3>2 DEF InstructorReady, Ready
  <2>6. CASE q = "test-language" /\ CanChangeTestLanguage(s)
    <3>1. Asked(s, q) /\ q \in Pages
      BY <1>0, <2>2, <2>6
      DEF Asked, PlaceAsked, SideAsked, ToldAsked, EditPages, BookingPages, AnswerPages,
          SupportPages, EitherPages, DynamicPages, LatePages, Pages, CommonPages,
          CanChangeTestLanguage
    <3>2. WayAsked(s, q)
      BY <1>0, <2>2, <2>6
      DEF WayAsked, Permitted, StartPages, StandardPages, SupportPages, CommonPages,
          EitherPages, NamedPages, LaterPages, AnswerPages, IsNonStandard
    <3>. QED BY <1>01, <3>1, <3>2 DEF InstructorReady, Ready
  <2>7. CASE q \in OwnPages(s) /\ Selected(s)
    <3>1. q \in {"change-voiceover", "translator", "custom-support"}
      BY <2>7 DEF OwnPages, DynamicPages
    <3>2. Asked(s, q) /\ q \in Pages
      BY <1>0, <2>2, <2>4, <2>7, <3>1
      DEF Asked, PlaceAsked, SideAsked, ToldAsked, EditPages, BookingPages, AnswerPages,
          SupportPages, EitherPages, DynamicPages, LatePages, Pages, CommonPages, StartPages,
          StandardPages, Told
    <3>3. WayAsked(s, q)
      BY <1>0, <1>8, <2>2, <2>7, <3>1, BackFromSupport DEF SupportPages
    <3>. QED BY <1>01, <3>2, <3>3 DEF InstructorReady, Ready
  <2>. QED BY <2>3, <2>5, <2>6, <2>7
<1>. QED BY <1>1, <1>2, <1>3, <1>4, <1>5, <1>6, <1>7, <1>8

LEMMA InstructorLinksAreReady ==
  ASSUME NEW s, NEW p, InstructorSeen(s, p), NEW routes \in Routes(s),
         NEW q \in InstructorLinks(s, p, routes)
  PROVE  InstructorReady(s, q)
<1>0. InstructorReady(s, p) /\ WayKept(s) BY DEF InstructorSeen, InstructorReady
<1>1. CASE s.edit /\ p \in EditedFromCheckPage
  <2>1. q \in Links(s, p, routes) BY <1>1, Zenon DEF InstructorLinks
  <2>2. p # "test-language" BY <1>1 DEF EditedFromCheckPage
  <2>3. Ready(s, q) BY <2>1, <2>2, SeenAsCandidate, LinksAreReady
  <2>4. q = IF p \in SupportPages THEN "check-your-details"
            ELSE IF p \in StandardPages THEN "check-your-answers" ELSE CheckPage(s)
    BY <1>1, <2>1, Zenon DEF Links
  <2>5. /\ s \in SessionData /\ s.edited.slot = None /\ Permitted(s, p)
        /\ s.support \/ s.standard
        /\ p \in SupportPages => IsNonStandard(s)
    BY WhatIsSeen
  <2>6. s.candidate BY <1>0, <1>1, <2>5 DEF InstructorReady, Ready, Kept, PlaceKept
  <2>7. /\ q \in {"check-your-answers", "check-your-details"}
        /\ q = "check-your-answers" => s.standard
        /\ q = "check-your-details" => IsNonStandard(s)
    BY <2>4, <2>5 DEF CheckPage, Permitted, IsNonStandard
  <2>. QED BY <1>0, <1>1, <2>5, <2>6, <2>7, CheckPageReady
<1>2. CASE ~(s.edit /\ p \in EditedFromCheckPage)
  <2>1. q \in InstructorForwardLinks(s, p, routes) BY <1>2, Zenon DEF InstructorLinks
  <2>2. CASE \/ p \in {"candidate-details", "received-support-request", "change-voiceover",
                       "find-test-centre", "check-your-answers", "check-your-details",
                       "test-language"}
             \/ p = "select-support-type" /\ s.answers.type = "ers"
    BY <1>2, <2>1, <2>2, OwnLinkReady
  <2>3. CASE /\ p \notin {"candidate-details", "received-support-request", "change-voiceover",
                          "find-test-centre", "check-your-answers", "check-your-details",
                          "test-language"}
             /\ ~(p = "select-support-type" /\ s.answers.type = "ers")
    <3>1. q \in ForwardLinks(s, p, routes) BY <2>1, <2>3, Zenon DEF InstructorForwardLinks
    <3>2. Ready(s, q)
      BY <1>0, <1>2, <2>3, <3>1, SeenAsCandidate, ForwardIsAsked DEF InstructorReady, Ready
    <3>3. WayAsked(s, q) BY <1>2, <2>3, <3>1, SharedLinkWay
    <3>. QED BY <1>0, <3>2, <3>3 DEF InstructorReady
  <2>. QED BY <2>2, <2>3
<1>. QED BY <1>1, <1>2

-----------------------------------------------------------------------------
(* The steps. *)

LEMMA InstructorPageIsSeen ==
  ASSUME InstructorInv
  PROVE  InstructorSeen(session, page)
BY DEF InstructorInv, TypeOK, InstructorSeen, InstructorReady, Ready

LEMMA WayIsSeen ==
  ASSUME TypeOK', person' = person, InstructorSeen(session', page'),
         \A q \in links' : InstructorReady(session', q),
         \/ \A t \in Types : NoneUnwarned(t) => NoneUnwarned(t)'
         \/ ~session'.support /\ page' # "staying-nsa"
  PROVE  InstructorInv'
<1>1. /\ session' \in SessionData /\ Kept(session') /\ WayKept(session')
      /\ Asked(session', page') /\ WayAsked(session', page')
      /\ WayShown(session', page')
      /\ \A q \in links' : Asked(session', q) /\ WayAsked(session', q)
  BY DEF InstructorSeen, InstructorReady, Ready
<1>2. /\ Kept(session)' /\ Asked(session, page)'
      /\ \A q \in links' : Asked(session, q)'
      /\ Shown(session', page') => Shown(session, page)'
  BY <1>1, KeptWithDrafts
<1>3. WayKept(session)'
  BY <1>1 DEF WayKept, IsSupportedStandard, Astray, Selected
<1>4. WayAsked(session, page)' /\ \A q \in links' : WayAsked(session, q)'
  BY <1>1
  DEF WayAsked, Permitted, IsSupportedStandard, IsNonStandard, CanChangeTestLanguage, Astray,
      Selected
<1>5. WayShown(session, page)'
  BY <1>1, <1>2 DEF WayShown, CanChangeTestLanguage
<1>. QED BY <1>2, <1>3, <1>4, <1>5 DEF InstructorInv

LEMMA InstructorShowPageKeeps ==
  ASSUME TypeOK, NEW s, NEW p, InstructorShowPage(s, p), InstructorSeen(s, p),
         drafts' \in [Types -> [Draft -> Nat]],
         \/ \A t \in Types : NoneUnwarned(t) => NoneUnwarned(t)'
         \/ ~s.support /\ p # "staying-nsa",
         confirmed' \subseteq Types, submitted' \in Answers \cup {None}
  PROVE  InstructorInv'
<1>1. session' = s /\ page' = p /\ person' = person BY DEF InstructorShowPage
<1>2. PICK routes \in Routes(s) : links' = InstructorLinks(s, p, routes)
  BY DEF InstructorShowPage
<1>3. \A q \in links' : InstructorReady(s, q) BY <1>2, InstructorLinksAreReady
<1>4. TypeOK'
  BY <1>1, <1>3 DEF TypeOK, InstructorSeen, InstructorReady, Ready
<1>. QED BY <1>1, <1>3, <1>4, WayIsSeen

LEMMA InstructorGotoKeeps ==
  ASSUME TypeOK, NEW s, NEW p, InstructorGoto(s, p), InstructorReady(s, p),
         drafts' = drafts, confirmed' \subseteq Types, submitted' \in Answers \cup {None}
  PROVE  InstructorInv'
<1>. DEFINE a == InstructorArrive(s, p)
<1>1. InstructorShowPage(a[1], a[2]) BY DEF InstructorGoto
<1>2. InstructorSeen(a[1], a[2]) BY InstructorArriveIsSeen DEF TypeOK
<1>3. DraftsGrowWarned BY DraftsStay
<1>. HIDE DEF a
<1>. QED BY <1>1, <1>2, <1>3, InstructorShowPageKeeps DEF DraftsGrowWarned

LEMMA InstructorAnswerKeeps ==
  ASSUME InstructorInv, NEW p, NEW s, NEW next, InstructorAnswer(p, s, next),
         InstructorReady(s, next)
  PROVE  InstructorInv' /\ drafts' = drafts
<1>1. InstructorGoto(s, next) /\ drafts' = drafts /\ confirmed' = confirmed /\ submitted' = submitted
  BY DEF InstructorAnswer
<1>. QED BY <1>1, InstructorGotoKeeps DEF InstructorInv, TypeOK

LEMMA InstructorFollowKeeps ==
  ASSUME InstructorInv, InstructorFollow
  PROVE  InstructorInv' /\ drafts' = drafts
<1>1. PICK p \in links :
        InstructorGoto(session, p) /\ UNCHANGED <<drafts, confirmed, submitted>>
  BY DEF InstructorFollow
<1>2. InstructorReady(session, p)
  BY DEF InstructorInv, TypeOK, InstructorReady, Ready
<1>. QED BY <1>1, <1>2, InstructorGotoKeeps DEF InstructorInv, TypeOK

LEMMA InstructorStartAgainKeeps ==
  ASSUME InstructorInv, InstructorStartAgain
  PROVE  InstructorInv' /\ drafts' = drafts
<1>1. InstructorReady(ResetSession(session), "choose-support")
  BY ResetReady, ResetWay DEF InstructorInv, TypeOK, InstructorReady
<1>2. /\ InstructorGoto(ResetSession(session), "choose-support") /\ submitted' = None
      /\ drafts' = drafts /\ confirmed' = confirmed
  BY DEF InstructorStartAgain
<1>. QED BY <1>1, <1>2, InstructorGotoKeeps DEF InstructorInv, TypeOK

-----------------------------------------------------------------------------
(* What an answer leaves behind is on the way. *)

(* On the pages of the support, and on those of the standard test. *)
LEMMA SupportStep ==
  ASSUME NEW s, NEW p \in SupportPages \cup {"change-voiceover"}, InstructorSeen(s, p),
         IsNonStandard(s), NEW r \in SessionData,
         r.target = s.target, r.candidate = s.candidate, r.support, ~r.standard,
         r.answers.type = s.answers.type, r.answers.language = s.answers.language,
         NEW q \in SupportPages \cup {"change-voiceover", "email-contact"},
         q \in NamedPages \cup {"change-voiceover"} => Astray(r) \/ Selected(r)
  PROVE  WayKept(r) /\ WayAsked(r, q)
<1>1. /\ s.candidate /\ s.answers.type # None /\ s.answers.language
      /\ s.target # "ni"
  BY WhatIsSeen DEF Permitted, EitherPages, LaterPages, IsNonStandard
<1>2. WayKept(r) BY <1>1 DEF WayKept, IsSupportedStandard
<1>3. WayAsked(r, q)
  BY <1>1
  DEF WayAsked, Permitted, StartPages, StandardPages, SupportPages, CommonPages, EitherPages,
      NamedPages, LaterPages, AnswerPages, IsNonStandard, IsSupportedStandard
<1>. QED BY <1>2, <1>3

LEMMA StandardStep ==
  ASSUME NEW s, NEW p \in StandardPages, InstructorSeen(s, p), NEW r \in SessionData,
         r.target = s.target, r.candidate = s.candidate, r.support = s.support, r.standard,
         r.received = s.received, r.confirming = s.confirming,
         r.answers.type = s.answers.type, r.answers.language = s.answers.language,
         r.answers.selected = s.answers.selected,
         NEW q \in StandardPages \cup {"slot-unavailable"}
  PROVE  WayKept(r) /\ WayAsked(r, q)
<1>1. /\ s.candidate /\ s.standard /\ s.answers.type # None /\ s.answers.language
  BY WhatIsSeen DEF Permitted, LaterPages
<1>2. WayKept(r)
  BY <1>1
  DEF InstructorSeen, InstructorReady, WayKept, IsSupportedStandard, Astray, Selected
<1>3. WayAsked(r, q) BY <1>1, StandardWay
<1>. QED BY <1>2, <1>3

(* An answer in support may lead to the pages of the detail selected. *)
LEMMA NextIsSupport ==
  ASSUME NEW s, NEW p, NEW routes \in SUBSET DynamicPages
  PROVE  NextPage(s, p, routes) \in SupportPages \cup {"change-voiceover"}
<1>1. NextPage(s, p, routes) \in routes \cup {"leaving-nsa", "staying-nsa"} BY NextIs
<1>. QED BY <1>1 DEF SupportPages, DynamicPages

-----------------------------------------------------------------------------
(* Every answer leads on along the way. *)

LEMMA InstructorSupportChosen ==
  ASSUME NEW s, InstructorSeen(s, "choose-support"), s.edit, NEW wanted \in BOOLEAN,
         NEW r, r = ResetBooking([s EXCEPT !.support = wanted, !.standard = ~wanted,
                                           !.edit = FALSE])
  PROVE  InstructorReady(r, IF wanted THEN "test-type" ELSE "email-contact")
<1>. DEFINE b == [s EXCEPT !.support = wanted, !.standard = ~wanted, !.edit = FALSE]
<1>1. Seen(s, "choose-support") BY SeenAsCandidate
<1>2. s \in SessionData /\ s.candidate /\ s.target # "ni"
  BY WhatIsSeen DEF InstructorSeen, InstructorReady, Ready, Kept, PlaceKept, WayShown
<1>3. b \in SessionData BY <1>2, Zenon DEF SessionData
<1>4. /\ b.target = s.target /\ b.candidate = s.candidate /\ b.support = wanted
      /\ b.standard = ~wanted /\ ~b.edit
  BY <1>2 DEF SessionData
<1>5. Ready(r, IF wanted THEN "test-type" ELSE "email-contact")
  <2>1. CASE wanted
    <3>1. r = ResetBooking([s EXCEPT !.support = TRUE, !.standard = FALSE, !.edit = FALSE])
      BY <2>1
    <3>. QED BY <1>1, <2>1, <3>1, SupportChosen
  <2>2. CASE ~wanted
    <3>1. r = ResetBooking([s EXCEPT !.support = FALSE, !.standard = TRUE, !.edit = FALSE])
      BY <2>2
    <3>. QED BY <1>1, <2>2, <3>1, SupportDeclined
  <2>. QED BY <2>1, <2>2
<1>6. r = ResetBooking(b) OBVIOUS
<1>. HIDE DEF b
<1>7. /\ r.target # "ni" /\ r.candidate /\ r.support = wanted /\ r.standard = ~wanted /\ ~r.edit
  <2>1. SameFlags(r, b) BY <1>3, <1>6, BookingResetSet, Zenon
  <2>. QED BY <1>2, <1>4, <2>1 DEF SameFlags
<1>8. WayKept(r) BY <1>7 DEF WayKept, IsSupportedStandard
<1>9. WayAsked(r, IF wanted THEN "test-type" ELSE "email-contact")
  BY <1>7
  DEF WayAsked, Permitted, StartPages, StandardPages, SupportPages, CommonPages, EitherPages,
      NamedPages, LaterPages, AnswerPages, IsSupportedStandard
<1>. QED BY <1>5, <1>8, <1>9 DEF InstructorReady

LEMMA InstructorStartChosen ==
  ASSUME NEW s, InstructorSeen(s, "choose-support"), ~s.edit,
         NEW q \in {"support-alert", "candidate-details"},
         NEW r, r = [s EXCEPT !.support = FALSE, !.standard = TRUE]
  PROVE  InstructorReady(r, q)
<1>1. s \in SessionData /\ ~s.candidate /\ s.target # "ni"
  BY WhatIsSeen DEF Permitted, StartPages, InstructorSeen, WayShown
<1>2. Ready(r, q) BY SeenAsCandidate, StartChosen
<1>3. r.target = s.target /\ r.candidate = s.candidate /\ ~r.support /\ ~r.edit
  BY <1>1 DEF SessionData
<1>4. WayKept(r) BY <1>1, <1>3 DEF WayKept, IsSupportedStandard
<1>5. WayAsked(r, q)
  BY <1>1, <1>3
  DEF WayAsked, Permitted, StartPages, StandardPages, SupportPages, CommonPages, EitherPages,
      NamedPages, LaterPages, AnswerPages
<1>. QED BY <1>2, <1>4, <1>5 DEF InstructorReady

LEMMA InstructorAlertAnswered ==
  ASSUME NEW s, InstructorSeen(s, "support-alert"),
         NEW r, r = [s EXCEPT !.support = TRUE, !.standard = FALSE, !.edit = FALSE]
  PROVE  InstructorReady(r, "candidate-details")
<1>1. Seen(s, "support-alert") BY SeenAsCandidate
<1>2. s \in SessionData /\ ~s.candidate /\ s.target # "ni"
  BY <1>1, WhatIsSeen DEF InstructorSeen, WayShown, Seen, Shown, PlaceShown
<1>3. Ready(r, "candidate-details") BY <1>1, AlertAnswered
<1>4. r.target = s.target /\ r.candidate = s.candidate /\ ~r.standard /\ ~r.edit
  BY <1>2 DEF SessionData
<1>5. WayKept(r) BY <1>2, <1>4 DEF WayKept, IsSupportedStandard
<1>6. WayAsked(r, "candidate-details")
  BY <1>2, <1>4
  DEF WayAsked, Permitted, StartPages, StandardPages, SupportPages, CommonPages, EitherPages,
      NamedPages, LaterPages, AnswerPages
<1>. QED BY <1>3, <1>5, <1>6 DEF InstructorReady

LEMMA InstructorNamed ==
  ASSUME NEW s, InstructorSeen(s, "candidate-details"), NEW needs \in BOOLEAN,
         NEW r, r = [s EXCEPT !.candidate = TRUE, !.needs = needs,
                              !.answers.bsl = FALSE, !.answers.voiceover = FALSE]
  PROVE  InstructorReady(r, IF s.support THEN "test-type" ELSE "email-contact")
<1>1. Seen(s, "candidate-details") BY SeenAsCandidate
<1>2. s \in SessionData /\ ~s.candidate /\ ~s.edit /\ WayKept(s) /\ (s.support \/ s.standard)
  BY <1>1, WhatIsSeen
  DEF InstructorSeen, InstructorReady, Seen, Shown, PlaceShown, Kept, PlaceKept
<1>3. Ready(r, IF s.support THEN "test-type" ELSE "email-contact") BY <1>1, CandidateNamed
<1>4. /\ r.target = s.target /\ r.candidate /\ r.support = s.support /\ r.standard = s.standard
      /\ ~r.edit /\ r.received = s.received /\ r.answers.type = s.answers.type
  BY <1>2 DEF SessionData, Answers
<1>5. WayKept(r)
  BY <1>2, <1>4 DEF WayKept, IsSupportedStandard
<1>6. WayAsked(r, IF s.support THEN "test-type" ELSE "email-contact")
  BY <1>2, <1>4
  DEF WayAsked, WayKept, Permitted, StartPages, StandardPages, SupportPages, CommonPages,
      EitherPages, NamedPages, LaterPages, AnswerPages, IsSupportedStandard
<1>. QED BY <1>3, <1>5, <1>6 DEF InstructorReady

LEMMA InstructorEmailAnswered ==
  ASSUME NEW s, InstructorSeen(s, "email-contact"),
         NEW q, q = IF s.edit THEN CheckPage(s)
                    ELSE IF IsStandard(s) THEN "test-type"
                    ELSE IF IsSupportedStandard(s) THEN "find-test-centre"
                    ELSE "telephone-contact"
  PROVE  InstructorReady(s, q)
<1>1. Ready(s, q) BY SeenAsCandidate, EmailAnswered
<1>2. /\ s \in SessionData /\ s.candidate /\ s.edited.slot = None
      /\ s.support \/ s.standard
      /\ s.support => s.answers.type # None /\ s.answers.language
      /\ InstructorReady(s, "email-contact") /\ WayKept(s)
  BY WhatIsSeen DEF Permitted, EitherPages, WayAsked, InstructorSeen, InstructorReady
<1>3. CASE s.edit
  <2>1. q = IF s.standard THEN "check-your-answers" ELSE "check-your-details"
    BY <1>3 DEF CheckPage
  <2>. QED BY <1>2, <1>3, <2>1, CheckPageReady DEF IsNonStandard
<1>4. CASE ~s.edit /\ IsStandard(s)
  <2>1. q = "test-type" /\ ~IsSupportedStandard(s) /\ ~s.support
    BY <1>4 DEF IsStandard, IsSupportedStandard
  <2>. QED BY <1>2, <1>4, <2>1, LinkBack
<1>5. CASE ~s.edit /\ ~IsStandard(s) /\ IsSupportedStandard(s)
  <2>1. q = "find-test-centre" /\ s.support /\ s.standard BY <1>5 DEF IsSupportedStandard
  <2>2. WayAsked(s, q) BY <1>2, <2>1, StandardWay DEF StandardPages
  <2>. QED BY <1>1, <1>2, <2>2 DEF InstructorReady
<1>6. CASE ~s.edit /\ ~IsStandard(s) /\ ~IsSupportedStandard(s)
  <2>1. q = "telephone-contact" /\ s.support
    BY <1>2, <1>6 DEF IsStandard
  <2>2. WayAsked(s, q)
    BY <1>2, <2>1
    DEF WayAsked, Permitted, StartPages, StandardPages, SupportPages, CommonPages,
        EitherPages, NamedPages, LaterPages, AnswerPages
  <2>. QED BY <1>1, <1>2, <2>2 DEF InstructorReady
<1>. QED BY <1>3, <1>4, <1>5, <1>6

LEMMA InstructorTypeAnswered ==
  ASSUME NEW s, InstructorSeen(s, "test-type"), NEW type \in Types,
         NEW r, r = ChooseType(s, type)
  PROVE  /\ InstructorReady(r, "test-language")
         /\ ~IsNonStandard(r) =>
              InstructorReady([r EXCEPT !.lastPage = "test-type"], "received-support-request")
<1>. DEFINE w == [r EXCEPT !.lastPage = "test-type"]
<1>1. /\ s \in SessionData /\ s.candidate /\ ~s.edit /\ ~IsSupportedStandard(s)
      /\ s.target = "ni" => ~s.support
  BY WhatIsSeen DEF Permitted, CommonPages, WayAsked
<1>2. Seen(s, "test-type") BY SeenAsCandidate
<1>3. Ready(r, "test-language") BY <1>2, TypeAnswered
<1>4. ~IsNonStandard(r) => Ready(w, "received-support-request")
  BY <1>2, TypeWarned
<1>5. /\ r \in SessionData /\ ~r.edit /\ ~r.received /\ r.candidate = s.candidate
      /\ r.support = s.support /\ r.standard = s.standard
  <2>1. s \in SessionData BY <1>1
  <2>. QED BY <2>1, TypeSet
<1>6. r.target = s.target BY <1>1 DEF ChooseType, SessionData
<1>7. /\ w.target = r.target /\ w.edit = r.edit /\ w.received = r.received
      /\ w.candidate = r.candidate /\ w.support = r.support /\ w.standard = r.standard
  BY <1>5 DEF SessionData
<1>. HIDE DEF w
<1>8. WayKept(r) /\ WayKept(w)
  BY <1>1, <1>5, <1>6, <1>7 DEF WayKept, IsSupportedStandard
<1>9. WayAsked(r, "test-language")
  BY <1>1, <1>5
  DEF WayAsked, Permitted, StartPages, StandardPages, SupportPages, CommonPages, EitherPages,
      NamedPages, LaterPages, AnswerPages, IsSupportedStandard
<1>10. ~IsNonStandard(r) => WayAsked(w, "received-support-request")
  BY <1>1, <1>5, <1>7, SessionFields
  DEF WayAsked, Permitted, StartPages, StandardPages, SupportPages, CommonPages, EitherPages,
      NamedPages, LaterPages, AnswerPages, IsSupportedStandard, IsNonStandard
<1>. QED BY <1>3, <1>4, <1>8, <1>9, <1>10 DEF InstructorReady, w

LEMMA InstructorLanguageAnswered ==
  ASSUME NEW s, InstructorSeen(s, "test-language"), CanChangeTestLanguage(s),
         NEW q, q = IF s.edit THEN CheckPage(s)
                    ELSE IF IsNonStandard(s) THEN "select-support-type"
                    ELSE "select-standard-support",
         NEW r, r = [s EXCEPT !.answers.language = TRUE]
  PROVE  InstructorReady(r, q)
<1>1. /\ s \in SessionData /\ s.candidate /\ s.edited.slot = None
      /\ s.support \/ s.standard
      /\ s.answers.type # None /\ WayKept(s) /\ (IsSupportedStandard(s) => s.edit)
      /\ s.target = "gb"
  BY WhatIsSeen
  DEF Permitted, CommonPages, WayAsked, InstructorSeen, InstructorReady, Ready, Asked,
      PlaceAsked, CanChangeTestLanguage
<1>2. Seen(s, "test-language")
  BY <1>1
  DEF InstructorSeen, InstructorReady, Ready, Seen, Shown, PlaceShown, SideShown, ToldShown,
      StandardPages, SupportPages
<1>3. Ready(r, q) BY <1>2, LanguageAnswered
<1>4. /\ SameFlags(r, s) /\ r.answers.type = s.answers.type /\ r.answers.language
      /\ r.answers.selected = s.answers.selected /\ r \in SessionData
  BY <1>1, LanguageSet DEF SamePlace, SameSupport
<1>. HIDE DEF CheckPage
<1>5. WayKept(r)
  BY <1>1, <1>4 DEF WayKept, IsSupportedStandard, Astray, Selected, SameFlags
<1>6. q \in {"check-your-answers", "check-your-details", "select-support-type",
             "select-standard-support"}
  BY DEF CheckPage
<1>7. /\ q = "check-your-answers" => s.standard
      /\ q \in {"check-your-details", "select-support-type"} => IsNonStandard(s)
      /\ q = "select-standard-support" => ~IsSupportedStandard(s)
  BY <1>1, SessionFields DEF CheckPage, IsNonStandard
<1>8. WayAsked(r, q)
  BY <1>1, <1>4, <1>6, <1>7
  DEF WayAsked, Permitted, StartPages, StandardPages, SupportPages, CommonPages, EitherPages,
      NamedPages, LaterPages, AnswerPages, IsNonStandard, IsSupportedStandard, SameFlags
<1>. QED BY <1>3, <1>5, <1>8 DEF InstructorReady

LEMMA VoiceoverSet ==
  ASSUME NEW s \in SessionData, NEW wanted \in BOOLEAN,
         NEW r, r = [s EXCEPT !.shownVoiceover = TRUE, !.answers.voiceover = wanted]
  PROVE  /\ r \in SessionData /\ SameWay(r, s) /\ r.standard = s.standard
         /\ r.edited = s.edited /\ r.lastPage = s.lastPage
<1>1. s.answers \in Answers BY SessionFields
<1>2. PICK a \in Answers :
        /\ a = [s.answers EXCEPT !.voiceover = wanted]
        /\ SameOtherwise(a, s.answers)
  BY <1>1, OptionSet
<1>3. r = [s EXCEPT !.shownVoiceover = TRUE, !.answers = a]
  BY <1>2, Zenon DEF SessionData
<1>4. LET x == [s EXCEPT !.shownVoiceover = TRUE, !.answers = a]
      IN  /\ x \in SessionData /\ x.answers = a
          /\ x.target = s.target /\ x.candidate = s.candidate /\ x.support = s.support
          /\ x.edit = s.edit /\ x.received = s.received /\ x.confirming = s.confirming
          /\ x.standard = s.standard /\ x.edited = s.edited /\ x.lastPage = s.lastPage
  BY Zenon DEF SessionData
<1>5. /\ r \in SessionData /\ r.answers = a
      /\ r.target = s.target /\ r.candidate = s.candidate /\ r.support = s.support
      /\ r.edit = s.edit /\ r.received = s.received /\ r.confirming = s.confirming
      /\ r.standard = s.standard /\ r.edited = s.edited /\ r.lastPage = s.lastPage
  BY <1>3, <1>4, Zenon
<1>6. /\ a.type = s.answers.type /\ a.language = s.answers.language
      /\ a.selected = s.answers.selected
  BY <1>2 DEF SameOtherwise
<1>7. SameWay(r, s) BY <1>5, <1>6, Zenon DEF SameWay
<1>. QED BY <1>5, <1>7

LEMMA InstructorVoiceoverEdited ==
  ASSUME NEW s, InstructorSeen(s, "change-voiceover"), NEW wanted \in BOOLEAN, s.edit,
         NEW r, r = [s EXCEPT !.shownVoiceover = TRUE, !.answers.voiceover = wanted],
         NEW q, q = IF IsNonStandard(r) THEN "check-your-details" ELSE "check-your-answers"
  PROVE  InstructorReady(r, q)
<1>1. /\ s \in SessionData /\ s.candidate /\ (s.support \/ s.standard)
      /\ s.answers.type # None /\ s.answers.language /\ WayKept(s)
  BY WhatIsSeen DEF Permitted, EitherPages, InstructorSeen, InstructorReady
<1>2. /\ r \in SessionData /\ SameWay(r, s) /\ r.standard = s.standard
  BY <1>1, VoiceoverSet
<1>3. IsNonStandard(r) <=> IsNonStandard(s) BY <1>2 DEF SameWay, IsNonStandard
<1>4. Ready(r, q)
  <2>1. Seen(s, "change-voiceover") BY SeenAsCandidate
  <2>2. q = IF IsNonStandard(s) THEN "check-your-details" ELSE "check-your-answers"
    BY <1>3
  <2>. QED BY <2>1, <2>2, VoiceoverEdited
<1>5. WayKept(r) BY <1>1, <1>2, SameWayGoesOn
<1>6. WayAsked(r, q)
  <2>1. CASE IsNonStandard(r)
    <3>1. q = "check-your-details" BY <2>1
    <3>. QED
      BY <1>1, <1>2, <2>1, <3>1
      DEF SameWay, WayAsked, Permitted, StartPages, StandardPages, SupportPages, CommonPages,
          EitherPages, NamedPages, LaterPages, AnswerPages, IsNonStandard
  <2>2. CASE ~IsNonStandard(r)
    <3>1. q = "check-your-answers" /\ r.standard
      BY <1>1, <1>2, <2>2 DEF IsNonStandard, SameWay
    <3>. QED BY <1>1, <1>2, <3>1, StandardWay DEF SameWay, StandardPages
  <2>. QED BY <2>1, <2>2
<1>. QED BY <1>4, <1>5, <1>6 DEF InstructorReady

LEMMA InstructorVoiceoverAnswered ==
  ASSUME NEW s, InstructorSeen(s, "change-voiceover"), NEW wanted \in BOOLEAN,
         ~s.edit, ~IsNonStandard(s),
         NEW r, r = [s EXCEPT !.shownVoiceover = TRUE, !.answers.voiceover = wanted]
  PROVE  InstructorReady(r, "find-test-centre")
<1>. DEFINE x == [s EXCEPT !.shownVoiceover = TRUE, !.answers.voiceover = wanted,
                           !.lastPage = "other"]
<1>0. s \in SessionData /\ (s.support \/ s.standard) BY WhatIsSeen
<1>1. /\ s.candidate /\ s.answers.type # None /\ s.answers.language /\ WayKept(s)
      /\ s.standard
  <2>1. /\ s.candidate /\ s.answers.type # None /\ s.answers.language /\ WayKept(s)
    BY WhatIsSeen DEF Permitted, EitherPages, LaterPages, InstructorSeen, InstructorReady
  <2>2. s.standard BY <1>0, SessionFields DEF IsNonStandard
  <2>. QED BY <2>1, <2>2
<1>2. r \in SessionData /\ SameWay(r, s) /\ r.standard = s.standard
  BY <1>0, VoiceoverSet
<1>3. Ready(x, "find-test-centre") BY SeenAsCandidate, VoiceoverAnswered
<1>4. x = [r EXCEPT !.lastPage = "other"] BY <1>0 DEF SessionData
<1>5. Ready(r, "find-test-centre")
  <2>. HIDE DEF x
  <2>1. /\ x.target = r.target /\ x.candidate = r.candidate /\ x.needs = r.needs
        /\ x.support = r.support /\ x.standard = r.standard /\ x.edit = r.edit
        /\ x.confirming = r.confirming /\ x.received = r.received
        /\ x.shownVoiceover = r.shownVoiceover /\ x.edited = r.edited
        /\ x.answers = r.answers
    BY <1>2, <1>4, Zenon DEF SessionData
  <2>. QED
    BY <1>2, <1>3, <2>1
    DEF Ready, Kept, Asked, PlaceKept, PlaceAsked, SideKept, SideAsked, ToldKept, ToldAsked,
        Selected, Settled, Voiced, Translated, Standardable, OnlyOther, Told, IsNonStandard,
        IsSupportedStandard, OwnPages
<1>6. WayKept(r) BY <1>1, <1>2, SameWayGoesOn
<1>7. WayAsked(r, "find-test-centre") BY <1>1, <1>2, StandardWay DEF SameWay, StandardPages
<1>. QED BY <1>5, <1>6, <1>7 DEF InstructorReady

LEMMA InstructorVoiceoverNext ==
  ASSUME NEW s, InstructorSeen(s, "change-voiceover"), NEW wanted \in BOOLEAN,
         ~s.edit, IsNonStandard(s), NEW routes \in Routes(s),
         NEW r, r = [s EXCEPT !.shownVoiceover = TRUE, !.answers.voiceover = wanted]
  PROVE  /\ r.received => InstructorReady(r, "not-found")
         /\ ~r.received => InstructorReady(r, NextPage(r, "change-voiceover", routes))
<1>. DEFINE next == NextPage(r, "change-voiceover", routes)
<1>1. /\ s \in SessionData /\ s.edited.slot = None /\ WayKept(s)
      /\ Astray(s) \/ Selected(s)
  BY WhatIsSeen DEF WayAsked, InstructorSeen, InstructorReady
<1>2. /\ r \in SessionData /\ SameWay(r, s) /\ r.standard = s.standard
      /\ r.edited = s.edited
  BY <1>1, VoiceoverSet
<1>3. Ready(r, next) BY SeenAsCandidate, VoiceoverNext
<1>4. next \in SupportPages \cup {"change-voiceover"} BY RoutesAreOwn, NextIsSupport
<1>. HIDE DEF next
<1>5. WayKept(r) BY <1>1, <1>2, SameWayGoesOn
<1>6. ASSUME r.received PROVE InstructorReady(r, "not-found")
  <2>1. r.edited.slot = None BY <1>1, <1>2
  <2>2. Ready(r, "not-found") BY <1>3, <2>1, LastPageReady DEF LastPages
  <2>3. WayAsked(r, "not-found") BY <1>6, LastWay DEF LastPages, Astray
  <2>. QED BY <1>5, <2>2, <2>3 DEF InstructorReady
<1>7. ASSUME ~r.received PROVE InstructorReady(r, next)
  <2>1. Astray(r) \/ Selected(r) BY <1>1, <1>2 DEF SameWay, Astray, Selected
  <2>2. WayAsked(r, next)
    BY <1>2, <1>4, <2>1, SupportStep DEF SameWay, IsNonStandard
  <2>. QED BY <1>3, <1>5, <2>2 DEF InstructorReady
<1>. QED BY <1>6, <1>7 DEF next

LEMMA InstructorSupportSelected ==
  ASSUME NEW s, InstructorSeen(s, "select-support-type"), NEW selected \in SUBSET SupportTypes,
         NEW r, r = SelectSupport(s, selected),
         NEW q, q = NextPage(r, "select-support-type", OwnPages(r))
  PROVE  InstructorReady(r, q)
<1>1. s \in SessionData /\ IsNonStandard(s)
  BY WhatIsSeen DEF SupportPages
<1>2. Ready(r, q) BY SeenAsCandidate, SupportNext
<1>3. /\ r \in SessionData /\ r.candidate = s.candidate /\ r.support /\ ~r.standard
      /\ r.answers.type = s.answers.type /\ r.answers.selected = selected
  BY <1>1, SelectedSet DEF IsNonStandard
<1>4. r.target = s.target /\ r.answers.language = s.answers.language
  BY <1>1, Zenon DEF SelectSupport, SessionData, Answers
<1>5. q \in SupportPages \cup {"change-voiceover"}
  BY NextIsSupport DEF OwnPages
<1>6. Selected(r) BY <1>3, NoneIsFresh DEF Selected
<1>7. WayKept(r) /\ WayAsked(r, q)
  BY <1>1, <1>3, <1>4, <1>5, <1>6, SupportStep DEF SupportPages
<1>. QED BY <1>2, <1>7 DEF InstructorReady

(* An answer that changes nothing, on a page of the support. *)
LEMMA SupportGoesOn ==
  ASSUME NEW s, NEW p \in SupportPages, InstructorSeen(s, p),
         NEW q \in SupportPages \cup {"change-voiceover", "email-contact"}, Ready(s, q),
         q \in NamedPages \cup {"change-voiceover"} => Astray(s) \/ Selected(s)
  PROVE  InstructorReady(s, q)
<1>1. s \in SessionData /\ IsNonStandard(s) BY WhatIsSeen
<1>2. WayKept(s) /\ WayAsked(s, q)
  BY <1>1, SupportStep DEF IsNonStandard
<1>. QED BY <1>2 DEF InstructorReady

LEMMA EditSet ==
  ASSUME NEW s \in SessionData, NEW r, r = [s EXCEPT !.edit = FALSE]
  PROVE  /\ r \in SessionData /\ ~r.edit /\ r.answers = s.answers /\ r.edited = s.edited
         /\ r.target = s.target /\ r.candidate = s.candidate /\ r.support = s.support
         /\ r.standard = s.standard /\ r.received = s.received
         /\ r.confirming = s.confirming /\ r.lastPage = s.lastPage
BY Zenon DEF SessionData

LEMMA InstructorCustomSupportAnswered ==
  ASSUME NEW s, InstructorSeen(s, "custom-support")
  PROVE  /\ s.answers.selected \cap NonStandardSupport = {} =>
              InstructorReady([s EXCEPT !.edit = FALSE], SkipCustomSupport(s.answers.selected))
         /\ s.edit => InstructorReady(s, "check-your-details")
         /\ ~s.edit => InstructorReady(s, NextPage(s, "custom-support", OwnPages(s)))
<1>. DEFINE q == SkipCustomSupport(s.answers.selected)
            r == [s EXCEPT !.edit = FALSE]
            next == NextPage(s, "custom-support", OwnPages(s))
<1>1. Seen(s, "custom-support") BY SeenAsCandidate
<1>2. s \in SessionData /\ IsNonStandard(s) /\ (Astray(s) \/ Selected(s))
  BY WhatIsSeen DEF SupportPages, WayAsked, NamedPages
<1>3. ASSUME s.answers.selected \cap NonStandardSupport = {} PROVE InstructorReady(r, q)
  <2>1. Ready(r, q) BY <1>1, <1>3, CustomSupportSkipped
  <2>2. q \in {"confirm-support", "leaving-nsa", "staying-nsa"} BY DEF SkipCustomSupport
  <2>3. /\ r \in SessionData /\ r.answers = s.answers /\ r.target = s.target
        /\ r.candidate = s.candidate /\ r.support = s.support /\ r.standard = s.standard
        /\ r.received = s.received /\ r.confirming = s.confirming
    BY <1>2, EditSet, Zenon
  <2>. HIDE DEF q, r
  <2>4. r.support /\ ~r.standard /\ (Astray(r) \/ Selected(r))
    BY <1>2, <2>3 DEF IsNonStandard, Astray, Selected
  <2>5. WayKept(r) /\ WayAsked(r, q)
    BY <1>2, <2>2, <2>3, <2>4, SupportStep DEF SupportPages
  <2>. QED BY <2>1, <2>5 DEF InstructorReady
<1>4. ASSUME s.edit PROVE InstructorReady(s, "check-your-details")
  <2>1. Ready(s, "check-your-details") BY <1>1, <1>4, CustomSupportEdited
  <2>. QED BY <2>1, SupportGoesOn DEF SupportPages, NamedPages
<1>5. ASSUME ~s.edit PROVE InstructorReady(s, next)
  <2>1. Ready(s, next) BY <1>1, <1>5, CustomSupportNext
  <2>2. next \in SupportPages \cup {"change-voiceover"} BY NextIsSupport DEF OwnPages
  <2>. HIDE DEF next
  <2>. QED BY <1>2, <2>1, <2>2, SupportGoesOn DEF SupportPages
<1>. QED BY <1>3, <1>4, <1>5

LEMMA InstructorTranslatorAnswered ==
  ASSUME NEW s, InstructorSeen(s, "translator"), NEW routes \in Routes(s),
         NEW r, r = [s EXCEPT !.answers.translator = TRUE]
  PROVE  /\ s.edit => InstructorReady(r, "check-your-details")
         /\ ~s.edit => InstructorReady(r, NextPage(s, "translator", routes))
<1>. DEFINE next == NextPage(s, "translator", routes)
<1>1. Seen(s, "translator") BY SeenAsCandidate
<1>2. s \in SessionData /\ IsNonStandard(s) /\ (Astray(s) \/ Selected(s))
  BY WhatIsSeen DEF SupportPages, WayAsked, NamedPages
<1>3. /\ r \in SessionData /\ SameFlags(r, s) /\ r.answers.type = s.answers.type
      /\ r.answers.language = s.answers.language
      /\ r.answers.selected = s.answers.selected
  <2>1. /\ r \in SessionData /\ SameFlags(r, s) /\ SamePlace(r, s)
        /\ r.answers.language = s.answers.language
        /\ r.answers.selected = s.answers.selected
    BY <1>2, TranslatorSet
  <2>. QED BY <2>1 DEF SamePlace
<1>4. r.confirming = s.confirming BY <1>2, Zenon DEF SessionData
<1>5. \A q \in SupportPages \cup {"change-voiceover"} : WayKept(r) /\ WayAsked(r, q)
  <2>1. r.support /\ ~r.standard /\ (Astray(r) \/ Selected(r))
    BY <1>2, <1>3, <1>4 DEF SameFlags, IsNonStandard, Astray, Selected
  <2>2. r.target = s.target /\ r.candidate = s.candidate BY <1>3 DEF SameFlags
  <2>. QED BY <1>2, <1>3, <2>1, <2>2, SupportStep DEF SupportPages
<1>6. ASSUME s.edit PROVE InstructorReady(r, "check-your-details")
  <2>1. Ready(r, "check-your-details") BY <1>1, <1>6, TranslatorEdited
  <2>. QED BY <1>5, <2>1 DEF InstructorReady, SupportPages
<1>7. ASSUME ~s.edit PROVE InstructorReady(r, next)
  <2>1. next = NextPage(r, "translator", routes) BY <1>3 DEF NextPage
  <2>2. Ready(r, next) BY <1>1, <1>7, <2>1, TranslatorNext
  <2>3. next \in SupportPages \cup {"change-voiceover"} BY RoutesAreOwn, NextIsSupport
  <2>. HIDE DEF next
  <2>. QED BY <1>5, <2>2, <2>3 DEF InstructorReady
<1>. QED BY <1>6, <1>7

LEMMA InstructorSupportConfirmed ==
  ASSUME NEW s, InstructorSeen(s, "confirm-support")
  PROVE  /\ InstructorReady([s EXCEPT !.confirming = TRUE, !.answers.selected = None],
                            "select-support-type")
         /\ \A q \in {"leaving-nsa", "staying-nsa"} :
              InstructorReady([s EXCEPT !.confirming = TRUE], q)
<1>. DEFINE r == [s EXCEPT !.confirming = TRUE]
            d == [s EXCEPT !.confirming = TRUE, !.answers.selected = None]
<1>1. Seen(s, "confirm-support") BY SeenAsCandidate
<1>2. s \in SessionData /\ IsNonStandard(s) BY WhatIsSeen DEF SupportPages
<1>3. Ready(d, "select-support-type") BY <1>1, SupportDenied
<1>4. \A q \in {"leaving-nsa", "staying-nsa"} : Ready(r, q) BY <1>1, SupportConfirmed
<1>5. /\ d \in SessionData /\ d.confirming /\ d.candidate = s.candidate
      /\ d.support = s.support /\ d.standard = s.standard /\ d.answers.type = s.answers.type
  BY <1>2, DeselectedSet
<1>6. d.target = s.target /\ d.answers.language = s.answers.language
  BY <1>2, Zenon DEF SessionData, Answers
<1>7. /\ r \in SessionData /\ r.confirming /\ r.candidate = s.candidate
      /\ r.support = s.support /\ r.standard = s.standard /\ r.answers = s.answers
      /\ r.target = s.target
  BY <1>2, Zenon DEF SessionData
<1>. HIDE DEF d, r
<1>8. WayKept(d) /\ WayAsked(d, "select-support-type")
  BY <1>2, <1>5, <1>6, SupportStep DEF SupportPages, IsNonStandard, Astray
<1>9. \A q \in {"leaving-nsa", "staying-nsa"} : WayKept(r) /\ WayAsked(r, q)
  BY <1>2, <1>7, SupportStep DEF SupportPages, IsNonStandard, Astray
<1>. QED BY <1>3, <1>4, <1>8, <1>9 DEF InstructorReady, d, r

LEMMA InstructorLeavingAnswered ==
  ASSUME NEW s, InstructorSeen(s, "leaving-nsa")
  PROVE  /\ \A q \in {"received-support-request", "email-contact"} :
              InstructorReady([s EXCEPT !.standard = TRUE, !.lastPage = "leaving-nsa"], q)
         /\ \A q \in {"duplicate-support-request", "staying-nsa"} :
              InstructorReady([s EXCEPT !.standard = FALSE, !.lastPage = "leaving-nsa"], q)
<1>. DEFINE Left(standard) == [s EXCEPT !.standard = standard, !.lastPage = "leaving-nsa"]
<1>1. Seen(s, "leaving-nsa") BY SeenAsCandidate
<1>2. /\ s \in SessionData /\ IsNonStandard(s) /\ s.candidate /\ s.target # "ni"
      /\ s.answers.type # None /\ s.answers.language /\ (Astray(s) \/ Selected(s))
  BY WhatIsSeen DEF SupportPages, LaterPages, NamedPages, WayAsked, Permitted, IsNonStandard
<1>3. \A q \in {"received-support-request", "email-contact"} : Ready(Left(TRUE), q)
  BY <1>1, SupportLeft
<1>4. \A q \in {"duplicate-support-request", "staying-nsa"} : Ready(Left(FALSE), q)
  BY <1>1, SupportStayed
<1>5. \A x \in BOOLEAN :
        /\ Left(x) \in SessionData /\ Left(x).standard = x /\ Left(x).target = s.target
        /\ Left(x).candidate = s.candidate /\ Left(x).support = s.support
        /\ Left(x).lastPage = "leaving-nsa" /\ Left(x).answers = s.answers
        /\ Left(x).received = s.received /\ Left(x).confirming = s.confirming
  BY <1>2, Zenon DEF SessionData
<1>. HIDE DEF Left
<1>6. WayKept(Left(TRUE))
  BY <1>2, <1>5 DEF WayKept, IsSupportedStandard, Astray, Selected
<1>7. \A q \in {"received-support-request", "email-contact"} : WayAsked(Left(TRUE), q)
  BY <1>2, <1>5
  DEF WayAsked, Permitted, StartPages, StandardPages, SupportPages, CommonPages, EitherPages,
      NamedPages, LaterPages, AnswerPages
<1>8. Astray(Left(FALSE)) \/ Selected(Left(FALSE)) BY <1>2, <1>5 DEF Astray, Selected
<1>9. \A q \in {"duplicate-support-request", "staying-nsa"} :
        WayKept(Left(FALSE)) /\ WayAsked(Left(FALSE), q)
  BY <1>2, <1>5, <1>8, SupportStep DEF SupportPages, IsNonStandard
<1>. QED BY <1>3, <1>4, <1>6, <1>7, <1>9 DEF InstructorReady, Left

LEMMA InstructorDetailAnswered ==
  ASSUME NEW s
  PROVE  /\ InstructorSeen(s, "preferred-day") =>
              InstructorReady(s, IF s.edit THEN "check-your-details" ELSE "preferred-location")
         /\ InstructorSeen(s, "preferred-location") =>
              InstructorReady(s, IF s.edit THEN "check-your-details" ELSE "email-contact")
         /\ InstructorSeen(s, "telephone-contact") => InstructorReady(s, "check-your-details")
         /\ InstructorSeen(s, "voicemail") => InstructorReady(s, "check-your-details")
<1>1. ASSUME InstructorSeen(s, "preferred-day")
      PROVE  InstructorReady(s, IF s.edit THEN "check-your-details" ELSE "preferred-location")
  <2>1. Ready(s, IF s.edit THEN "check-your-details" ELSE "preferred-location")
    BY <1>1, SeenAsCandidate, DayAnswered
  <2>. QED BY <1>1, <2>1, SupportGoesOn DEF SupportPages, NamedPages
<1>2. ASSUME InstructorSeen(s, "preferred-location")
      PROVE  InstructorReady(s, IF s.edit THEN "check-your-details" ELSE "email-contact")
  <2>1. Ready(s, IF s.edit THEN "check-your-details" ELSE "email-contact")
    BY <1>2, SeenAsCandidate, LocationAnswered
  <2>. QED BY <1>2, <2>1, SupportGoesOn DEF SupportPages, NamedPages
<1>3. ASSUME NEW p \in {"telephone-contact", "voicemail"}, InstructorSeen(s, p)
      PROVE  InstructorReady(s, "check-your-details")
  <2>1. Ready(s, "check-your-details")
    BY <1>3, SeenAsCandidate, TelephoneAnswered, VoicemailAnswered
  <2>. QED BY <1>3, <2>1, SupportGoesOn DEF SupportPages, NamedPages
<1>. QED BY <1>1, <1>2, <1>3

LEMMA InstructorTelephoneSkipped ==
  ASSUME NEW s, InstructorSeen(s, "telephone-contact"), NEW r, r = [s EXCEPT !.edit = FALSE]
  PROVE  InstructorReady(r, "voicemail")
<1>1. s \in SessionData /\ IsNonStandard(s) BY WhatIsSeen DEF SupportPages
<1>2. Ready(r, "voicemail") BY SeenAsCandidate, TelephoneSkipped
<1>3. /\ r \in SessionData /\ r.answers = s.answers /\ r.target = s.target
      /\ r.candidate = s.candidate /\ r.support = s.support /\ r.standard = s.standard
  BY <1>1, EditSet, Zenon
<1>4. WayKept(r) /\ WayAsked(r, "voicemail")
  BY <1>1, <1>3, SupportStep DEF SupportPages, NamedPages, IsNonStandard
<1>. QED BY <1>2, <1>4 DEF InstructorReady

(* The fields the way of a standard test depends on. *)
SameTest(r, s) ==
  /\ r.target = s.target /\ r.candidate = s.candidate /\ r.support = s.support
  /\ r.standard = s.standard /\ r.received = s.received /\ r.confirming = s.confirming
  /\ r.answers.type = s.answers.type /\ r.answers.language = s.answers.language
  /\ r.answers.selected = s.answers.selected

LEMMA StandardGoesOn ==
  ASSUME NEW s, NEW p \in StandardPages, InstructorSeen(s, p), NEW r \in SessionData,
         SameTest(r, s), NEW q \in StandardPages \cup {"slot-unavailable"}, Ready(r, q)
  PROVE  InstructorReady(r, q)
<1>1. s.standard BY WhatIsSeen DEF Permitted
<1>2. WayKept(r) /\ WayAsked(r, q) BY <1>1, StandardStep DEF SameTest
<1>. QED BY <1>2 DEF InstructorReady

LEMMA InstructorPlaceAnswered ==
  ASSUME NEW s
  PROVE  /\ InstructorSeen(s, "find-test-centre") => InstructorReady(s, "select-test-centre")
         /\ InstructorSeen(s, "select-date") => InstructorReady(s, "choose-appointment")
<1>1. ASSUME InstructorSeen(s, "find-test-centre")
      PROVE  InstructorReady(s, "select-test-centre")
  <2>1. s \in SessionData BY <1>1, WhatIsSeen
  <2>2. Ready(s, "select-test-centre") BY <1>1, SeenAsCandidate, CentreSought
  <2>. QED BY <1>1, <2>1, <2>2, StandardGoesOn DEF StandardPages, SameTest
<1>2. ASSUME InstructorSeen(s, "select-date") PROVE InstructorReady(s, "choose-appointment")
  <2>1. s \in SessionData BY <1>2, WhatIsSeen
  <2>2. Ready(s, "choose-appointment") BY <1>2, SeenAsCandidate, DateAnswered
  <2>. QED BY <1>2, <2>1, <2>2, StandardGoesOn DEF StandardPages, SameTest
<1>. QED BY <1>1, <1>2

LEMMA InstructorCentreAnswered ==
  ASSUME NEW s, InstructorSeen(s, "select-test-centre"), NEW c \in Centres,
         NEW r, r = IF s.edit THEN [s EXCEPT !.edited.centre = c]
                    ELSE [s EXCEPT !.answers.centre = c]
  PROVE  InstructorReady(r, "select-date")
<1>1. s \in SessionData BY WhatIsSeen
<1>2. Seen(s, "select-test-centre") BY SeenAsCandidate
<1>3. CASE s.edit
  <2>1. r = [s EXCEPT !.edited.centre = c] BY <1>3
  <2>2. Ready(r, "select-date") BY <1>2, <2>1, CentreEdited
  <2>3. r \in SessionData /\ SameFlags(r, s) /\ r.answers = s.answers
    BY <1>1, <2>1, EditedCentreSet
  <2>. QED
    BY <2>2, <2>3, StandardGoesOn DEF StandardPages, SameTest, SameFlags
<1>4. CASE ~s.edit
  <2>1. r = [s EXCEPT !.answers.centre = c] BY <1>4
  <2>2. Ready(r, "select-date") BY <1>2, <1>4, <2>1, CentreAnswered
  <2>3. /\ r \in SessionData /\ SameFlags(r, s) /\ SameSupport(r, s)
        /\ r.answers.type = s.answers.type /\ r.answers.language = s.answers.language
    BY <1>1, <2>1, CentreSet
  <2>. QED
    BY <2>2, <2>3, StandardGoesOn DEF StandardPages, SameTest, SameFlags, SameSupport
<1>. QED BY <1>3, <1>4

LEMMA InstructorAppointmentAnswered ==
  ASSUME NEW s, InstructorSeen(s, "choose-appointment"),
         NEW r, r = IF s.edit THEN [s EXCEPT !.edited.slot = OfferedSlot(s)]
                    ELSE [s EXCEPT !.answers.slot = OfferedSlot(s)]
  PROVE  InstructorReady(r, "check-your-answers")
<1>1. s \in SessionData BY WhatIsSeen
<1>2. Seen(s, "choose-appointment") BY SeenAsCandidate
<1>3. Ready(r, "check-your-answers")
  BY <1>2, AppointmentEdited, AppointmentAnswered
<1>4. r \in SessionData BY <1>3 DEF Ready
<1>5. SameTest(r, s)
  BY <1>1 DEF SessionData, Answers, SameTest
<1>. QED BY <1>3, <1>4, <1>5, StandardGoesOn DEF StandardPages

LEMMA InstructorChangeAsked ==
  ASSUME NEW s, InstructorSeen(s, "change-location-time"),
         NEW q \in {"choose-appointment", "select-date", "find-test-centre"},
         NEW r, r = [s EXCEPT !.edit = TRUE]
  PROVE  InstructorReady(r, q)
<1>1. s \in SessionData BY WhatIsSeen
<1>2. Ready(r, q) BY SeenAsCandidate, ChangeAsked
<1>3. r \in SessionData /\ SameTest(r, s)
  <2>1. /\ r \in SessionData /\ r.answers = s.answers /\ r.edited = s.edited
        /\ r.target = s.target /\ r.candidate = s.candidate /\ r.support = s.support
        /\ r.standard = s.standard /\ r.received = s.received
        /\ r.confirming = s.confirming
    BY <1>1, Zenon DEF SessionData
  <2>. QED BY <2>1 DEF SameTest
<1>. QED BY <1>2, <1>3, StandardGoesOn DEF StandardPages

LEMMA InstructorAnswersChecked ==
  ASSUME NEW s, InstructorSeen(s, "check-your-answers")
  PROVE  /\ InstructorReady([s EXCEPT !.edit = FALSE, !.lastPage = "check-your-answers"],
                            "booking-exists")
         /\ InstructorReady([s EXCEPT !.edit = FALSE], "payment")
         /\ InstructorSeen([s EXCEPT !.edit = FALSE], "slot-unavailable")
         /\ "create" \in person.faults => InstructorSeen([s EXCEPT !.edit = FALSE], "error")
<1>. DEFINE r == [s EXCEPT !.edit = FALSE]
            x == [s EXCEPT !.edit = FALSE, !.lastPage = "check-your-answers"]
<1>1. s \in SessionData /\ s.edited.slot = None BY WhatIsSeen
<1>2. Seen(s, "check-your-answers") BY SeenAsCandidate
<1>3. /\ Ready(x, "booking-exists") /\ Ready(r, "payment")
      /\ Ready(r, "slot-unavailable")
  BY <1>2, BookingExists, PaymentAsked, SlotTaken, Zenon
<1>4. r \in SessionData /\ SameTest(r, s) /\ r.edited = s.edited
  <2>1. /\ r \in SessionData /\ r.answers = s.answers /\ r.edited = s.edited
        /\ r.target = s.target /\ r.candidate = s.candidate /\ r.support = s.support
        /\ r.standard = s.standard /\ r.received = s.received
        /\ r.confirming = s.confirming
    BY <1>1, EditSet, Zenon
  <2>. HIDE DEF r
  <2>. QED BY <2>1 DEF SameTest
<1>5. x \in SessionData /\ SameTest(x, s)
  BY <1>1, Zenon DEF SessionData, SameTest
<1>. HIDE DEF r, x
<1>6. /\ InstructorReady(x, "booking-exists") /\ InstructorReady(r, "payment")
      /\ InstructorReady(r, "slot-unavailable")
  BY <1>3, <1>4, <1>5, StandardGoesOn DEF StandardPages
<1>7. InstructorSeen(r, "slot-unavailable") BY <1>6, SameShown
<1>8. ASSUME "create" \in person.faults PROVE InstructorSeen(r, "error")
  <2>1. Ready(r, "error") BY <1>1, <1>3, <1>4, LastPageReady DEF LastPages
  <2>2. WayAsked(r, "error") BY <1>8, LastWay DEF LastPages
  <2>3. InstructorReady(r, "error") BY <1>6, <2>1, <2>2 DEF InstructorReady
  <2>. QED BY <2>3, SameShown
<1>. QED BY <1>6, <1>7, <1>8 DEF r, x

-----------------------------------------------------------------------------
(* Every answer keeps the invariant, and leaves the requests alone. *)

LEMMA InstructorStartKeeps ==
  ASSUME InstructorInv,
         \/ InstructorChooseSupport
         \/ InstructorAnswerOneOf("support-alert", SupportAlertReplies)
         \/ InstructorCandidateDetails
         \/ InstructorAnswerOneOf("email-contact", EmailContactReplies)
  PROVE  InstructorInv' /\ drafts' = drafts
<1>0. InstructorSeen(session, page) BY InstructorPageIsSeen
<1>1. CASE InstructorChooseSupport
  <2>1. PICK wanted \in BOOLEAN :
          \/ session.edit /\
             InstructorAnswer("choose-support",
               ResetBooking([session EXCEPT !.support = wanted, !.standard = ~wanted,
                                            !.edit = FALSE]),
               IF wanted THEN "test-type" ELSE "email-contact")
          \/ ~session.edit /\
             InstructorAnswer("choose-support",
               [session EXCEPT !.support = FALSE, !.standard = TRUE],
               IF wanted THEN "support-alert" ELSE "candidate-details")
    BY <1>1 DEF InstructorChooseSupport
  <2>2. InstructorSeen(session, "choose-support") BY <1>0, <2>1 DEF InstructorAnswer
  <2>3. session.edit =>
          InstructorReady(ResetBooking([session EXCEPT !.support = wanted, !.standard = ~wanted,
                                                       !.edit = FALSE]),
                          IF wanted THEN "test-type" ELSE "email-contact")
    BY <2>2, InstructorSupportChosen
  <2>4. ~session.edit =>
          InstructorReady([session EXCEPT !.support = FALSE, !.standard = TRUE],
                          IF wanted THEN "support-alert" ELSE "candidate-details")
    BY <2>2, InstructorStartChosen
  <2>. QED BY <2>1, <2>3, <2>4, InstructorAnswerKeeps
<1>2. CASE InstructorAnswerOneOf("support-alert", SupportAlertReplies)
  <2>. DEFINE r == [session EXCEPT !.support = TRUE, !.standard = FALSE, !.edit = FALSE]
  <2>1. page = "support-alert" /\ InstructorAnswer("support-alert", r, "candidate-details")
    BY <1>2 DEF InstructorAnswerOneOf, SupportAlertReplies
  <2>2. InstructorReady(r, "candidate-details") BY <1>0, <2>1, InstructorAlertAnswered
  <2>. QED BY <2>1, <2>2, InstructorAnswerKeeps
<1>3. CASE InstructorCandidateDetails
  <2>1. PICK needs \in BOOLEAN :
          InstructorAnswer("candidate-details",
            [session EXCEPT !.candidate = TRUE, !.needs = needs,
                            !.answers.bsl = FALSE, !.answers.voiceover = FALSE],
            IF session.support THEN "test-type" ELSE "email-contact")
    BY <1>3 DEF InstructorCandidateDetails
  <2>2. InstructorSeen(session, "candidate-details") BY <1>0, <2>1 DEF InstructorAnswer
  <2>3. InstructorReady([session EXCEPT !.candidate = TRUE, !.needs = needs,
                                        !.answers.bsl = FALSE, !.answers.voiceover = FALSE],
                        IF session.support THEN "test-type" ELSE "email-contact")
    BY <2>2, InstructorNamed
  <2>. QED BY <2>1, <2>3, InstructorAnswerKeeps
<1>4. CASE InstructorAnswerOneOf("email-contact", EmailContactReplies)
  <2>. DEFINE q == IF session.edit THEN CheckPage(session)
                   ELSE IF IsStandard(session) THEN "test-type"
                   ELSE IF IsSupportedStandard(session) THEN "find-test-centre"
                   ELSE "telephone-contact"
  <2>1. page = "email-contact" /\ InstructorAnswer("email-contact", session, q)
    BY <1>4 DEF InstructorAnswerOneOf, EmailContactReplies
  <2>2. InstructorReady(session, q) BY <1>0, <2>1, InstructorEmailAnswered
  <2>. HIDE DEF q
  <2>. QED BY <2>1, <2>2, InstructorAnswerKeeps
<1>. QED BY <1>1, <1>2, <1>3, <1>4

LEMMA InstructorTestKeeps ==
  ASSUME InstructorInv,
         \/ InstructorAnswerOneOf("test-type", TestTypeReplies)
         \/ InstructorAnswerOneOf("test-language", TestLanguageReplies)
  PROVE  InstructorInv' /\ drafts' = drafts
<1>0. InstructorSeen(session, page) BY InstructorPageIsSeen
<1>1. CASE InstructorAnswerOneOf("test-type", TestTypeReplies)
  <2>1. PICK type \in person.types :
          \/ /\ ~IsNonStandard(ChooseType(session, type))
             /\ InstructorAnswer("test-type",
                                 [ChooseType(session, type) EXCEPT !.lastPage = "test-type"],
                                 "received-support-request")
          \/ InstructorAnswer("test-type", ChooseType(session, type), "test-language")
    BY <1>1 DEF InstructorAnswerOneOf, TestTypeReplies
  <2>2. type \in Types BY DEF InstructorInv, TypeOK, Types
  <2>3. InstructorSeen(session, "test-type") BY <1>0, <2>1 DEF InstructorAnswer
  <2>4. /\ InstructorReady(ChooseType(session, type), "test-language")
        /\ ~IsNonStandard(ChooseType(session, type)) =>
             InstructorReady([ChooseType(session, type) EXCEPT !.lastPage = "test-type"],
                             "received-support-request")
    BY <2>2, <2>3, InstructorTypeAnswered
  <2>. QED BY <2>1, <2>4, InstructorAnswerKeeps
<1>2. CASE InstructorAnswerOneOf("test-language", TestLanguageReplies)
  <2>. DEFINE r == [session EXCEPT !.answers.language = TRUE]
              q == IF session.edit THEN CheckPage(session)
                   ELSE IF IsNonStandard(session) THEN "select-support-type"
                   ELSE "select-standard-support"
  <2>0. page = "test-language" BY <1>2 DEF InstructorAnswerOneOf
  <2>1. CASE CanChangeTestLanguage(session)
    <3>1. InstructorReady(r, q) BY <1>0, <2>0, <2>1, InstructorLanguageAnswered, Zenon
    <3>2. TestLanguageReplies = {<<r, q>>} BY <2>1 DEF TestLanguageReplies
    <3>. HIDE DEF r, q
    <3>3. InstructorAnswer("test-language", r, q)
      BY <1>2, <3>2 DEF InstructorAnswerOneOf
    <3>. QED BY <3>1, <3>3, InstructorAnswerKeeps
  <2>2. CASE ~CanChangeTestLanguage(session)
    <3>1. InstructorAnswer("test-language", session, "error")
      BY <1>2, <2>2 DEF InstructorAnswerOneOf, TestLanguageReplies
    <3>2. session.received /\ session.edited.slot = None
      BY <1>0, <2>0, <2>2 DEF InstructorSeen, WayShown
    <3>3. Ready(session, "error")
      BY <1>0, <3>2, LastPageReady DEF InstructorSeen, InstructorReady, LastPages
    <3>4. WayAsked(session, "error") BY <3>2, LastWay DEF LastPages, Astray
    <3>5. InstructorReady(session, "error")
      BY <1>0, <3>3, <3>4 DEF InstructorSeen, InstructorReady
    <3>. QED BY <3>1, <3>5, InstructorAnswerKeeps
  <2>. QED BY <2>1, <2>2
<1>. QED BY <1>1, <1>2

LEMMA InstructorVoiceoverKeeps ==
  ASSUME InstructorInv, InstructorVoiceover
  PROVE  InstructorInv' /\ drafts' = drafts
<1>1. PICK routes \in Routes(session), wanted \in BOOLEAN :
        LET s == [session EXCEPT !.shownVoiceover = TRUE, !.answers.voiceover = wanted]
        IN  InstructorAnswer("change-voiceover", s,
              IF s.edit
              THEN IF IsNonStandard(s) THEN "check-your-details" ELSE "check-your-answers"
              ELSE IF ~IsNonStandard(s) THEN "find-test-centre"
              ELSE IF s.received THEN "not-found" ELSE NextPage(s, "change-voiceover", routes))
  BY Zenon DEF InstructorVoiceover
<1>. DEFINE s == [session EXCEPT !.shownVoiceover = TRUE, !.answers.voiceover = wanted]
            q == IF s.edit
                 THEN IF IsNonStandard(s) THEN "check-your-details" ELSE "check-your-answers"
                 ELSE IF ~IsNonStandard(s) THEN "find-test-centre"
                 ELSE IF s.received THEN "not-found"
                 ELSE NextPage(s, "change-voiceover", routes)
<1>2. InstructorAnswer("change-voiceover", s, q) BY <1>1
<1>3. InstructorSeen(session, "change-voiceover")
  BY <1>2, InstructorPageIsSeen DEF InstructorAnswer
<1>4. session \in SessionData BY <1>3, WhatIsSeen
<1>5. SameWay(s, session) /\ s.standard = session.standard BY <1>4, VoiceoverSet
<1>6. s.edit = session.edit /\ (IsNonStandard(s) <=> IsNonStandard(session))
  <2>. HIDE DEF s
  <2>. QED BY <1>5 DEF SameWay, IsNonStandard
<1>7. ASSUME session.edit
      PROVE  InstructorReady(s, IF IsNonStandard(s) THEN "check-your-details"
                                ELSE "check-your-answers")
  BY <1>3, <1>7, InstructorVoiceoverEdited, Zenon
<1>8. ASSUME ~session.edit, ~IsNonStandard(session)
      PROVE  InstructorReady(s, "find-test-centre")
  BY <1>3, <1>8, InstructorVoiceoverAnswered, Zenon
<1>9. ASSUME ~session.edit, IsNonStandard(session)
      PROVE  /\ s.received => InstructorReady(s, "not-found")
             /\ ~s.received => InstructorReady(s, NextPage(s, "change-voiceover", routes))
  BY <1>3, <1>9, InstructorVoiceoverNext, Zenon
<1>10. InstructorReady(s, q)
  <2>. HIDE DEF s
  <2>. QED BY <1>6, <1>7, <1>8, <1>9
<1>. HIDE DEF s, q
<1>. QED BY <1>2, <1>10, InstructorAnswerKeeps

LEMMA InstructorSupportKeeps ==
  ASSUME InstructorInv,
         \/ InstructorAnswerOneOf("select-support-type", SelectSupportTypeReplies)
         \/ InstructorCustomSupport \/ InstructorTranslator \/ InstructorConfirmSupport
         \/ InstructorAnswerOneOf("leaving-nsa", LeavingNsaReplies)
  PROVE  InstructorInv' /\ drafts' = drafts
<1>0. InstructorSeen(session, page) BY InstructorPageIsSeen
<1>1. CASE InstructorAnswerOneOf("select-support-type", SelectSupportTypeReplies)
  <2>1. PICK selected \in SUBSET person.support :
          LET s == SelectSupport(session, selected)
          IN  InstructorAnswer("select-support-type", s,
                               NextPage(s, "select-support-type", OwnPages(s)))
    BY <1>1 DEF InstructorAnswerOneOf, SelectSupportTypeReplies
  <2>2. selected \in SUBSET SupportTypes BY PeopleAssumption DEF InstructorInv, TypeOK
  <2>3. InstructorSeen(session, "select-support-type") BY <1>0, <2>1 DEF InstructorAnswer
  <2>4. LET s == SelectSupport(session, selected)
        IN  InstructorReady(s, NextPage(s, "select-support-type", OwnPages(s)))
    BY <2>2, <2>3, InstructorSupportSelected
  <2>. QED BY <2>1, <2>4, InstructorAnswerKeeps
<1>2. CASE InstructorCustomSupport
  <2>. DEFINE selected == session.answers.selected
  <2>1. /\ page = "custom-support"
        /\ \/ /\ selected \cap NonStandardSupport = {}
              /\ InstructorAnswer("custom-support", [session EXCEPT !.edit = FALSE],
                                  SkipCustomSupport(selected))
           \/ session.edit /\ InstructorAnswer("custom-support", session, "check-your-details")
           \/ /\ ~session.edit
              /\ InstructorAnswer("custom-support", session,
                                  NextPage(session, "custom-support", OwnPages(session)))
    BY <1>2 DEF InstructorCustomSupport
  <2>2. InstructorSeen(session, "custom-support") BY <1>0, <2>1
  <2>. QED BY <2>1, <2>2, InstructorCustomSupportAnswered, InstructorAnswerKeeps
<1>3. CASE InstructorConfirmSupport
  <2>1. InstructorSeen(session, "confirm-support")
    BY <1>0, <1>3 DEF InstructorConfirmSupport, InstructorAnswer
  <2>2. \/ InstructorAnswer("confirm-support",
                            [session EXCEPT !.confirming = TRUE, !.answers.selected = None],
                            "select-support-type")
        \/ \E q \in {"leaving-nsa", "staying-nsa"} :
             InstructorAnswer("confirm-support", [session EXCEPT !.confirming = TRUE], q)
    BY <1>3 DEF InstructorConfirmSupport
  <2>. QED BY <2>1, <2>2, InstructorSupportConfirmed, InstructorAnswerKeeps
<1>4. CASE InstructorAnswerOneOf("leaving-nsa", LeavingNsaReplies)
  <2>. DEFINE leaves == [session EXCEPT !.standard = TRUE, !.lastPage = "leaving-nsa"]
              stays == [session EXCEPT !.standard = FALSE, !.lastPage = "leaving-nsa"]
  <2>1. PICK r \in LeavingNsaReplies : InstructorAnswer("leaving-nsa", r[1], r[2])
    BY <1>4 DEF InstructorAnswerOneOf
  <2>2. InstructorSeen(session, "leaving-nsa") BY <1>0, <2>1 DEF InstructorAnswer
  <2>3. \/ \E q \in {"received-support-request", "email-contact"} : r = <<leaves, q>>
        \/ \E q \in {"duplicate-support-request", "staying-nsa"} : r = <<stays, q>>
    BY <2>1 DEF LeavingNsaReplies
  <2>4. /\ \A q \in {"received-support-request", "email-contact"} : InstructorReady(leaves, q)
        /\ \A q \in {"duplicate-support-request", "staying-nsa"} : InstructorReady(stays, q)
    BY <2>2, InstructorLeavingAnswered
  <2>. HIDE DEF leaves, stays
  <2>5. InstructorReady(r[1], r[2])
    <3>1. \A x, q : <<x, q>>[1] = x /\ <<x, q>>[2] = q OBVIOUS
    <3>. QED BY <2>3, <2>4, <3>1
  <2>. QED BY <2>1, <2>5, InstructorAnswerKeeps
<1>5. CASE InstructorTranslator
  <2>. DEFINE s == [session EXCEPT !.answers.translator = TRUE]
  <2>1. PICK routes \in Routes(session) :
          \/ session.edit /\ InstructorAnswer("translator", s, "check-your-details")
          \/ /\ ~session.edit
             /\ InstructorAnswer("translator", s, NextPage(session, "translator", routes))
    BY <1>5 DEF InstructorTranslator
  <2>2. InstructorSeen(session, "translator")
    BY <1>0, <2>1 DEF InstructorAnswer
  <2>3. /\ session.edit => InstructorReady(s, "check-your-details")
        /\ ~session.edit => InstructorReady(s, NextPage(session, "translator", routes))
    BY <2>2, InstructorTranslatorAnswered
  <2>. HIDE DEF s
  <2>. QED BY <2>1, <2>3, InstructorAnswerKeeps
<1>. QED BY <1>1, <1>2, <1>3, <1>4, <1>5

LEMMA InstructorDetailKeeps ==
  ASSUME InstructorInv,
         \/ InstructorPreferredDay \/ InstructorPreferredLocation
         \/ InstructorTelephoneContact \/ InstructorVoicemail
  PROVE  InstructorInv' /\ drafts' = drafts
<1>0. InstructorSeen(session, page) BY InstructorPageIsSeen
<1>1. CASE InstructorPreferredDay
  <2>1. InstructorSeen(session, "preferred-day")
    BY <1>0, <1>1 DEF InstructorPreferredDay, InstructorAnswer
  <2>. QED BY <1>1, <2>1, InstructorDetailAnswered, InstructorAnswerKeeps DEF InstructorPreferredDay
<1>2. CASE InstructorPreferredLocation
  <2>1. InstructorSeen(session, "preferred-location")
    BY <1>0, <1>2 DEF InstructorPreferredLocation, InstructorAnswer
  <2>. QED
    BY <1>2, <2>1, InstructorDetailAnswered, InstructorAnswerKeeps DEF InstructorPreferredLocation
<1>3. CASE InstructorTelephoneContact
  <2>1. InstructorSeen(session, "telephone-contact")
    BY <1>0, <1>3 DEF InstructorTelephoneContact, InstructorAnswer
  <2>. QED
    BY <1>3, <2>1, InstructorTelephoneSkipped, InstructorDetailAnswered, InstructorAnswerKeeps
    DEF InstructorTelephoneContact
<1>4. CASE InstructorVoicemail
  <2>1. InstructorSeen(session, "voicemail")
    BY <1>0, <1>4 DEF InstructorVoicemail, InstructorAnswer
  <2>. QED BY <1>4, <2>1, InstructorDetailAnswered, InstructorAnswerKeeps DEF InstructorVoicemail
<1>. QED BY <1>1, <1>2, <1>3, <1>4

LEMMA InstructorPlaceKeeps ==
  ASSUME InstructorInv,
         \/ InstructorFindTestCentre \/ InstructorSelectTestCentre \/ InstructorSelectDate
         \/ InstructorAnswerOneOf("choose-appointment", ChooseAppointmentReplies)
         \/ InstructorChangeLocationTime
  PROVE  InstructorInv' /\ drafts' = drafts
<1>0. InstructorSeen(session, page) BY InstructorPageIsSeen
<1>1. CASE InstructorFindTestCentre
  <2>1. InstructorSeen(session, "find-test-centre")
    BY <1>0, <1>1 DEF InstructorFindTestCentre, InstructorAnswer
  <2>. QED BY <1>1, <2>1, InstructorPlaceAnswered, InstructorAnswerKeeps DEF InstructorFindTestCentre
<1>2. CASE InstructorSelectTestCentre
  <2>1. PICK c \in Centres :
          InstructorAnswer("select-test-centre",
            IF session.edit THEN [session EXCEPT !.edited.centre = c]
            ELSE [session EXCEPT !.answers.centre = c],
            "select-date")
    BY <1>2 DEF InstructorSelectTestCentre
  <2>2. InstructorSeen(session, "select-test-centre") BY <1>0, <2>1 DEF InstructorAnswer
  <2>3. InstructorReady(IF session.edit THEN [session EXCEPT !.edited.centre = c]
                        ELSE [session EXCEPT !.answers.centre = c],
                        "select-date")
    BY <2>2, InstructorCentreAnswered, Zenon
  <2>. QED BY <2>1, <2>3, InstructorAnswerKeeps
<1>3. CASE InstructorSelectDate
  <2>1. InstructorSeen(session, "select-date")
    BY <1>0, <1>3 DEF InstructorSelectDate, InstructorAnswer
  <2>. QED BY <1>3, <2>1, InstructorPlaceAnswered, InstructorAnswerKeeps DEF InstructorSelectDate
<1>4. CASE InstructorAnswerOneOf("choose-appointment", ChooseAppointmentReplies)
  <2>. DEFINE r == IF session.edit THEN [session EXCEPT !.edited.slot = OfferedSlot(session)]
                   ELSE [session EXCEPT !.answers.slot = OfferedSlot(session)]
  <2>0. page = "choose-appointment" BY <1>4 DEF InstructorAnswerOneOf
  <2>1. InstructorReady(r, "check-your-answers")
    BY <1>0, <2>0, InstructorAppointmentAnswered, Zenon
  <2>2. ChooseAppointmentReplies = {<<r, "check-your-answers">>}
    BY DEF ChooseAppointmentReplies
  <2>. HIDE DEF r
  <2>3. InstructorAnswer("choose-appointment", r, "check-your-answers")
    BY <1>4, <2>2 DEF InstructorAnswerOneOf
  <2>. QED BY <2>1, <2>3, InstructorAnswerKeeps
<1>5. CASE InstructorChangeLocationTime
  <2>1. InstructorSeen(session, "change-location-time")
    BY <1>0, <1>5 DEF InstructorChangeLocationTime, InstructorAnswer
  <2>. QED
    BY <1>5, <2>1, InstructorChangeAsked, InstructorAnswerKeeps DEF InstructorChangeLocationTime
<1>. QED BY <1>1, <1>2, <1>3, <1>4, <1>5

LEMMA InstructorCheckYourAnswersKeeps ==
  ASSUME InstructorInv, InstructorCheckYourAnswers
  PROVE  InstructorInv' /\ drafts' = drafts
<1>. DEFINE r == [session EXCEPT !.edit = FALSE]
            x == [session EXCEPT !.edit = FALSE, !.lastPage = "check-your-answers"]
<1>1. InstructorSeen(session, "check-your-answers")
  BY InstructorPageIsSeen DEF InstructorCheckYourAnswers
<1>2. /\ InstructorReady(x, "booking-exists") /\ InstructorReady(r, "payment")
      /\ InstructorSeen(r, "slot-unavailable")
      /\ "create" \in person.faults => InstructorSeen(r, "error")
  BY <1>1, InstructorAnswersChecked
<1>3. /\ drafts' = drafts /\ confirmed' = confirmed
      /\ \/ InstructorGoto(x, "booking-exists") /\ submitted' = submitted
         \/ InstructorShowPage(r, "slot-unavailable") /\ submitted' = submitted
         \/ /\ "create" \in person.faults
            /\ InstructorShowPage(r, "error") /\ submitted' = submitted
         \/ InstructorGoto(r, "payment") /\ submitted' = session.answers
  <2>1. x = [r EXCEPT !.lastPage = "check-your-answers"]
    BY <1>1, WhatIsSeen DEF SessionData
  <2>. HIDE DEF x
  <2>. QED BY <2>1 DEF InstructorCheckYourAnswers
<1>4. /\ TypeOK /\ confirmed' \subseteq Types /\ submitted' \in Answers \cup {None}
      /\ drafts' \in [Types -> [Draft -> Nat]]
  BY <1>1, <1>3, WhatIsSeen, SessionFields DEF InstructorInv, TypeOK
<1>5. DraftsGrowWarned BY <1>3, <1>4, DraftsStay
<1>. HIDE DEF r, x
<1>6. \A q : InstructorShowPage(r, q) /\ InstructorSeen(r, q) => InstructorInv'
  BY <1>4, <1>5, InstructorShowPageKeeps DEF DraftsGrowWarned
<1>. QED BY <1>2, <1>3, <1>4, <1>6, InstructorGotoKeeps

-----------------------------------------------------------------------------
(* What goes to the CRM, and what the CRM does. *)

(* All but one of the pages show an instructor what they show a candidate. *)
LEMMA AsCandidate ==
  ASSUME InstructorInv, page # "test-language"
  PROVE  JourneyInv
BY DEF InstructorInv, JourneyInv, WayShown

(* A page that leads nowhere, of a journey that begins again. *)
LEMMA LastPageOnTheWay ==
  ASSUME NEW s \in SessionData, NEW q \in {"booking-confirmation", "start"}
  PROVE  InstructorSeen(ResetSession(s), q)
<1>1. Seen(ResetSession(s), q) BY LastPageSeen DEF LastPages
<1>2. WayKept(ResetSession(s)) BY ResetWay
<1>3. WayAsked(ResetSession(s), q) BY LastWay DEF LastPages
<1>. HIDE DEF InstructorReady
<1>4. InstructorReady(ResetSession(s), q)
  BY <1>1, <1>2, <1>3, SeenIsReady DEF InstructorReady
<1>. QED BY <1>1, <1>4 DEF InstructorSeen, WayShown, Seen

LEMMA InstructorPaymentKeeps ==
  ASSUME InstructorInv, NoDuplicateRequest, InstructorPayment
  PROVE  InstructorInv' /\ NoDuplicateRequest'
<1>. DEFINE r == ResetSession(session)
<1>1. Payment /\ page = "payment" BY DEF InstructorPayment, Payment
<1>2. JourneyInv BY <1>1, AsCandidate
<1>3. JourneyInv' /\ NoDuplicateRequest' BY <1>1, <1>2, PaymentKeeps, PaymentKeepsSingle
<1>4. session \in SessionData BY DEF InstructorInv, TypeOK
<1>5. PICK q \in {"booking-confirmation", "start"} : ShowPage(r, q)
  <2>. HIDE DEF r
  <2>1. ShowPage(ResetSession(session), "booking-confirmation")
          \/ ShowPage(ResetSession(session), "start")
    BY <1>1, Zenon DEF Payment
  <2>. QED BY <2>1 DEF r
<1>6. InstructorSeen(r, q) /\ ~r.support /\ ~r.edit
  <2>1. InstructorSeen(r, q) BY <1>4, LastPageOnTheWay
  <2>. QED BY <1>4, <2>1 DEF ResetSession, Fresh
<1>. HIDE DEF r
<1>7. session' = r /\ page' = q /\ person' = person /\ links' = {}
  BY <1>5, <1>6
  DEF ShowPage, Links, ForwardLinks, StandardPages, SupportPages
<1>8. TypeOK' BY <1>3 DEF JourneyInv
<1>9. InstructorInv' BY <1>6, <1>7, <1>8, WayIsSeen
<1>. QED BY <1>3, <1>9

LEMMA InstructorResolveKeeps ==
  ASSUME InstructorInv, NoDuplicateRequest, Resolve
  PROVE  InstructorInv' /\ NoDuplicateRequest'
<1>1. /\ TypeOK' /\ NoDuplicateRequest'
      /\ \A t \in Types : NoneUnwarned(t) => NoneUnwarned(t)'
      /\ session' = session /\ page' = page /\ links' = links /\ person' = person
  BY ResolveCloses DEF InstructorInv
<1>2. InstructorSeen(session', page') /\ \A q \in links' : InstructorReady(session', q)
  BY <1>1, InstructorPageIsSeen DEF InstructorInv, TypeOK, InstructorReady, Ready
<1>. QED BY <1>1, <1>2, WayIsSeen

(* A request that fails is shown where it may be made again. *)
LEMMA FailureOnTheWay ==
  ASSUME NEW s, InstructorSeen(s, "check-your-details"), NEW q \in FailurePages,
         q = "error" => Astray(s) \/ person.faults \cap {"create", "lost"} # {},
         NEW r, r = [s EXCEPT !.edit = FALSE]
  PROVE  /\ InstructorSeen(r, q)
         /\ \A routes \in Routes(r) : \A x \in Links(r, q, routes) : InstructorReady(r, x)
<1>1. Seen(s, "check-your-details") BY SeenAsCandidate
<1>2. s \in SessionData /\ IsNonStandard(s) BY WhatIsSeen DEF SupportPages
<1>3. /\ r \in SessionData /\ ~r.edit /\ r.answers = s.answers /\ r.target = s.target
      /\ r.candidate = s.candidate /\ r.support = s.support /\ r.standard = s.standard
      /\ r.received = s.received /\ r.confirming = s.confirming
  BY <1>2, EditSet, Zenon
<1>4. Ready(r, q) BY <1>1, RequestFails
<1>5. s.candidate /\ s.answers.type # None /\ s.answers.language
  BY WhatIsSeen DEF Permitted, SupportPages, LaterPages
<1>6. WayKept(r) /\ WayAsked(r, "check-your-details")
  BY <1>2, <1>3, SupportStep DEF SupportPages, NamedPages, IsNonStandard
<1>7. WayAsked(r, q)
  <2>1. CASE q = "error"
    <3>1. Astray(r) \/ person.faults \cap {"create", "lost"} # {} BY <1>3, <2>1 DEF Astray
    <3>2. "error" \in LastPages \ {"timeout"} BY DEF LastPages
    <3>. QED BY <2>1, <3>1, <3>2, LastWay
  <2>2. CASE q = "check-your-details-error"
    BY <1>3, <1>5, <2>2
    DEF WayAsked, Permitted, StartPages, StandardPages, SupportPages, CommonPages, EitherPages,
        NamedPages, LaterPages, AnswerPages
  <2>. QED BY <2>1, <2>2 DEF FailurePages
<1>8. InstructorReady(r, q) BY <1>4, <1>6, <1>7 DEF InstructorReady
<1>9. InstructorSeen(r, q) BY <1>8, SameShown DEF FailurePages
<1>10. ASSUME NEW routes \in Routes(r), NEW x \in Links(r, q, routes)
       PROVE  InstructorReady(r, x)
  <2>1. Seen(r, q) BY <1>9, SeenAsCandidate DEF FailurePages
  <2>2. Ready(r, x) BY <1>10, <2>1, LinksAreReady
  <2>3. x = "check-your-details"
    BY <1>3, <1>10
    DEF Links, ForwardLinks, FailurePages, StandardPages, SupportPages
  <2>. QED BY <1>6, <2>2, <2>3 DEF InstructorReady
<1>. QED BY <1>9, <1>10

LEMMA InstructorRequestKeeps ==
  ASSUME InstructorInv, NoDuplicateRequest, InstructorCheckYourDetails
  PROVE  InstructorInv' /\ NoDuplicateRequest'
<1>. DEFINE r == [session EXCEPT !.edit = FALSE]
<1>1. CheckYourDetails /\ page = "check-your-details"
  BY DEF InstructorCheckYourDetails, CheckYourDetails
<1>2. InstructorSeen(session, "check-your-details") BY <1>1, InstructorPageIsSeen
<1>3. JourneyInv BY <1>1, AsCandidate
<1>4. /\ JourneyInv' /\ NoDuplicateRequest'
      /\ \/ \A t \in Types : NoneUnwarned(t) => NoneUnwarned(t)'
         \/ ~session'.support /\ page' # "staying-nsa"
  BY <1>1, <1>3, RequestKeeps
<1>5. session.answers.selected = None \/ session.answers.told = None => Astray(session)
  <2>1. Seen(session, "check-your-details") BY <1>2, SeenAsCandidate
  <2>2. ~session.received => Told(session)
    BY <2>1
    DEF Seen, Kept, Shown, PlaceShown, SideShown, SupportPages, ToldKept, IsNonStandard
  <2>3. Told(session) => session.answers.selected # None /\ session.answers.told # None
    BY EvidenceType, NoneIsFresh DEF Told, Selected
  <2>. QED BY <2>2, <2>3 DEF Astray
<1>6. session \in SessionData /\ r \in SessionData BY <1>2, WhatIsSeen, EditSet
<1>7. \/ ShowPage(ResetSession(r), "booking-confirmation")
      \/ \E q \in FailurePages :
           /\ ShowPage(r, q)
           /\ q = "error" => Astray(session) \/ person.faults \cap {"create", "lost"} # {}
  <2>1. \/ ShowPage(ResetSession(r), "booking-confirmation")
        \/ ShowPage(r, "error")
             /\ (session.answers.selected = None \/ session.answers.told = None)
        \/ /\ "lost" \in person.faults \/ "create" \in person.faults
           /\ \E q \in FailurePages : ShowPage(r, q)
    BY <1>1, Zenon DEF CheckYourDetails
  <2>. HIDE DEF r
  <2>. QED BY <1>5, <2>1 DEF FailurePages
<1>. HIDE DEF r
<1>8. /\ person' = person /\ InstructorSeen(session', page')
      /\ \A x \in links' : InstructorReady(session', x)
  <2>1. CASE ShowPage(ResetSession(r), "booking-confirmation")
    <3>1. InstructorSeen(ResetSession(r), "booking-confirmation")
      BY <1>6, LastPageOnTheWay
    <3>2. links' = {}
      BY <2>1
      DEF ShowPage, Links, ForwardLinks, EditedFromCheckPage, StandardPages, SupportPages
    <3>. QED BY <2>1, <3>1, <3>2 DEF ShowPage
  <2>2. ASSUME NEW q \in FailurePages, ShowPage(r, q),
               q = "error" => Astray(session) \/ person.faults \cap {"create", "lost"} # {}
        PROVE  /\ person' = person /\ InstructorSeen(session', page')
               /\ \A x \in links' : InstructorReady(session', x)
    <3>1. /\ InstructorSeen(r, q)
          /\ \A routes \in Routes(r) : \A x \in Links(r, q, routes) : InstructorReady(r, x)
      BY <1>2, <2>2, FailureOnTheWay DEF r
    <3>. QED BY <2>2, <3>1 DEF ShowPage
  <2>. QED BY <1>7, <2>1, <2>2
<1>9. TypeOK' BY <1>4 DEF JourneyInv
<1>10. InstructorInv' BY <1>4, <1>8, <1>9, WayIsSeen
<1>. QED BY <1>4, <1>10

-----------------------------------------------------------------------------
(* The way from the first page on. *)

WayInv == InstructorInv /\ NoDuplicateRequest

LEMMA InstructorStarts ==
  ASSUME InstructorInit
  PROVE  WayInv
<1>. DEFINE one == [NoDrafts EXCEPT ![[status |-> "csc", unwarned |-> FALSE]] = 1]
<1>1. PICK target \in Targets :
        /\ session = Fresh(target)
        /\ page = IF target = "ni" THEN "candidate-details" ELSE "choose-support"
  BY DEF InstructorInit
<1>2. /\ session \in SessionData /\ ~session.candidate /\ ~session.support /\ session.standard
      /\ ~session.edit /\ ~session.confirming /\ ~session.received
      /\ session.edited.slot = None /\ session.answers.selected = None
      /\ session.answers.type = None /\ session.target = target
  <2>1. session \in SessionData
    BY <1>1, Zenon DEF SessionData, Fresh, NoAnswers, Answers, NoEdits
  <2>. QED BY <1>1, <2>1 DEF Fresh, NoAnswers, NoEdits
<1>3. links = {} /\ confirmed = {} /\ submitted = None /\ person \in People
  BY DEF InstructorInit
<1>4. one \in [Draft -> Nat] /\ \A d \in Draft : d.unwarned => one[d] = 0
  <2>1. [status |-> "csc", unwarned |-> FALSE] \in Draft BY DEF Draft
  <2>2. NoDrafts \in [Draft -> Nat] /\ \A d \in Draft : NoDrafts[d] = 0 BY DEF NoDrafts
  <2>. QED BY <2>1, <2>2
<1>5. PICK open \in SUBSET person.types :
        drafts = [t \in Types |-> IF t \in open THEN one ELSE NoDrafts]
  BY DEF InstructorInit
<1>6. /\ drafts \in [Types -> [Draft -> Nat]]
      /\ \A t \in Types, d \in Draft : d.unwarned => drafts[t][d] = 0
  <2>. HIDE DEF one
  <2>. QED BY <1>4, <1>5 DEF NoDrafts
<1>7. TypeOK BY <1>1, <1>2, <1>3, <1>6 DEF TypeOK, Pages, StartPages
<1>. HIDE DEF one
<1>. USE <1>1, <1>2, <1>3 DEF Pages, StartPages, StandardPages, SupportPages, CommonPages,
         EitherPages, AnswerPages, LastPages, EditPages, LatePages, BookingPages, DynamicPages,
         NamedPages, LaterPages, Selected, IsNonStandard, IsSupportedStandard
<1>8. PlaceKept(session) /\ SideKept(session) /\ ToldKept(session) /\ WayKept(session)
  BY DEF PlaceKept, SideKept, ToldKept, OnlyOther, WayKept
<1>9. PlaceAsked(session, page) /\ SideAsked(session, page) /\ ToldAsked(session, page)
  BY DEF PlaceAsked, SideAsked, ToldAsked
<1>10. PlaceShown(session, page) /\ SideShown(session, page) /\ ToldShown(session, page)
  BY DEF PlaceShown, SideShown, ToldShown
<1>11. WayAsked(session, page) BY DEF WayAsked, Permitted
<1>12. WayShown(session, page) BY <1>9, <1>10 DEF WayShown, Shown, Asked
<1>13. NoDuplicateRequest
  <2>1. /\ [status |-> "evidence", unwarned |-> TRUE] \in Draft
        /\ [status |-> "csc", unwarned |-> TRUE] \in Draft
    BY DEF Draft
  <2>. QED BY <1>6, <2>1 DEF NoDuplicateRequest
<1>. QED BY <1>7, <1>8, <1>9, <1>11, <1>12, <1>13 DEF WayInv, InstructorInv, Kept, Asked

LEMMA InstructorGoesOn ==
  ASSUME WayInv, [InstructorNext]_vars
  PROVE  WayInv'
<1>0. InstructorInv /\ NoDuplicateRequest BY DEF WayInv
<1>1. CASE Resolve BY <1>0, <1>1, InstructorResolveKeeps DEF WayInv
<1>2. CASE InstructorPayment BY <1>0, <1>2, InstructorPaymentKeeps DEF WayInv
<1>3. CASE InstructorCheckYourDetails BY <1>0, <1>3, InstructorRequestKeeps DEF WayInv
<1>4. CASE UNCHANGED vars
  <2>1. /\ session' = session /\ page' = page /\ links' = links /\ person' = person
        /\ confirmed' = confirmed /\ submitted' = submitted /\ drafts' = drafts
    BY <1>4 DEF vars
  <2>2. TypeOK' BY <1>0, <2>1 DEF InstructorInv, TypeOK
  <2>3. \A t \in Types : NoneUnwarned(t) => NoneUnwarned(t)' BY <2>1 DEF NoneUnwarned
  <2>4. InstructorSeen(session', page') /\ \A q \in links' : InstructorReady(session', q)
    BY <1>0, <2>1, InstructorPageIsSeen DEF InstructorInv, TypeOK, InstructorReady, Ready
  <2>5. InstructorInv' BY <2>1, <2>2, <2>3, <2>4, WayIsSeen
  <2>. QED BY <1>0, <2>1, <2>5 DEF WayInv, NoDuplicateRequest
<1>5. ASSUME InstructorInv' /\ drafts' = drafts
      PROVE  WayInv'
  BY <1>0, <1>5 DEF WayInv, NoDuplicateRequest
<1>6. CASE InstructorFollow \/ InstructorStartAgain
  BY <1>0, <1>5, <1>6, InstructorFollowKeeps, InstructorStartAgainKeeps
<1>7. CASE \/ InstructorChooseSupport
           \/ InstructorAnswerOneOf("support-alert", SupportAlertReplies)
           \/ InstructorCandidateDetails
           \/ InstructorAnswerOneOf("email-contact", EmailContactReplies)
  BY <1>0, <1>5, <1>7, InstructorStartKeeps
<1>8. CASE \/ InstructorAnswerOneOf("test-type", TestTypeReplies)
           \/ InstructorAnswerOneOf("test-language", TestLanguageReplies)
  BY <1>0, <1>5, <1>8, InstructorTestKeeps
<1>9. CASE InstructorVoiceover BY <1>0, <1>5, <1>9, InstructorVoiceoverKeeps
<1>10. CASE \/ InstructorAnswerOneOf("select-support-type", SelectSupportTypeReplies)
            \/ InstructorCustomSupport \/ InstructorTranslator \/ InstructorConfirmSupport
            \/ InstructorAnswerOneOf("leaving-nsa", LeavingNsaReplies)
  BY <1>0, <1>5, <1>10, InstructorSupportKeeps
<1>11. CASE \/ InstructorPreferredDay \/ InstructorPreferredLocation
            \/ InstructorTelephoneContact \/ InstructorVoicemail
  BY <1>0, <1>5, <1>11, InstructorDetailKeeps
<1>12. CASE \/ InstructorFindTestCentre \/ InstructorSelectTestCentre \/ InstructorSelectDate
            \/ InstructorAnswerOneOf("choose-appointment", ChooseAppointmentReplies)
            \/ InstructorChangeLocationTime
  BY <1>0, <1>5, <1>12, InstructorPlaceKeeps
<1>13. CASE InstructorCheckYourAnswers BY <1>0, <1>5, <1>13, InstructorCheckYourAnswersKeeps
<1>. QED
  BY <1>1, <1>2, <1>3, <1>4, <1>6, <1>7, <1>8, <1>9, <1>10, <1>11, <1>12, <1>13
  DEF InstructorNext

(* For any instructors, centres and bounds the invariant holds throughout. *)
THEOREM WayIsSound == InstructorSpec => []WayInv
<1>1. InstructorInit => WayInv BY InstructorStarts
<1>2. WayInv /\ [InstructorNext]_vars => WayInv' BY InstructorGoesOn
<1>. QED BY <1>1, <1>2, PTL DEF InstructorSpec

(* Whichever links an instructor follows and whatever the answers, no redirect *)
(* leads to a page its guard refuses, to one that does not exist, or to one    *)
(* that lacks what it needs, except on the ways the property names.            *)
THEOREM InstructorsAreServed == InstructorSpec => []WalkIsServed
<1>1. WayInv => WalkIsServed
  BY DEF WayInv, InstructorInv, WayAsked, WalkIsServed, Astray
<1>. QED BY <1>1, WayIsSound, PTL

(* Every variable keeps its type on the instructors' pages too. *)
THEOREM InstructorTypeCorrect == InstructorSpec => []TypeOK
<1>1. WayInv => TypeOK BY DEF WayInv, InstructorInv
<1>. QED BY <1>1, WayIsSound, PTL

(* An instructor's answers are complete where they are checked and sent, with *)
(* the language set by a page the instructor may never see.                   *)
THEOREM InstructorAnswersAreComplete == InstructorSpec => []AnswersComplete
<1>1. ASSUME WayInv PROVE AnswersComplete
  <2>0. page # "test-language" => Seen(session, page)
    BY <1>1, InstructorPageIsSeen, SeenAsCandidate DEF WayInv
  <2>1. page \in {"check-your-answers", "payment"} =>
          /\ session.answers.type # None /\ session.answers.language
          /\ session.answers.centre # None /\ session.answers.slot # None
    BY <2>0, SettledSlot
  <2>2. page = "check-your-details" /\ ~session.received =>
          IsNonStandard(session) /\ Told(session)
    BY <2>0
    DEF Seen, Kept, Shown, PlaceShown, SideShown, SupportPages, ToldKept
  <2>3. page = "check-your-details" /\ ~session.received => session.answers.told # None
    BY <2>2, EvidenceType, NoneIsFresh DEF Told
  <2>. QED
    BY <2>1, <2>2, <2>3 DEF AnswersComplete, Told, Voiced, Translated, Selected
<1>. QED BY <1>1, WayIsSound, PTL

(* The time an instructor confirms was offered for the test and at the centre *)
(* the answers name.                                                          *)
THEOREM InstructorTimeWasOffered == InstructorSpec => []OfferedTogether
<1>1. ASSUME WayInv PROVE OfferedTogether
  <2>1. page # "test-language" => Seen(session, page)
    BY <1>1, InstructorPageIsSeen, SeenAsCandidate DEF WayInv
  <2>. QED BY <2>1, SettledSlot DEF OfferedTogether
<1>. QED BY <1>1, WayIsSound, PTL

(* An instructor who named support a standard test cannot give is never led *)
(* to the pages that book one.                                              *)
THEOREM InstructorNonStandardIsKept == InstructorSpec => []NonStandardStaysSupported
<1>1. ASSUME WayInv PROVE NonStandardStaysSupported
  <2>1. page # "test-language" => Seen(session, page)
    BY <1>1, InstructorPageIsSeen, SeenAsCandidate DEF WayInv
  <2>2. page # "test-language" => NonStandardStaysSupported
    BY <2>1
    DEF NonStandardStaysSupported, Seen, Kept, Shown, PlaceShown, SideKept, IsSupportedStandard,
        Standardable, Selected
  <2>3. "test-language" \notin StandardPages BY DEF StandardPages
  <2>. QED BY <2>2, <2>3 DEF NonStandardStaysSupported
<1>. QED BY <1>1, WayIsSound, PTL

(* The pages of detail an instructor meets and is led to are those of the own *)
(* selection.                                                                 *)
THEOREM InstructorWalkIsOnesOwn == InstructorSpec => []WalkIsOwn
<1>1. ASSUME WayInv PROVE WalkIsOwn
  <2>1. \A q \in {page} \cup links : SideAsked(session, q)
    BY <1>1 DEF WayInv, InstructorInv, Asked
  <2>. QED BY <2>1 DEF WalkIsOwn, SideAsked, Selected
<1>. QED BY <1>1, WayIsSound, PTL

(* Of an instructor's requests for one test the service makes and acknowledges *)
(* only one while it is open, though others may be open from the telephone.    *)
THEOREM InstructorRequestIsSingle == InstructorSpec => []NoDuplicateRequest
<1>1. WayInv => NoDuplicateRequest BY DEF WayInv
<1>. QED BY <1>1, WayIsSound, PTL

(* What an instructor was told about evidence is what the request waits for. *)
THEOREM InstructorToldOfEvidence == InstructorSpec => []EvidenceAsTold
<1>1. ASSUME WayInv PROVE EvidenceAsTold
  <2>0. page # "test-language" => Seen(session, page)
    BY <1>1, InstructorPageIsSeen, SeenAsCandidate DEF WayInv
  <2>1. page = "check-your-details" /\ ~session.received => Told(session)
    BY <2>0
    DEF Seen, Kept, Shown, PlaceShown, SideShown, SupportPages, ToldKept
  <2>. QED BY <2>1 DEF EvidenceAsTold, NsaStatus, Told
<1>. QED BY <1>1, WayIsSound, PTL

=============================================================================
