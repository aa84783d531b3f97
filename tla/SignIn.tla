-------------------------------- MODULE SignIn --------------------------------
(***************************************************************************)
(* One driver signs in, from several browsers, to book a test or to manage *)
(* bookings: the eligibility service gives the details the licensing       *)
(* agency holds, and the CRM's records of the person (the contact) and of  *)
(* the licence are created or brought up to date, one call at a time, each *)
(* of which may fail or lose its answer.                                   *)
(***************************************************************************)
CONSTANTS
  Sessions,   \* the browsers
  Contacts,   \* bound: the records of the person the CRM may come to hold
  Licences,   \* bound: the records of the licence
  Values,     \* the values of a name and of a part of an address
  Fails,      \* the calls that may fail, and "crash"
  Loses,      \* the calls whose answer may be lost
  None

ASSUME ValuesAssumption == Values # {} /\ None \notin Contacts \cup Licences

VARIABLES
  official,   \* the details the licensing agency holds
  contacts,   \* the CRM's records of the person
  licences,   \* the CRM's records of the licence, by active licence number
  work,       \* per browser, the request being handled
  session,    \* per browser, the candidate or None
  overlapped  \* history: the sign-ins at work ran beside another at some time

vars == <<official, contacts, licences, work, session, overlapped>>

(* The names stand for all that is compared with the contact (names, date of *)
(* birth, title, gender), the address for what is compared with the licence  *)
(* (lines 1 and 2, city, postcode; the other lines are only copied).         *)
Details == [names : Values, address : Values]
Licence == [person : Contacts, address : Values]
Candidate == [contact : Contacts, licence : Licences]

Kinds == {"book", "manage"}
Calls == {"eligibility", "bookings", "find", "updateLicence", "updateContact",
          "createContact", "createLicence", "reference"}

(* A request: its page, the call it makes next, the answer of eligibility,  *)
(* whether the CRM did not know the person before, the licence found, and   *)
(* whether the contact is compared once more after its update.              *)
Work ==
  [kind : Kinds, call : Calls, details : Details \cup {None},
   contact : Contacts \cup {None}, new : BOOLEAN, licence : Licences \cup {None}, compare : BOOLEAN]

ASSUME NoneAssumption == None \notin Details \cup Licence \cup Candidate \cup Work

-----------------------------------------------------------------------------
Outcomes(call) ==
  {o \in {"ok", "fail", "lost"} : /\ o = "fail" => call \in Fails
                                  /\ o = "lost" => call \in Loses}

Existing(records) == {id \in DOMAIN records : records[id] # None}

Init ==
  /\ official \in Details
  /\ contacts = [c \in Contacts |-> None]
  /\ licences = [l \in Licences |-> None]
  /\ work = [s \in Sessions |-> None]
  /\ session = [s \in Sessions |-> None]
  /\ overlapped = FALSE

(* Booking is only for a session without a candidate (startAuth). *)
Start(s) ==
  /\ work[s] = None
  /\ \E kind \in Kinds :
       /\ kind = "book" => session[s] = None
       /\ work' = [work EXCEPT ![s] =
            [kind |-> kind, call |-> "eligibility", details |-> None,
             contact |-> None, new |-> FALSE, licence |-> None, compare |-> FALSE]]
  /\ overlapped' = (\E t \in Sessions : work[t] # None)
  /\ UNCHANGED <<official, contacts, licences, session>>

(* The next call of a request, with what it has learnt. *)
Proceed(s, w, call) == work' = [work EXCEPT ![s] = [w EXCEPT !.call = call]]

(* The page with the error is shown; the session is as it was. *)
GiveUp(s) == work' = [work EXCEPT ![s] = None] /\ UNCHANGED session

SignedIn(s, w) ==
  /\ work' = [work EXCEPT ![s] = None]
  /\ session' = [session EXCEPT ![s] = [contact |-> w.contact, licence |-> w.licence]]

(* What is left to do once the records are up to date: booking asks for the *)
(* person's reference, managing does not.                                   *)
Aligned(s, w) ==
  IF w.kind = "book" THEN Proceed(s, w, "reference") /\ UNCHANGED session
  ELSE SignedIn(s, w)

(* The person the eligibility service knows the licence by: the owner of a  *)
(* record of the licence; before there is one a person without, or nobody.  *)
Known ==
  IF Existing(licences) = {} THEN Existing(contacts) \cup {None}
  ELSE {licences[l].person : l \in Existing(licences)}

(* Mutant of Answered: the contact is lost in the mapping of the answer. *)
AnsweredWithoutContact(w, known) == [w EXCEPT !.details = official, !.new = TRUE]

Answered(w, known) ==
  [w EXCEPT !.details = official, !.contact = known, !.new = (known = None)]

(* The names the driver types must be those of the answer. *)
Matches(typed, details) == typed = details.names

(* Booking takes details that match and a test that may be booked now (a    *)
(* matter of its type and of dates), managing a person the CRM knows.        *)
Accepted(kind, answered, typed, bookable) ==
  IF kind = "manage" THEN answered.contact # None
  ELSE Matches(typed, answered.details) /\ bookable

CreateOrUpdateCandidate(w) == IF w.new THEN "createContact" ELSE "find"

(* The eligibility service may also fail, or not know the licence. *)
AskEligibility(s) ==
  LET w == work[s] IN
  /\ w # None /\ w.call = "eligibility"
  /\ \/ GiveUp(s)
     \/ \E known \in Known, typed \in Values, bookable \in BOOLEAN :
          LET answered == Answered(w, known) IN
          /\ Accepted(w.kind, answered, typed, bookable)
          /\ Proceed(s, answered, IF w.kind = "manage" THEN "bookings"
                                  ELSE CreateOrUpdateCandidate(answered))
          /\ UNCHANGED session
  /\ UNCHANGED <<official, contacts, licences, overlapped>>

(* The booking named at the login must be one of the person's. *)
LoadBookings(s) ==
  LET w == work[s] IN
  /\ w # None /\ w.call = "bookings"
  /\ \/ GiveUp(s)
     \/ Proceed(s, w, "find") /\ UNCHANGED session
  /\ UNCHANGED <<official, contacts, licences, overlapped>>

IsLicenceDataToBeUpdated(details, l) ==
  details.address # licences[l].address

(* Mutant of IsCandidateDataToBeUpdated: the address stands for all. *)
SameAddressIsEnough(details, c) ==
  details.address # contacts[c].address

IsCandidateDataToBeUpdated(details, c) == details.names # contacts[c].names

(* Mutant of OwnLicences: any record of the number is taken for the person's. *)
AnyLicences(c) == Existing(licences)

(* The records of the licence that belong to person c. *)
OwnLicences(c) == {l \in Existing(licences) : licences[l].person = c}

(* alignCandidateDataInCRM: what has to be written is decided here. *)
FindLicence(s) ==
  LET w == work[s] IN
  /\ w # None /\ w.call = "find"
  /\ \/ "find" \in Fails /\ GiveUp(s)
     \/ OwnLicences(w.contact) = {} /\ Proceed(s, w, "createLicence") /\ UNCHANGED session
     \/ \E l \in OwnLicences(w.contact) :
          LET found == [w EXCEPT !.licence = l] IN
          IF IsLicenceDataToBeUpdated(w.details, l)
          THEN /\ Proceed(s, [found EXCEPT !.compare = TRUE], "updateLicence")
               /\ UNCHANGED session
          ELSE IF IsCandidateDataToBeUpdated(w.details, w.contact)
          THEN Proceed(s, found, "updateContact") /\ UNCHANGED session
          ELSE Aligned(s, found)
  /\ UNCHANGED <<official, contacts, licences, overlapped>>

UpdateLicence(s) ==
  LET w == work[s] IN
  /\ w # None /\ w.call = "updateLicence"
  /\ \E o \in Outcomes("updateLicence") :
       /\ licences' = IF o = "fail" THEN licences
                      ELSE [licences EXCEPT ![w.licence].address = w.details.address]
       /\ IF o = "ok" THEN Proceed(s, w, "updateContact") /\ UNCHANGED session
          ELSE GiveUp(s)
  /\ UNCHANGED <<official, contacts, overlapped>>

(* The answer to an update has neither title nor gender: compared with it, *)
(* the details may look out of date once more.                             *)
UpdateContact(s) ==
  LET w == work[s] IN
  /\ w # None /\ w.call = "updateContact"
  /\ \E o \in Outcomes("updateContact") :
       /\ contacts' = IF o = "fail" THEN contacts
                      ELSE [contacts EXCEPT ![w.contact] = w.details]
       /\ \/ o = "ok" /\ Aligned(s, w)
          \/ /\ o = "ok" /\ w.compare
             /\ Proceed(s, [w EXCEPT !.compare = FALSE], "updateContact")
             /\ UNCHANGED session
          \/ o # "ok" /\ GiveUp(s)
  /\ UNCHANGED <<official, licences, overlapped>>

CreateContact(s) ==
  LET w == work[s] IN
  /\ w # None /\ w.call = "createContact"
  /\ \/ \E c \in Contacts \ Existing(contacts) :
          /\ contacts' = [contacts EXCEPT ![c] = w.details]
          /\ \/ Proceed(s, [w EXCEPT !.contact = c], "createLicence") /\ UNCHANGED session
             \/ "createContact" \in Loses /\ GiveUp(s)
     \/ "createContact" \in Fails /\ GiveUp(s) /\ UNCHANGED contacts
  /\ UNCHANGED <<official, licences, overlapped>>

(* Mutant of LicenceCreated: the new record's key is not kept. *)
LicenceForgotten(w, l) == w

LicenceCreated(w, l) == [w EXCEPT !.licence = l]

(* A new contact is up to date, one that was known is updated after this. *)
CreateLicence(s) ==
  LET w == work[s] IN
  /\ w # None /\ w.call = "createLicence"
  /\ \/ \E l \in Licences \ Existing(licences) :
          /\ licences' = [licences EXCEPT ![l] =
               [person |-> w.contact, address |-> w.details.address]]
          /\ \/ ~w.new /\ Proceed(s, LicenceCreated(w, l), "updateContact") /\ UNCHANGED session
             \/ w.new /\ Aligned(s, LicenceCreated(w, l))
             \/ "createLicence" \in Loses /\ GiveUp(s)
     \/ "createLicence" \in Fails /\ GiveUp(s) /\ UNCHANGED licences
  /\ UNCHANGED <<official, contacts, overlapped>>

(* Only the booking pages ask for the records once more. *)
FindReference(s) ==
  LET w == work[s] IN
  /\ w # None /\ w.call = "reference"
  /\ SignedIn(s, w) \/ ("find" \in Fails /\ GiveUp(s))
  /\ UNCHANGED <<official, contacts, licences, overlapped>>

(* The session runs out, or is reset for another journey. *)
Leave(s) ==
  /\ work[s] = None /\ session[s] # None
  /\ session' = [session EXCEPT ![s] = None]
  /\ UNCHANGED <<official, contacts, licences, work, overlapped>>

(* The server handling the request dies between two calls. *)
Crash(s) ==
  /\ "crash" \in Fails /\ work[s] # None
  /\ GiveUp(s)
  /\ UNCHANGED <<official, contacts, licences, overlapped>>

(* The driver tells the licensing agency a new name or address. *)
Change ==
  /\ official' \in Details \ {official}
  /\ UNCHANGED <<contacts, licences, work, session, overlapped>>

Next ==
  \/ Change
  \/ \E s \in Sessions :
       \/ Start(s) \/ AskEligibility(s) \/ LoadBookings(s) \/ FindLicence(s)
       \/ UpdateLicence(s) \/ UpdateContact(s) \/ CreateContact(s)
       \/ CreateLicence(s) \/ FindReference(s) \/ Leave(s) \/ Crash(s)

Spec == Init /\ [][Next]_vars

-----------------------------------------------------------------------------
(* Properties. *)

TypeOK ==
  /\ official \in Details
  /\ contacts \in [Contacts -> Details \cup {None}]
  /\ licences \in [Licences -> Licence \cup {None}]
  /\ work \in [Sessions -> Work \cup {None}]
  /\ session \in [Sessions -> Candidate \cup {None}]
  /\ overlapped \in BOOLEAN

(* Whoever is signed in is one person to the CRM: the licence of the session *)
(* is a record of the session's contact, however sign-ins overlap, fail or   *)
(* leave records behind (the booking is made out to both).                   *)
SessionIsOnePerson ==
  \A s \in Sessions : session[s] # None =>
    LET c == session[s].contact
        l == session[s].licence IN
    contacts[c] # None /\ licences[l] # None /\ licences[l].person = c

(* A sign-in that runs alone makes a record of the licence only when there   *)
(* is none, whatever earlier sign-ins left behind: failed, unanswered, dead, *)
(* or two at the same time (those may each make one).                        *)
NoSecondLicence ==
  [][Existing(licences') # Existing(licences) /\ ~overlapped =>
       Existing(licences) = {}]_vars

(* The moment the driver is signed in by a request that ran alone, the CRM   *)
(* has the names that the eligibility service answered and, on the licence,  *)
(* the address, whatever earlier sign-ins left half done.  The address of    *)
(* the contact is not compared and may be an older one.                      *)
SignedInIsCurrent ==
  [][\A s \in Sessions :
       session'[s] # session[s] /\ session'[s] # None /\ ~overlapped =>
         /\ contacts'[session'[s].contact].names = work[s].details.names
         /\ licences'[session'[s].licence].address
              = work[s].details.address]_vars
=============================================================================
