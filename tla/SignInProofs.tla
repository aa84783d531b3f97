----------------------------- MODULE SignInProofs -----------------------------
(***************************************************************************)
(* For any number of browsers, records and details: a session's licence is *)
(* a record of its contact, and a sign-in that runs alone makes no second  *)
(* record of the licence and leaves the names and the licence's address    *)
(* that were answered in the CRM, whatever sign-ins before it left behind. *)
(***************************************************************************)
EXTENDS SignIn, TLAPS

(* The calls a request makes once it knows the person, and once it knows the *)
(* licence.                                                                  *)
WithContact == {"bookings", "find", "updateLicence", "updateContact", "createLicence", "reference"}
WithLicence == {"updateLicence", "updateContact", "reference"}

(* What a request has learnt before each of its calls: records that exist, *)
(* the licence one of the contact's.                                       *)
Informed(s) ==
  /\ work[s].call # "eligibility" => work[s].details # None
  /\ work[s].call \in WithContact => work[s].contact # None
  /\ work[s].call \in WithLicence => work[s].licence # None
  /\ work[s].call \in {"eligibility", "createContact"} => work[s].licence = None
  /\ work[s].call \in {"bookings", "find"} => ~work[s].new
  /\ work[s].contact # None => contacts[work[s].contact] # None
  /\ work[s].licence # None =>
       /\ licences[work[s].licence] # None
       /\ licences[work[s].licence].person = work[s].contact

(* What a request can rely on as well when it is the only one: the person it *)
(* has found owns the licence, and what it has written is still there.       *)
Relies(s) ==
  /\ work[s].call \in {"createContact", "createLicence"} => Existing(licences) = {}
  /\ work[s].call \in {"bookings", "find"} =>
       Existing(licences) = {} \/ OwnLicences(work[s].contact) # {}
  /\ work[s].call \in {"updateContact", "reference"} =>
       licences[work[s].licence].address = work[s].details.address
  /\ work[s].call = "reference" \/ (work[s].call = "createLicence" /\ work[s].new) =>
       contacts[work[s].contact].names = work[s].details.names

LicencesHavePersons ==
  \A l \in Existing(licences) : licences[l].person \in Existing(contacts)

OnePerson(s) ==
  /\ contacts[session[s].contact] # None
  /\ licences[session[s].licence] # None
  /\ licences[session[s].licence].person = session[s].contact

InTurn ==
  ~overlapped =>
    /\ \A s, t \in Sessions : work[s] # None /\ work[t] # None => s = t
    /\ \A s \in Sessions : work[s] # None => Relies(s)

Inv ==
  /\ TypeOK
  /\ LicencesHavePersons
  /\ \A s \in Sessions : work[s] # None => Informed(s)
  /\ \A s \in Sessions : session[s] # None => OnePerson(s)
  /\ InTurn

-----------------------------------------------------------------------------
LEMMA WorkFields ==
  ASSUME TypeOK, NEW s \in Sessions, work[s] # None
  PROVE  /\ work[s] \in Work
         /\ work[s].details \in Details \cup {None}
         /\ work[s].contact \in Contacts \cup {None}
         /\ work[s].licence \in Licences \cup {None}
         /\ work[s].new \in BOOLEAN
BY DEF TypeOK, Work

(* Records are added and updated, never removed, and stay the person's. *)
RecordsKept ==
  /\ \A c \in Contacts : contacts[c] # None => contacts'[c] # None
  /\ \A l \in Licences : licences[l] # None =>
       licences'[l] # None /\ licences'[l].person = licences[l].person

(* The frame of a step of one browser's request: the others go on knowing *)
(* what they knew.                                                        *)
LEMMA OneBrowserSteps ==
  ASSUME Inv, NEW s \in Sessions, work[s] # None,
         work' = [work EXCEPT ![s] = work'[s]], session' = [session EXCEPT ![s] = session'[s]],
         work'[s] \in Work \cup {None}, session'[s] \in Candidate \cup {None},
         official' = official, overlapped' = overlapped,
         contacts' \in [Contacts -> Details \cup {None}],
         licences' \in [Licences -> Licence \cup {None}],
         RecordsKept, LicencesHavePersons',
         work'[s] # None => Informed(s)' /\ (~overlapped => Relies(s)'),
         session'[s] # None => OnePerson(s)'
  PROVE  Inv'
<1>1. TypeOK'
  <2>1. work' \in [Sessions -> Work \cup {None}] BY DEF Inv, TypeOK
  <2>2. session' \in [Sessions -> Candidate \cup {None}] BY DEF Inv, TypeOK
  <2>3. official' \in Details /\ overlapped' \in BOOLEAN BY DEF Inv, TypeOK
  <2>. QED BY <2>1, <2>2, <2>3 DEF TypeOK
<1>2. \A t \in Sessions : t # s => work'[t] = work[t] /\ session'[t] = session[t]
  BY DEF Inv, TypeOK
<1>3. ASSUME NEW t \in Sessions, work'[t] # None PROVE Informed(t)'
  <2>1. CASE t = s BY <1>3, <2>1
  <2>2. CASE t # s
    <3>1. Informed(t) /\ work'[t] = work[t] /\ work[t] # None BY <1>2, <1>3, <2>2 DEF Inv
    <3>2. work[t].contact \in Contacts \cup {None} /\ work[t].licence \in Licences \cup {None}
      BY <3>1, WorkFields DEF Inv
    <3>. QED BY <3>1, <3>2 DEF Informed, RecordsKept
  <2>. QED BY <2>1, <2>2
<1>4. ASSUME NEW t \in Sessions, session'[t] # None PROVE OnePerson(t)'
  <2>1. CASE t = s BY <1>4, <2>1
  <2>2. CASE t # s
    <3>1. OnePerson(t) /\ session'[t] = session[t] /\ session[t] # None
      BY <1>2, <1>4, <2>2 DEF Inv
    <3>2. session[t].contact \in Contacts /\ session[t].licence \in Licences
      BY <3>1 DEF Inv, TypeOK, Candidate
    <3>. QED BY <3>1, <3>2 DEF OnePerson, RecordsKept
  <2>. QED BY <2>1, <2>2
<1>5. InTurn'
  <2>. SUFFICES ASSUME ~overlapped
       PROVE  /\ \A t, u \in Sessions : work'[t] # None /\ work'[u] # None => t = u
              /\ \A t \in Sessions : work'[t] # None => Relies(t)'
    BY DEF InTurn
  <2>1. \A t \in Sessions : t # s => work[t] = None BY DEF Inv, InTurn
  <2>2. \A t \in Sessions : t # s => work'[t] = None BY <1>2, <2>1
  <2>. QED BY <2>2
<1>. QED BY <1>1, <1>3, <1>4, <1>5 DEF Inv

(* What the CRM's records need not be shown again when they are left alone. *)
LEMMA RecordsUntouched ==
  ASSUME Inv, contacts' = contacts, licences' = licences
  PROVE  /\ contacts' \in [Contacts -> Details \cup {None}]
         /\ licences' \in [Licences -> Licence \cup {None}]
         /\ RecordsKept /\ LicencesHavePersons'
<1>1. contacts' \in [Contacts -> Details \cup {None}] /\ licences' \in [Licences -> Licence \cup {None}]
  BY DEF Inv, TypeOK
<1>2. RecordsKept BY DEF RecordsKept
<1>3. LicencesHavePersons' BY DEF Inv, LicencesHavePersons, Existing
<1>. QED BY <1>1, <1>2, <1>3

(* A request that ends without signing the driver in. *)
LEMMA GivenUp ==
  ASSUME Inv, NEW s \in Sessions, work[s] # None, GiveUp(s),
         official' = official, overlapped' = overlapped,
         contacts' \in [Contacts -> Details \cup {None}],
         licences' \in [Licences -> Licence \cup {None}],
         RecordsKept, LicencesHavePersons'
  PROVE  Inv'
<1>1. work'[s] = None /\ work' = [work EXCEPT ![s] = work'[s]] BY DEF GiveUp, Inv, TypeOK
<1>2. session' = [session EXCEPT ![s] = session'[s]] /\ session'[s] = session[s]
  BY DEF GiveUp, Inv, TypeOK
<1>3. session'[s] \in Candidate \cup {None} BY <1>2 DEF Inv, TypeOK
<1>4. ASSUME session'[s] # None PROVE OnePerson(s)'
  <2>1. OnePerson(s) /\ session[s] # None BY <1>2, <1>4 DEF Inv
  <2>2. session[s].contact \in Contacts /\ session[s].licence \in Licences
    BY <2>1 DEF Inv, TypeOK, Candidate
  <2>. QED BY <1>2, <2>1, <2>2 DEF OnePerson, RecordsKept
<1>. QED BY <1>1, <1>2, <1>3, <1>4, OneBrowserSteps

(* A request that goes on to its next call. *)
LEMMA GoneOn ==
  ASSUME Inv, NEW s \in Sessions, work[s] # None,
         work' = [work EXCEPT ![s] = work'[s]], work'[s] \in Work, session' = session,
         official' = official, overlapped' = overlapped,
         contacts' \in [Contacts -> Details \cup {None}],
         licences' \in [Licences -> Licence \cup {None}],
         RecordsKept, LicencesHavePersons',
         Informed(s)', ~overlapped => Relies(s)'
  PROVE  Inv'
<1>1. session' = [session EXCEPT ![s] = session'[s]] /\ session'[s] = session[s]
  BY DEF Inv, TypeOK
<1>2. session'[s] \in Candidate \cup {None} BY <1>1 DEF Inv, TypeOK
<1>3. ASSUME session'[s] # None PROVE OnePerson(s)'
  <2>1. OnePerson(s) /\ session[s] # None BY <1>1, <1>3 DEF Inv
  <2>2. session[s].contact \in Contacts /\ session[s].licence \in Licences
    BY <2>1 DEF Inv, TypeOK, Candidate
  <2>. QED BY <1>1, <2>1, <2>2 DEF OnePerson, RecordsKept
<1>. QED BY <1>1, <1>2, <1>3, OneBrowserSteps

(* A request whose records are up to date: signed in, or one call from it. *)
LEMMA AlignedStep ==
  ASSUME Inv, NEW s \in Sessions, work[s] # None, NEW w \in Work,
         Aligned(s, w) \/ SignedIn(s, w),
         w.contact # None, w.licence # None, w.details # None,
         official' = official, overlapped' = overlapped,
         contacts' \in [Contacts -> Details \cup {None}],
         licences' \in [Licences -> Licence \cup {None}],
         RecordsKept, LicencesHavePersons',
         contacts'[w.contact] # None,
         licences'[w.licence] # None, licences'[w.licence].person = w.contact,
         ~overlapped => /\ contacts'[w.contact].names = w.details.names
                        /\ licences'[w.licence].address = w.details.address
  PROVE  Inv'
<1>1. CASE SignedIn(s, w)
  <2>1. /\ work' = [work EXCEPT ![s] = None]
        /\ session' = [session EXCEPT ![s] = [contact |-> w.contact, licence |-> w.licence]]
    BY <1>1 DEF SignedIn
  <2>2. work'[s] = None /\ session'[s] = [contact |-> w.contact, licence |-> w.licence]
    BY <2>1 DEF Inv, TypeOK
  <2>3. w.contact \in Contacts /\ w.licence \in Licences BY DEF Work
  <2>4. session'[s] \in Candidate BY <2>2, <2>3 DEF Candidate
  <2>5. OnePerson(s)' BY <2>2 DEF OnePerson
  <2>. QED BY <2>1, <2>2, <2>4, <2>5, OneBrowserSteps
<1>2. CASE Proceed(s, w, "reference") /\ session' = session
  <2>1. work' = [work EXCEPT ![s] = [w EXCEPT !.call = "reference"]] BY <1>2 DEF Proceed
  <2>2. work'[s] = [w EXCEPT !.call = "reference"] BY <2>1 DEF Inv, TypeOK
  <2>3. work'[s] \in Work BY <2>2 DEF Work, Calls
  <2>4. /\ work'[s].call = "reference" /\ work'[s].details = w.details
        /\ work'[s].contact = w.contact /\ work'[s].licence = w.licence
    BY <2>2 DEF Work
  <2>5. work' = [work EXCEPT ![s] = work'[s]] BY <2>1, <2>2
  <2>6. Informed(s)' BY <2>4 DEF Informed
  <2>7. ~overlapped => Relies(s)' BY <2>4 DEF Relies
  <2>. QED BY <1>2, <2>3, <2>5, <2>6, <2>7, GoneOn
<1>. QED BY <1>1, <1>2 DEF Aligned

LEMMA AskEligibilityStep ==
  ASSUME Inv, NEW s \in Sessions, AskEligibility(s)
  PROVE  Inv'
<1>1. work[s] # None /\ work[s].call = "eligibility" BY DEF AskEligibility
<1>2. /\ work[s] \in Work /\ work[s].licence = None
  BY <1>1, WorkFields DEF Inv, Informed
<1>3. /\ official' = official /\ overlapped' = overlapped
      /\ contacts' = contacts /\ licences' = licences
  BY DEF AskEligibility
<1>4. /\ contacts' \in [Contacts -> Details \cup {None}]
      /\ licences' \in [Licences -> Licence \cup {None}]
      /\ RecordsKept /\ LicencesHavePersons'
  BY <1>3, RecordsUntouched
<1>5. CASE GiveUp(s) BY <1>1, <1>3, <1>4, <1>5, GivenUp
<1>6. ASSUME NEW known \in Known, NEW typed \in Values, NEW bookable \in BOOLEAN,
             Accepted(work[s].kind, Answered(work[s], known), typed, bookable),
             Proceed(s, Answered(work[s], known),
                     IF work[s].kind = "manage" THEN "bookings"
                     ELSE CreateOrUpdateCandidate(Answered(work[s], known))),
             session' = session
      PROVE  Inv'
  <2> DEFINE a == [work[s] EXCEPT !.details = official, !.contact = known,
                                  !.new = (known = None)]
  <2>1. a = Answered(work[s], known) BY DEF Answered
  <2>2. official \in Details /\ known \in Contacts \cup {None}
    <3>1. official \in Details BY DEF Inv, TypeOK
    <3>2. \A l \in Existing(licences) : licences[l].person \in Contacts
      BY DEF Inv, LicencesHavePersons, Existing, TypeOK
    <3>3. Existing(contacts) \subseteq Contacts BY DEF Inv, TypeOK, Existing
    <3>. QED BY <3>1, <3>2, <3>3 DEF Known
  <2>3. a \in Work BY <1>2, <2>2 DEF Work
  <2>4. /\ a.details = official /\ a.contact = known /\ a.new = (known = None)
        /\ a.licence = None /\ a.kind = work[s].kind
    BY <1>2 DEF Work
  <2>. HIDE DEF a
  <2>5. PICK k \in {"bookings", "find", "createContact"} :
          /\ Proceed(s, a, k)
          /\ k \in {"bookings", "find"} => known # None
          /\ k = "createContact" => known = None
    <3>1. CASE work[s].kind = "manage"
      <4>1. known # None BY <1>6, <2>1, <2>4, <3>1 DEF Accepted
      <4>2. Proceed(s, a, "bookings") BY <1>6, <2>1, <3>1
      <4>. QED BY <4>1, <4>2
    <3>2. CASE work[s].kind # "manage" /\ known = None
      <4>1. CreateOrUpdateCandidate(a) = "createContact" BY <2>4, <3>2 DEF CreateOrUpdateCandidate
      <4>2. Proceed(s, a, "createContact") BY <1>6, <2>1, <3>2, <4>1
      <4>. QED BY <3>2, <4>2
    <3>3. CASE work[s].kind # "manage" /\ known # None
      <4>1. CreateOrUpdateCandidate(a) = "find" BY <2>4, <3>3 DEF CreateOrUpdateCandidate
      <4>2. Proceed(s, a, "find") BY <1>6, <2>1, <3>3, <4>1
      <4>. QED BY <3>3, <4>2
    <3>. QED BY <3>1, <3>2, <3>3
  <2>6. work' = [work EXCEPT ![s] = [a EXCEPT !.call = k]] BY <2>5 DEF Proceed
  <2>7. work'[s] = [a EXCEPT !.call = k] BY <2>6 DEF Inv, TypeOK
  <2>8. work' = [work EXCEPT ![s] = work'[s]] BY <2>6, <2>7
  <2>9. work'[s] \in Work BY <2>3, <2>7 DEF Work, Calls
  <2>10. /\ work'[s].call = k /\ work'[s].details = official /\ work'[s].contact = known
         /\ work'[s].new = (known = None) /\ work'[s].licence = None
    BY <2>3, <2>4, <2>7 DEF Work
  <2>11. known # None => known \in Existing(contacts)
    BY DEF Known, Inv, LicencesHavePersons
  <2>12. Existing(licences) = {} \/ (known # None /\ OwnLicences(known) # {})
    <3>1. ASSUME Existing(licences) # {} PROVE known # None /\ OwnLicences(known) # {}
      <4>1. PICK l \in Existing(licences) : known = licences[l].person BY <3>1 DEF Known
      <4>2. known \in Existing(contacts) BY <4>1 DEF Inv, LicencesHavePersons
      <4>3. known # None BY <4>2, ValuesAssumption DEF Existing, Inv, TypeOK
      <4>4. l \in OwnLicences(known) BY <4>1 DEF OwnLicences
      <4>. QED BY <4>3, <4>4
    <3>. QED BY <3>1
  <2>13. official # None BY <2>2, NoneAssumption
  <2>14. Informed(s)' BY <1>3, <2>5, <2>10, <2>11, <2>13 DEF Informed, Existing, WithContact, WithLicence
  <2>15. Existing(licences)' = Existing(licences) /\ OwnLicences(known)' = OwnLicences(known)
    BY <1>3 DEF Existing, OwnLicences
  <2>16. Relies(s)'
    <3>1. work'[s].call \in {"createContact", "createLicence"} => Existing(licences)' = {}
      BY <2>5, <2>10, <2>12, <2>15
    <3>2. work'[s].call \in {"bookings", "find"} =>
            Existing(licences)' = {} \/ OwnLicences(work[s].contact)' # {}
      BY <1>3, <2>10, <2>12, <2>15 DEF OwnLicences, Existing
    <3>. QED BY <2>5, <2>10, <3>1, <3>2 DEF Relies
  <2>. QED BY <1>1, <1>3, <1>4, <1>6, <2>8, <2>9, <2>14, <2>16, GoneOn
<1>. QED BY <1>5, <1>6 DEF AskEligibility

LEMMA LoadBookingsStep ==
  ASSUME Inv, NEW s \in Sessions, LoadBookings(s)
  PROVE  Inv'
<1>1. work[s] # None /\ work[s].call = "bookings" BY DEF LoadBookings
<1>2. /\ official' = official /\ overlapped' = overlapped
      /\ contacts' = contacts /\ licences' = licences
  BY DEF LoadBookings
<1>3. /\ contacts' \in [Contacts -> Details \cup {None}]
      /\ licences' \in [Licences -> Licence \cup {None}]
      /\ RecordsKept /\ LicencesHavePersons'
  BY <1>2, RecordsUntouched
<1>4. CASE GiveUp(s) BY <1>1, <1>2, <1>3, <1>4, GivenUp
<1>5. CASE Proceed(s, work[s], "find") /\ session' = session
  <2>1. work' = [work EXCEPT ![s] = [work[s] EXCEPT !.call = "find"]] BY <1>5 DEF Proceed
  <2>2. work'[s] = [work[s] EXCEPT !.call = "find"] BY <2>1 DEF Inv, TypeOK
  <2>3. work' = [work EXCEPT ![s] = work'[s]] BY <2>1, <2>2
  <2>4. work[s] \in Work BY <1>1, WorkFields DEF Inv
  <2>5. work'[s] \in Work BY <2>2, <2>4 DEF Work, Calls
  <2>6. /\ work'[s].call = "find" /\ work'[s].details = work[s].details
        /\ work'[s].contact = work[s].contact /\ work'[s].licence = work[s].licence
        /\ work'[s].new = work[s].new
    BY <2>2, <2>4 DEF Work
  <2>7. Informed(s) BY <1>1 DEF Inv
  <2>8. Informed(s)' BY <1>1, <1>2, <2>6, <2>7 DEF Informed, WithContact, WithLicence
  <2>9. ~overlapped => Relies(s) BY <1>1 DEF Inv, InTurn
  <2>10. ~overlapped => Relies(s)'
    BY <1>1, <1>2, <2>6, <2>9 DEF Relies, Existing, OwnLicences
  <2>. QED BY <1>1, <1>2, <1>3, <1>5, <2>3, <2>5, <2>8, <2>10, GoneOn
<1>. QED BY <1>4, <1>5 DEF LoadBookings

LEMMA FindLicenceStep ==
  ASSUME Inv, NEW s \in Sessions, FindLicence(s)
  PROVE  Inv'
<1>1. work[s] # None /\ work[s].call = "find" BY DEF FindLicence
<1>2. /\ official' = official /\ overlapped' = overlapped
      /\ contacts' = contacts /\ licences' = licences
  BY DEF FindLicence
<1>3. /\ contacts' \in [Contacts -> Details \cup {None}]
      /\ licences' \in [Licences -> Licence \cup {None}]
      /\ RecordsKept /\ LicencesHavePersons'
  BY <1>2, RecordsUntouched
<1>4. /\ work[s].details # None /\ work[s].contact # None /\ ~work[s].new
      /\ contacts[work[s].contact] # None
  BY <1>1 DEF Inv, Informed, WithContact
<1>5. /\ work[s] \in Work /\ work[s].details \in Details
      /\ work[s].contact \in Contacts
  BY <1>1, <1>4, WorkFields DEF Inv
<1>6. ~overlapped => Existing(licences) = {} \/ OwnLicences(work[s].contact) # {}
  BY <1>1 DEF Inv, InTurn, Relies
<1>7. CASE GiveUp(s) BY <1>1, <1>2, <1>3, <1>7, GivenUp
<1>8. CASE /\ OwnLicences(work[s].contact) = {}
           /\ Proceed(s, work[s], "createLicence") /\ session' = session
  <2>1. work' = [work EXCEPT ![s] = [work[s] EXCEPT !.call = "createLicence"]]
    BY <1>8 DEF Proceed
  <2>2. work'[s] = [work[s] EXCEPT !.call = "createLicence"] BY <2>1 DEF Inv, TypeOK
  <2>3. work' = [work EXCEPT ![s] = work'[s]] BY <2>1, <2>2
  <2>4. work'[s] \in Work BY <1>5, <2>2 DEF Work, Calls
  <2>5. /\ work'[s].call = "createLicence" /\ work'[s].details = work[s].details
        /\ work'[s].contact = work[s].contact /\ work'[s].licence = work[s].licence
        /\ work'[s].new = work[s].new
    BY <1>5, <2>2 DEF Work
  <2>6. Informed(s) BY <1>1 DEF Inv
  <2>7. Informed(s)' BY <1>2, <1>4, <2>5, <2>6 DEF Informed, WithLicence
  <2>8. ~overlapped => Existing(licences)' = {} BY <1>2, <1>6, <1>8 DEF Existing
  <2>9. ~overlapped => Relies(s)' BY <1>4, <2>5, <2>8 DEF Relies
  <2>. QED BY <1>1, <1>2, <1>3, <1>8, <2>3, <2>4, <2>7, <2>9, GoneOn
<1>9. ASSUME NEW l \in OwnLicences(work[s].contact),
             NEW w \in Work, NEW call \in {"updateLicence", "updateContact"},
             w.details = work[s].details, w.contact = work[s].contact, w.licence = l,
             w.new = work[s].new,
             call = "updateContact" => licences[l].address = w.details.address,
             Proceed(s, w, call), session' = session
      PROVE  Inv'
  <2>1. work' = [work EXCEPT ![s] = [w EXCEPT !.call = call]] BY <1>9 DEF Proceed
  <2>2. work'[s] = [w EXCEPT !.call = call] BY <2>1 DEF Inv, TypeOK
  <2>3. work' = [work EXCEPT ![s] = work'[s]] BY <2>1, <2>2
  <2>4. work'[s] \in Work BY <2>2 DEF Work, Calls
  <2>5. /\ work'[s].call = call /\ work'[s].details = work[s].details
        /\ work'[s].contact = work[s].contact /\ work'[s].licence = l
        /\ work'[s].new = work[s].new
    BY <1>9, <2>2 DEF Work
  <2>6. l \in Licences /\ licences[l] # None /\ licences[l].person = work[s].contact
    BY DEF OwnLicences, Existing, Inv, TypeOK
  <2>7. l # None BY <2>6, ValuesAssumption
  <2>8. Informed(s)' BY <1>2, <1>4, <2>5, <2>6, <2>7 DEF Informed
  <2>9. Relies(s)' BY <1>2, <1>9, <2>5 DEF Relies
  <2>. QED BY <1>1, <1>2, <1>3, <1>9, <2>3, <2>4, <2>8, <2>9, GoneOn
<1>10. ASSUME NEW l \in OwnLicences(work[s].contact),
              IF IsLicenceDataToBeUpdated(work[s].details, l)
              THEN /\ Proceed(s, [[work[s] EXCEPT !.licence = l] EXCEPT !.compare = TRUE],
                              "updateLicence")
                   /\ session' = session
              ELSE IF IsCandidateDataToBeUpdated(work[s].details, work[s].contact)
              THEN /\ Proceed(s, [work[s] EXCEPT !.licence = l], "updateContact")
                   /\ session' = session
              ELSE Aligned(s, [work[s] EXCEPT !.licence = l])
       PROVE  Inv'
  <2>1. l \in Licences /\ licences[l] # None /\ licences[l].person = work[s].contact
    BY DEF OwnLicences, Existing, Inv, TypeOK
  <2>2. PICK w \in Work : w = [work[s] EXCEPT !.licence = l] BY <1>5, <2>1 DEF Work
  <2>3. /\ w.details = work[s].details /\ w.contact = work[s].contact /\ w.licence = l
        /\ w.new = work[s].new
    BY <1>5, <2>2 DEF Work
  <2>4. CASE IsLicenceDataToBeUpdated(work[s].details, l)
    <3>1. PICK v \in Work : v = [w EXCEPT !.compare = TRUE] BY DEF Work
    <3>2. /\ v.details = work[s].details /\ v.contact = work[s].contact /\ v.licence = l
          /\ v.new = work[s].new
      BY <2>3, <3>1 DEF Work
    <3>3. Proceed(s, v, "updateLicence") /\ session' = session BY <1>10, <2>2, <2>4, <3>1
    <3>. QED BY <1>9, <3>2, <3>3
  <2>5. CASE /\ ~IsLicenceDataToBeUpdated(work[s].details, l)
             /\ IsCandidateDataToBeUpdated(work[s].details, work[s].contact)
    <3>1. Proceed(s, w, "updateContact") /\ session' = session BY <1>10, <2>2, <2>5
    <3>2. licences[l].address = w.details.address BY <2>3, <2>5 DEF IsLicenceDataToBeUpdated
    <3>. QED BY <1>9, <2>3, <3>1, <3>2
  <2>6. CASE /\ ~IsLicenceDataToBeUpdated(work[s].details, l)
             /\ ~IsCandidateDataToBeUpdated(work[s].details, work[s].contact)
    <3>1. Aligned(s, w) BY <1>10, <2>2, <2>6
    <3>2. licences'[l].address = w.details.address BY <1>2, <2>3, <2>6 DEF IsLicenceDataToBeUpdated
    <3>3. contacts'[w.contact].names = w.details.names
      BY <1>2, <2>3, <2>6 DEF IsCandidateDataToBeUpdated
    <3>4. w.licence # None BY <2>1, <2>3, ValuesAssumption
    <3>. QED BY <1>1, <1>2, <1>3, <1>4, <2>1, <2>3, <3>1, <3>2, <3>3, <3>4, AlignedStep
  <2>. QED BY <2>4, <2>5, <2>6
<1>. QED BY <1>7, <1>8, <1>10 DEF FindLicence

LEMMA UpdateLicenceStep ==
  ASSUME Inv, NEW s \in Sessions, UpdateLicence(s)
  PROVE  Inv'
<1>1. work[s] # None /\ work[s].call = "updateLicence" BY DEF UpdateLicence
<1>2. official' = official /\ overlapped' = overlapped /\ contacts' = contacts
  BY DEF UpdateLicence
<1>3. Informed(s) BY <1>1 DEF Inv
<1>4. /\ work[s].details # None /\ work[s].contact # None /\ work[s].licence # None
      /\ contacts[work[s].contact] # None
      /\ licences[work[s].licence] # None
      /\ licences[work[s].licence].person = work[s].contact
  BY <1>1, <1>3 DEF Informed, WithContact, WithLicence
<1>5. /\ work[s] \in Work /\ work[s].details \in Details
      /\ work[s].contact \in Contacts /\ work[s].licence \in Licences
  BY <1>1, <1>4, WorkFields DEF Inv
<1> DEFINE l == work[s].licence
           written == [licences EXCEPT ![l].address = work[s].details.address]
<1>6. \/ licences' = licences /\ GiveUp(s)
      \/ licences' = written /\ GiveUp(s)
      \/ licences' = written /\ Proceed(s, work[s], "updateContact") /\ session' = session
  BY DEF UpdateLicence, Outcomes
<1>7. CASE licences' = licences /\ GiveUp(s)
  BY <1>1, <1>2, <1>7, RecordsUntouched, GivenUp
<1>8. ASSUME licences' = written
      PROVE  /\ contacts' \in [Contacts -> Details \cup {None}]
             /\ licences' \in [Licences -> Licence \cup {None}]
             /\ RecordsKept /\ LicencesHavePersons'
             /\ licences'[l] # None /\ licences'[l].person = work[s].contact
             /\ licences'[l].address = work[s].details.address
  <2>1. licences \in [Licences -> Licence \cup {None}] BY DEF Inv, TypeOK
  <2>2. licences[l] \in Licence BY <1>4, <1>5, <2>1
  <2>3. work[s].details.address \in Values BY <1>5 DEF Details
  <2>4. licences'[l] = [licences[l] EXCEPT !.address = work[s].details.address]
    BY <1>5, <1>8, <2>1
  <2>5. /\ licences'[l] \in Licence /\ licences'[l].person = licences[l].person
        /\ licences'[l].address = work[s].details.address
    BY <2>2, <2>3, <2>4 DEF Licence
  <2>6. \A m \in Licences : m # l => licences'[m] = licences[m] BY <1>8, <2>1
  <2>7. licences' \in [Licences -> Licence \cup {None}] BY <1>5, <1>8, <2>1, <2>4, <2>5
  <2>8. licences'[l] # None BY <2>5, NoneAssumption
  <2>9. DOMAIN licences = Licences /\ DOMAIN licences' = Licences BY <2>1, <2>7
  <2>10. Existing(licences)' = Existing(licences) BY <1>4, <1>5, <2>6, <2>8, <2>9 DEF Existing
  <2>11. contacts' \in [Contacts -> Details \cup {None}] BY <1>2 DEF Inv, TypeOK
  <2>12. RecordsKept BY <1>2, <2>5, <2>6, <2>8 DEF RecordsKept
  <2>13. \A m \in Licences : licences'[m].person = licences[m].person BY <2>5, <2>6
  <2>14. Existing(licences) \subseteq Licences BY <2>9 DEF Existing
  <2>15. LicencesHavePersons'
    <3>1. Existing(contacts)' = Existing(contacts) BY <1>2 DEF Existing
    <3>. QED BY <2>10, <2>13, <2>14, <3>1 DEF LicencesHavePersons, Inv
  <2>. QED BY <1>4, <2>5, <2>7, <2>8, <2>11, <2>12, <2>15
<1>9. CASE licences' = written /\ GiveUp(s) BY <1>1, <1>2, <1>8, <1>9, GivenUp
<1>10. CASE licences' = written /\ Proceed(s, work[s], "updateContact") /\ session' = session
  <2>1. work' = [work EXCEPT ![s] = [work[s] EXCEPT !.call = "updateContact"]]
    BY <1>10 DEF Proceed
  <2>2. work'[s] = [work[s] EXCEPT !.call = "updateContact"] BY <2>1 DEF Inv, TypeOK
  <2>3. work' = [work EXCEPT ![s] = work'[s]] BY <2>1, <2>2
  <2>4. work'[s] \in Work BY <1>5, <2>2 DEF Work, Calls
  <2>5. /\ work'[s].call = "updateContact" /\ work'[s].details = work[s].details
        /\ work'[s].contact = work[s].contact /\ work'[s].licence = work[s].licence
    BY <1>5, <2>2 DEF Work
  <2>6. Informed(s)' BY <1>2, <1>4, <1>8, <1>10, <2>5 DEF Informed
  <2>7. Relies(s)' BY <1>8, <1>10, <2>5 DEF Relies
  <2>. QED BY <1>1, <1>2, <1>8, <1>10, <2>3, <2>4, <2>6, <2>7, GoneOn
<1>. QED BY <1>6, <1>7, <1>9, <1>10

(* A contact that is written or made, the licences left alone. *)
LEMMA ContactWritten ==
  ASSUME Inv, NEW c \in Contacts, NEW d \in Details,
         contacts' = [contacts EXCEPT ![c] = d], licences' = licences
  PROVE  /\ contacts' \in [Contacts -> Details \cup {None}]
         /\ licences' \in [Licences -> Licence \cup {None}]
         /\ RecordsKept /\ LicencesHavePersons'
         /\ contacts'[c] = d /\ contacts'[c] # None
<1>1. contacts \in [Contacts -> Details \cup {None}] BY DEF Inv, TypeOK
<1>2. contacts' \in [Contacts -> Details \cup {None}] BY <1>1
<1>3. contacts'[c] = d /\ \A e \in Contacts : e # c => contacts'[e] = contacts[e]
  BY <1>1
<1>4. d # None BY NoneAssumption
<1>5. RecordsKept BY <1>3, <1>4 DEF RecordsKept
<1>6. Existing(contacts) \subseteq Existing(contacts)'
  BY <1>1, <1>2, <1>3, <1>4 DEF Existing
<1>7. Existing(licences)' = Existing(licences) BY DEF Existing
<1>8. LicencesHavePersons' BY <1>6, <1>7 DEF LicencesHavePersons, Inv
<1>9. licences' \in [Licences -> Licence \cup {None}] BY DEF Inv, TypeOK
<1>. QED BY <1>2, <1>3, <1>4, <1>5, <1>8, <1>9

LEMMA UpdateContactStep ==
  ASSUME Inv, NEW s \in Sessions, UpdateContact(s)
  PROVE  Inv'
<1>1. work[s] # None /\ work[s].call = "updateContact" BY DEF UpdateContact
<1>2. official' = official /\ overlapped' = overlapped /\ licences' = licences
  BY DEF UpdateContact
<1>3. Informed(s) BY <1>1 DEF Inv
<1>4. /\ work[s].details # None /\ work[s].contact # None /\ work[s].licence # None
      /\ licences[work[s].licence] # None
      /\ licences[work[s].licence].person = work[s].contact
  BY <1>1, <1>3 DEF Informed, WithContact, WithLicence
<1>5. /\ work[s] \in Work /\ work[s].details \in Details
      /\ work[s].contact \in Contacts /\ work[s].licence \in Licences
  BY <1>1, <1>4, WorkFields DEF Inv
<1>6. ~overlapped => licences[work[s].licence].address = work[s].details.address
  BY <1>1 DEF Inv, InTurn, Relies
<1> DEFINE written == [contacts EXCEPT ![work[s].contact] = work[s].details]
<1>7. \/ contacts' = contacts /\ GiveUp(s)
      \/ contacts' = written /\ GiveUp(s)
      \/ contacts' = written /\ Aligned(s, work[s])
      \/ /\ contacts' = written /\ session' = session
         /\ Proceed(s, [work[s] EXCEPT !.compare = FALSE], "updateContact")
  BY DEF UpdateContact, Outcomes
<1>8. CASE contacts' = contacts /\ GiveUp(s)
  BY <1>1, <1>2, <1>8, RecordsUntouched, GivenUp
<1>9. ASSUME contacts' = written
      PROVE  /\ contacts' \in [Contacts -> Details \cup {None}]
             /\ licences' \in [Licences -> Licence \cup {None}]
             /\ RecordsKept /\ LicencesHavePersons'
             /\ contacts'[work[s].contact] = work[s].details
             /\ contacts'[work[s].contact] # None
  BY <1>2, <1>5, <1>9, ContactWritten
<1>10. CASE contacts' = written /\ GiveUp(s) BY <1>1, <1>2, <1>9, <1>10, GivenUp
<1>11. CASE contacts' = written /\ Aligned(s, work[s])
  <2>1. PICK w \in Work : w = work[s] BY <1>5
  <2>2. Aligned(s, w) BY <1>11, <2>1
  <2>3. ~overlapped => /\ contacts'[w.contact].names = w.details.names
                       /\ licences'[w.licence].address = w.details.address
    BY <1>2, <1>6, <1>9, <1>11, <2>1
  <2>. QED BY <1>1, <1>2, <1>4, <1>9, <1>11, <2>1, <2>2, <2>3, AlignedStep
<1>12. CASE /\ contacts' = written /\ session' = session
            /\ Proceed(s, [work[s] EXCEPT !.compare = FALSE], "updateContact")
  <2>1. PICK w \in Work : w = [work[s] EXCEPT !.compare = FALSE] BY <1>5 DEF Work
  <2>2. /\ w.details = work[s].details /\ w.contact = work[s].contact
        /\ w.licence = work[s].licence
    BY <1>5, <2>1 DEF Work
  <2>3. work' = [work EXCEPT ![s] = [w EXCEPT !.call = "updateContact"]]
    BY <1>12, <2>1 DEF Proceed
  <2>4. work'[s] = [w EXCEPT !.call = "updateContact"] BY <2>3 DEF Inv, TypeOK
  <2>5. work' = [work EXCEPT ![s] = work'[s]] BY <2>3, <2>4
  <2>6. work'[s] \in Work BY <2>4 DEF Work, Calls
  <2>7. /\ work'[s].call = "updateContact" /\ work'[s].details = work[s].details
        /\ work'[s].contact = work[s].contact /\ work'[s].licence = work[s].licence
    BY <2>2, <2>4 DEF Work
  <2>8. Informed(s)' BY <1>2, <1>4, <1>9, <1>12, <2>7 DEF Informed
  <2>9. ~overlapped => Relies(s)' BY <1>2, <1>6, <2>7 DEF Relies
  <2>. QED BY <1>1, <1>2, <1>9, <1>12, <2>5, <2>6, <2>8, <2>9, GoneOn
<1>. QED BY <1>7, <1>8, <1>10, <1>11, <1>12

LEMMA CreateContactStep ==
  ASSUME Inv, NEW s \in Sessions, CreateContact(s)
  PROVE  Inv'
<1>1. work[s] # None /\ work[s].call = "createContact" BY DEF CreateContact
<1>2. official' = official /\ overlapped' = overlapped /\ licences' = licences
  BY DEF CreateContact
<1>3. Informed(s) BY <1>1 DEF Inv
<1>4. work[s].details # None /\ work[s].licence = None BY <1>1, <1>3 DEF Informed
<1>5. work[s] \in Work /\ work[s].details \in Details BY <1>1, <1>4, WorkFields DEF Inv
<1>6. ~overlapped => Existing(licences) = {} BY <1>1 DEF Inv, InTurn, Relies
<1>7. CASE GiveUp(s) /\ contacts' = contacts
  BY <1>1, <1>2, <1>7, RecordsUntouched, GivenUp
<1>8. ASSUME NEW c \in Contacts \ Existing(contacts),
             contacts' = [contacts EXCEPT ![c] = work[s].details],
             \/ Proceed(s, [work[s] EXCEPT !.contact = c], "createLicence") /\ session' = session
             \/ GiveUp(s)
      PROVE  Inv'
  <2>1. /\ contacts' \in [Contacts -> Details \cup {None}]
        /\ licences' \in [Licences -> Licence \cup {None}]
        /\ RecordsKept /\ LicencesHavePersons'
        /\ contacts'[c] = work[s].details /\ contacts'[c] # None
    BY <1>2, <1>5, <1>8, ContactWritten
  <2>2. CASE GiveUp(s) BY <1>1, <1>2, <2>1, <2>2, GivenUp
  <2>3. CASE Proceed(s, [work[s] EXCEPT !.contact = c], "createLicence") /\ session' = session
    <3>1. PICK w \in Work : w = [work[s] EXCEPT !.contact = c] BY <1>5 DEF Work
    <3>2. w.details = work[s].details /\ w.contact = c /\ w.licence = None
      BY <1>4, <1>5, <3>1 DEF Work
    <3>3. work' = [work EXCEPT ![s] = [w EXCEPT !.call = "createLicence"]]
      BY <2>3, <3>1 DEF Proceed
    <3>4. work'[s] = [w EXCEPT !.call = "createLicence"] BY <3>3 DEF Inv, TypeOK
    <3>5. work' = [work EXCEPT ![s] = work'[s]] BY <3>3, <3>4
    <3>6. work'[s] \in Work BY <3>4 DEF Work, Calls
    <3>7. /\ work'[s].call = "createLicence" /\ work'[s].details = work[s].details
          /\ work'[s].contact = c /\ work'[s].licence = None
      BY <3>2, <3>4 DEF Work
    <3>8. c # None BY ValuesAssumption
    <3>9. Informed(s)' BY <1>4, <2>1, <3>7, <3>8 DEF Informed, WithLicence
    <3>10. ~overlapped => Existing(licences)' = {} BY <1>2, <1>6 DEF Existing
    <3>11. ~overlapped => Relies(s)' BY <2>1, <3>7, <3>10 DEF Relies
    <3>. QED BY <1>1, <1>2, <2>1, <2>3, <3>5, <3>6, <3>9, <3>11, GoneOn
  <2>. QED BY <1>8, <2>2, <2>3
<1>. QED BY <1>7, <1>8 DEF CreateContact

LEMMA CreateLicenceStep ==
  ASSUME Inv, NEW s \in Sessions, CreateLicence(s)
  PROVE  Inv'
<1>1. work[s] # None /\ work[s].call = "createLicence" BY DEF CreateLicence
<1>2. official' = official /\ overlapped' = overlapped /\ contacts' = contacts
  BY DEF CreateLicence
<1>3. Informed(s) BY <1>1 DEF Inv
<1>4. /\ work[s].details # None /\ work[s].contact # None
      /\ contacts[work[s].contact] # None
  BY <1>1, <1>3 DEF Informed, WithContact
<1>5. /\ work[s] \in Work /\ work[s].details \in Details
      /\ work[s].contact \in Contacts
  BY <1>1, <1>4, WorkFields DEF Inv
<1>6. ~overlapped =>
        /\ Existing(licences) = {}
        /\ work[s].new => contacts[work[s].contact].names = work[s].details.names
  BY <1>1 DEF Inv, InTurn, Relies
<1>7. CASE GiveUp(s) /\ licences' = licences
  BY <1>1, <1>2, <1>7, RecordsUntouched, GivenUp
<1>8. ASSUME NEW l \in Licences \ Existing(licences),
             licences' = [licences EXCEPT ![l] = [person |-> work[s].contact,
                                                  address |-> work[s].details.address]],
             \/ Proceed(s, LicenceCreated(work[s], l), "updateContact") /\ session' = session
             \/ work[s].new /\ Aligned(s, LicenceCreated(work[s], l))
             \/ GiveUp(s)
      PROVE  Inv'
  <2> DEFINE record == [person |-> work[s].contact, address |-> work[s].details.address]
  <2>1. licences \in [Licences -> Licence \cup {None}]
        /\ contacts \in [Contacts -> Details \cup {None}]
    BY DEF Inv, TypeOK
  <2>2. record \in Licence BY <1>5 DEF Licence, Details
  <2>3. licences' = [licences EXCEPT ![l] = record] BY <1>8
  <2>4. record.person = work[s].contact /\ record.address = work[s].details.address OBVIOUS
  <2>5. record # None BY <2>2, NoneAssumption
  <2>. HIDE DEF record
  <2>6. licences' \in [Licences -> Licence \cup {None}] BY <2>1, <2>2, <2>3
  <2>7. licences'[l] = record /\ \A m \in Licences : m # l => licences'[m] = licences[m]
    BY <2>1, <2>3
  <2>8. contacts' \in [Contacts -> Details \cup {None}] BY <1>2, <2>1
  <2>9. Existing(licences)' = Existing(licences) \cup {l}
    BY <2>1, <2>5, <2>6, <2>7 DEF Existing
  <2>10. RecordsKept
    <3>1. licences[l] = None BY <2>1 DEF Existing
    <3>. QED BY <1>2, <2>7, <3>1 DEF RecordsKept
  <2>11. LicencesHavePersons'
    <3>1. Existing(contacts)' = Existing(contacts) BY <1>2 DEF Existing
    <3>2. work[s].contact \in Existing(contacts) BY <1>4, <1>5, <2>1 DEF Existing
    <3>3. Existing(licences) \subseteq Licences BY <2>1 DEF Existing
    <3>4. \A m \in Existing(licences) : licences'[m] = licences[m] BY <2>7, <3>3
    <3>. QED BY <2>4, <2>7, <2>9, <3>1, <3>2, <3>4 DEF LicencesHavePersons, Inv
  <2>12. CASE GiveUp(s) BY <1>1, <1>2, <2>6, <2>8, <2>10, <2>11, <2>12, GivenUp
  <2>13. PICK w \in Work : w = LicenceCreated(work[s], l) BY <1>5 DEF Work, LicenceCreated
  <2>14. w.details = work[s].details /\ w.contact = work[s].contact /\ w.licence = l
    BY <1>5, <2>13 DEF Work, LicenceCreated
  <2>15. l # None BY ValuesAssumption
  <2>16. CASE Proceed(s, LicenceCreated(work[s], l), "updateContact") /\ session' = session
    <3>1. work' = [work EXCEPT ![s] = [w EXCEPT !.call = "updateContact"]]
      BY <2>13, <2>16 DEF Proceed
    <3>2. work'[s] = [w EXCEPT !.call = "updateContact"] BY <3>1 DEF Inv, TypeOK
    <3>3. work' = [work EXCEPT ![s] = work'[s]] BY <3>1, <3>2
    <3>4. work'[s] \in Work BY <3>2 DEF Work, Calls
    <3>5. /\ work'[s].call = "updateContact" /\ work'[s].details = work[s].details
          /\ work'[s].contact = work[s].contact /\ work'[s].licence = l
      BY <2>14, <3>2 DEF Work
    <3>6. Informed(s)' BY <1>2, <1>4, <2>4, <2>5, <2>7, <2>15, <3>5 DEF Informed
    <3>7. Relies(s)' BY <2>4, <2>7, <3>5 DEF Relies
    <3>. QED BY <1>1, <1>2, <2>6, <2>8, <2>10, <2>11, <2>16, <3>3, <3>4, <3>6, <3>7,
                GoneOn
  <2>17. CASE work[s].new /\ Aligned(s, LicenceCreated(work[s], l))
    <3>1. Aligned(s, w) BY <2>13, <2>17
    <3>2. ~overlapped => /\ contacts'[w.contact].names = w.details.names
                         /\ licences'[w.licence].address = w.details.address
      BY <1>2, <1>6, <2>4, <2>7, <2>14, <2>17
    <3>. QED BY <1>1, <1>2, <1>4, <2>4, <2>5, <2>6, <2>7, <2>8, <2>10, <2>11, <2>14,
                <2>15, <3>1, <3>2, AlignedStep
  <2>. QED BY <1>8, <2>12, <2>16, <2>17
<1>. QED BY <1>7, <1>8 DEF CreateLicence

LEMMA FindReferenceStep ==
  ASSUME Inv, NEW s \in Sessions, FindReference(s)
  PROVE  Inv'
<1>1. work[s] # None /\ work[s].call = "reference" BY DEF FindReference
<1>2. /\ official' = official /\ overlapped' = overlapped
      /\ contacts' = contacts /\ licences' = licences
  BY DEF FindReference
<1>3. /\ contacts' \in [Contacts -> Details \cup {None}]
      /\ licences' \in [Licences -> Licence \cup {None}]
      /\ RecordsKept /\ LicencesHavePersons'
  BY <1>2, RecordsUntouched
<1>4. CASE GiveUp(s) BY <1>1, <1>2, <1>3, <1>4, GivenUp
<1>5. CASE SignedIn(s, work[s])
  <2>1. PICK w \in Work : w = work[s] BY <1>1, WorkFields DEF Inv
  <2>2. SignedIn(s, w) BY <1>5, <2>1
  <2>3. Informed(s) BY <1>1 DEF Inv
  <2>4. /\ w.details # None /\ w.contact # None /\ w.licence # None
        /\ contacts[w.contact] # None
        /\ licences[w.licence] # None /\ licences[w.licence].person = w.contact
    BY <1>1, <2>1, <2>3 DEF Informed, WithContact, WithLicence
  <2>5. ~overlapped => /\ contacts[w.contact].names = w.details.names
                       /\ licences[w.licence].address = w.details.address
    BY <1>1, <2>1 DEF Inv, InTurn, Relies
  <2>. QED BY <1>1, <1>2, <1>3, <2>2, <2>4, <2>5, AlignedStep
<1>. QED BY <1>4, <1>5 DEF FindReference

LEMMA CrashStep ==
  ASSUME Inv, NEW s \in Sessions, Crash(s)
  PROVE  Inv'
BY RecordsUntouched, GivenUp DEF Crash

LEMMA StartStep ==
  ASSUME Inv, NEW s \in Sessions, Start(s)
  PROVE  Inv'
<1>1. PICK kind \in Kinds :
        work' = [work EXCEPT ![s] =
          [kind |-> kind, call |-> "eligibility", details |-> None,
           contact |-> None, new |-> FALSE, licence |-> None, compare |-> FALSE]]
  BY DEF Start
<1>2. /\ work[s] = None /\ overlapped' = (\E t \in Sessions : work[t] # None)
      /\ official' = official /\ contacts' = contacts
      /\ licences' = licences /\ session' = session
  BY DEF Start
<1> DEFINE first == [kind |-> kind, call |-> "eligibility", details |-> None,
                     contact |-> None, new |-> FALSE, licence |-> None, compare |-> FALSE]
<1>3. first \in Work BY DEF Work, Calls
<1>4. /\ first.call = "eligibility" /\ first.contact = None /\ first.licence = None
      /\ first.new = FALSE
  OBVIOUS
<1>5. work' = [work EXCEPT ![s] = first] BY <1>1
<1>. HIDE DEF first
<1>6. work'[s] = first /\ \A t \in Sessions : t # s => work'[t] = work[t]
  BY <1>5 DEF Inv, TypeOK
<1>7. TypeOK'
  <2>1. work' \in [Sessions -> Work \cup {None}] BY <1>3, <1>5 DEF Inv, TypeOK
  <2>2. overlapped' \in BOOLEAN BY <1>2 DEF Inv, TypeOK
  <2>. QED BY <1>2, <2>1, <2>2 DEF Inv, TypeOK
<1>8. ASSUME NEW t \in Sessions, work'[t] # None PROVE Informed(t)'
  <2>1. CASE t = s
    BY <1>2, <1>4, <1>6, <2>1 DEF Informed, WithContact, WithLicence
  <2>2. CASE t # s
    <3>1. Informed(t) /\ work'[t] = work[t] BY <1>6, <1>8, <2>2 DEF Inv
    <3>. QED BY <1>2, <3>1 DEF Informed
  <2>. QED BY <2>1, <2>2
<1>9. LicencesHavePersons' BY <1>2 DEF Inv, LicencesHavePersons, Existing
<1>10. \A t \in Sessions : session'[t] # None => OnePerson(t)' BY <1>2 DEF Inv, OnePerson
<1>11. InTurn'
  <2>. SUFFICES ASSUME ~overlapped'
       PROVE  /\ \A t, u \in Sessions : work'[t] # None /\ work'[u] # None => t = u
              /\ \A t \in Sessions : work'[t] # None => Relies(t)'
    BY DEF InTurn
  <2>1. \A t \in Sessions : work[t] = None BY <1>2
  <2>2. \A t \in Sessions : work'[t] # None => t = s BY <1>6, <2>1
  <2>3. Relies(s)' BY <1>4, <1>6 DEF Relies
  <2>. QED BY <2>2, <2>3
<1>. QED BY <1>7, <1>8, <1>9, <1>10, <1>11 DEF Inv

LEMMA LeaveStep ==
  ASSUME Inv, NEW s \in Sessions, Leave(s)
  PROVE  Inv'
<1>1. /\ session' = [session EXCEPT ![s] = None]
      /\ official' = official /\ contacts' = contacts /\ licences' = licences
      /\ work' = work /\ overlapped' = overlapped
  BY DEF Leave
<1>2. \A t \in Sessions : session'[t] # None => session'[t] = session[t]
  BY <1>1 DEF Inv, TypeOK
<1>3. TypeOK'
  <2>1. session' \in [Sessions -> Candidate \cup {None}] BY <1>1 DEF Inv, TypeOK
  <2>. QED BY <1>1, <2>1 DEF Inv, TypeOK
<1>4. \A t \in Sessions : work'[t] # None => Informed(t)' BY <1>1 DEF Inv, Informed
<1>5. LicencesHavePersons' BY <1>1 DEF Inv, LicencesHavePersons, Existing
<1>6. \A t \in Sessions : session'[t] # None => OnePerson(t)' BY <1>1, <1>2 DEF Inv, OnePerson
<1>7. InTurn' BY <1>1 DEF Inv, InTurn, Relies, Existing, OwnLicences
<1>. QED BY <1>3, <1>4, <1>5, <1>6, <1>7 DEF Inv

LEMMA ChangeStep ==
  ASSUME Inv, Change
  PROVE  Inv'
<1>1. /\ official' \in Details /\ session' = session
      /\ contacts' = contacts /\ licences' = licences
      /\ work' = work /\ overlapped' = overlapped
  BY DEF Change
<1>2. TypeOK' BY <1>1 DEF Inv, TypeOK
<1>3. \A t \in Sessions : work'[t] # None => Informed(t)' BY <1>1 DEF Inv, Informed
<1>4. LicencesHavePersons' BY <1>1 DEF Inv, LicencesHavePersons, Existing
<1>5. \A t \in Sessions : session'[t] # None => OnePerson(t)' BY <1>1 DEF Inv, OnePerson
<1>6. InTurn' BY <1>1 DEF Inv, InTurn, Relies, Existing, OwnLicences
<1>. QED BY <1>2, <1>3, <1>4, <1>5, <1>6 DEF Inv

LEMMA StutterStep ==
  ASSUME Inv, UNCHANGED vars
  PROVE  Inv'
<1>1. /\ official' = official /\ session' = session
      /\ contacts' = contacts /\ licences' = licences
      /\ work' = work /\ overlapped' = overlapped
  BY DEF vars
<1>2. TypeOK' BY <1>1 DEF Inv, TypeOK
<1>3. \A t \in Sessions : work'[t] # None => Informed(t)' BY <1>1 DEF Inv, Informed
<1>4. LicencesHavePersons' BY <1>1 DEF Inv, LicencesHavePersons, Existing
<1>5. \A t \in Sessions : session'[t] # None => OnePerson(t)' BY <1>1 DEF Inv, OnePerson
<1>6. InTurn' BY <1>1 DEF Inv, InTurn, Relies, Existing, OwnLicences
<1>. QED BY <1>2, <1>3, <1>4, <1>5, <1>6 DEF Inv

LEMMA InitEstablishes == Init => Inv
<1>. SUFFICES ASSUME Init PROVE Inv OBVIOUS
<1>1. TypeOK BY DEF Init, TypeOK
<1>2. /\ Existing(licences) = {} /\ overlapped = FALSE
      /\ \A s \in Sessions : work[s] = None /\ session[s] = None
  BY DEF Init, Existing
<1>3. LicencesHavePersons BY <1>2 DEF LicencesHavePersons
<1>4. InTurn BY <1>2 DEF InTurn
<1>. QED BY <1>1, <1>2, <1>3, <1>4 DEF Inv

LEMMA InvAlways == Spec => []Inv
<1>1. Inv /\ [Next]_vars => Inv'
  BY AskEligibilityStep, LoadBookingsStep, FindLicenceStep, UpdateLicenceStep,
     UpdateContactStep, CreateContactStep, CreateLicenceStep, FindReferenceStep,
     CrashStep, StartStep, LeaveStep, ChangeStep, StutterStep DEF Next
<1>. QED BY InitEstablishes, <1>1, PTL DEF Spec

-----------------------------------------------------------------------------
(* Every variable of the sign-in and of the CRM's records keeps its type. *)
THEOREM SignInTypes == Spec => []TypeOK
<1>1. Inv => TypeOK BY DEF Inv
<1>. QED BY InvAlways, <1>1, PTL

(* However many browsers sign in at the same time, and whatever calls fail or *)
(* lose their answers, the licence of a session is a record of its contact    *)
(* (alignCandidateDataInCRM, createCandidateAndLicence).                      *)
THEOREM SessionsAreOnePerson == Spec => []SessionIsOnePerson
<1>1. Inv => SessionIsOnePerson BY DEF Inv, OnePerson, SessionIsOnePerson
<1>. QED BY InvAlways, <1>1, PTL

LEMMA SignedInSession ==
  ASSUME Inv, NEW s \in Sessions, NEW w, Aligned(s, w) \/ SignedIn(s, w),
         session'[s] # session[s]
  PROVE  session'[s] = [contact |-> w.contact, licence |-> w.licence]
BY DEF Aligned, SignedIn, Inv, TypeOK

LEMMA OwnSession ==
  ASSUME Inv, NEW s \in Sessions, NEW t \in Sessions, t # s,
         \/ AskEligibility(t) \/ LoadBookings(t) \/ FindLicence(t) \/ UpdateLicence(t)
         \/ UpdateContact(t) \/ CreateContact(t) \/ CreateLicence(t) \/ FindReference(t)
         \/ Leave(t) \/ Crash(t) \/ Start(t)
  PROVE  session'[s] = session[s]
<1>1. \A w : Aligned(t, w) \/ SignedIn(t, w) => session'[s] = session[s]
  BY DEF Aligned, SignedIn, Inv, TypeOK
<1>. QED
  BY <1>1 DEF AskEligibility, LoadBookings, FindLicence, UpdateLicence, UpdateContact,
     CreateContact, CreateLicence, FindReference, Leave, Crash, Start, GiveUp, Inv, TypeOK

(* A sign-in that runs alone makes a record of the licence only when there is *)
(* none, though an earlier one failed, died or overlapped another             *)
(* (createOrUpdateCandidate, alignCandidateDataInCRM).                        *)
THEOREM SecondLicenceNeedsOverlap == Spec => NoSecondLicence
<1> DEFINE Added == Existing(licences') # Existing(licences)
<1>1. ASSUME Inv, [Next]_vars, Added, ~overlapped PROVE Existing(licences) = {}
  <2>1. licences' # licences BY <1>1
  <2>2. PICK s \in Sessions : UpdateLicence(s) \/ CreateLicence(s)
    BY <1>1, <2>1
    DEF Next, vars, Change, Start, AskEligibility, LoadBookings, FindLicence, UpdateContact,
        CreateContact, FindReference, Leave, Crash
  <2>3. CASE UpdateLicence(s)
    <3>1. /\ work[s] # None /\ work[s].call = "updateLicence"
          /\ licences' = [licences EXCEPT ![work[s].licence].address = work[s].details.address]
      BY <2>1, <2>3 DEF UpdateLicence
    <3>2. Informed(s) BY <1>1, <3>1 DEF Inv
    <3>3. /\ work[s].licence \in Licences /\ licences[work[s].licence] # None
          /\ work[s].details \in Details
      BY <1>1, <3>1, <3>2, WorkFields DEF Inv, Informed, WithLicence
    <3>4. licences \in [Licences -> Licence \cup {None}] BY <1>1 DEF Inv, TypeOK
    <3>5. [licences[work[s].licence] EXCEPT !.address = work[s].details.address] \in Licence
      BY <3>3, <3>4 DEF Licence, Details
    <3>6. \A l \in Licences : licences'[l] # None <=> licences[l] # None
      BY <3>1, <3>3, <3>4, <3>5, NoneAssumption
    <3>7. DOMAIN licences' = DOMAIN licences /\ DOMAIN licences = Licences BY <3>1, <3>4
    <3>8. Existing(licences') = Existing(licences) BY <3>6, <3>7 DEF Existing
    <3>. QED BY <1>1, <3>8
  <2>4. CASE CreateLicence(s)
    <3>1. work[s] # None /\ work[s].call = "createLicence" BY <2>4 DEF CreateLicence
    <3>. QED BY <1>1, <3>1 DEF Inv, InTurn, Relies
  <2>. QED BY <2>2, <2>3, <2>4
<1>2. Inv /\ [Next]_vars => [Added /\ ~overlapped => Existing(licences) = {}]_vars BY <1>1
<1>. QED BY InvAlways, <1>2, PTL DEF Spec, NoSecondLicence

(* The moment the driver is signed in by a request that ran alone, the CRM has *)
(* the names that were answered and the address on the licence, whatever       *)
(* earlier requests left half done.  Of the contact's address it says nothing. *)
THEOREM SignInAloneIsCurrent == Spec => SignedInIsCurrent
<1> DEFINE Current(s) ==
      /\ contacts'[session'[s].contact].names = work[s].details.names
      /\ licences'[session'[s].licence].address = work[s].details.address
<1>1. ASSUME Inv, [Next]_vars, NEW s \in Sessions,
             session'[s] # session[s], session'[s] # None, ~overlapped
      PROVE  Current(s)
  <2>1. \/ AskEligibility(s) \/ LoadBookings(s) \/ FindLicence(s) \/ UpdateLicence(s)
        \/ UpdateContact(s) \/ CreateContact(s) \/ CreateLicence(s) \/ FindReference(s)
        \/ Leave(s) \/ Crash(s) \/ Start(s)
    BY <1>1, OwnSession DEF Next, vars, Change
  <2>2. CASE FindLicence(s)
    <3>1. /\ work[s] # None /\ work[s].call = "find"
          /\ contacts' = contacts /\ licences' = licences
      BY <2>2 DEF FindLicence
    <3>2. work[s] \in Work BY <1>1, <3>1, WorkFields DEF Inv
    <3>3. PICK l \in OwnLicences(work[s].contact) :
            /\ ~IsLicenceDataToBeUpdated(work[s].details, l)
            /\ ~IsCandidateDataToBeUpdated(work[s].details, work[s].contact)
            /\ Aligned(s, [work[s] EXCEPT !.licence = l])
      BY <1>1, <2>2 DEF FindLicence, GiveUp
    <3>4. l \in Licences BY <1>1 DEF OwnLicences, Existing, Inv, TypeOK
    <3>5. PICK w \in Work : w = [work[s] EXCEPT !.licence = l] BY <3>2, <3>4 DEF Work
    <3>6. w.contact = work[s].contact /\ w.licence = l BY <3>2, <3>5 DEF Work
    <3>7. session'[s] = [contact |-> w.contact, licence |-> w.licence]
      <4>1. Aligned(s, w) BY <3>3, <3>5
      <4>. QED BY <1>1, <4>1, SignedInSession
    <3>. QED BY <3>1, <3>3, <3>6, <3>7
              DEF IsLicenceDataToBeUpdated, IsCandidateDataToBeUpdated
  <2>3. CASE UpdateContact(s)
    <3>1. work[s] # None /\ work[s].call = "updateContact" /\ licences' = licences
      BY <2>3 DEF UpdateContact
    <3>2. contacts' = [contacts EXCEPT ![work[s].contact] = work[s].details] /\ Aligned(s, work[s])
      BY <1>1, <2>3 DEF UpdateContact, GiveUp
    <3>3. Informed(s) BY <1>1, <3>1 DEF Inv
    <3>4. work[s].contact \in Contacts
      BY <1>1, <3>1, <3>3, WorkFields DEF Inv, Informed, WithContact
    <3>5. contacts'[work[s].contact] = work[s].details BY <1>1, <3>2, <3>4 DEF Inv, TypeOK
    <3>6. licences[work[s].licence].address = work[s].details.address
      BY <1>1, <3>1 DEF Inv, InTurn, Relies
    <3>7. PICK w : w = work[s] OBVIOUS
    <3>8. session'[s] = [contact |-> w.contact, licence |-> w.licence]
      BY <1>1, <3>2, <3>7, SignedInSession
    <3>. QED BY <3>1, <3>5, <3>6, <3>7, <3>8
  <2>4. CASE CreateLicence(s)
    <3>1. work[s] # None /\ work[s].call = "createLicence" /\ contacts' = contacts
      BY <2>4 DEF CreateLicence
    <3>2. PICK l \in Licences \ Existing(licences) :
            /\ licences' = [licences EXCEPT ![l] = [person |-> work[s].contact,
                                                    address |-> work[s].details.address]]
            /\ work[s].new /\ Aligned(s, LicenceCreated(work[s], l))
      BY <1>1, <2>4 DEF CreateLicence, GiveUp
    <3>3. work[s] \in Work BY <1>1, <3>1, WorkFields DEF Inv
    <3>4. contacts[work[s].contact].names = work[s].details.names
      BY <1>1, <3>1, <3>2 DEF Inv, InTurn, Relies
    <3>5. licences'[l].address = work[s].details.address BY <1>1, <3>2 DEF Inv, TypeOK
    <3>6. PICK w : w = LicenceCreated(work[s], l) OBVIOUS
    <3>7. w.contact = work[s].contact /\ w.licence = l
      BY <3>3, <3>6 DEF LicenceCreated, Work
    <3>8. session'[s] = [contact |-> w.contact, licence |-> w.licence]
      BY <1>1, <3>2, <3>6, SignedInSession
    <3>. QED BY <3>1, <3>4, <3>5, <3>7, <3>8
  <2>5. CASE FindReference(s)
    <3>1. /\ work[s] # None /\ work[s].call = "reference"
          /\ contacts' = contacts /\ licences' = licences
      BY <2>5 DEF FindReference
    <3>2. SignedIn(s, work[s]) BY <1>1, <2>5 DEF FindReference, GiveUp
    <3>3. /\ contacts[work[s].contact].names = work[s].details.names
          /\ licences[work[s].licence].address = work[s].details.address
      BY <1>1, <3>1 DEF Inv, InTurn, Relies
    <3>4. PICK w : w = work[s] OBVIOUS
    <3>5. session'[s] = [contact |-> w.contact, licence |-> w.licence]
      BY <1>1, <3>2, <3>4, SignedInSession
    <3>. QED BY <3>1, <3>3, <3>4, <3>5
  <2>6. CASE AskEligibility(s) BY <1>1, <2>6 DEF AskEligibility, GiveUp
  <2>7. CASE LoadBookings(s) BY <1>1, <2>7 DEF LoadBookings, GiveUp
  <2>8. CASE UpdateLicence(s) BY <1>1, <2>8 DEF UpdateLicence, GiveUp
  <2>9. CASE CreateContact(s) BY <1>1, <2>9 DEF CreateContact, GiveUp
  <2>10. CASE Leave(s) BY <1>1, <2>10 DEF Leave, Inv, TypeOK
  <2>11. CASE Crash(s) BY <1>1, <2>11 DEF Crash, GiveUp
  <2>12. CASE Start(s) BY <1>1, <2>12 DEF Start
  <2>. QED
    BY <2>1, <2>2, <2>3, <2>4, <2>5, <2>6, <2>7, <2>8, <2>9, <2>10, <2>11, <2>12
<1>2. Inv /\ [Next]_vars =>
        [\A s \in Sessions :
           session'[s] # session[s] /\ session'[s] # None /\ ~overlapped =>
             /\ contacts'[session'[s].contact].names = work[s].details.names
             /\ licences'[session'[s].licence].address = work[s].details.address]_vars
  BY <1>1
<1>. QED BY InvAlways, <1>2, PTL DEF Spec, SignedInIsCurrent
===============================================================================
