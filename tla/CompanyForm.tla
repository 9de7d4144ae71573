---------------------------- MODULE CompanyForm ----------------------------
(***************************************************************************)
(* The form on a company's profile in the browser (CompanyEdit.tsx), over  *)
(* the requests of CompanyProfile and the register's answers to its        *)
(* lookups (lookup-api, gst-api, udyam-api and their providers).           *)
(*                                                                         *)
(* The form is loaded once.  Answers come when they come, to whatever the  *)
(* fields hold by then.                                                    *)
(***************************************************************************)
EXTENDS CompanyProfile

CONSTANTS
  MaxEdits,  \* bound: what the user does in all on the profile
  MaxClicks  \* bound: what the user does in all on the registrations

ASSUME FormAssumption == MaxEdits \in Nat /\ MaxClicks \in Nat

VARIABLES
  page,    \* the company the address names and the values in the form
  asked,   \* the CINs whose lookup has not been answered
  section, \* the section on registrations: the number typed, the session open
           \* for a number, and the entry the register returned.  slip, doubt are
           \* history: the number was changed while that session was opened
  calls,   \* its calls to the register that have not been answered
  inputs

browser == <<page, asked, section, calls, inputs>>
desk    == <<server, browser>>

Nowhere == "nowhere"
Closed  == [on |-> Nowhere, cin |-> None, facts |-> Typed]
Blank   == [typed |-> None, session |-> None, verified |-> None, entry |-> None, slip |-> FALSE, doubt |-> FALSE]

FormInit == ProfileInit /\ page = Closed /\ asked = {} /\ section = Blank /\ calls = {} /\ inputs = 0

\* Bound: the browser rests once no request is left to be made.
Alive == made < MaxRequests

Input ==
  /\ Alive /\ page.on # Nowhere /\ inputs' = inputs + 1
  /\ inputs < IF kind = "profile" THEN MaxEdits ELSE MaxClicks

\* The part of the page a behaviour follows.
OnProfile       == kind = "profile" /\ Input
OnRegistrations == kind \in {"gst", "udyam"} /\ Input

\* run() of the form: one request at a time.
Busy == \E r \in Requests : req[r].pc = "answer" \/ (req[r].pc = "run" /\ req[r].page)

-----------------------------------------------------------------------------
(* The profile *)

\* The server's copy goes into the form once, the Udyam number on record into its
\* field.
Open ==
  /\ Alive /\ page.on = Nowhere
  /\ \E c \in There :
       LET known == {n \in Numbers : kind = "udyam" /\ held[c][n] # None} IN
       /\ page' = [on |-> c, cin |-> cin[c], facts |-> facts[c]]
       /\ \E n \in IF known = {} THEN {None} ELSE known : section' = [Blank EXCEPT !.typed = n]
  /\ UNCHANGED <<server, asked, calls, inputs>>

\* Unmounting drops the state and whatever is still to be answered.
Leave ==
  /\ ~Busy /\ Input
  /\ page' = Closed /\ asked' = {} /\ section' = Blank /\ calls' = {}
  /\ UNCHANGED server

\* The history of the browser leads from one company's form to another's: the
\* address changes, the form stays.
Jump ==
  /\ ~Busy /\ Input
  /\ \E c \in There \ {page.on} : page' = [page EXCEPT !.on = c]
  /\ UNCHANGED <<server, asked, section, calls>>

\* A full CIN is looked up as soon as it is typed.
TypeCin(x) ==
  /\ x # page.cin /\ OnProfile
  /\ page' = [page EXCEPT !.cin = x]
  /\ asked' = IF x = None THEN asked ELSE asked \cup {x}
  /\ UNCHANGED <<server, section, calls>>

\* Leaving the field looks it up again.
Blur ==
  /\ page.cin \notin asked \cup {None} /\ OnProfile
  /\ asked' = asked \cup {page.cin}
  /\ UNCHANGED <<server, page, section, calls>>

TypeFacts ==
  /\ page.facts # Typed /\ OnProfile
  /\ page' = [page EXCEPT !.facts = Typed]
  /\ UNCHANGED <<server, asked, section, calls>>

\* validate-company: an entry, found in order or not, fills the form, whatever
\* CIN is in it now; no entry leaves it.
Answered(x) ==
  /\ Alive /\ x \in asked /\ asked' = asked \ {x}
  /\ \/ page' = [page EXCEPT !.facts = x]
     \/ UNCHANGED page
  /\ UNCHANGED <<server, section, calls, inputs>>

\* The whole form is sent, also while a lookup is out.
Save(r) ==
  /\ ~Busy /\ OnProfile
  /\ LET b == Body(page.cin, page.facts) IN
     Update(r, page.on, b, TRUE) \/ EdgeUpdate(r, page.on, b, TRUE)
  /\ UNCHANGED <<page, asked, section, calls>>

ImportFile(r) ==
  /\ ~Busy /\ OnProfile
  /\ \/ \E extract \in SUBSET Cins, full \in BOOLEAN : Import(r, page.on, extract, full, TRUE)
     \/ \E x \in Cins : EdgeImport(r, page.on, x, TRUE)
  /\ UNCHANGED <<page, asked, section, calls>>

-----------------------------------------------------------------------------
(* The registrations *)

FieldThere_WithSession == section.verified = None

\* The field is there until a session is open or an entry has come.
FieldThere == section.session = None /\ section.verified = None

TypeNumber(n) ==
  /\ FieldThere /\ n # section.typed /\ OnRegistrations
  /\ section' = [section EXCEPT !.typed = n]
  /\ UNCHANGED <<server, page, asked, calls>>

\* POST gst/session, udyam/session; also to have another CAPTCHA.
StartSession ==
  /\ section.verified = None /\ section.typed # None /\ calls = {} /\ OnRegistrations
  /\ FieldThere => ~Busy
  /\ calls' = {[ask |-> "session", number |-> section.typed]}
  /\ UNCHANGED <<server, page, asked, section>>

\* The field can be edited until the session is there.
SessionOpened(k) ==
  /\ Alive /\ k \in calls /\ k.ask = "session" /\ calls' = calls \ {k}
  /\ section' = [section EXCEPT !.session = k.number, !.slip = k.number # section.typed]
  /\ UNCHANGED <<server, page, asked, inputs>>

\* POST gst/verify, udyam/verify: the session, and the number in the field.  The
\* key that sends it works while another call is out.
SendCaptcha ==
  /\ section.session # None /\ section.verified = None /\ section.typed # None /\ OnRegistrations
  /\ calls' = calls \cup {[ask |-> "entry", session |-> section.session, number |-> section.typed, slip |-> section.slip]}
  /\ UNCHANGED <<server, page, asked, section>>

\* The register goes by the session or by the number, and may return an entry of
\* no fields.  A GST entry is labelled with the number sent, a Udyam entry with the
\* number in it, if it has one.
EntryReturned(k) ==
  /\ Alive /\ k \in calls /\ k.ask = "entry" /\ calls' = calls \ {k}
  /\ \E what \in Outcomes[kind] \cap Entered, n \in {k.session, k.number} :
       \E label \in {k.number} \cup (IF kind = "udyam" /\ what = "found" THEN {n} ELSE {}) :
         section' = [section EXCEPT !.verified = label, !.entry = IF what = "hollow" THEN Hollow ELSE n,
                                    !.session = None, !.doubt = k.slip]
  /\ UNCHANGED <<server, page, asked, inputs>>

\* Any other outcome: an error is shown.
CallFailed(k) ==
  /\ Alive /\ k \in calls /\ calls' = calls \ {k}
  /\ UNCHANGED <<server, page, asked, section, inputs>>

Cancel ==
  /\ section.session # None /\ section.verified = None /\ calls = {} /\ OnRegistrations
  /\ section' = [section EXCEPT !.session = None, !.slip = FALSE]
  /\ UNCHANGED <<server, page, asked, calls>>

Clear ==
  /\ section.verified # None /\ OnRegistrations
  /\ section' = [section EXCEPT !.verified = None, !.entry = None, !.doubt = FALSE]
  /\ UNCHANGED <<server, page, asked, calls>>

Add(r, e) == Register(r, page.on, e, TRUE) \/ EdgeRegister(r, page.on, e, TRUE)

SaveVerified(r) ==
  /\ section.verified # None /\ ~Busy /\ OnRegistrations
  /\ Add(r, Entry(section.verified, section.entry, section.doubt))
  /\ UNCHANGED <<page, asked, section, calls>>

SaveUnverified(r) ==
  /\ FieldThere /\ section.typed # None /\ calls = {} /\ ~Busy /\ OnRegistrations
  /\ Add(r, Entry(section.typed, Typed, FALSE))
  /\ UNCHANGED <<page, asked, section, calls>>

RemoveNumber(r) ==
  /\ ~Busy /\ (kind = "udyam" => FieldThere) /\ OnRegistrations
  /\ \E n \in Numbers : Remove(r, page.on, n, TRUE)
  /\ UNCHANGED <<page, asked, section, calls>>

StaffRow(r) ==
  /\ ~Busy /\ OnProfile
  /\ Staff(r, page.on, TRUE)
  /\ UNCHANGED <<page, asked, section, calls>>

\* A saved registration leaves its section; the company is fetched again, the
\* form keeps what it holds.  An answer that is lost is an error.
Returned(r) ==
  /\ req[r].pc = "answer" /\ req' = [req EXCEPT ![r] = NoRequest]
  /\ \/ /\ section' = CASE req[r].saved = "entry" /\ kind = "gst" -> Blank
                         [] req[r].saved = "entry" -> [Blank EXCEPT !.typed = section.typed]
                         [] req[r].saved = "typed" /\ kind = "gst" -> [section EXCEPT !.typed = None]
                         [] req[r].saved = "removal" /\ kind = "udyam" -> [section EXCEPT !.typed = None]
                         [] OTHER -> section
        /\ UNCHANGED faults
     \/ req[r].saved # "nothing" /\ faults < MaxFaults /\ faults' = faults + 1 /\ UNCHANGED section
  /\ UNCHANGED <<kind, rows, calendar, made, history, page, asked, calls, inputs>>

-----------------------------------------------------------------------------
User ==
  \/ Open \/ Leave \/ Jump \/ Blur \/ TypeFacts \/ StartSession \/ SendCaptcha \/ Cancel \/ Clear
  \/ \E x \in Cins \cup {None} : TypeCin(x)
  \/ \E n \in Numbers : TypeNumber(n)

Registry ==
  \/ \E x \in asked : Answered(x)
  \/ \E k \in calls : SessionOpened(k) \/ EntryReturned(k) \/ CallFailed(k)

FormNext ==
  \/ User
  \/ Registry
  \/ \E r \in Requests :
       \/ Save(r) \/ ImportFile(r) \/ SaveVerified(r) \/ SaveUnverified(r)
       \/ RemoveNumber(r) \/ StaffRow(r) \/ Returned(r)
       \/ (Others(r) \/ Serve(r)) /\ UNCHANGED browser

FormSpec == FormInit /\ [][FormNext]_desk

-----------------------------------------------------------------------------
=============================================================================
