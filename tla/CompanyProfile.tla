--------------------------- MODULE CompanyProfile ---------------------------
(***************************************************************************)
(* The profiles of the companies and the calendars generated from them     *)
(* (companies.service.ts, companies.routes.ts, and the edge functions of   *)
(* companies-api that write the same rows).                                *)
(*                                                                         *)
(* A request carries the steps it has yet to take.  It reads, writes rows  *)
(* and re-generates the calendar call by call; requests overlap, and may   *)
(* die between two steps.                                                  *)
(***************************************************************************)
EXTENDS Naturals, FiniteSets, Sequences, Registers

CONSTANTS
  Companies,
  Cins,        \* the identifiers the company register has given out
  Numbers,     \* the numbers of registrations: GSTINs, or Udyam numbers
  Requests,    \* handles of requests in flight
  MaxRequests, \* bound: requests made in all
  MaxFaults    \* bound: requests that die, answers that are lost

None   == "none"
Absent == "absent"
Typed  == "typed"
Hollow == "hollow"

\* None of these marks is a CIN, a number of a registration or a company.
Marks == {None, Absent, Typed, Hollow, "same"}

ASSUME ProfileAssumption ==
  /\ MaxRequests \in Nat /\ MaxFaults \in Nat
  /\ Marks \cap (Cins \cup Numbers \cup Companies) = {}

VARIABLES
  cin,       \* cin[c]: the CIN on the row, None, or Absent while there is no row
  facts,     \* facts[c]: whose register entry the name, date, state and type
             \* restate: a CIN's, or Typed by somebody
  kind,      \* what a behaviour follows, which is fixed: the "profile" proper, the
             \* "gst" or "udyam" registrations, or the "onboarding" of companies
  held,      \* held[c][n]: None, or whose register entry the row of number n
             \* restates: a number's, or Typed
  rest,      \* rest[c]: whether there are director rows
  calendar,  \* calendar[c]: the profile the last generation read
  req,       \* requests in flight
  made, faults,
  lagging,   \* history: companies whose calendar no request has made sure of
  unchecked, \* history: companies that took their CIN without a check that held
  slipped    \* history: registrations saved from a session opened for another

rows    == <<cin, facts, held, rest>>
history == <<lagging, unchecked, slipped>>
server  == <<kind, rows, calendar, req, made, faults, history>>

NoRequest == [pc |-> "idle"]
Nothing == [none |-> TRUE]

There == {c \in Companies : cin[c] # Absent}

\* What evaluation reads of a company (companyInclude).
Profile(c) == [facts |-> facts[c], held |-> held[c], rest |-> rest[c]]

ProfileInit ==
  /\ kind \in {"profile", "gst", "udyam", "onboarding"}
  /\ cin \in [Companies -> Cins \cup {None, Absent}]
  /\ \A c, d \in Companies : c # d /\ cin[c] = cin[d] => cin[c] \notin Cins
  /\ kind \in {"gst", "udyam"} => \A c \in Companies : cin[c] = None
  /\ kind = "onboarding" => \A c \in Companies : cin[c] = Absent
  /\ kind = "profile" => \E c \in Companies : cin[c] \in Cins
  /\ facts = [c \in Companies |-> IF cin[c] \in Cins THEN cin[c] ELSE Typed]
  /\ \E e \in (IF kind \in {"gst", "udyam"} THEN Companies \X Numbers ELSE {}) \cup {<<None, None>>} :
       held = [c \in Companies |-> [n \in Numbers |-> IF e = <<c, n>> THEN n ELSE None]]
  /\ rest  = [c \in Companies |-> FALSE]
  /\ calendar = [c \in Companies |-> Profile(c)]
  /\ req = [r \in Requests |-> NoRequest] /\ made = 0 /\ faults = 0
  /\ lagging = {} /\ unchecked = {} /\ slipped = {}

-----------------------------------------------------------------------------
(* Requests *)

\* syncCompany reads the profile, and writes the calendar it computed.
Sync == <<"plan", "calendar">>

\* A request on company c that has its steps to take; `page` tells whether the
\* form of the browser waits for the answer.
Begin(r, c, todo, body, page) ==
  /\ req[r] = NoRequest /\ made < MaxRequests /\ made' = made + 1
  /\ req' = [req EXCEPT ![r] = [pc |-> "run", of |-> c, todo |-> todo, body |-> body, page |-> page,
                                sure |-> TRUE, wrote |-> FALSE, saved |-> "nothing", plan |-> Nothing]]
  /\ UNCHANGED <<kind, rows, calendar, faults, history>>

At(r, step) == req[r].pc = "run" /\ req[r].todo # <<>> /\ Head(req[r].todo) = step

\* The request when it has taken a step, or ended: the form waits for an answer.
Ended(q, ok) == IF q.page THEN [pc |-> "answer", saved |-> IF ok THEN q.saved ELSE "nothing"] ELSE NoRequest
Stepped(q) == IF Tail(q.todo) = <<>> THEN Ended(q, TRUE) ELSE [q EXCEPT !.todo = Tail(@)]

Refuse(r)  == req' = [req EXCEPT ![r] = Ended(@, FALSE)]

\* It has written: what the others in flight have read is no longer sure.
Writes(r, after) ==
  req' = [q \in Requests |->
            IF q = r THEN Stepped([after EXCEPT !.wrote = TRUE])
            ELSE IF req[q].pc = "run" THEN [req[q] EXCEPT !.sure = FALSE] ELSE req[q]]

Wrote(r) == Writes(r, [req[r] EXCEPT !.body = Nothing])

Mark(set, c, doubtful) == IF doubtful THEN set \cup {c} ELSE set \ {c}

Plan(r) ==
  /\ At(r, "plan")
  /\ req' = [req EXCEPT ![r] = Stepped([@ EXCEPT !.plan = Profile(req[r].of), !.sure = TRUE])]
  /\ UNCHANGED <<kind, rows, calendar, made, faults, history>>

Generate(r) ==
  /\ At(r, "calendar") /\ Writes(r, [req[r] EXCEPT !.plan = Nothing])
  /\ LET q == req[r] IN
     /\ calendar' = [calendar EXCEPT ![q.of] = q.plan]
     /\ lagging'  = Mark(lagging, q.of, ~q.sure)
  /\ UNCHANGED <<kind, rows, made, faults, unchecked, slipped>>

-----------------------------------------------------------------------------
(* POST /companies, PATCH /companies/:id *)

Body(x, f) == [cin |-> x, facts |-> f]

\* What a form that is in order sends.
Bodies == {Body(None, Typed)} \cup {Body(x, x) : x \in Cins}

Holders(x, c) == {d \in Companies \ {c} : cin[d] = x}

\* Onboarding asks nobody whether the CIN is taken.
Create(r) ==
  \E c \in Companies \ There, b \in Bodies : Begin(r, c, <<"profile">> \o Sync, b, FALSE)

CinTaken_AmongNamed(x, c) == \E d \in Holders(x, c) : facts[d] = Typed

CinTaken(x, c) == x # None /\ Holders(x, c) # {}

\* The service generates the calendar, and the route generates it again.
Update(r, c, b, page) ==
  /\ c \in There /\ ~CinTaken(b.cin, c)
  /\ Begin(r, c, <<"checked">> \o Sync \o Sync, b, page)

WriteProfile(r) ==
  /\ At(r, "checked") \/ At(r, "profile")
  /\ Wrote(r)
  /\ LET q == req[r]  c == q.of IN
     /\ cin'   = [cin   EXCEPT ![c] = q.body.cin]
     /\ facts' = [facts EXCEPT ![c] = q.body.facts]
     /\ unchecked' = Mark(unchecked, c, q.body.cin # None /\ (At(r, "profile") \/ ~q.sure))
  /\ UNCHANGED <<kind, held, rest, calendar, made, faults, lagging, slipped>>

-----------------------------------------------------------------------------
(* POST /companies/:id/import-mca *)

\* The row of the extract taken: the one with the CIN on record, else the only one.
RecordFor(c, extract) ==
  IF cin[c] \in extract THEN {cin[c]} ELSE IF Cardinality(extract) = 1 THEN extract ELSE {}

\* Only what differs from the row just read is written; an extract may lack the
\* columns other than the CIN.
Import(r, c, extract, full, page) ==
  /\ c \in There
  /\ \E x \in RecordFor(c, extract) :
       Begin(r, c, <<"import", "signatories">> \o Sync,
             [cin |-> IF x = cin[c] THEN "same" ELSE x,
              facts |-> IF ~full \/ x = facts[c] THEN "same" ELSE x], page)

WriteImport(r) ==
  /\ At(r, "import") /\ Wrote(r)
  /\ LET q == req[r]  c == q.of IN
     /\ cin'   = IF q.body.cin = "same" THEN cin ELSE [cin EXCEPT ![c] = q.body.cin]
     /\ facts' = IF q.body.facts = "same" THEN facts ELSE [facts EXCEPT ![c] = q.body.facts]
     /\ unchecked' = IF q.body.cin = "same" THEN unchecked ELSE unchecked \cup {c}
  /\ UNCHANGED <<kind, held, rest, calendar, made, faults, lagging, slipped>>

\* The directors of the record, if it has any, are written one by one.
WriteSignatories(r) ==
  /\ At(r, "signatories") /\ Wrote(r)
  /\ \E some \in {rest[req[r].of], TRUE} : rest' = [rest EXCEPT ![req[r].of] = some]
  /\ UNCHANGED <<kind, cin, facts, held, calendar, made, faults, history>>

-----------------------------------------------------------------------------
(* Registrations, directors *)

\* What is sent of a registration: whose entry it restates, and whether the
\* number was changed while its session was opened.
Entry(n, f, slip) == [number |-> n, facts |-> f, slip |-> slip]

\* A hollow entry is saved as one; it restates nobody's.
Kept(e) == IF e.facts = Hollow THEN Typed ELSE e.facts

\* POST gst-registrations, PUT msme-registration.  The service generates the
\* calendar while its own row is still a promise; the route awaits the row and
\* generates it again.
Register_SyncedOnce(r, c, e, page) ==
  c \in There /\ Begin(r, c, Sync \o <<"registration">>, e, page)

Register(r, c, e, page) ==
  c \in There /\ Begin(r, c, Sync \o <<"registration">> \o Sync, e, page)

\* A GSTIN is on record once; the company's one Udyam row takes the new number.
WriteRegistration(r) ==
  /\ At(r, "registration")
  /\ LET q == req[r]  c == q.of  n == q.body.number IN
     IF kind = "gst" /\ held[c][n] # None
     THEN Refuse(r) /\ UNCHANGED <<held, slipped>>
     ELSE /\ Writes(r, [req[r] EXCEPT !.body = Nothing, !.saved = IF q.body.facts = Typed THEN "typed" ELSE "entry"])
          /\ held' = [held EXCEPT ![c] =
                       [m \in Numbers |-> IF m = n THEN Kept(q.body)
                                          ELSE IF kind = "udyam" THEN None ELSE @[m]]]
          /\ slipped' = Mark(slipped, <<c, n>>, q.body.slip)
  /\ UNCHANGED <<kind, cin, facts, rest, calendar, made, faults, lagging, unchecked>>

\* DELETE gst-registrations/:id, msme-registration.
Remove(r, c, n, page) ==
  /\ c \in There /\ held[c][n] # None
  /\ Begin(r, c, <<"removal">> \o Sync, [number |-> n], page)

WriteRemoval(r) ==
  /\ At(r, "removal")
  /\ LET q == req[r]
         gone == {n \in IF kind = "udyam" THEN Numbers ELSE {q.body.number} : held[q.of][n] # None} IN
     IF gone = {} /\ kind = "gst"
     THEN Refuse(r) /\ UNCHANGED held
     ELSE /\ Writes(r, [q EXCEPT !.body = Nothing, !.saved = "removal"])
          /\ held' = [held EXCEPT ![q.of] = [n \in Numbers |-> IF n \in gone THEN None ELSE @[n]]]
  /\ UNCHANGED <<kind, cin, facts, rest, calendar, made, faults, history>>

\* POST, PATCH and DELETE directors: whether any is left.
Staff(r, c, page) == c \in There /\ Begin(r, c, <<"directors">> \o Sync, [directors |-> ~rest[c]], page)

WriteDirectors(r) ==
  /\ At(r, "directors") /\ Wrote(r)
  /\ rest' = [rest EXCEPT ![req[r].of] = req[r].body.directors]
  /\ UNCHANGED <<kind, cin, facts, held, calendar, made, faults, history>>

-----------------------------------------------------------------------------
(* The edge functions: what they generate lacks its ids, so the calendar stays *)

\* PATCH asks for the one other holder; two make the question an error, which
\* counts as none.
EdgeUpdate(r, c, b, page) ==
  /\ c \in There /\ (b.cin # None => Cardinality(Holders(b.cin, c)) # 1)
  /\ Begin(r, c, <<"edge profile">>, b, page)

EdgeWriteProfile(r) ==
  /\ At(r, "edge profile") /\ Wrote(r)
  /\ LET q == req[r]  c == q.of IN
     /\ cin'   = [cin   EXCEPT ![c] = q.body.cin]
     /\ facts' = [facts EXCEPT ![c] = q.body.facts]
     /\ unchecked' = Mark(unchecked, c, q.body.cin # None /\ (~q.sure \/ CinTaken(q.body.cin, c)))
     /\ lagging'   = lagging \cup {c}
  /\ UNCHANGED <<kind, held, rest, calendar, made, faults, slipped>>

\* import-mca takes the first row when none has the CIN, and generates nothing.
EdgeImport(r, c, x, page) ==
  /\ c \in There
  /\ Begin(r, c, <<"edge import", "edge signatories">>,
           [cin |-> IF x = cin[c] THEN "same" ELSE x, facts |-> IF x = facts[c] THEN "same" ELSE x], page)

EdgeWriteImport(r) ==
  /\ At(r, "edge import") /\ Wrote(r)
  /\ LET q == req[r]  c == q.of IN
     /\ cin'   = IF q.body.cin = "same" THEN cin ELSE [cin EXCEPT ![c] = q.body.cin]
     /\ facts' = IF q.body.facts = "same" THEN facts ELSE [facts EXCEPT ![c] = q.body.facts]
     /\ unchecked' = IF q.body.cin = "same" THEN unchecked ELSE unchecked \cup {c}
     /\ lagging'   = lagging \cup {c}
  /\ UNCHANGED <<kind, held, rest, calendar, made, faults, slipped>>

EdgeWriteSignatories(r) ==
  /\ At(r, "edge signatories") /\ Wrote(r)
  /\ \E some \in {rest[req[r].of], TRUE} : rest' = [rest EXCEPT ![req[r].of] = some]
  /\ lagging' = lagging \cup {req[r].of}
  /\ UNCHANGED <<kind, cin, facts, held, calendar, made, faults, unchecked, slipped>>

\* gst-registrations and msme-registration, and import-gst with its certificate,
\* which takes over the row of its GSTIN.
EdgeRegister(r, c, e, page) ==
  c \in There /\ Begin(r, c, <<"edge registration">>, e, page)

EdgeImportCertificate(r, c, n) ==
  c \in There /\ Begin(r, c, <<"edge certificate">>, Entry(n, n, FALSE), FALSE)

EdgeWriteRegistration(r) ==
  /\ At(r, "edge registration") \/ At(r, "edge certificate")
  /\ LET q == req[r]  c == q.of  n == q.body.number IN
     IF kind = "gst" /\ held[c][n] # None /\ At(r, "edge registration")
     THEN Refuse(r) /\ UNCHANGED <<held, lagging, slipped>>
     ELSE /\ Writes(r, [req[r] EXCEPT !.body = Nothing, !.saved = IF q.body.facts = Typed THEN "typed" ELSE "entry"])
          /\ held' = [held EXCEPT ![c] =
                       [m \in Numbers |-> IF m = n THEN Kept(q.body)
                                          ELSE IF kind = "udyam" THEN None ELSE @[m]]]
          /\ lagging' = lagging \cup {c}
          /\ slipped' = Mark(slipped, <<c, n>>, q.body.slip)
  /\ UNCHANGED <<kind, cin, facts, rest, calendar, made, faults, unchecked>>

-----------------------------------------------------------------------------
\* A call fails, or the process dies; a company written and not yet in its
\* calendar is left so.
Die(r) ==
  /\ req[r].pc = "run" /\ faults < MaxFaults /\ faults' = faults + 1
  /\ Refuse(r)
  /\ lagging' = IF req[r].wrote THEN lagging \cup {req[r].of} ELSE lagging
  /\ UNCHANGED <<kind, rows, calendar, made, unchecked, slipped>>

\* Requests of others than the form: a second tab, the API.  Bound: one at a time.
ByOthers(r) ==
  \/ /\ kind = "profile"
     /\ \/ Create(r)
        \/ \E c \in There, b \in Bodies : Update(r, c, b, FALSE) \/ EdgeUpdate(r, c, b, FALSE)
        \/ \E c \in There, x \in Cins : Import(r, c, {x}, TRUE, FALSE) \/ EdgeImport(r, c, x, FALSE)
        \/ \E c \in There : Staff(r, c, FALSE)
  \/ /\ kind \in {"gst", "udyam"}
     /\ \E c \in There, n \in Numbers :
          \/ Register(r, c, Entry(n, n, FALSE), FALSE)
          \/ Remove(r, c, n, FALSE)
          \/ EdgeImportCertificate(r, c, n)

Others(r) == (\A o \in Requests : req[o].pc = "run" => req[o].page) /\ ByOthers(r)

Serve(r) ==
  \/ Plan(r) \/ Generate(r) \/ WriteProfile(r) \/ WriteImport(r)
  \/ WriteRegistration(r) \/ WriteRemoval(r) \/ WriteDirectors(r)
  \/ WriteSignatories(r) \/ EdgeWriteSignatories(r)
  \/ EdgeWriteProfile(r) \/ EdgeWriteImport(r) \/ EdgeWriteRegistration(r) \/ Die(r)

-----------------------------------------------------------------------------
AtRest(c) == \A r \in Requests : req[r].pc = "run" => req[r].of # c

\* "A profile change can change what applies, so the calendar is rebuilt on every
\* update" (companies.routes.ts): once no request is on a company its calendar is
\* that of its profile, unless its last generation was overtaken, its writer died
\* or the writer was an edge function.
CalendarFollows ==
  \A c \in There \ lagging : AtRest(c) => calendar[c] = Profile(c)

\* "CIN is already registered to another company" (updateCompany): of two
\* companies with one CIN, one took it where nobody checked or the check was
\* overtaken.
CinHeldOnce ==
  \A c, d \in There :
    c # d /\ cin[c] = cin[d] /\ cin[c] # None => c \in unchecked \/ d \in unchecked

\* The section on registrations (CompanyEdit.tsx) sends a session of the register's
\* and the number in its field, gets the answer when it comes, and saves what it then
\* holds: however clicks, late and second answers, other writers and removals
\* interleave, a registration on record restates the entry of its own number, unless
\* the number was changed while the register opened the session it was read by.
EntryOfTheNumber ==
  \A c \in There, n \in Numbers : <<c, n>> \notin slipped => held[c][n] \in {None, Typed, n}
=============================================================================
