----------------------------- MODULE Onboarding -----------------------------
(***************************************************************************)
(* How companies come in: the sign-up page with register-trial behind it   *)
(* (Register.tsx, auth.service.ts, auth-api and fn_register_trial), and    *)
(* the page that adds a company to an organisation (CompanyNew.tsx).       *)
(*                                                                         *)
(* A sign-up creates a person, a company and a grant; the service does so  *)
(* in one transaction, the edge function step by step after a login of     *)
(* Supabase Auth, which it takes back when a later step fails.  Entity     *)
(* type and state, which a CIN spells out itself, are left out.            *)
(***************************************************************************)
EXTENDS CompanyForm

CONSTANT Emails

VARIABLES
  account,  \* account[e]: whether Supabase Auth has a login, the user row and
            \* whether it has a password of its own, its company and grant
  sheet,    \* the page: its CIN, whose entry name and date restate, the badge
  asks,     \* its lookups not answered: the CIN, and the form they were made with
  stranded  \* history: addresses whose sign-up was killed, or not taken back

people == <<account, stranded>>
door   == <<sheet, asks>>
all    == <<desk, people, door>>

Nobody == [login |-> FALSE, row |-> None, of |-> None, granted |-> FALSE]
NoForm == [at |-> Nowhere, cin |-> None, facts |-> None, tick |-> None]

OnboardingInit ==
  /\ FormInit
  /\ account = [e \in Emails |-> Nobody] /\ stranded = {}
  /\ sheet = NoForm /\ asks = {}

\* Companies no request in flight is about to create.
Fresh == {c \in Companies \ There : \A r \in Requests : req[r].pc = "run" => req[r].of # c}

-----------------------------------------------------------------------------
(* validateCompanyMasterData: a CIN is optional; what is typed must match what *)
(* the master record holds, and nothing when it holds nothing                  *)

Matches(b, master) == b.cin = None \/ (master = "found" => b.facts \in {Typed, b.cin})

\* registerTrial validates against the register's answer of its own lookup.
Checked(b, master) == Matches(b, master)

\* register-trial of the edge has the CINs on record validated with it.
EdgeChecked(b, master) == Matches(b, master) /\ (b.cin # None => Holders(b.cin, None) = {})

\* What is stored of a form: what is typed as in the entry restates it, and an
\* entry that was not there checks nothing.
Stored(b, e, master) ==
  [cin |-> b.cin, email |-> e,
   facts |-> IF master = "found" /\ b.facts = Typed THEN b.cin ELSE b.facts]

Masters(b) == IF b.cin = None THEN {"none"} ELSE Outcomes.mca \cap Entered

-----------------------------------------------------------------------------
(* POST /auth/register-trial *)

\* The address and the CIN are looked for, the register is asked, and the answer
\* validated, before anything is written.
SignUp(r, e, b, waited) ==
  \E c \in Fresh, master \in Masters(b) :
    /\ account[e].row = None /\ (b.cin # None => Holders(b.cin, None) = {})
    /\ Checked(b, master)
    /\ Begin(r, c, <<"account">> \o Sync, Stored(b, e, master), waited)

\* One transaction: organisation, user, company and grant.
WriteAccount(r) ==
  /\ At(r, "account")
  /\ LET q == req[r]  c == q.of  e == q.body.email IN
     IF account[e].row # None
     THEN Refuse(r) /\ UNCHANGED <<cin, facts, account, unchecked>>
     ELSE /\ Wrote(r)
          /\ cin'   = [cin   EXCEPT ![c] = q.body.cin]
          /\ facts' = [facts EXCEPT ![c] = q.body.facts]
          /\ account' = [account EXCEPT ![e] = [@ EXCEPT !.row = "own", !.of = c, !.granted = TRUE]]
          /\ unchecked' = Mark(unchecked, c, q.body.cin # None /\ ~q.sure)
  /\ UNCHANGED <<kind, held, rest, calendar, made, faults, lagging, slipped, stranded>>

EdgeSignUp(r, e, b, waited) ==
  \E c \in Fresh, master \in Masters(b) :
    /\ EdgeChecked(b, master)
    /\ Begin(r, c, <<"login", "rpc">>, Stored(b, e, master), waited)

\* auth.admin.createUser
CreateLogin(r) ==
  /\ At(r, "login")
  /\ LET e == req[r].body.email IN
     IF account[e].login
     THEN Refuse(r) /\ UNCHANGED account
     ELSE /\ account' = [account EXCEPT ![e].login = TRUE]
          /\ req' = [req EXCEPT ![r] = Stepped(@)]
  /\ UNCHANGED <<kind, rows, calendar, made, faults, history, stranded>>

Then(r, todo) == req' = [req EXCEPT ![r].todo = todo]

\* fn_register_trial writes all four rows or none; it is without an index or a
\* function it needs on some databases, and fails on an address on record.
RegisterTrial(r) ==
  /\ At(r, "rpc")
  /\ LET q == req[r]  c == q.of  e == q.body.email IN
     \/ /\ account[e].row = None /\ Wrote(r)
        /\ cin'   = [cin   EXCEPT ![c] = q.body.cin]
        /\ facts' = [facts EXCEPT ![c] = q.body.facts]
        /\ account' = [account EXCEPT ![e] = [@ EXCEPT !.row = "managed", !.of = c, !.granted = TRUE]]
        /\ unchecked' = Mark(unchecked, c, q.body.cin # None /\ ~q.sure)
        /\ lagging'   = lagging \cup {c}
     \/ /\ Then(r, <<"user row", "company row", "grant row">>)
        /\ UNCHANGED <<cin, facts, account, unchecked, lagging>>
  /\ UNCHANGED <<kind, held, rest, calendar, made, faults, slipped, stranded>>

\* The direct inserts that follow a failed call, after that of the organisation.
InsertUser(r) ==
  /\ At(r, "user row")
  /\ LET e == req[r].body.email IN
     IF account[e].row # None
     THEN Then(r, <<"undo">>) /\ UNCHANGED account
     ELSE /\ account' = [account EXCEPT ![e] = [@ EXCEPT !.row = "managed"]]
          /\ req' = [req EXCEPT ![r] = Stepped(@)]
  /\ UNCHANGED <<kind, rows, calendar, made, faults, history, stranded>>

InsertCompany(r) ==
  /\ At(r, "company row")
  /\ LET q == req[r]  c == q.of IN
     /\ Writes(r, q)
     /\ cin'   = [cin   EXCEPT ![c] = q.body.cin]
     /\ facts' = [facts EXCEPT ![c] = q.body.facts]
     /\ account' = [account EXCEPT ![q.body.email].of = c]
     /\ unchecked' = Mark(unchecked, c, q.body.cin # None /\ ~q.sure)
     /\ lagging'   = lagging \cup {c}
  /\ UNCHANGED <<kind, held, rest, calendar, made, faults, slipped, stranded>>

InsertGrant(r) ==
  /\ At(r, "grant row")
  /\ account' = [account EXCEPT ![req[r].body.email].granted = TRUE]
  /\ req' = [req EXCEPT ![r] = Stepped(@)]
  /\ UNCHANGED <<kind, rows, calendar, made, faults, history, stranded>>

Inserts == {"user row", "company row", "grant row"}

InsertFails_LeavesLogin(r) ==
  /\ \E step \in Inserts : At(r, step)
  /\ faults < MaxFaults /\ faults' = faults + 1
  /\ Refuse(r)
  /\ UNCHANGED <<kind, rows, calendar, made, history, people>>

InsertFails(r) ==
  /\ \E step \in Inserts : At(r, step)
  /\ faults < MaxFaults /\ faults' = faults + 1
  /\ Then(r, <<"undo">>)
  /\ UNCHANGED <<kind, rows, calendar, made, history, people>>

\* auth.admin.deleteUser; the rows stay, and so does a login that cannot be deleted.
TakeBack(r) ==
  /\ At(r, "undo") /\ Refuse(r)
  /\ LET e == req[r].body.email IN
     \/ account' = [account EXCEPT ![e].login = FALSE] /\ UNCHANGED <<stranded, faults>>
     \/ /\ faults < MaxFaults /\ faults' = faults + 1
        /\ stranded' = stranded \cup {e} /\ UNCHANGED account
  /\ UNCHANGED <<kind, rows, calendar, made, history>>

SigningUp(r, e) ==
  \E step \in {"account", "login", "rpc", "undo"} \cup Inserts : At(r, step) /\ req[r].body.email = e

\* A sign-up that dies leaves what it has done.
Killed(r) ==
  /\ Die(r) /\ UNCHANGED account
  /\ stranded' = stranded \cup {e \in Emails : SigningUp(r, e)}

-----------------------------------------------------------------------------
(* The pages *)

Typing == Alive /\ kind = "onboarding" /\ inputs < MaxEdits /\ inputs' = inputs + 1

OpenPage ==
  /\ Alive /\ kind = "onboarding" /\ sheet.at = Nowhere
  /\ \E at \in {"sign-up", "new"} : sheet' = [NoForm EXCEPT !.at = at]
  /\ UNCHANGED <<server, people, asks, page, asked, section, calls, inputs>>

SignUpPage == sheet.at = "sign-up"
NewPage    == sheet.at = "new"

\* The form in the field is sent with the question (performLiveValidation,
\* lookupCin).
Question(form) == [cin |-> form.cin, form |-> form]

\* A CIN typed or pasted drops the badge; one pasted is still taken for the badge's
\* and fills a blank from it.  On the page for a new company it fills nothing.
TypeNewCin(x) ==
  /\ x # sheet.cin /\ sheet.at # Nowhere /\ Typing
  /\ \E fill \in {sheet.facts} \cup (IF SignUpPage /\ sheet.facts = None THEN {sheet.tick} ELSE {}) :
       LET form == [sheet EXCEPT !.cin = x, !.facts = fill, !.tick = None] IN
       /\ sheet' = form
       /\ asks'  = IF x = None THEN asks
                   ELSE asks \cup {Question(IF SignUpPage THEN form ELSE [sheet EXCEPT !.cin = x])}
  /\ UNCHANGED <<server, people, page, asked, section, calls>>

BlurCin ==
  /\ sheet.cin # None /\ Question(sheet) \notin asks /\ Typing
  /\ asks' = asks \cup {Question(sheet)}
  /\ UNCHANGED <<server, people, sheet, page, asked, section, calls>>

TypeName(f) ==
  /\ sheet.at # Nowhere /\ f # sheet.facts /\ Typing
  /\ sheet' = [sheet EXCEPT !.facts = f, !.tick = IF sheet.cin = None THEN None ELSE @]
  /\ UNCHANGED <<server, people, asks, page, asked, section, calls>>

\* The entry fills what was blank when it was asked for.  On the sign-up page the
\* form goes back to what it was then, and the CIN with it.
SignUpAnswered(k) ==
  /\ Alive /\ SignUpPage /\ k \in asks /\ asks' = asks \ {k}
  /\ \/ \E master \in Outcomes.mca \cap Entered :
          LET fill == IF k.form.facts = None /\ master = "found" THEN k.cin ELSE k.form.facts IN
          sheet' = [k.form EXCEPT !.facts = fill, !.tick = IF master = "found" THEN k.cin ELSE k.form.facts]
     \/ UNCHANGED sheet
  /\ UNCHANGED <<server, people, page, asked, section, calls, inputs>>

NewAnswered(k) ==
  /\ Alive /\ NewPage /\ k \in asks /\ asks' = asks \ {k}
  /\ \/ /\ k.form.facts = None
        /\ sheet' = [sheet EXCEPT !.facts = k.cin]
     \/ UNCHANGED sheet
  /\ UNCHANGED <<server, people, page, asked, section, calls, inputs>>

\* A document of company y fills what is blank (import-preview, applyImport).
Document(y) ==
  /\ NewPage /\ (sheet.cin = None \/ sheet.facts = None) /\ Typing
  /\ LET x == IF sheet.cin = None THEN y ELSE sheet.cin
         f == IF sheet.facts = None THEN y ELSE sheet.facts IN
     sheet' = [sheet EXCEPT !.cin = x, !.facts = f]
  /\ UNCHANGED <<server, people, asks, page, asked, section, calls>>

\* A person without a company sends no CIN.
Sent(form) == {Body(form.cin, form.facts), Body(None, form.facts)}

\* An earlier sign-up of the page is over.
SubmitSignUp(r) ==
  /\ SignUpPage /\ sheet.facts # None /\ ~Busy /\ Typing
  /\ \E b \in Sent(sheet), e \in Emails : SignUp(r, e, b, TRUE) \/ EdgeSignUp(r, e, b, TRUE)
  /\ UNCHANGED <<people, sheet, asks, page, asked, section, calls>>

SubmitNew(r) ==
  /\ NewPage /\ sheet.facts # None /\ ~Busy /\ Typing
  /\ \E c \in Fresh : Begin(r, c, <<"profile">> \o Sync, Body(sheet.cin, sheet.facts), TRUE)
  /\ UNCHANGED <<people, sheet, asks, page, asked, section, calls>>

\* Whoever is let in leaves the page, and what it asked; an error shows on it.
Admitted(r) ==
  /\ req[r].pc = "answer" /\ req' = [req EXCEPT ![r] = NoRequest]
  /\ \/ sheet' = NoForm /\ asks' = {}
     \/ UNCHANGED door
  /\ UNCHANGED <<kind, rows, calendar, made, faults, history, people, page, asked, section, calls, inputs>>

\* Other pages and callers, with forms in order.
Elsewhere(r) ==
  /\ \A o \in Requests : req[o].pc = "run" => req[o].page
  /\ \E b \in Bodies, e \in Emails : SignUp(r, e, b, FALSE) \/ EdgeSignUp(r, e, b, FALSE)
  /\ UNCHANGED people

-----------------------------------------------------------------------------
Serving(r) ==
  \/ (Plan(r) \/ Generate(r) \/ WriteProfile(r)) /\ UNCHANGED people
  \/ WriteAccount(r) \/ CreateLogin(r) \/ RegisterTrial(r)
  \/ InsertUser(r) \/ InsertCompany(r) \/ InsertGrant(r) \/ InsertFails(r) \/ TakeBack(r) \/ Killed(r)

OnboardingNext ==
  \/ OpenPage \/ BlurCin
  \/ \E x \in Cins \cup {None} : TypeNewCin(x) \/ (x # None /\ Document(x))
  \/ \E f \in {None, Typed} : TypeName(f)
  \/ \E k \in asks : SignUpAnswered(k) \/ NewAnswered(k)
  \/ \E r \in Requests :
       \/ SubmitSignUp(r) \/ SubmitNew(r) \/ Admitted(r)
       \/ (Elsewhere(r) \/ Serving(r)) /\ UNCHANGED <<browser, door>>

\* A behaviour follows the profile of a company, its registrations, or onboarding.
CompaniesNext ==
  \/ kind # "onboarding" /\ FormNext /\ UNCHANGED <<people, door>>
  \/ kind = "onboarding" /\ OnboardingNext

CompaniesSpec == OnboardingInit /\ [][CompaniesNext]_all

-----------------------------------------------------------------------------
\* "Trial registration failed" (auth-api): whoever can sign in has a user row, the
\* company signed up for and the grant on it, whichever step of whichever sign-up
\* failed, and however many shared the address, unless the function died or the
\* login could not be taken back.
AccountHasItsCompany ==
  \A e \in Emails \ stranded :
    (account[e].login \/ account[e].row = "own") /\ ~(\E r \in Requests : SigningUp(r, e)) =>
      account[e].row # None /\ account[e].granted /\ account[e].of \in There
=============================================================================
