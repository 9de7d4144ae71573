# Complaudi in TLA+

Complaudi keeps the statutory compliance calendar of Indian companies: it works
out which filings a company owes, files them into a calendar with a task behind
each, refuses to call one complete until the work is done and proved, reminds
people by mail, and follows what the authorities change. This directory holds
TLA+ specifications of its rules and of the parts that depend on the order in which
things happen, the TLC runs that check them on small instances, and TLAPS proofs
that carry the results to every instance: those of every state machine, that is,
of all but the engine's computations and liveness.

Source paths below are relative to the repository. `PROJECT.json` maps each
definition to the lines it stands for, and lists the components and the hazards.

## The system

Two implementations share one database: the *service* (`src/`, Express and
Prisma, with transactions) and the *edge* (`supabase/functions/`, Deno and
PostgREST, one call at a time, no transactions). The browser (`web/`) talks to
either.

| Component | State | Operations | Talks to |
| --- | --- | --- | --- |
| Compliance service `src/modules/compliance` | `ComplianceItem`, `compliance_applicability` | sync (regenerate), file, waive, reopen, task backfill, status refresh | engine, tasks, documents, daily job |
| Completion gate `src/engine/gate.ts` | none | evaluateGate | compliance service |
| Tasks `src/modules/tasks` | `Task` with checklist and assignee | move, assign, edit and tick the checklist | compliance items |
| Documents `src/modules/documents`, object storage | `Document`, stored objects | upload, delete, coverage | gate, sync, company deletion |
| Rule engine and catalogue `src/engine` | none | applicability, schedules, calendar, score, standing of DINs | compliance service, dashboard |
| Regulatory watch `src/modules/regulatory`, `src/engine/overlay.ts` | circulars, proposals, overlays; overlays and a memo in each process | store, supersede, approve, reject, create, revoke, refresh, propagate | engine, compliance service |
| Job runner `src/jobs` | `job_runs` | claim, take over, force, record the end | status refresh, reminders, snapshots |
| Notifications `src/modules/notifications` | `notifications` | reminder sweep, mark as read | mailer |
| Sessions `src/lib/session.ts`, `src/modules/auth`, `src/middleware/auth.ts` | session columns of `users`, `refresh_tokens` | sign in, refresh, sign out, change and reset the password, deactivate | every request |
| Access and people `src/lib/access.ts`, `src/modules/auth` | `company_memberships`, roles | invite, grant, withdraw, change role | every request |
| Companies `src/modules/companies` | `Company` and what it owns | create, edit, import, register, delete with files, certificates | engine, storage |
| Billing `src/modules/billing` | payments, the trial marker | order, verify, webhook | Razorpay |
| Lookups `src/lib/verifications`, `gst-api`, `udyam-api`, `pan-api`, `lookup-api` | none | sessions with a register, entries by number | BizVerify, the forms |
| Dashboard `src/modules/dashboard` | score snapshots | verdicts, chips, counts | engine, calendar |
| Edge functions `supabase/functions` | the same tables | a second implementation of the services, without transactions | Supabase |
| Web client `web/src` | tokens in local storage, forms | calls, refresh, lookups, saving | all of the above |
| Audit log, copilot | an append-only log | - | - |

### What is hard about it

*Reads before transactions.* The handlers read, decide, and then open the
transaction that writes by id. What happens between the read and the write is the
main source of trouble: in filing, moving a task, syncing, crediting a payment,
starting a session, approving a proposal, checking for the last super admin,
giving work to someone whose access is being withdrawn, looking for a CIN.

*Two copies of one fact.* An item and its task both keep the deadline and the
completion; a proposal and its overlay both say it was approved; the account and
the refresh tokens both say who is signed in; a person's role and their grants; a
row and the object it names; a profile and the calendar made of it; every API
process keeps its own copy of the overlays. Each pair must be kept together by
whoever changes one.

*Rules written twice.* The edge has a copy of the engine; the dashboard's verdicts
on registrations and the conditions of the returns they bring are separate
lists; the rules page reads labels no evaluation reads.

*Failure half-way.* The daily job may die at any point and is taken over; an
amendment is a transaction, a refresh and one regeneration per company; the edge
functions roll back by hand; the database and the bucket share no transaction.

*The outside world.* Mails cannot be unsent, webhooks come late, twice and in
any order, several replicas fire the same cron, and a register answers a form
that has moved on.

*Legal sequences.* Filing, waiving, reopening, moving tasks, attaching documents
and syncing may come in any order and must not leave a claim of compliance on
something that is not complied with.

### What makes each component correct

- Compliance service, gate and tasks: nothing is COMPLETED unless its work is
  done, and it stays so; nothing keeps the claim of an earlier filing; a sync
  takes back only what is open and has no evidence; both copies of a deadline
  agree; what is past its day becomes OVERDUE.
- Engine, catalogue and overlays: exactly the statutory occurrences, each once;
  an amendment does what it names to whom it names; both runtimes agree.
- Dashboard: its verdicts agree with the calendar beside them.
- Job runner and notifications: one run per slot and day unless taken over; no
  reminder mailed twice; what is due is addressed to somebody.
- Billing: entitlement only for captured money, each payment buys its full term,
  a captured payment ends the trial whatever dies on the way, and every
  organisation is counted once.
- Sessions: one browser per account; the displaced one stays out; nothing of an
  old password survives its change; a browser never ends the session it has just
  renewed, and signs out of its own, all of it.
- Regulatory watch: one overlay behind each approval; one proposal per rule
  awaiting review; no process serves yesterday's view; an approved change reaches
  the calendars.
- Access and people: an active super admin remains; open work is with somebody who
  can open it; the list names the role people hold.
- Documents: a row has its object, and an object its row.
- Companies and forms: the calendar is that of the profile; one company to a CIN;
  what restates the register restates its own number's entry; whoever can sign in
  has a company.
- Edge functions: the same promises as the services they double.

## Modules

| Module | Models | Theorems in |
| --- | --- | --- |
| `CompletionGate` | `engine/gate.ts`, one operator per blocker | - |
| `Obligations` | `compliance.service.ts`, `tasks.service.ts`, what they see of documents | `Obligations_proofs` |
| `ObligationsInvariants` | the inductive invariants of the above | |
| `ObligationLifecycle` | the abstract promise about one obligation | `Obligations_proofs` |
| `EdgeFiling` | `_shared/completion.ts`, `_shared/sync.ts`, `compliance-api`, `tasks-api` over `CompletionGate` | `Edge_proofs` |
| `EvidenceStore` | `documents.service.ts`, logos, certificates and deletion of `companies.service.ts` and `companies-api`, `lib/storage.ts` | `EvidenceStore_proofs` |
| `People` | people, grants and work: `auth.service.ts`, `lib/access.ts`, `company-invite.ts`, `auth-api` | `People_proofs` |
| `DailyJob` | `jobs/runner.ts`, `scheduled-compliance`, the sweep of `notifications.service.ts` | `DailyJob_proofs` |
| `Billing` | `billing.service.ts`, `billing-api`, `razorpay-webhook`, the checkout of `Billing.tsx`, the arithmetic of `Analytics.tsx` | `Organisations_proofs` |
| `Sessions` | `lib/session.ts`, the session half of `auth.service.ts`, `middleware/auth.ts` | `Sessions_proofs` |
| `WebSession` | `web/src/api/client.ts`, `AuthContext.tsx`, over `auth-api` and `_shared/session.ts`; reads `Registers` | `Edge_proofs` |
| `Regulatory` | `regulatory.service.ts`, `engine/overlay.ts`, the load at start in `index.ts` | `Regulatory_proofs` |
| `CivilDates` | `lib/dates.ts`: days, months, financial years and their parts | - |
| `Schedules` | `engine/schedule.ts`, one operator per builder | - |
| `Catalog` | `engine/catalog/*.ts`, `conditions.ts`, `evaluator.ts`: when each rule applies, what a year of it holds | - |
| `Calendar` | `engine/generator.ts`, `buildContext`, profile edits and event logging around a sync | - |
| `EdgeCalendar` | `_shared/engine`, `_shared/sync.ts`: the edge's calendar of the same company | - |
| `Standing` | `registrations.ts`, `dinStatus.ts`, `score.ts` and their edge copies, the dashboard's readings of them | - |
| `Predicates` | `predicates.ts`, `overlay.ts`, `entityApplicability.ts`, the rules page | - |
| `CompanyProfile` | profiles, registrations, directors, imports and the sync after each: `companies.service.ts`, `companies.routes.ts`, `companies-api` | `Organisations_proofs` |
| `CompanyForm` | `CompanyEdit.tsx` in the browser over `CompanyProfile` and `Registers` | `Organisations_proofs` |
| `Onboarding` | `Register.tsx`, `CompanyNew.tsx`, `register-trial` of both runtimes, company validation, over `CompanyForm` | `Organisations_proofs` |
| `Registers` | what a provider and a function of the edge make of a register's answer | - |

`MC*` modules give the constants of the TLC runs their values. What composes what:
`Predicates` extends `Standing`, which extends `EdgeCalendar`, `Calendar`,
`Catalog`, `Schedules` and `CivilDates` in turn; `Onboarding` extends
`CompanyForm`, that `CompanyProfile`, and that `Registers`; `Obligations` and
`EdgeFiling` share `CompletionGate`.

**Obligations.** One company. A *slot* is a rule and a period, the unique key of
an item; each slot has at most one item and one task and a count of documents.
`rule[s]` is the deadline the engine computes for the slot today, or none; the
engine is therefore any function of rules, profile and day. `req[r]` is what a
request has read and not yet written: `FileRead` is markItemStatus up to the
gate's verdict, `FileWrite` its transaction; `MoveRead`/`MoveWrite` are
updateTask; `TickRead`/`TickWrite` a checklist tick; `SyncRead`/`SyncWrite` the
diff of `regenerate` and its transaction; `BackfillRead`/`BackfillWrite`
createMissingTasks, which also ends every sync. Actions without a read of their
own (`SetStatus`, `Assign`, `ReplaceChecklist`, `AttachDocument`,
`RemoveDocument`, `RefreshStatuses`) are one step. `Abandon` is a request that
fails or whose client gives up before its transaction. A transaction is one
step: the rows two of them share are locked until commit, and a deadlock aborts
one. Rows are named by their slot and not by an id; a deleted row's id never
comes back, so a request that names one is ended by `After`, exactly where its
write would fail or match nothing.

**ObligationLifecycle** says what the README of the product promises, without
tables: an obligation appears, is withdrawn while open and without evidence,
filed when its work is done and proved, set aside, reopened when its work is
pulled back. The refinement reads `stage` off the item, `workDone` off the task,
`evidence` off the documents and `declared` off the attestation.

**EdgeFiling.** The same obligation under the edge functions. Every call to the
database is a step, `MaxFaults` of them fail, and `UndoItem`/`UndoTask` are the
rollback by hand; a sync reads and writes back row by row. `PATCH /tasks/:id` writes
a status, an assignee and a checklist in one update and rolls back the status and the
completion date only; the request carries what else it sent (`SentOver`). `bare` is a
history variable: a change whose own task write failed and which therefore was left
standing without its audit entry.

**EvidenceStore.** The rows of one company that name files, and the objects in
the bucket. `Store`, then the row; the row's deletion, then the object's; the
permanent deletion reads every key, removes objects one by one, then the row.
Calls fail and processes die between them.

**People.** Roles, grants and open tasks of one organisation, started from any
state the operations can have built. `updateUser` and `setCompanyAccess` are split
into their reads and writes; the count of the other super admins is a read of its own
(`UpdateCount`), made only if the change would take one away. The edge's `POST /users`
(`EdgeInvite`) writes the user first and the grants by a second call. Each request
carries `sure`: whether nobody else has written the person it read since, and a change
of grants `twice`: whether its array names a company under a second role.

**DailyJob.** One row of `job_runs`, the notifications of a day or two, and any
number of processes that claim, take over, force (`ForceRun`) or sweep by hand.
`EdgeRun` is the edge's scheduled job, which does nothing to the rest but takes the
slot. `Scan`, `Create`, `Send`, `Mark` are the sweep; `Finish`, `Fail`, `Crash` end it.
`GrowStale` is the passing of STALE_AFTER_MS, which may happen to a run that is
alive. Mail is external: it is taken or `sendMail` throws. `OneOwner` says what is
left of "exactly once per slot": two processes are inside it only if the run of the
one that started first, *or a run before it*, was taken over. The second half is
needed from three runs on: a run that was taken over and lives records its end on the
row by its id, and so frees it under its successor, which nobody presumed dead.

**Billing.** One organisation's payment rows and trial marker; Razorpay is
external and keeps what has happened deliverable for ever, in any order.
`Verify`/`Fetch` are the browser's call, `WebhookCaptured` and `WebhookOther` the
webhook, `CreditRead`/`CreditWrite` the two halves of creditCapturedPayment on the
service, `EdgeCreditRow`/`EdgeCreditOrg` the edge's two updates. Which worker
serves a request says which runtime does. `Opened` and `Reported` are the browser's
checkout, `Page` what the billing page tells the organisation; `CountedOnce` compares
it with what the platform's analytics count.

**Sessions.** One account, browsers, and the tokens they hold. An access token
cannot be taken back, only judged by `requireAuth`; a refresh token is a row.
`Login`/`StartRead`/`StartWrite`/`Issue` are signing in, `RefreshRead`/`Rotate`/
`Issue` refreshing, `LogoutRevoke`/`LogoutRelease` signing out, `ChangeCheck`/
`ChangeWrite` and `ResetPassword` the password. `stray` and `password` are history
variables: they say which tokens stem from before a password change and why they
are still about.

**WebSession.** The other end: browsers whose tabs share one storage. A call is
sent with the stored token, answered, and on a 401 joins the tab's one refresh and
is sent again; tokens expire, are looked at before sending and again by the edge.
Sign-out is a call like any other. `RefreshRead`/`Rotate`, `LoginRead`/`Purge`/
`ClaimSession` and `EndSession` are the steps of `auth-api`, which reads, checks,
deletes and inserts by separate calls. `out`, `thrown` and a pair's `crossed` are
history: who signed out cleanly, who threw a renewed session away, and which tokens
have met another browser's sign-in half-way.

**Regulatory.** Circulars become proposals (`StoreRead`, `StoreWrite`), older
proposals for the rule are superseded (`SupersedeRead`, `SupersedeWrite`), a
reviewer approves or rejects, overlays are created and revoked, and each process
holds `registered` overlays, a memo of the amended catalog and what has leaked
into the catalog itself. `Refresh*`, `Propagate`, `Evaluate`, `Write` and `Skip`
bring memory and calendars in line. What a regeneration does to rows is module
Obligations; here a calendar is the set of overlays it was made with.

**Calendar.** What `Obligations` takes as any function of rules and day is here
computed. A date is a number of days, with real months and leap years
(`CivilDates`); a schedule builder maps a financial year, and a company where the
code looks at one, to occurrences (`Schedules`); `Catalog` holds the 59 rules with
their conditions and schedules; `generateCalendar` searches the years around the
window, filters and removes repeated keys. A company is a profile that
`UpdateCompany` replaces; `SyncCompany` regenerates as of `today`, `NextDay` lets
time pass, `LogComplianceEvent` stores an event. The reference that
`CalendarIsStatutory` compares with goes the other way round: for each day of the
window, `StatutoryDues` says what falls due on it, without walking through
financial years and without the schedule builders. It covers fifteen rules that
between them use every kind of schedule, and adds that rules that stand in for
one another leave one return a period.

**EdgeCalendar, Standing, Predicates** are further readings of the same state.
`EdgeCalendar` runs the edge's generator on the same row and builds the context of
its two readers, the calendar and the applicability list. `Standing` computes the
registrations' verdicts, the DIN chips, the KYC card and the score. `Predicates`
is the vocabulary overlays name conditions by: which patches the schema admits,
what one does to a rule's conditions and dates, whom a rule can reach, and the
rules page made of that.

**CompanyProfile, CompanyForm, Onboarding.** A request carries the list of steps
it has yet to take (`Plan`, `Generate`, a write), so that "the service syncs, and
the route syncs again" is a sequence, not a comment. A CIN, a set of register
facts (`Typed`, or those of a CIN's entry) and registrations by number are what
the properties tell apart. `CompanyForm` is the page: fields, lookups that are
answered when they are, `Save` with what the form holds then. `Onboarding` adds
sign-up and the page for a new company. One run follows, from its first state on,
the profile, the GST section, the Udyam section, or onboarding (`kind`).

**Registers.** BizVerify is external: any status, any kind of body. Each provider
maps it to a code, each function of the edge maps the code to a status; nothing
else of an answer matters to `WebSession` and to the forms.

## Runs

| Run | Instance | Shows |
| --- | --- | --- |
| `obligations_serial` | one slot, one request handle, three days, two deadlines, two checklist entries | what is filed stays done, deadlines agree, what a sync spares, OVERDUE surfaces, the refinement |
| `obligations_race` | one slot, two overlapping requests | what survives every interleaving: what is filed has a task; claim, date and attestation fit the status |
| `edge_filing` | one obligation, one request at a time, one failed call | filings are backed unless their own task write failed; a rollback restores what was there, but for what a PATCH sent beside the status |
| `evidence_store` | two documents, one logo, one certificate, two requests, one failure or death | evidence stays readable; one failure strands one object at most |
| `people` | two people, two companies, one task, two requests, one failure, any team to begin with | open work can be opened; no request alone removes the last super admin; the list names the role |
| `daily_job` | two processes, two days, one item, three runs of a slot at most | no mail twice, one owner, somebody hears |
| `billing` | two orders, two requests, one on the edge, three days | entitlement only for captured money, full terms, everyone counted once, the trial ends |
| `sessions` | two browsers, two requests, three sessions, two refresh tokens, one password change | one browser, displaced stays out, old password out |
| `web_session` | a browser with two tabs and one elsewhere, two calls at a time, three pairs of tokens, one loss | a renewed session is not thrown away; a sign-out ends its own, all of it; registers sign nobody out |
| `regulatory` | one process, two circulars on one rule, two overlays, two days, a failure or restart at any step | approvals, queue, view and calendars agree |
| `calendar` | eight profiles, four days, the whole catalogue, one event, eleven amendments | nothing owed is missing, nothing invented; the twin, the dashboard and the rules page agree with it; amendments do what they name; time alone changes nothing |
| `company_form` | two companies, two CINs, two numbers, two addresses, two requests, one failure, four or six inputs | calendars follow profiles, one company to a CIN, registrations keep the entry of their own number, accounts have companies |

Every property of a run is paired, in `PROJECT.json`, with a plausible bug in the
code under which TLC finds it violated. Where a property names exceptions
(`doubted`, `tangled`, `unchecked`, `slipped`, `lagging`, `stranded`, `torn`, `cut`),
these are history variables set at the very step where the code gives the promise
up; the list of them is as much a result as the property.

### Bounds, and why they are enough

- *One slot* in the Obligations runs. Slots meet only in a sync's plan, in the
  backfill and in the status refresh, and each treats every slot by its own rows;
  no guard or assignment of one slot reads another. The theorems hold for any
  number of slots, levels, entries and requests. `MaxDocs` two tells "none",
  "the last one" and "one of several" apart. Two deadlines and three days give an
  obligation every relation to today: upcoming, due, overdue, outside the window.
- *Two requests* in the race run: every stale read needs one reader and one
  writer.
- *One request, one failure* in EdgeFiling. Without transactions two requests may
  undo each other's writes and nothing is promised; what is examined is one
  handler and the call of it that fails. A sync's read and write of the row count
  as one request's steps.
- *Two keys for documents, one each for logo and certificate, one file* in
  EvidenceStore: the same content uploaded twice is the case the code looks for.
  Keys are never reused, but for the logo's at the edge.
- *Two people and any team* in People: whoever changes and whoever is changed;
  `Init` ranges over every assignment of roles, grants and work the operations
  can have built, so that no sequence of requests has to be followed to reach one.
  `Given` has one organisation-wide role, one that works and one that does not;
  `Changes` has each change of role or account alone, and together those that the
  guard and the release of work tell apart.
- *Two processes and `MaxRuns`* in DailyJob: a claim, a take-over and a forced run
  of the same slot; `OneOwner` was also run with three (four million states), and is
  proved for any number. No reminder offset and no overdue nudge, so that the one kind left
  is that of the due date, which needs neither: a kind is part of the key of a
  notification, so two kinds share no row. `Users` has one who may be assigned and one
  who may always be addressed.
- *Two orders* in Billing: a payment and the one it renews. Terms of one day and
  `MaxDay` two let the first window run out before, at and after the second
  payment. `Announced` says which order sees failed attempts and refunds;
  `MaxAgain` bounds how often a delivered capture is credited again and
  `MaxValid` how far windows reach; one edge credit is torn at most, a request
  does not outlive its day, and a worker belongs to one runtime.
- *Three sessions, two tokens* in Sessions: sign in, be displaced, come back.
- *Two tabs and another browser* in WebSession; three pairs of tokens are a
  sign-in, a renewal and a sign-in elsewhere. An access token outlives the calls
  it was renewed for, those included that are to go out with what their tab's refresh
  has just stored (`Expire` waits for them); a tab signs in only with no expired
  token left in storage, and reloads only with no refresh of its own under way.
  Four pairs, four calls and three sessions were searched to nine million states.
- *Two circulars on one rule* in Regulatory: the older one to be superseded, the
  newer one to supersede it. Two overlays: one amended for today only, so that
  tomorrow's view differs, one that withdraws the rule.
- *Eight profiles, four days* in Calendar. The profiles take in every entity's
  branch of the catalogue, both sides of the size and audit thresholds, every
  GST scheme with a registration given up, companies born in February, on 31
  March and on 1 April, an AGM on record, forgotten, and on the last day that
  counts, and no date of incorporation. The days are a year's first day, the two
  days whose windows begin on either side of a year's end, and one whose window
  begins on 29 February; a window is 951 days long, so each sync dates some
  months, quarters, halves and years of every rule. `FirstYear`..`LastYear` is
  wider than any window reaches.
- *Histories* in Standing vary one filing of three rules at a time over every
  status and the days `NearDays` around today; the rest of the calendar is as
  generated. The page's cuts of its lists (20, 25, 10) are left out.
- *Eleven amendments, one at a time* in Predicates: each form of patch, and what
  the schema turns away. One rule stands for every form of condition. Dates moved
  are compared well inside the window, which moving a day may leave.
- *Two of everything, four inputs* in CompanyForm and Onboarding: two companies of
  the browser's history, a CIN and the one it is changed to. A form's edits share
  one budget (`MaxEdits`, `MaxClicks`); other callers come one at a time. Entity
  type and state, which a CIN spells out itself, are left out.

Counters that grow without end in the program are bounded in guards (`MaxDay`,
`MaxDocs`, `MaxRuns`, `MaxSid`, `MaxChanges`, `MaxOverlays`, `MaxValid`,
`MaxAgain`, `Tokens`, `MaxEvents`, `MaxKeys`, `MaxRequests`, `MaxFaults`,
`MaxPairs`, `MaxCalls`, `MaxLost`, `MaxEdits`, `MaxClicks`); an action at its bound is
disabled, and no property other than the two liveness properties depends on it
being enabled. Deadlock is checked in `obligations_*`, `edge_filing`, `daily_job`,
`sessions`, `regulatory` and `calendar`. In the other runs requests, keys, tokens
or days run out, or an expired trial has nothing left to do, and the model rightly
stops: `CHECK_DEADLOCK FALSE`.

### Fairness

- `OverdueSurfaces` assumes `WF(RefreshStatuses)`: the daily job runs it, and the
  scheduler and the external trigger keep trying the job each day.
- `CapturedUnlocks` assumes that Razorpay redelivers `payment.captured` for each
  order until it is answered, which the handler does only after the credit (`SF` on
  `WebhookCaptured` while the order is unsettled), that a handler that is waiting
  for the payment's state gets on (`WF(Fetch)`), and that not every handler of an
  order dies at the same place (`SF` on the two halves of the credit). No browser
  is assumed to come back. An edge handler that does not notice its failed update
  has answered, and is excepted (`torn`).
- Nothing else assumes fairness: all other properties are safety.

## Proofs

TLAPS proves, for every value of the constants that satisfies the modules' named
assumptions:

| Theorem | Says |
| --- | --- |
| *Obligations* `TypeCorrect` | `Spec => []TypeOK` for any number of overlapping requests |
| `OverlapSafe` | `Spec => []OverlapInv`, hence `FiledHasTask` |
| `SerialSafe`, `DeadlinesStayTogether` | one request at a time: `Spec => []SerialInv`, hence `ClaimOnlyWhileFiled`, `FiledWorkDone`, `WorkStamped`, `DeadlinesAgree` |
| `ClaimsWhole` | overlapping requests: `Spec => []ClaimWellFormed` |
| `SyncSpared` | one request at a time: what a sync leaves alone |
| `RefinesLifecycle` | one request at a time: `Spec => Lifecycle!Spec` |
| *DailyJob* `OneOwnerHolds` | `Spec => []OneOwner` for any number of processes and claims |
| `MailedOnce` | `Spec => []OneMailEach` |
| `SomebodyAlwaysHears` | `Spec => SomebodyHears` |
| *Billing* `CreditedWhenCaptured` | `Spec => []CreditedOnlyIfCaptured` for any number of orders, workers, days |
| `CountedInOnePlace` | `Spec => []CountedOnce` |
| *Sessions* `OneBrowserAtATime` | `Spec => []OneBrowser` for any number of browsers, requests and sessions |
| `DisplacedIsOut`, `SignOutIsOfItsSession` | `Spec => DisplacedStaysOut`, `Spec => SignedOutByItself` |
| `OldPasswordsAreOut` | `Spec => []OldPasswordOut` |
| *EvidenceStore* `EvidenceStays` | `Spec => []EvidenceReadable` for any number of requests, keys and faults |
| `EvidenceIsNotLost` | `Spec => []EvidenceNotStranded` |
| *People* `AdminsRemain` | `Spec => AdminRemains` for any team, any number of requests and faults |
| `WorkIsOpenable`, `ListIsTrue` | `Spec => []WorkCanBeOpened`, `Spec => []ListNamesTheRole` |
| *EdgeFiling* `FiledStaysBacked` | one request at a time, one failed call: `Spec => []FiledIsBacked` |
| `RollbacksRestore` | one request at a time, one failed call: `Spec => RollbackRestores` |
| *Regulatory* `ViewStaysCurrent` | `Spec => []ViewIsCurrent` for any number of requests on any number of processes |
| `ReviewsStayHonest` | one request at a time: `Spec => []ReviewsHonest` |
| `CalendarsFollow` | one request at a time: `Spec => []CalendarFollows` |
| *Companies* `CompaniesInductive` | `CompaniesSpec => []OnboardingInv`, the inductive invariant of profile, form and sign-up together |
| `CalendarsMatch` | `CompaniesSpec => []CalendarFollows` for any number of companies, identifiers, overlapping requests and deaths |
| `CinUnique`, `EntriesStay` | `CompaniesSpec => []CinHeldOnce`, `CompaniesSpec => []EntryOfTheNumber` |
| `AccountsWhole` | `CompaniesSpec => []AccountHasItsCompany` for any number of sign-ups |
| *WebSession* `WebInductive` | `WebSpec => []WebInv`, the inductive invariant |
| `OwnRefreshStays` | `WebSpec => []OwnRefreshKept` for any number of browsers, tabs, calls and tokens |
| `SignOutIsWhole` | `WebSpec => SignOutEndsItsOwn`, a state and an action property in one |
| `ProvidersSpare` | `WebSpec => ProviderSparesSession` |

`JobTypeCorrect`, `BillingTypeCorrect`, `SessionsTypeCorrect`, `EvidenceTypeCorrect`,
`FilingTypeCorrect` and `RegulatoryTypeCorrect` are the type invariants of their
modules; People's is a lemma, and those of the companies and of WebSession are parts
of the inductive invariants named above. The assumptions are the types of the
constants, and five facts: there is a super admin (`SuperAdmins # {}`), a browser
(`Browsers # {}`), and at least one run; the proposals are finitely many; the marks
that stand for "nothing", "no row" and "typed by hand" are no CIN, number or company.
Of the runs' properties only the two liveness properties, and those of Calendar and
the modules over it, are without a theorem.

*Obligations, overlapping requests.* `ClaimWellFormed` and `FiledHasTask` are
not inductive: a request in flight might write a row that has gone. `OverlapInv`
adds that an absent row is blank (`RowsWhole`) and that a request naming a row
knows it is there (`RequestsTargeted`), which holds because deleting the row ends
the request (`After`). The proof has one step per action.

*Obligations, one request at a time.* `FiledWorkDone` needs to know, at the
write, that what the request read still holds. `SerialInv` therefore adds
`ReadsCurrent`: with one handle nothing but the request itself, the calendar day,
the rules and the status refresh can act between its read and its write, and none
of these touches what it read. `TicksListed` is needed for the checklist.
`OneAtATime` is the assumption `\A a, b \in Requests : a = b`. It is needed: added
to `ObligationsRace.cfg`, `FiledWorkDone` and `SyncSparesHistory` are violated, and the
code serialises nothing.

*The refinement.* Each action maps to a step of the lifecycle of the slots it
touches, or leaves them the same; the mapping is per slot, so one sync is many
steps at once. It uses `SerialInv` of the state before.

*DailyJob.* `MailInv`: what a sweep carries is PENDING, unmailed unless it is just
between the mail and the mark, and in no other sweep's hands. It is inductive because
`Create` carries only what it inserted, and the key is unique. `SlotInv`: runs inside
the slot have different numbers, and one that no longer holds the row running is
*doubtful*, that is, it or an earlier run was taken over. The proof of `OneOwner`
found the property as first stated, "the one that started first was taken over", not
to be inductive; TLC then refuted it with three runs. `AdminInv` is all that
`SomebodyHears` needs.

*Billing.* `RequestInv`: what a worker is about to credit was captured, and the
window it is about to write is no shorter than the term. `RowInv` ties SUCCESS to a
window, and `TrialInv` a paid row to an ended trial, a half credit under way, or
one that was lost. The maximum that `Base` takes over windows exists by `LastDay`, by
well-founded induction over the library's theorems.

*Sessions.* `HolderInv` says of *every* session ever begun, and not only of the
account's, that one browser holds it, where holding counts access tokens, refresh
rows in any state, the account's device, and requests that have read a session and not
yet issued its tokens. Without the last, `Issue` could hand a session to a second
browser. `BoundInv` keeps new session numbers unused and says that a request that
reuses a session comes from that session's device.

*EvidenceStore.* `KeyInv`: the key of an upload under way is its own, in no row and no
deleter's hands; the key of a deletion past its row is named by no row. So
nothing removes an object that a row names, or is about to (`StoredInv`). `LostInv`
counts: every step adds at most one evidence object that neither a row nor a request
knows, and adds it only together with a fault. An upload's own failure to clean up is
a fault too; the key freed by `deleteRow` is held by the request until it is gone.

*People.* `SureInv` says what `sure` is for: what a request read and nobody has
overtaken still stands, the other super admin included. From it `AdminRemains` is
immediate. `WorkInv` and `LevelInv` are the two invariants with a debt in them: open
work is with somebody who can open it, *or a request is on its way that releases it*;
role and grants agree, *or a request is on its way that levels them*. A request that
dies on its way leaves the debt, and is named in `cut`.

*EdgeFiling.* `FilingInv` says, for each point a request can have reached, how the
rows differ from what it read: by nothing before the first write, by the claim
once the item is written, by claim and task once both are, and by the task alone when
the item has been put back. What it read was `Backed`, unless the item was `bare`
already; so going on to the end, or back to the start, leaves it backed.
The status refresh may run in between, and moves an open item among open statuses
only: claims are compared up to that (`SameStage`). `OneAtATime` and `OneFault` are
needed: rollbacks look neither at what else has happened nor at their own end.

*Regulatory.* `OverlayInv`: overlays are created in order and stay, so whatever is held
in memory goes on amending what it amended. `MemoInv`: the cache is the view of the
day and the overlays it names, whatever these are now; a cache that is hit names
today's, and nothing else about processes or requests is needed. `ReviewInv` adds to the
two promises what a request between its read and its write knows: the proposal it
will approve is not approved, and what a sweep will supersede is pending and leaves
one to a rule. It needs `StoredInv`, that a circular's proposals are born with it, so
that storing one overwrites no review. `CalendarInv` has a debt in it, as People's do:
a calendar is current, *or a request is on its way to it* (`Reaches`); the memory of
the process has the ACTIVE overlays, *or an amendment is still to be announced there*,
or all companies are `stranded`. `OneAtATime` is needed, on one process already: TLC
finds that a sync which asked the engine before a refresh may write after the
regeneration that followed it. TLC confirmed each part
on the run's instance before it was proved.

*Companies.* One invariant for the three modules, because a sign-up or a saved form
becomes requests of CompanyProfile like any other. `RequestsInv` says of each request
in flight that what it carries fits the steps it has yet to take (`Carries`,
`InOrder`), and that what it has read stands unless it was overtaken (`Stands`), as
`sure` does in People. `CalendarInv` has the debt: a company's calendar is its
profile's, *or a request that wrote the profile is on its way to it* (`Owes`). A
request that dies owing it, and a generation that another overtook, put the company
in `lagging`. `CinHeldOnce` is inductive with what a request that checked a CIN
knows. `FormInv` speaks of the page: a session with the register is of the number
typed, an entry that will be answered is of the number its session was opened for,
unless the number was changed while it opened (`slip`); `EntryInv` says the same of
the rows that came of it, once they are saved. `AccountInv`: an account is
whole, or the sign-up that created its login is at a step that goes on, or undoes.
Each action of the server leaves the page alone and most actions of the page leave
the server alone, so that the step is proved part by part over two lemmas that say so.

*WebSession.* `RefersInv`: a browser stores, renews and hands in pairs of its own. From
there the parts stand by themselves. `OwnInv` says what a tab's refresh knows of the
storage: until it has settled, the one pair in storage that can have come of a refresh
of the same tab is the pair it hands in; and one that failed with nothing lost has
handed in a dead one. So a call that gives up finds nothing its own tab has renewed.
`SidInv`: a session is of one browser, counting the account, pairs and sign-ins under
way, as in Sessions. `LiveInv`: a refresh token on record is of the account's
session, or has crossed a sign-in. `OutInv` has a debt once more: a browser signed out
has nothing left, *or its sign-out, or a sign-in of its own, is still to be served*
(`Owes`). The proof corrected the properties where they were true of the run's bounds
only: a kept sign-in that brings an older session back marks the pairs that it
crosses; a displaced tab is told so and throws nothing; and only a token still on
record is "signed out".

### Only model-checked

- Liveness (`OverdueSurfaces`, `CapturedUnlocks`) and anything with ENABLED are beyond
  the prover.
- Calendar, EdgeCalendar, Standing and Predicates compute with recursion over dates
  and lists and are compared with references over bounded inputs; induction over
  data is beyond the prover.

## Where code and documentation disagree

Met while modelling; the models follow the code. The first three under Obligations
TLC shows with two requests: add the property to `ObligationsRace.cfg`.

Obligations and the daily job:

- `regenerate` decides from rows read before its transaction
  (`compliance.service.ts:232-325`): what was waived, filed or evidenced since is
  withdrawn or reopened, against the comments at 159 and 254 ("never overwrite the
  user's own progress") and README.md:307 (`SyncSparesHistory`).
- `tasks.service.ts:128`, "an obligation must never read COMPLETED while the task
  behind it has been pulled back open", and README.md:219: `updateTask` judges by the
  status it read before its transaction (100-106), so that finishing and filing in
  between leave just that (`FiledWorkDone`).
- README.md:204-206, a gated obligation cannot be closed while its task is unassigned,
  unfinished or not DONE: `markItemStatus` reads the gate before its transaction and
  looks at none of it again (`FiledWorkDone`). Its comment at 533-535 accepts
  the deletion of a document in that moment, and is silent on the task.
- "Anything in the past is never deleted" (README.md:306, `compliance.service.ts:160`)
  is not what `withdrawable` does (303-316); it never looks at the due date.
- Tasks of new items are created after the sync's transaction
  (`compliance.service.ts:328`): a crash between leaves items without a task, which
  cannot be filed, until the next sync.
- A run that dies after recording notifications and before mailing them leaves
  them PENDING for good (`notifications.service.ts:132-175`); the run that takes over
  mails only what it records itself, so that DEPLOYMENT.md:44 holds for the run,
  not for its mails. `execute` records its end by the row's id: a run that was taken
  over and fails afterwards turns its successor's SUCCEEDED row FAILED.
- `DEPLOYMENT.md:310` calls `--date` a way to backfill a missed day; the sweep of
  such a run works as of today and sends none of that day's reminders.
- The edge's scheduled job selects items by a status that does not exist, writes
  notifications to columns that do not exist, and marks the slot it shares with the
  service SUCCEEDED: where both are deployed the service skips that day. It never
  takes over a slot left RUNNING, nor runs a FAILED one again.

Edge filing:

- A failed task write (`completion.ts:291-293`) leaves the completion standing and
  unaudited, against the comment at 295-297.
- `PATCH /tasks/:id` writes status, assignee, checklist and notes in one update
  (`tasks-api/index.ts:228-246`); where the obligation then refuses, 262-265 put back
  the status and the completion date only: the request is answered as failed, and the
  rest of it stands.
- `derivedStatusFor` rounds hours, so that after noon a filing due today reopens
  as OVERDUE.
- Overlapping requests, or a function killed midway, break the backing; a sync can
  write back a stale COMPLETED or overwrite a fresh filing; it never moves the
  task's due date; deleting a task leaves its item COMPLETED; `bulk-assign` asks
  for no grant.
- The edge's inserts of items, tasks, audit entries, companies, grants and payments
  omit an id or `updatedAt` that the table requires, and so fail wherever they are
  reached. `documents-api/index.ts` and `web/index.html` hold unresolved
  merge-conflict markers.

Files:

- A permanent deletion that fails after removing files leaves rows without files;
  an upload that overlaps it strands objects. Replaced or unreadable certificates
  stay in the bucket. The edge's logo and certificate uploads are unchecked and use
  keys that recur; its deletion removes no objects at all.

People:

- `auth.service.ts:482`: naming the role SUPER_ADMIN together with isActive false
  skips the check for the last super admin; so may two overlapping demotions.
- `auth.service.ts:449`: the grants of one request may name a company twice, under two
  roles; one is stored, two are counted, and the role in the list does not follow.
- A task done when its assignee lost access, and reopened later, is in the name of
  someone who cannot open it; a person with mixed grants, a viewer's among them,
  keeps open work on the company they only view.
- The edge's PUT `/users/:id/access` deletes all grants and fails to insert the new
  ones; it treats ADMIN as seeing every company, which the service does not; its
  sign-up makes a SUPER_ADMIN where the service makes a COMPANY_OWNER. Its company
  invitation names an undefined variable. `Team.tsx` saves grants wholesale from
  the list as read.

Billing:

- `billing.service.ts:287`, renewing early extends the current window: the window
  is read outside the transaction (289-300); two payments credited at once extend
  the same one, and a paid term is lost. Redelivered captures extend it again.
- `billing.service.ts:207-209` says verification counts captured payments; a row
  that is only AUTHORIZED is answered as verified. A late `payment.authorized` or
  `payment.failed` overwrites SUCCESS (380).
- The edge credits in two updates whose errors are ignored and answers 200, so that
  the webhook is not redelivered. It checks no trial; on the service an
  organisation whose trial has expired cannot reach create-order or verify, and only
  the webhook lets it in.
- "Paid until" shows the window of the order created last, not the furthest; a
  refunded organisation is counted as billed elsewhere; conversions can exceed
  trial sign-ups.

Sessions:

- `README.md:341`, "Password resets end every session": a refresh or a sign-in
  that had read its row before the reset issues tokens after it, and
  `requireAuth` allows a second of slack. `OldPasswordOut` states what is left.
- `logoutEverywhere` revokes refresh tokens and leaves `activeSessionId`: access
  tokens go on being let in until they expire.
- A sign-out with an expired access token, or while any refresh of the browser is
  under way, puts fresh tokens back in storage and ends no session. Two tabs
  refreshing with one token: the second's 401 clears what the first has just
  stored. A refresh lost to the network signs the user out, as does a failed
  `/auth/me` on reload. A late SESSION_DISPLACED answer clears the tokens of a newer
  sign-in.

Regulatory watch and overlays:

- Withdrawing a rule that has an `excludeWhen` pushes onto the committed catalog's
  own array (`overlay.ts:164-198`, `mca.ts:486`); revoking the overlay
  (`schema.prisma:609`) does not bring the rule back until the process restarts.
- `regulatory.service.ts:141` leaves a company that failed to regenerate to "the
  nightly sync"; no job regenerates calendars. `CalendarFollows` therefore speaks
  of companies not `stranded`.
- A label that no condition has removes nothing, silently. `stateCodeIn` takes
  two-digit codes while companies hold letters: an overlay naming a state reaches
  nobody. `dpiitRecognisedWithinYears` reads the clock, though `overlay.ts` calls the
  engine pure. A withdrawn rule shows CONTINGENT on the rules page. The edge's page
  never shows amendments.

Calendar and dashboard:

- `buildContext` reads the logged events and leaves them out of the context it
  returns, so that the eight event rules never produce an obligation; the edge twin
  passes them (`TwinsAgree`). `logComplianceEvent` accepts four event types; the
  rules of four more could not be triggered even if events reached them. Event
  periods print the date in the server's time zone (`mca.ts:232`).
- `schedule.ts:72-76` has the outer limit of the AGM filings assume an AGM on the
  last permitted day; 30 September and 60 or 15 days are 29 November and 15
  October, the fallbacks of MGT-7 and ADT-1 (`mca.ts:120,158`) the day before.
  AOC-4's agrees. `CalendarIsStatutory` leaves those two forms out.
- `company.agmDate` is one column: recording this year's AGM sends last year's
  AGM filings, if still in the window, back to the outer limit.
- The edge sync's window is 365 days either way (`_shared/sync.ts:33-34`), the
  service's 400 back and 550 ahead: whichever ran last decides what is withdrawn.
- `registrationReminder` (`schedule.ts:233`) is imported and used by no rule.
- `score.ts:70-84` says obligations from before a company was onboarded, left
  untouched, are excluded; 129-133 score them. What is due today already counts as
  missed while its status is DUE.
- `registrations.ts` shows "Incorporated with CIN" followed by the PAN where there
  is no CIN; the edge takes any of the three numbers, and reads `fssai` where the
  column is `fssaiNumber`. The states with professional tax differ between
  `registrations.ts` (which has CG, and lacks OD) and `labour.ts`.
- The edge's dashboard counts what was waived as overdue, never shows a DSC
  expired, and its snapshots name columns that do not exist.

Companies, forms and lookups:

- CINs are checked by an update and by nothing else: creation and imports take any.
  A one-row extract overwrites the CIN even with one that another company holds;
  the edge takes the first row when none matches, and syncs nothing.
- Saving after an import reverts it; a jump in the history saves one company's form
  onto another; saving while a CIN lookup is out, or after it failed, mixes a CIN
  and another's facts. Late answers put the whole sign-up form back to what it was
  when asked. The GST number can be changed while its session opens. Rows added
  without verification are shown "Verified".
- The service starts its sync of a new GST or MSME row before the row is written
  (`companies.service.ts:590-606,653-659`); the route's own sync repairs it.
- A failed edge sign-up whose `fn_register_trial` failed leaves organisation, user
  row and company behind: the address and the CIN are taken for good. Tokens of an
  edge sign-up carry no session and are refused at the first call.
- A 200 that carries a refusal, or an empty object, passes for a verified active
  company (MCA) or registration (GST, Udyam).

## Assumptions the results rest on

- The database is serialisable for the rows a transaction touches; single
  statements are atomic; unique keys hold.
- Sessions: tokens do not expire. This only lets them live longer; WebSession has
  their expiry.
- DailyJob: an active super admin exists (`SuperAdmins # {}`, and `Activate` keeps
  one). `AdminRemains` says how far `updateUser` keeps that.
- Regulatory: the run serves one request at a time on one process. Overlapping
  reviews of one proposal, and overlays changed by another process, break
  `ReviewsHonest` and `CalendarFollows`; both are listed as hazards. The catalog
  does not change, so no stored overlay is rotten.
- EdgeFiling: one request at a time, and rows the service has made.
- The registers' number formats are checked; which number a company has is its own
  business.

## Not modelled

In Obligations the evidence level of a rule is a constant: an overlay may patch it, and
the next sync then writes it to the item (`compliance.service.ts:285`), after which
work filed under the old level is judged by the new one; a sync asks no gate, and
what an amendment does to a rule is module Predicates'. The score's `preOnboarding`
counter (`score.ts:131-133`) is shown and enters nothing. That a form's facts are
those of its CIN is promised nowhere in the code, and stated nowhere here; the late
answers that part them are among the hazards.

The copilot's answers and the audit log change nothing that a decision reads.
Evidence coverage and the extraction of text from files are matching of words.
Validation of formats, templates, transport, configuration, second factors, listings
and the rendering of the other pages carry no property here; of the catalogue,
texts and severities' wording. Price and GST arithmetic, signatures and invoices of
billing are left out, as are score snapshots (one upsert whose errors are swallowed).
The service's own copies of the GST, Udyam and PAN handlers
(`src/lib/verifications`) are mounted nowhere. Of the edge's scheduled job only what
it does to the slot is modelled: there is nothing else it does. The scripts are
tooling.

## Plan

Done: People, EvidenceStore, the edge's filing and sync, Standing (score, DINs,
registrations), Predicates, WebSession, the company form and sign-up, Registers; the
proofs about every state machine: Obligations, DailyJob, Billing, Sessions,
EvidenceStore, People, EdgeFiling, Regulatory, the companies and WebSession.
Left, in this order:

1. An abstract specification of access (who may see a company, who may be given
   work) that People implements, and of evidence that EvidenceStore implements.
2. Instances with two replicas for Regulatory, stating what survives.
