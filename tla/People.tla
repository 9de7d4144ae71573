------------------------------- MODULE People -------------------------------
(***************************************************************************)
(* The people of one organisation: their roles, their grants on companies  *)
(* and the open work in their names (auth.service.ts, lib/access.ts,       *)
(* lib/company-invite.ts, companies.service.ts, tasks.service.ts), with the *)
(* edge functions that change the same rows (auth-api).                    *)
(*                                                                         *)
(* A handler reads, then writes call by call; requests overlap, a call may *)
(* fail and a process may die between two of them.                         *)
(***************************************************************************)
EXTENDS Integers, FiniteSets

CONSTANTS
  Users,       \* accounts, and the addresses an invitation may go to
  Companies,
  Tasks,       \* tasks, each of the company TaskCompany gives
  TaskCompany,
  Given,       \* the roles the requests hand out
  Changes,     \* what PATCH /users/:id is asked to change: role and isActive, or Keep
  Requests,    \* handles of requests in flight
  MaxRequests, \* bound: requests made in all
  MaxFaults    \* bound: calls that fail, processes that die

Keep  == "keep"
Roles == {"SUPER_ADMIN", "ADMIN", "CA", "COMPANY_OWNER", "VIEWER"}

ASSUME PeopleAssumption ==
  /\ TaskCompany \in [Tasks -> Companies] /\ Given \subseteq Roles
  /\ Changes \subseteq (Given \cup {Keep}) \X {"yes", "no", Keep}
  /\ MaxRequests \in Nat /\ MaxFaults \in Nat

VARIABLES
  role,     \* role[u]: the base role, or "absent" while no account has the address
  active,   \* active[u]: isActive
  grant,    \* grant[u][c]: the role of the membership, or "none"
  company,  \* the companies there are
  holder,   \* holder[t]: whom task t is assigned to, or Nobody
  open,     \* the tasks neither DONE nor CANCELLED
  req,      \* req[r]: where request r is, what it read, and whether it is sure:
            \* no other request has written people since it read them
  made,     \* requests made so far
  faults,   \* calls that have failed and processes that have died
  doubted,  \* history: tasks assigned by a request that was not sure, or reopened
  cut,      \* history: people a handler left half done, or whose grants the edge wiped
  tangled   \* history: people whose role and grants the code lets part

vars   == <<role, active, grant, company, holder, open, req, made, faults, doubted, cut, tangled>>
people == <<role, active, grant>>
work   == <<holder, open, doubted>>
world  == <<people, company, work, cut, tangled>>

Nobody == "nobody"
None   == "none"

Idle == [pc |-> "idle"]

-----------------------------------------------------------------------------
(* lib/access.ts, lib/company-invite.ts *)

SeesEveryCompany(r) == r = "SUPER_ADMIN"

Capable ==
  [company_create |-> Roles \ {"VIEWER"},  company_delete |-> {"SUPER_ADMIN"},
   work_write     |-> Roles \ {"VIEWER"},  users_manage   |-> {"SUPER_ADMIN"}]

Accounts == {u \in Users : role[u] # "absent"}

\* The actor of a request: requireAuth lets nobody in whose account is inactive.
Actors == {u \in Accounts : active[u]}

EffectiveRole(u, c) == IF SeesEveryCompany(role[u]) THEN role[u] ELSE grant[u][c]

MayOn(c, capability) == \E u \in Actors : EffectiveRole(u, c) \in Capable[capability]
May(capability)      == \E u \in Actors : role[u] \in Capable[capability]

\* A practitioner may bring in anyone but an administrator.
CanInviteAs(inviter, target) ==
  /\ target \in Roles \ {"SUPER_ADMIN"}
  /\ inviter \in Roles \ {"VIEWER"}
  /\ inviter = "CA" => target # "ADMIN"

\* tasks.service.ts: who may be given work on a company.
Assignable(u, c) ==
  /\ u \in Actors /\ role[u] \notin {"SUPER_ADMIN", "VIEWER"}
  /\ grant[u][c] \notin {None, "VIEWER"}

-----------------------------------------------------------------------------
NoGrants == [c \in Companies |-> None]

\* The roles a person's grants carry.
Carried(u) == {grant[u][c] : c \in Companies} \ {None}

\* Any team the operations can have built, with work in the names of some.
Init ==
  /\ role   \in [Users -> Given \cup {"absent"}]
  /\ active \in [Users -> BOOLEAN]
  /\ grant  \in [Users -> [Companies -> (Given \ {"SUPER_ADMIN"}) \cup {None}]]
  /\ \E u \in Users : role[u] = "SUPER_ADMIN" /\ active[u]
  /\ \A u \in Users :
       /\ role[u] = "absent" => grant[u] = NoGrants /\ active[u]
       /\ role[u] \notin {"absent", "SUPER_ADMIN"} =>
            \A g \in Given : Carried(u) = {g} => role[u] = g
  /\ company \in SUBSET Companies
  /\ \A u \in Users, c \in Companies \ company : grant[u][c] = None
  /\ open = {t \in Tasks : TaskCompany[t] \in company}
  /\ holder \in [Tasks -> Users \cup {Nobody}]
  /\ \A t \in Tasks : holder[t] # Nobody => Assignable(holder[t], TaskCompany[t])
  /\ req = [r \in Requests |-> Idle] /\ made = 0 /\ faults = 0
  /\ doubted = {} /\ cut = {} /\ tangled = {}

Begin(r, state) ==
  /\ req[r].pc = "idle" /\ made < MaxRequests /\ made' = made + 1
  /\ req' = [req EXCEPT ![r] = state]
  /\ UNCHANGED <<world, faults>>

At(r, pc) == req[r].pc = pc

\* Request r moves on to pc having left people alone, ...
GoTo(r, pc) == req' = [req EXCEPT ![r] = IF pc = "idle" THEN Idle ELSE [@ EXCEPT !.pc = pc]]

\* ... or having written them, which nobody else in flight has seen.
Doubt(q) == IF q.pc = "idle" THEN Idle ELSE [q EXCEPT !.sure = FALSE]

Wrote(r, pc) ==
  req' = [q \in Requests |->
            IF q # r THEN Doubt(req[q]) ELSE IF pc = "idle" THEN Idle ELSE [req[q] EXCEPT !.pc = pc]]

Release(tasks) == holder' = [t \in Tasks |-> IF t \in tasks THEN Nobody ELSE holder[t]]

OpenWorkOf(u) == {t \in open : holder[t] = u}

\* What request r's write of u's role or grants leaves to be said of the two:
\* settled, when the request was sure and makes them one.
Tangle(r, u, settled) ==
  tangled' = IF ~req[r].sure THEN tangled \cup {u}
             ELSE IF settled THEN tangled \ {u} ELSE tangled

-----------------------------------------------------------------------------
(* PATCH /users/:id *)

OthersCounted_Inactive(u) == \E v \in Accounts \ {u} : role[v] = "SUPER_ADMIN"

\* Another active super admin is there.
OthersCounted(u) == \E v \in Actors \ {u} : role[v] = "SUPER_ADMIN"

\* Whether isActive: false counts is asked only when no role is given.
LosingSuperAdmin(u, newRole, isActive) ==
  /\ role[u] = "SUPER_ADMIN"
  /\ IF newRole # Keep THEN newRole # "SUPER_ADMIN" ELSE isActive = "no"

\* The person is read, ...
UpdateRead(r) ==
  /\ May("users_manage")
  /\ \E u \in Accounts, change \in Changes :
       Begin(r, [sure |-> TRUE,
                 pc |-> IF LosingSuperAdmin(u, change[1], change[2]) THEN "updCount" ELSE "updUser",
                 user |-> u, role |-> change[1], active |-> change[2], was |-> role[u]])

\* ... and the others counted by the next call.
UpdateCount(r) ==
  /\ At(r, "updCount")
  /\ GoTo(r, IF OthersCounted(req[r].user) THEN "updUser" ELSE "idle")
  /\ UNCHANGED <<world, made, faults>>

\* The role reaches the grants, except to or from an organisation-wide one.
ReachesGrants(q) ==
  q.role # Keep /\ ~SeesEveryCompany(q.role) /\ ~SeesEveryCompany(q.was)

MustRelease(q) == q.role \in {"SUPER_ADMIN", "VIEWER"} \/ q.active = "no"

UpdateUser(r) ==
  /\ At(r, "updUser")
  /\ LET q == req[r] IN
     /\ role'   = IF q.role = Keep THEN role ELSE [role EXCEPT ![q.user] = q.role]
     /\ active' = IF q.active = Keep THEN active ELSE [active EXCEPT ![q.user] = q.active = "yes"]
     /\ Wrote(r, IF ReachesGrants(q) THEN "updGrants"
                 ELSE IF MustRelease(q) THEN "updTasks" ELSE "idle")
     /\ tangled' = IF ~q.sure \/ SeesEveryCompany(q.was) THEN tangled \cup {q.user} ELSE tangled
  /\ UNCHANGED <<grant, company, work, made, faults, cut>>

UpdateGrants_Skipped(r) ==
  /\ At(r, "updGrants")
  /\ Wrote(r, IF MustRelease(req[r]) THEN "updTasks" ELSE "idle")
  /\ Tangle(r, req[r].user, TRUE)
  /\ UNCHANGED <<people, company, work, made, faults, cut>>

UpdateGrants(r) ==
  /\ At(r, "updGrants")
  /\ LET q == req[r] IN
     /\ grant' = [grant EXCEPT ![q.user] =
                    [c \in Companies |-> IF @[c] = None THEN None ELSE q.role]]
     /\ Wrote(r, IF MustRelease(q) THEN "updTasks" ELSE "idle")
     /\ Tangle(r, q.user, TRUE)
  /\ UNCHANGED <<role, active, company, work, made, faults, cut>>

UpdateTasks(r) ==
  /\ At(r, "updTasks")
  /\ Release(OpenWorkOf(req[r].user)) /\ GoTo(r, "idle")
  /\ UNCHANGED <<people, company, open, doubted, made, faults, cut, tangled>>

-----------------------------------------------------------------------------
(* PUT /users/:id/access *)

Grants == {g \in [Companies -> (Given \ {"SUPER_ADMIN"}) \cup {None}] :
             \A c \in Companies \ company : g[c] = None}

Unanimous(g, role_) == {g[c] : c \in Companies} \ {None} = {role_}

\* The role the grants g agree on is not the person's.
Differs(g, was) == \E role_ \in Roles : Unanimous(g, role_) /\ role_ # was

\* twice: the request names a company twice, under another role first.  The last
\* is stored, and no role is unanimous, which matters where the last ones differ.
AccessRead(r) ==
  /\ May("users_manage")
  /\ \E u \in Accounts, g \in Grants, twice \in BOOLEAN :
       /\ ~SeesEveryCompany(role[u])
       /\ twice => Differs(g, role[u])
       /\ Begin(r, [sure |-> TRUE, pc |-> "access", user |-> u, grants |-> g, twice |-> twice, was |-> role[u]])

\* Open work on companies the new grants leave out.
Lost(q) == {t \in OpenWorkOf(q.user) : q.grants[TaskCompany[t]] = None}

\* Only a role no grant carries is moved.
RoleMoves(q) == ~q.twice /\ Differs(q.grants, q.was)

\* What the write of the grants leaves to be said of them and the role.
Granted(r) ==
  IF req[r].twice THEN tangled' = tangled \cup {req[r].user}
  ELSE Tangle(r, req[r].user, TRUE)

AccessWrite_KeepsWork(r) ==
  /\ At(r, "access")
  /\ LET q == req[r] IN
     \/ /\ \A c \in Companies \ company : q.grants[c] = None
        /\ grant' = [grant EXCEPT ![q.user] = q.grants]
        /\ Wrote(r, IF RoleMoves(q) THEN "accRole" ELSE "idle")
        /\ Granted(r) /\ UNCHANGED holder
     \/ /\ \E c \in Companies \ company : q.grants[c] # None
        /\ GoTo(r, "idle") /\ UNCHANGED <<grant, holder, tangled>>
  /\ UNCHANGED <<role, active, company, open, doubted, made, faults, cut>>

\* One transaction, which fails when a company it grants has been deleted.
AccessWrite(r) ==
  /\ At(r, "access")
  /\ LET q == req[r] IN
     \/ /\ \A c \in Companies \ company : q.grants[c] = None
        /\ grant' = [grant EXCEPT ![q.user] = q.grants]
        /\ Release(Lost(q))
        /\ Wrote(r, IF RoleMoves(q) THEN "accRole" ELSE "idle")
        /\ Granted(r)
     \/ /\ \E c \in Companies \ company : q.grants[c] # None
        /\ GoTo(r, "idle") /\ UNCHANGED <<grant, holder, tangled>>
  /\ UNCHANGED <<role, active, company, open, doubted, made, faults, cut>>

AccessRole(r) ==
  /\ At(r, "accRole")
  /\ LET q == req[r] IN
     \E g \in Roles :
       /\ Unanimous(q.grants, g) /\ role' = [role EXCEPT ![q.user] = g]
       /\ Wrote(r, IF g = "VIEWER" THEN "accTasks" ELSE "idle")
       /\ Tangle(r, q.user, TRUE)
  /\ UNCHANGED <<active, grant, company, work, made, faults, cut>>

AccessTasks(r) ==
  /\ At(r, "accTasks")
  /\ Release(OpenWorkOf(req[r].user)) /\ GoTo(r, "idle")
  /\ UNCHANGED <<people, company, open, doubted, made, faults, cut, tangled>>

-----------------------------------------------------------------------------
(* New accounts and companies *)

\* POST /users: the grants travel with the account.
InviteRead(r) ==
  /\ May("users_manage")
  /\ \E u \in Users \ Accounts, g \in Given \ {"SUPER_ADMIN"}, cs \in SUBSET company :
       Begin(r, [sure |-> TRUE, pc |-> "invite", user |-> u, role |-> g, on |-> cs])

\* POST /companies/:id/invite.  A trial that is running refuses; which trials
\* run is left open.
CompanyInviteRead(r) ==
  \E a \in Actors, c \in company, u \in Users \ Accounts, g \in Given :
    /\ CanInviteAs(EffectiveRole(a, c), g)
    /\ Begin(r, [sure |-> TRUE, pc |-> "invite", user |-> u, role |-> g, on |-> {c}])

\* The account and its grants, unless the address or a company has gone.
InviteWrite(r) ==
  /\ At(r, "invite")
  /\ LET q == req[r] IN
     IF q.user \in Accounts \/ ~(q.on \subseteq company)
     THEN GoTo(r, "idle") /\ UNCHANGED people
     ELSE /\ role'   = [role   EXCEPT ![q.user] = q.role]
          /\ active' = [active EXCEPT ![q.user] = TRUE]
          /\ grant'  = [grant  EXCEPT ![q.user] =
                          [c \in Companies |-> IF c \in q.on THEN q.role ELSE None]]
          /\ Wrote(r, "idle")
  /\ UNCHANGED <<company, work, made, faults, cut, tangled>>

\* POST /companies: whoever onboards it holds it, in the role the request came in.
OnboardRead(r) ==
  \E a \in Actors, c \in Companies \ company :
    /\ role[a] \in Capable.company_create
    /\ Begin(r, [sure |-> TRUE, pc |-> "onboard", user |-> a, on |-> c, role |-> role[a]])

OnboardWrite(r) ==
  /\ At(r, "onboard")
  /\ LET q == req[r] IN
     IF q.on \in company THEN GoTo(r, "idle") /\ UNCHANGED <<grant, company, work, tangled>>
     ELSE /\ company' = company \cup {q.on}
          /\ open' = open \cup {t \in Tasks : TaskCompany[t] = q.on}
          /\ grant' = IF SeesEveryCompany(q.role) THEN grant
                      ELSE [grant EXCEPT ![q.user][q.on] = q.role]
          /\ Wrote(r, "idle") /\ Tangle(r, q.user, FALSE)
          /\ UNCHANGED <<holder, doubted>>
  /\ UNCHANGED <<role, active, made, faults, cut>>

\* The deletion cascades to the grants and the tasks.
DeleteCompany(r) ==
  /\ At(r, "idle") /\ made < MaxRequests /\ made' = made + 1
  /\ May("company_delete")
  /\ \E c \in company :
       /\ company' = company \ {c}
       /\ grant'   = [u \in Users |-> [grant[u] EXCEPT ![c] = None]]
       /\ tangled' = tangled \cup {u \in Users : grant[u][c] # None}
       /\ LET gone == {t \in Tasks : TaskCompany[t] = c}
          IN  Release(gone) /\ open' = open \ gone /\ doubted' = doubted \ gone
  /\ Wrote(r, "idle")
  /\ UNCHANGED <<role, active, faults, cut>>

-----------------------------------------------------------------------------
(* Work *)

There(t) == TaskCompany[t] \in company

\* updateTask and bulkAssign check the assignee, ...
AssignRead(r) ==
  \E t \in Tasks, u \in Actors :
    /\ There(t) /\ MayOn(TaskCompany[t], "work_write")
    /\ Assignable(u, TaskCompany[t])
    /\ Begin(r, [sure |-> TRUE, pc |-> "assign", task |-> t, user |-> u])

\* ... and then write the row.
AssignWrite(r) ==
  /\ At(r, "assign") /\ GoTo(r, "idle")
  /\ LET q == req[r] IN
     IF ~There(q.task) THEN UNCHANGED <<holder, doubted>>
     ELSE /\ holder' = [holder EXCEPT ![q.task] = q.user]
          /\ doubted' = IF q.sure THEN doubted \ {q.task} ELSE doubted \cup {q.task}
  /\ UNCHANGED <<people, company, open, made, faults, cut, tangled>>

\* A task done is not released with the rest, and keeps its assignee when it is
\* reopened.
Finish(r) ==
  /\ At(r, "idle") /\ made < MaxRequests /\ made' = made + 1
  /\ \E t \in Tasks :
       /\ There(t) /\ MayOn(TaskCompany[t], "work_write")
       /\ \/ t \in open    /\ open' = open \ {t}    /\ UNCHANGED doubted
          \/ t \notin open /\ open' = open \cup {t} /\ doubted' = doubted \cup {t}
  /\ UNCHANGED <<people, company, holder, req, faults, cut, tangled>>

-----------------------------------------------------------------------------
(* The edge *)

\* PUT /users/:id/access deletes the grants; the rows it inserts lack their id
\* and updatedAt, and nobody looks at the error.
EdgeAccess(r) ==
  /\ At(r, "idle") /\ made < MaxRequests /\ made' = made + 1
  /\ \E a \in Actors : role[a] \in {"SUPER_ADMIN", "ADMIN"}
  /\ \E u \in Accounts :
       /\ grant' = [grant EXCEPT ![u] = NoGrants]
       /\ cut' = cut \cup {u}
  /\ Wrote(r, "idle")
  /\ UNCHANGED <<role, active, company, work, faults, tangled>>

\* POST /users: the login and the account, ...
EdgeInvite(r) ==
  /\ At(r, "idle") /\ made < MaxRequests /\ made' = made + 1
  /\ \E a \in Actors : role[a] \in {"SUPER_ADMIN", "ADMIN"}
  /\ \E u \in Users \ Accounts, g \in Given, cs \in SUBSET company :
       /\ role'   = [role   EXCEPT ![u] = g]
       /\ active' = [active EXCEPT ![u] = TRUE]
       /\ grant'  = [grant  EXCEPT ![u] = NoGrants]
       /\ req' = [q \in Requests |->
                    IF q # r THEN Doubt(req[q])
                    ELSE IF cs = {} THEN Idle
                    ELSE [sure |-> TRUE, pc |-> "newGrants", user |-> u, role |-> g, on |-> cs]]
  /\ UNCHANGED <<company, work, faults, cut, tangled>>

\* ... and all its grants, or none: nobody looks at the error.
EdgeInviteGrants(r) ==
  /\ At(r, "newGrants")
  /\ LET q == req[r] IN
     IF \E c \in q.on : c \notin company \/ grant[q.user][c] # None
     THEN GoTo(r, "idle") /\ UNCHANGED <<grant, tangled>>
     ELSE /\ grant' = [grant EXCEPT ![q.user] =
                         [c \in Companies |-> IF c \notin q.on THEN @[c]
                                              ELSE IF SeesEveryCompany(q.role) THEN "ADMIN" ELSE q.role]]
          /\ Wrote(r, "idle") /\ Tangle(r, q.user, FALSE)
  /\ UNCHANGED <<role, active, company, work, made, faults, cut>>

-----------------------------------------------------------------------------
Midway == {"updGrants", "updTasks", "accRole", "accTasks"}

\* A call fails, or the process that serves the request dies.
Die(r) ==
  /\ ~At(r, "idle") /\ faults < MaxFaults /\ faults' = faults + 1
  /\ cut' = IF req[r].pc \in Midway THEN cut \cup {req[r].user} ELSE cut
  /\ GoTo(r, "idle")
  /\ UNCHANGED <<people, company, work, made, tangled>>

Request(r) ==
  \/ UpdateRead(r) \/ UpdateCount(r) \/ UpdateUser(r) \/ UpdateGrants(r) \/ UpdateTasks(r)
  \/ AccessRead(r) \/ AccessWrite(r) \/ AccessRole(r)   \/ AccessTasks(r)
  \/ InviteRead(r) \/ CompanyInviteRead(r) \/ InviteWrite(r)
  \/ OnboardRead(r) \/ OnboardWrite(r) \/ DeleteCompany(r)
  \/ AssignRead(r) \/ AssignWrite(r) \/ Finish(r)
  \/ EdgeAccess(r) \/ EdgeInvite(r) \/ EdgeInviteGrants(r) \/ Die(r)

Next == \E r \in Requests : Request(r)

Spec == Init /\ [][Next]_vars

-----------------------------------------------------------------------------
(***************************************************************************)
(* Properties.                                                             *)
(***************************************************************************)

\* People, grants, work and requests are well formed; no grant is organisation-wide.
GrantRoles == (Roles \ {"SUPER_ADMIN"}) \cup {None}

Reqs ==
  {Idle}
  \cup [sure : BOOLEAN, pc : {"updCount", "updUser", "updGrants", "updTasks"}, user : Users, role : Given \cup {Keep},
        active : {"yes", "no", Keep}, was : Roles \cup {"absent"}]
  \cup [sure : BOOLEAN, pc : {"access", "accRole", "accTasks"}, user : Users,
        grants : [Companies -> GrantRoles], twice : BOOLEAN, was : Roles \cup {"absent"}]
  \cup [sure : BOOLEAN, pc : {"invite"}, user : Users, role : Roles \ {"SUPER_ADMIN"}, on : SUBSET Companies]
  \cup [sure : BOOLEAN, pc : {"newGrants"}, user : Users, role : Roles, on : SUBSET Companies]
  \cup [sure : BOOLEAN, pc : {"onboard"}, user : Users, on : Companies, role : Roles]
  \cup [sure : BOOLEAN, pc : {"assign"}, task : Tasks, user : Users]

TypeOK ==
  /\ role \in [Users -> Roles \cup {"absent"}] /\ active \in [Users -> BOOLEAN]
  /\ grant \in [Users -> [Companies -> GrantRoles]] /\ company \subseteq Companies
  /\ holder \in [Tasks -> Users \cup {Nobody}] /\ open \subseteq Tasks
  /\ req \in [Requests -> Reqs]
  /\ made \in 0..MaxRequests /\ faults \in 0..MaxFaults
  /\ doubted \subseteq Tasks /\ cut \subseteq Users /\ tangled \subseteq Users

\* The people a request in flight has written and is not yet done with.
InHand == {req[r].user : r \in {q \in Requests : req[q].pc \in Midway}}

\* "Otherwise a filing stays assigned to someone who can no longer open it"
\* (setCompanyAccess): open work is in the name of an active person who holds
\* its company, unless it was assigned on an answer another request overtook or
\* reopened, or a handler was cut short.
WorkCanBeOpened ==
  \A t \in open \ doubted :
    holder[t] # Nobody /\ holder[t] \notin InHand \cup cut =>
      /\ holder[t] \in Actors
      /\ ~SeesEveryCompany(role[holder[t]])
      /\ grant[holder[t]][TaskCompany[t]] # None

\* "Losing the last super admin would leave the organisation with nobody able to
\* grant access again" (updateUser): no request does it alone, save one that
\* names the role SUPER_ADMIN and deactivates in the same breath.
SuperAdmins == {u \in Actors : role[u] = "SUPER_ADMIN"}

AdminRemains ==
  [][SuperAdmins # {} /\ SuperAdmins' = {} =>
       \E r \in Requests :
         /\ req[r] # req'[r]
         /\ ~req[r].sure \/ (At(r, "updUser") /\ req[r].role = "SUPER_ADMIN" /\ req[r].active = "no")]_vars

\* "Or the list keeps naming a role the person holds nowhere" (setCompanyAccess),
\* "the role saved, the list showed the new one, and the person's access never
\* moved" (updateUser): grants that agree on a role agree with the person's own,
\* but for people come back from super admin, people who lost a company, requests
\* that name a company twice, and those that overlapped or were cut short.
ListNamesTheRole ==
  \A u \in Accounts \ (tangled \cup cut \cup InHand) :
    ~SeesEveryCompany(role[u]) => \A g \in Roles : Carried(u) = {g} => role[u] = g
=============================================================================
