---------------------------- MODULE People_proofs ----------------------------
(***************************************************************************)
(* Proofs about People, for any team, any companies and tasks and any      *)
(* number of requests that overlap, fail and die.                          *)
(***************************************************************************)
EXTENDS People, TLAPS

-----------------------------------------------------------------------------
(* The inductive invariants. *)

\* What a request that is sure has read is still so.
Sound(q) ==
  /\ q.pc = "updGrants" => ReachesGrants(q)
  /\ q.pc = "updCount" /\ q.sure => q.was = role[q.user]
  /\ q.pc = "updUser" /\ q.sure =>
       /\ q.was = role[q.user]
       /\ LosingSuperAdmin(q.user, q.role, q.active) => OthersCounted(q.user)
  /\ q.pc = "updGrants" /\ q.sure => role[q.user] = q.role
  /\ q.pc \in {"access", "accRole"} /\ q.sure => q.was = role[q.user] /\ q.was # "SUPER_ADMIN"
  /\ q.pc = "accRole" /\ q.sure => grant[q.user] = q.grants
  /\ q.pc = "newGrants" /\ q.sure => q.role = role[q.user] /\ grant[q.user] = NoGrants
  /\ q.pc = "onboard" /\ q.sure => q.role = role[q.user]
  /\ q.pc = "assign" /\ q.sure => Assignable(q.user, TaskCompany[q.task])

SureInv == \A r \in Requests : Sound(req[r])

\* A request that is about to take the open work out of u's name.
Releasing(q, u) == /\ q.pc \in {"updGrants", "updTasks"} /\ q.user = u
                   /\ q.pc = "updGrants" => MustRelease(q)
Releases(u)     == \E r \in Requests : Releasing(req[r], u)

CanOpen(u, t) == u \in Actors /\ role[u] # "SUPER_ADMIN" /\ grant[u][TaskCompany[t]] # None

\* Open work is in the name of one who can open it, or about to be released;
\* the work of a company that is not there is in nobody's name.
PlaceInv == \A t \in Tasks : TaskCompany[t] \notin company => holder[t] = Nobody
WorkInv  ==
  \A t \in open \ doubted, u \in Users \ (cut \cup {Nobody}) :
    holder[t] = u => CanOpen(u, t) \/ Releases(u)

\* A request that is about to bring u's role and grants together.
Levelling(q, u) == q.pc \in {"updGrants", "accRole"} /\ q.user = u
Levels(u)       == \E r \in Requests : Levelling(req[r], u)

Agree(u) == role[u] # "SUPER_ADMIN" => \A g \in Roles : Carried(u) = {g} => role[u] = g

\* A person's grants agree with the role, or are about to.
LevelInv == \A u \in Accounts \ (tangled \cup cut) : Agree(u) \/ Levels(u)

-----------------------------------------------------------------------------
(* Requests: what they hold, and what another's write does to them. *)

Updating  == {"updCount", "updUser", "updGrants", "updTasks"}
Accessing == {"access", "accRole", "accTasks"}

\* p holds what q holds.
Keeps(p, q) ==
  /\ q.pc \in Updating \cup Accessing \cup {"invite", "newGrants", "onboard", "assign"} => p.user = q.user
  /\ q.pc \in Updating => p.role = q.role /\ p.active = q.active /\ p.was = q.was
  /\ q.pc \in Accessing => p.grants = q.grants /\ p.twice = q.twice /\ p.was = q.was
  /\ q.pc \in {"invite", "newGrants", "onboard"} => p.role = q.role /\ p.on = q.on
  /\ q.pc = "assign" => p.task = q.task

\* Where a request may go on from where it is.
Follows(next, pc) == \/ pc \in Updating /\ next \in Updating
                     \/ pc \in Accessing /\ next \in Accessing

LEMMA OfReq ==
  ASSUME NEW q \in Reqs
  PROVE  /\ q.pc \in {"idle", "invite", "newGrants", "onboard", "assign"} \cup Updating \cup Accessing
         /\ q.pc = "idle" => q = Idle
         /\ q.pc # "idle" => q.sure \in BOOLEAN /\ q.user \in Users
         /\ q.pc \in Updating => /\ q.role \in Given \cup {Keep} /\ q.active \in {"yes", "no", Keep}
                                 /\ q.was \in Roles \cup {"absent"}
         /\ q.pc \in Accessing => q.grants \in [Companies -> GrantRoles] /\ q.was \in Roles \cup {"absent"}
         /\ q.pc = "invite" => q.role \in Roles \ {"SUPER_ADMIN"} /\ q.on \subseteq Companies
         /\ q.pc = "newGrants" => q.role \in Roles /\ q.on \subseteq Companies
         /\ q.pc = "onboard" => q.role \in Roles /\ q.on \in Companies
         /\ q.pc = "assign" => q.task \in Tasks
<1> USE DEF Updating, Accessing
<1>1. CASE q = Idle
  BY <1>1 DEF Idle
<1>2. CASE q \in [sure : BOOLEAN, pc : {"updCount", "updUser", "updGrants", "updTasks"}, user : Users, role : Given \cup {Keep},
                  active : {"yes", "no", Keep}, was : Roles \cup {"absent"}]
  BY <1>2
<1>3. CASE q \in [sure : BOOLEAN, pc : {"access", "accRole", "accTasks"}, user : Users,
                  grants : [Companies -> GrantRoles], twice : BOOLEAN, was : Roles \cup {"absent"}]
  BY <1>3
<1>4. CASE q \in [sure : BOOLEAN, pc : {"invite"}, user : Users, role : Roles \ {"SUPER_ADMIN"}, on : SUBSET Companies]
  BY <1>4
<1>5. CASE q \in [sure : BOOLEAN, pc : {"onboard"}, user : Users, on : Companies, role : Roles]
  BY <1>5
<1>6. CASE q \in [sure : BOOLEAN, pc : {"assign"}, task : Tasks, user : Users]
  BY <1>6
<1>7. CASE q \in [sure : BOOLEAN, pc : {"newGrants"}, user : Users, role : Roles, on : SUBSET Companies]
  BY <1>7
<1> QED  BY <1>1, <1>2, <1>3, <1>4, <1>5, <1>6, <1>7 DEF Reqs

\* Going on, a request keeps what it holds.
LEMMA GoesOn ==
  ASSUME NEW q \in Reqs, NEW next, Follows(next, q.pc)
  PROVE  /\ [q EXCEPT !.pc = next] \in Reqs
         /\ [q EXCEPT !.pc = next].pc = next
         /\ [q EXCEPT !.pc = next].sure = q.sure
         /\ Keeps([q EXCEPT !.pc = next], q)
<1>1. CASE q \in [sure : BOOLEAN, pc : {"updCount", "updUser", "updGrants", "updTasks"}, user : Users, role : Given \cup {Keep},
                  active : {"yes", "no", Keep}, was : Roles \cup {"absent"}]
  <2>1. next \in Updating
    BY <1>1 DEF Follows, Updating, Accessing
  <2> QED  BY <1>1, <2>1 DEF Reqs, Keeps, Updating, Accessing
<1>2. CASE q \in [sure : BOOLEAN, pc : {"access", "accRole", "accTasks"}, user : Users,
                  grants : [Companies -> GrantRoles], twice : BOOLEAN, was : Roles \cup {"absent"}]
  <2>1. next \in Accessing
    BY <1>2 DEF Follows, Updating, Accessing
  <2> QED  BY <1>2, <2>1 DEF Reqs, Keeps, Updating, Accessing
<1>3. q.pc \in Updating \cup Accessing
  BY DEF Follows
<1> QED  BY <1>1, <1>2, <1>3 DEF Reqs, Idle, Updating, Accessing

\* Overtaken, a request keeps what it holds and is sure no more.
LEMMA Overtaken ==
  ASSUME NEW q \in Reqs, q.pc # "idle"
  PROVE  /\ [q EXCEPT !.sure = FALSE] \in Reqs
         /\ [q EXCEPT !.sure = FALSE].pc = q.pc
         /\ [q EXCEPT !.sure = FALSE].sure = FALSE
         /\ Keeps([q EXCEPT !.sure = FALSE], q)
<1> USE DEF Updating, Accessing, Keeps
<1>1. CASE q \in [sure : BOOLEAN, pc : {"updCount", "updUser", "updGrants", "updTasks"}, user : Users, role : Given \cup {Keep},
                  active : {"yes", "no", Keep}, was : Roles \cup {"absent"}]
  BY <1>1 DEF Reqs
<1>2. CASE q \in [sure : BOOLEAN, pc : {"access", "accRole", "accTasks"}, user : Users,
                  grants : [Companies -> GrantRoles], twice : BOOLEAN, was : Roles \cup {"absent"}]
  BY <1>2 DEF Reqs
<1>3. CASE q \in [sure : BOOLEAN, pc : {"invite"}, user : Users, role : Roles \ {"SUPER_ADMIN"}, on : SUBSET Companies]
  BY <1>3 DEF Reqs
<1>4. CASE q \in [sure : BOOLEAN, pc : {"onboard"}, user : Users, on : Companies, role : Roles]
  BY <1>4 DEF Reqs
<1>5. CASE q \in [sure : BOOLEAN, pc : {"assign"}, task : Tasks, user : Users]
  BY <1>5 DEF Reqs
<1>6. CASE q \in [sure : BOOLEAN, pc : {"newGrants"}, user : Users, role : Roles, on : SUBSET Companies]
  BY <1>6 DEF Reqs
<1>7. q # Idle
  BY DEF Idle
<1> QED  BY <1>1, <1>2, <1>3, <1>4, <1>5, <1>6, <1>7 DEF Reqs

\* Request r's next state after it went on to next.
Moved(r, next) ==
  /\ next = "idle" => req'[r] = Idle
  /\ next # "idle" => req'[r].pc = next /\ req'[r].sure = req[r].sure /\ Keeps(req'[r], req[r])

\* Another's write: the requests in flight hold what they held, and doubt it.
LEMMA WroteIs ==
  ASSUME TypeOK, NEW r \in Requests, NEW next, Wrote(r, next), next = "idle" \/ Follows(next, req[r].pc)
  PROVE  /\ req' \in [Requests -> Reqs]
         /\ Moved(r, next)
         /\ \A q \in Requests \ {r} : /\ req'[q].pc = req[q].pc /\ Keeps(req'[q], req[q])
                                      /\ req'[q].pc # "idle" => ~req'[q].sure
<1>1. \A q \in Requests : req[q] \in Reqs /\ Idle \in Reqs /\ Idle.pc = "idle"
  BY DEF TypeOK, Reqs, Idle
<1>2. /\ next = "idle" => req'[r] = Idle
      /\ next # "idle" => req'[r] = [req[r] EXCEPT !.pc = next]
  BY DEF Wrote
<1>3. req'[r] \in Reqs /\ Moved(r, next)
  <2>1. CASE next = "idle"
    BY <1>1, <1>2, <2>1 DEF Moved
  <2>2. CASE next # "idle"
    <3> DEFINE p == [req[r] EXCEPT !.pc = next]
    <3>1. p \in Reqs /\ p.pc = next /\ p.sure = req[r].sure /\ Keeps(p, req[r])
      BY <1>1, <2>2, GoesOn
    <3>2. req'[r] = p
      BY <1>2, <2>2
    <3> HIDE DEF p
    <3> QED  BY <2>2, <3>1, <3>2 DEF Moved
  <2> QED  BY <2>1, <2>2
<1>4. ASSUME NEW q \in Requests \ {r}
      PROVE  /\ req'[q] \in Reqs /\ req'[q].pc = req[q].pc /\ Keeps(req'[q], req[q])
             /\ req'[q].pc # "idle" => ~req'[q].sure
  <2>1. CASE req[q].pc = "idle"
    <3>1. req'[q] = Idle /\ req[q] = Idle
      BY <1>1, <2>1, OfReq DEF Wrote, Doubt
    <3> QED  BY <1>1, <3>1 DEF Keeps
  <2>2. CASE req[q].pc # "idle"
    <3>1. req'[q] = [req[q] EXCEPT !.sure = FALSE]
      BY <2>2 DEF Wrote, Doubt
    <3> QED  BY <1>1, <2>2, <3>1, Overtaken
  <2> QED  BY <2>1, <2>2
<1>5. req' = [q \in Requests |-> req'[q]]
  BY DEF Wrote
<1> QED  BY <1>3, <1>4, <1>5

\* The edge's new account is a write of people, and the first step of its request.
LEMMA EdgeInviteIs ==
  ASSUME TypeOK, NEW r \in Requests, NEW u \in Users, NEW g \in Roles, NEW cs \in SUBSET Companies,
         req' = [q \in Requests |->
                   IF q # r THEN Doubt(req[q])
                   ELSE IF cs = {} THEN Idle
                   ELSE [sure |-> TRUE, pc |-> "newGrants", user |-> u, role |-> g, on |-> cs]]
  PROVE  /\ req' \in [Requests -> Reqs]
         /\ req'[r] = Idle \/ req'[r] = [sure |-> TRUE, pc |-> "newGrants", user |-> u, role |-> g, on |-> cs]
         /\ \A q \in Requests \ {r} : /\ req'[q].pc = req[q].pc /\ Keeps(req'[q], req[q])
                                      /\ req'[q].pc # "idle" => ~req'[q].sure
<1>1. \A q \in Requests : req[q] \in Reqs /\ Idle \in Reqs /\ Idle.pc = "idle"
  BY DEF TypeOK, Reqs, Idle
<1>2. ASSUME NEW q \in Requests \ {r}
      PROVE  /\ req'[q] \in Reqs /\ req'[q].pc = req[q].pc /\ Keeps(req'[q], req[q])
             /\ req'[q].pc # "idle" => ~req'[q].sure
  <2>1. CASE req[q].pc = "idle"
    <3>1. req'[q] = Idle /\ req[q] = Idle
      BY <1>1, <2>1, OfReq DEF Doubt
    <3> QED  BY <1>1, <3>1 DEF Keeps
  <2>2. CASE req[q].pc # "idle"
    <3>1. req'[q] = [req[q] EXCEPT !.sure = FALSE]
      BY <2>2 DEF Doubt
    <3> QED  BY <1>1, <2>2, <3>1, Overtaken
  <2> QED  BY <2>1, <2>2
<1>3. [sure |-> TRUE, pc |-> "newGrants", user |-> u, role |-> g, on |-> cs] \in Reqs
  BY DEF Reqs
<1> QED  BY <1>1, <1>2, <1>3

LEMMA GoToIs ==
  ASSUME TypeOK, NEW r \in Requests, NEW next, GoTo(r, next), next = "idle" \/ Follows(next, req[r].pc)
  PROVE  /\ req' \in [Requests -> Reqs]
         /\ Moved(r, next)
         /\ \A q \in Requests \ {r} : req'[q] = req[q]
<1>1. req[r] \in Reqs /\ Idle \in Reqs
  BY DEF TypeOK, Reqs
<1>2. /\ next = "idle" => req'[r] = Idle
      /\ next # "idle" => req'[r] = [req[r] EXCEPT !.pc = next]
      /\ \A q \in Requests \ {r} : req'[q] = req[q]
      /\ req' = [q \in Requests |-> req'[q]]
  BY DEF GoTo, TypeOK
<1>3. req'[r] \in Reqs /\ Moved(r, next)
  <2>1. CASE next = "idle"
    BY <1>1, <1>2, <2>1 DEF Moved
  <2>2. CASE next # "idle"
    <3> DEFINE p == [req[r] EXCEPT !.pc = next]
    <3>1. p \in Reqs /\ p.pc = next /\ p.sure = req[r].sure /\ Keeps(p, req[r])
      BY <1>1, <2>2, GoesOn
    <3>2. req'[r] = p
      BY <1>2, <2>2
    <3> HIDE DEF p
    <3> QED  BY <2>2, <3>1, <3>2 DEF Moved
  <2> QED  BY <2>1, <2>2
<1> QED  BY <1>2, <1>3 DEF TypeOK

LEMMA BeginIs ==
  ASSUME TypeOK, NEW r \in Requests, NEW p \in Reqs, Begin(r, p)
  PROVE  /\ req' \in [Requests -> Reqs] /\ req'[r] = p /\ req[r] = Idle
         /\ \A q \in Requests \ {r} : req'[q] = req[q]
         /\ made' \in 0..MaxRequests /\ UNCHANGED <<world, faults>>
<1>1. req[r] = Idle
  BY OfReq DEF Begin, TypeOK
<1>2. made' \in 0..MaxRequests
  BY PeopleAssumption DEF PeopleAssumption, Begin, TypeOK
<1> QED  BY <1>1, <1>2 DEF Begin, TypeOK

-----------------------------------------------------------------------------
(* Types. *)

LEMMA TypeStep ==
  ASSUME TypeOK, SureInv, NEW r \in Requests, Request(r)
  PROVE  TypeOK'
<1> DEFINE q == req[r]
<1>1. q \in Reqs /\ Given \subseteq Roles /\ TaskCompany \in [Tasks -> Companies] /\ MaxRequests \in Nat /\ MaxFaults \in Nat
  BY PeopleAssumption DEF PeopleAssumption, TypeOK
<1>2. ASSUME UNCHANGED <<world, faults>>, req' \in [Requests -> Reqs], made' \in 0..MaxRequests  PROVE TypeOK'
  BY <1>2 DEF world, people, work, TypeOK
<1>3. CASE UpdateRead(r)
  <2>1. PICK u \in Accounts, change \in Changes :
          Begin(r, [sure |-> TRUE,
                    pc |-> IF LosingSuperAdmin(u, change[1], change[2]) THEN "updCount" ELSE "updUser",
                    user |-> u, role |-> change[1], active |-> change[2], was |-> role[u]])
    BY <1>3 DEF UpdateRead
  <2>2. change[1] \in Given \cup {Keep} /\ change[2] \in {"yes", "no", Keep}
    BY PeopleAssumption DEF PeopleAssumption
  <2>3. [sure |-> TRUE,
         pc |-> IF LosingSuperAdmin(u, change[1], change[2]) THEN "updCount" ELSE "updUser",
         user |-> u, role |-> change[1], active |-> change[2], was |-> role[u]] \in Reqs
    BY <2>1, <2>2 DEF Reqs, TypeOK, Accounts
  <2> QED  BY <1>2, <2>1, <2>3, BeginIs
<1>4. CASE UpdateUser(r)
  <2> DEFINE next == IF ReachesGrants(q) THEN "updGrants" ELSE IF MustRelease(q) THEN "updTasks" ELSE "idle"
  <2>1. Wrote(r, next) /\ (next = "idle" \/ Follows(next, q.pc))
    BY <1>4 DEF UpdateUser, At, Follows, Updating
  <2>2. req' \in [Requests -> Reqs]
    BY <2>1, WroteIs
  <2>3. q.user \in Users /\ (q.role = Keep \/ q.role \in Roles) /\ q.pc = "updUser"
    BY <1>1, <1>4, OfReq DEF UpdateUser, At, Updating
  <2>4. role' \in [Users -> Roles \cup {"absent"}] /\ active' \in [Users -> BOOLEAN]
    BY <1>4, <2>3 DEF UpdateUser, TypeOK
  <2>5. tangled' \subseteq Users
    BY <1>4, <2>3 DEF UpdateUser, TypeOK
  <2> QED  BY <1>4, <2>2, <2>4, <2>5 DEF UpdateUser, work, TypeOK
<1>5. CASE UpdateGrants(r)
  <2> DEFINE next == IF MustRelease(q) THEN "updTasks" ELSE "idle"
  <2>1. Wrote(r, next) /\ (next = "idle" \/ Follows(next, q.pc))
    BY <1>5 DEF UpdateGrants, At, Follows, Updating
  <2>2. req' \in [Requests -> Reqs]
    BY <2>1, WroteIs
  <2>3. q.user \in Users /\ tangled' \subseteq Users
    BY <1>1, <1>5, OfReq DEF UpdateGrants, At, Tangle, TypeOK, Updating
  <2>4. q.role \in GrantRoles
    BY <1>1, <1>5, OfReq DEF UpdateGrants, At, SureInv, Sound, ReachesGrants, SeesEveryCompany, GrantRoles, Updating
  <2>5. grant' \in [Users -> [Companies -> GrantRoles]]
    BY <1>5, <2>3, <2>4 DEF UpdateGrants, TypeOK, GrantRoles
  <2> QED  BY <1>5, <2>2, <2>3, <2>5 DEF UpdateGrants, work, TypeOK
<1>6. CASE UpdateTasks(r) \/ AccessTasks(r)
  <2>1. req' \in [Requests -> Reqs]
    BY <1>6, GoToIs DEF UpdateTasks, AccessTasks
  <2>2. holder' \in [Tasks -> Users \cup {Nobody}]
    BY <1>6 DEF UpdateTasks, AccessTasks, Release, TypeOK
  <2> QED  BY <1>6, <2>1, <2>2 DEF UpdateTasks, AccessTasks, people, TypeOK
<1>7. CASE AccessRead(r)
  <2>1. PICK u \in Accounts, g \in Grants, twice \in BOOLEAN :
          Begin(r, [sure |-> TRUE, pc |-> "access", user |-> u, grants |-> g, twice |-> twice, was |-> role[u]])
    BY <1>7 DEF AccessRead
  <2>2. g \in [Companies -> GrantRoles]
    BY <1>1 DEF Grants, GrantRoles
  <2>3. [sure |-> TRUE, pc |-> "access", user |-> u, grants |-> g, twice |-> twice, was |-> role[u]] \in Reqs
    BY <2>1, <2>2 DEF Reqs, TypeOK, Accounts
  <2> QED  BY <1>2, <2>1, <2>3, BeginIs
<1>8. CASE AccessWrite(r)
  <2> DEFINE next == IF RoleMoves(q) THEN "accRole" ELSE "idle"
  <2>1. q.pc = "access" /\ q.grants \in [Companies -> GrantRoles] /\ q.user \in Users
    BY <1>1, <1>8, OfReq DEF AccessWrite, At, Accessing
  <2>2. (Wrote(r, next) /\ (next = "idle" \/ Follows(next, q.pc))) \/ GoTo(r, "idle")
    BY <1>8, <2>1 DEF AccessWrite, Follows, Accessing
  <2>3. req' \in [Requests -> Reqs]
    BY <2>2, WroteIs, GoToIs
  <2>4. grant' \in [Users -> [Companies -> GrantRoles]] /\ holder' \in [Tasks -> Users \cup {Nobody}]
    BY <1>8, <2>1 DEF AccessWrite, Release, TypeOK
  <2>5. tangled' \subseteq Users
    BY <1>8, <2>1 DEF AccessWrite, Granted, Tangle, TypeOK
  <2> QED  BY <1>8, <2>3, <2>4, <2>5 DEF AccessWrite, TypeOK
<1>9. CASE AccessRole(r)
  <2>1. PICK g \in Roles : role' = [role EXCEPT ![q.user] = g] /\ Wrote(r, IF g = "VIEWER" THEN "accTasks" ELSE "idle")
                           /\ Tangle(r, q.user, TRUE)
    BY <1>9 DEF AccessRole
  <2>2. q.pc = "accRole" /\ q.user \in Users
    BY <1>1, <1>9, OfReq DEF AccessRole, At
  <2>3. req' \in [Requests -> Reqs]
    BY <2>1, <2>2, WroteIs DEF Follows, Accessing
  <2>4. role' \in [Users -> Roles \cup {"absent"}] /\ tangled' \subseteq Users
    BY <2>1, <2>2 DEF Tangle, TypeOK
  <2> QED  BY <1>9, <2>3, <2>4 DEF AccessRole, work, TypeOK
<1>10. CASE InviteRead(r)
  <2>1. PICK u \in Users \ Accounts, g \in Given \ {"SUPER_ADMIN"}, cs \in SUBSET company :
          Begin(r, [sure |-> TRUE, pc |-> "invite", user |-> u, role |-> g, on |-> cs])
    BY <1>10 DEF InviteRead
  <2>2. [sure |-> TRUE, pc |-> "invite", user |-> u, role |-> g, on |-> cs] \in Reqs
    BY <1>1, <2>1 DEF Reqs, TypeOK
  <2> QED  BY <1>2, <2>1, <2>2, BeginIs
<1>11. CASE CompanyInviteRead(r)
  <2>1. PICK a \in Actors, c \in company, u \in Users \ Accounts, g \in Given :
          /\ CanInviteAs(EffectiveRole(a, c), g)
          /\ Begin(r, [sure |-> TRUE, pc |-> "invite", user |-> u, role |-> g, on |-> {c}])
    BY <1>11 DEF CompanyInviteRead
  <2>2. [sure |-> TRUE, pc |-> "invite", user |-> u, role |-> g, on |-> {c}] \in Reqs
    BY <2>1 DEF Reqs, TypeOK, CanInviteAs
  <2> QED  BY <1>2, <2>1, <2>2, BeginIs
<1>12. CASE InviteWrite(r)
  <2>1. q.user \in Users /\ q.role \in Roles \ {"SUPER_ADMIN"}
    BY <1>1, <1>12, OfReq DEF InviteWrite, At
  <2>2. req' \in [Requests -> Reqs]
    BY <1>12, WroteIs, GoToIs DEF InviteWrite
  <2>3. /\ role' \in [Users -> Roles \cup {"absent"}] /\ active' \in [Users -> BOOLEAN]
        /\ grant' \in [Users -> [Companies -> GrantRoles]]
    <3>1. CASE UNCHANGED people
      BY <3>1 DEF people, TypeOK
    <3>2. CASE /\ role'   = [role   EXCEPT ![q.user] = q.role]
               /\ active' = [active EXCEPT ![q.user] = TRUE]
               /\ grant'  = [grant  EXCEPT ![q.user] = [c \in Companies |-> IF c \in q.on THEN q.role ELSE None]]
      <4>1. [c \in Companies |-> IF c \in q.on THEN q.role ELSE None] \in [Companies -> GrantRoles]
        BY <2>1 DEF GrantRoles
      <4> QED  BY <2>1, <3>2, <4>1 DEF TypeOK
    <3> QED  BY <1>12, <3>1, <3>2 DEF InviteWrite
  <2> QED  BY <1>12, <2>2, <2>3 DEF InviteWrite, work, TypeOK
<1>13. CASE OnboardRead(r)
  <2>1. PICK a \in Actors, c \in Companies \ company :
          /\ role[a] \in Capable.company_create
          /\ Begin(r, [sure |-> TRUE, pc |-> "onboard", user |-> a, on |-> c, role |-> role[a]])
    BY <1>13 DEF OnboardRead
  <2>2. [sure |-> TRUE, pc |-> "onboard", user |-> a, on |-> c, role |-> role[a]] \in Reqs
    BY <2>1 DEF Reqs, TypeOK, Actors, Accounts
  <2> QED  BY <1>2, <2>1, <2>2, BeginIs
<1>14. CASE OnboardWrite(r)
  <2>1. q.user \in Users /\ q.role \in Roles /\ q.on \in Companies
    BY <1>1, <1>14, OfReq DEF OnboardWrite, At
  <2>2. req' \in [Requests -> Reqs]
    BY <1>14, WroteIs, GoToIs DEF OnboardWrite
  <2>3. /\ grant' \in [Users -> [Companies -> GrantRoles]] /\ company' \subseteq Companies
        /\ open' \subseteq Tasks /\ tangled' \subseteq Users /\ UNCHANGED <<holder, doubted>>
    <3>1. CASE q.on \in company
      BY <1>14, <3>1 DEF OnboardWrite, TypeOK, work
    <3>2. CASE q.on \notin company
      <4>1. /\ grant' = IF SeesEveryCompany(q.role) THEN grant ELSE [grant EXCEPT ![q.user][q.on] = q.role]
            /\ company' = company \cup {q.on} /\ open' = open \cup {t \in Tasks : TaskCompany[t] = q.on}
            /\ Tangle(r, q.user, FALSE) /\ UNCHANGED <<holder, doubted>>
        BY <1>14, <3>2 DEF OnboardWrite
      <4>2. grant' \in [Users -> [Companies -> GrantRoles]]
        BY <2>1, <4>1 DEF TypeOK, GrantRoles, SeesEveryCompany
      <4>3. tangled' \subseteq Users
        BY <2>1, <4>1 DEF Tangle, TypeOK
      <4> QED  BY <2>1, <4>1, <4>2, <4>3 DEF TypeOK
    <3> QED  BY <3>1, <3>2
  <2> QED  BY <1>14, <2>2, <2>3 DEF OnboardWrite, TypeOK
<1>15. CASE DeleteCompany(r)
  <2>1. PICK c \in company :
          /\ company' = company \ {c}
          /\ grant'   = [u \in Users |-> [grant[u] EXCEPT ![c] = None]]
          /\ tangled' = tangled \cup {u \in Users : grant[u][c] # None}
          /\ LET gone == {t \in Tasks : TaskCompany[t] = c}
             IN  Release(gone) /\ open' = open \ gone /\ doubted' = doubted \ gone
    BY <1>15 DEF DeleteCompany
  <2>2. req' \in [Requests -> Reqs] /\ made' \in 0..MaxRequests
    BY <1>1, <1>15, WroteIs DEF DeleteCompany, TypeOK
  <2>3. grant' \in [Users -> [Companies -> GrantRoles]]
    BY <2>1 DEF TypeOK, GrantRoles
  <2>4. holder' \in [Tasks -> Users \cup {Nobody}]
    BY <2>1 DEF TypeOK, Release
  <2> QED  BY <1>15, <2>1, <2>2, <2>3, <2>4 DEF DeleteCompany, TypeOK
<1>16. CASE AssignRead(r)
  <2>1. PICK t \in Tasks, u \in Actors : Begin(r, [sure |-> TRUE, pc |-> "assign", task |-> t, user |-> u])
    BY <1>16 DEF AssignRead
  <2>2. [sure |-> TRUE, pc |-> "assign", task |-> t, user |-> u] \in Reqs
    BY <2>1 DEF Reqs, Actors, Accounts
  <2> QED  BY <1>2, <2>1, <2>2, BeginIs
<1>17. CASE AssignWrite(r)
  <2>1. q.user \in Users /\ q.task \in Tasks
    BY <1>1, <1>17, OfReq DEF AssignWrite, At
  <2>2. req' \in [Requests -> Reqs]
    BY <1>17, GoToIs DEF AssignWrite
  <2> QED  BY <1>17, <2>1, <2>2 DEF AssignWrite, people, TypeOK
<1>18. CASE Finish(r)
  BY <1>1, <1>18 DEF Finish, people, TypeOK
<1>19. CASE EdgeAccess(r)
  <2>1. req' \in [Requests -> Reqs] /\ made' \in 0..MaxRequests
    BY <1>1, <1>19, WroteIs DEF EdgeAccess, TypeOK
  <2>2. NoGrants \in [Companies -> GrantRoles]
    BY DEF NoGrants, GrantRoles
  <2> QED  BY <1>19, <2>1, <2>2 DEF EdgeAccess, work, Accounts, TypeOK
<1>20. CASE Die(r)
  <2>1. req' \in [Requests -> Reqs]
    BY <1>20, GoToIs DEF Die
  <2>2. cut' \subseteq Users
    BY <1>1, <1>20, OfReq DEF Die, At, TypeOK
  <2> QED  BY <1>1, <1>20, <2>1, <2>2 DEF Die, people, work, TypeOK
<1>21. CASE UpdateCount(r)
  <2>1. PICK next \in {"updUser", "idle"} : GoTo(r, next) /\ UNCHANGED <<world, made, faults>>
    BY <1>21 DEF UpdateCount
  <2>2. next = "idle" \/ Follows(next, q.pc)
    BY <1>21, <2>1 DEF UpdateCount, At, Follows, Updating
  <2> QED  BY <2>1, <2>2, <1>2, GoToIs DEF TypeOK
<1>22. CASE EdgeInvite(r)
  <2>1. PICK u \in Users \ Accounts, g \in Given, cs \in SUBSET company :
          /\ role'   = [role   EXCEPT ![u] = g]
          /\ active' = [active EXCEPT ![u] = TRUE]
          /\ grant'  = [grant  EXCEPT ![u] = NoGrants]
          /\ req' = [p \in Requests |->
                       IF p # r THEN Doubt(req[p])
                       ELSE IF cs = {} THEN Idle
                       ELSE [sure |-> TRUE, pc |-> "newGrants", user |-> u, role |-> g, on |-> cs]]
    BY <1>22 DEF EdgeInvite
  <2>2. req' \in [Requests -> Reqs]
    <3>1. g \in Roles /\ cs \in SUBSET Companies
      BY <1>1, <2>1 DEF TypeOK
    <3> QED  BY <2>1, <3>1, EdgeInviteIs
  <2>3. made' \in 0..MaxRequests /\ UNCHANGED <<company, work, faults, cut, tangled>>
    BY <1>1, <1>22 DEF EdgeInvite, TypeOK
  <2>4. NoGrants \in [Companies -> GrantRoles]
    BY DEF NoGrants, GrantRoles
  <2>5. /\ role' \in [Users -> Roles \cup {"absent"}] /\ active' \in [Users -> BOOLEAN]
        /\ grant' \in [Users -> [Companies -> GrantRoles]]
    BY <1>1, <2>1, <2>4 DEF TypeOK
  <2> QED  BY <2>2, <2>3, <2>5 DEF work, TypeOK
<1>23. CASE EdgeInviteGrants(r)
  <2>1. q.user \in Users /\ q.role \in Roles
    BY <1>1, <1>23, OfReq DEF EdgeInviteGrants, At
  <2>2. req' \in [Requests -> Reqs]
    BY <1>23, WroteIs, GoToIs DEF EdgeInviteGrants
  <2>3. grant' \in [Users -> [Companies -> GrantRoles]] /\ tangled' \subseteq Users
    <3>1. CASE UNCHANGED <<grant, tangled>>
      BY <3>1 DEF TypeOK
    <3>2. CASE /\ grant' = [grant EXCEPT ![q.user] =
                             [c \in Companies |-> IF c \notin q.on THEN @[c]
                                                  ELSE IF SeesEveryCompany(q.role) THEN "ADMIN" ELSE q.role]]
               /\ Tangle(r, q.user, FALSE)
      <4>1. [c \in Companies |-> IF c \notin q.on THEN grant[q.user][c]
                                 ELSE IF SeesEveryCompany(q.role) THEN "ADMIN" ELSE q.role] \in [Companies -> GrantRoles]
        BY <2>1 DEF TypeOK, GrantRoles, Roles, SeesEveryCompany
      <4> QED  BY <2>1, <3>2, <4>1 DEF TypeOK, Tangle
    <3> QED  BY <1>23, <3>1, <3>2 DEF EdgeInviteGrants
  <2> QED  BY <1>23, <2>2, <2>3 DEF EdgeInviteGrants, work, TypeOK
<1> QED
  BY <1>3, <1>4, <1>5, <1>6, <1>7, <1>8, <1>9, <1>10, <1>11, <1>12, <1>13, <1>14, <1>15, <1>16,
     <1>17, <1>18, <1>19, <1>20, <1>21, <1>22, <1>23 DEF Request

-----------------------------------------------------------------------------
(* What a request is sure of. *)

\* A step that leaves people alone leaves what the others are sure of.
LEMMA SureUnwritten ==
  ASSUME SureInv, NEW r \in Requests, UNCHANGED people, \A q \in Requests \ {r} : req'[q] = req[q], Sound(req[r])'
  PROVE  SureInv'
<1>1. ASSUME NEW q \in Requests \ {r}  PROVE Sound(req[q])'
  <2>1. req'[q] = req[q] /\ Sound(req[q])
    BY DEF SureInv
  <2>2. UNCHANGED <<role, active, grant>>
    BY DEF people
  <2> QED  BY <2>1, <2>2 DEF Sound, LosingSuperAdmin, OthersCounted, Assignable, Actors, Accounts
<1> QED  BY <1>1 DEF SureInv

\* A step that writes people leaves the others sure of nothing.
LEMMA SureWritten ==
  ASSUME TypeOK, SureInv, NEW r \in Requests, Sound(req[r])',
         \A q \in Requests \ {r} : /\ req'[q].pc = req[q].pc /\ Keeps(req'[q], req[q])
                                   /\ req'[q].pc # "idle" => ~req'[q].sure
  PROVE  SureInv'
<1>1. ASSUME NEW q \in Requests \ {r}  PROVE Sound(req[q])'
  <2>1. /\ req'[q].pc = req[q].pc /\ Keeps(req'[q], req[q]) /\ Sound(req[q])
        /\ req'[q].pc # "idle" => ~req'[q].sure
    BY DEF SureInv
  <2>2. req'[q].pc = "updGrants" => ReachesGrants(req'[q])
    BY <2>1 DEF Sound, ReachesGrants, Keeps, Updating
  <2> QED  BY <2>1, <2>2 DEF Sound
<1> QED  BY <1>1 DEF SureInv

\* A request at one of these steps relies on nothing it has read.
LEMMA SureOfNothing ==
  ASSUME NEW r \in Requests, req'[r].pc \in {"idle", "updTasks", "accTasks", "invite"}
  PROVE  Sound(req[r])'
  BY DEF Sound

LEMMA SureStep ==
  ASSUME TypeOK, SureInv, NEW r \in Requests, Request(r)
  PROVE  SureInv'
<1> DEFINE q == req[r]
<1>1. q \in Reqs /\ Sound(q) /\ Idle \in Reqs /\ Idle.pc = "idle"
  BY DEF TypeOK, SureInv, Reqs, Idle
<1>2. CASE UpdateRead(r)
  <2>1. PICK u \in Accounts, change \in Changes :
          Begin(r, [sure |-> TRUE,
                    pc |-> IF LosingSuperAdmin(u, change[1], change[2]) THEN "updCount" ELSE "updUser",
                    user |-> u, role |-> change[1], active |-> change[2], was |-> role[u]])
    BY <1>2 DEF UpdateRead
  <2> DEFINE p == [sure |-> TRUE,
                   pc |-> IF LosingSuperAdmin(u, change[1], change[2]) THEN "updCount" ELSE "updUser",
                   user |-> u, role |-> change[1], active |-> change[2], was |-> role[u]]
  <2>2. p \in Reqs
    <3>1. change[1] \in Given \cup {Keep} /\ change[2] \in {"yes", "no", Keep}
      BY PeopleAssumption DEF PeopleAssumption
    <3> QED  BY <2>1, <3>1 DEF Reqs, TypeOK, Accounts
  <2>3. req'[r] = p /\ UNCHANGED people /\ \A o \in Requests \ {r} : req'[o] = req[o]
    BY <2>1, <2>2, BeginIs DEF world
  <2>4. Sound(req[r])'
    BY <2>1, <2>3 DEF Sound, people, LosingSuperAdmin, OthersCounted, Actors, Accounts
  <2> QED  BY <2>3, <2>4, SureUnwritten
<1>3. CASE UpdateUser(r)
  <2> DEFINE next == IF ReachesGrants(q) THEN "updGrants" ELSE IF MustRelease(q) THEN "updTasks" ELSE "idle"
  <2>1. Wrote(r, next) /\ (next = "idle" \/ Follows(next, q.pc)) /\ q.pc = "updUser"
    BY <1>3 DEF UpdateUser, At, Follows, Updating
  <2>2. Moved(r, next)
    BY <2>1, WroteIs
  <2>3. Sound(req[r])'
    <3>1. CASE ReachesGrants(q)
      <4>1. req'[r].pc = "updGrants" /\ Keeps(req'[r], q)
        BY <2>2, <3>1 DEF Moved
      <4>2. req'[r].user = q.user /\ req'[r].role = q.role /\ req'[r].was = q.was
        BY <2>1, <4>1 DEF Keeps, Updating
      <4>3. ReachesGrants(req'[r])
        BY <3>1, <4>2 DEF ReachesGrants
      <4>4. role'[q.user] = q.role
        BY <1>1, <1>3, <2>1, <3>1, OfReq DEF UpdateUser, ReachesGrants, TypeOK
      <4> QED  BY <4>1, <4>2, <4>3, <4>4 DEF Sound
    <3>2. CASE ~ReachesGrants(q)
      <4>1. req'[r].pc \in {"idle", "updTasks"}
        BY <1>1, <2>2, <3>2 DEF Moved
      <4> QED  BY <4>1, SureOfNothing
    <3> QED  BY <3>1, <3>2
  <2> QED  BY <2>1, <2>3, WroteIs, SureWritten
<1>4. CASE UpdateGrants(r)
  <2> DEFINE next == IF MustRelease(q) THEN "updTasks" ELSE "idle"
  <2>1. Wrote(r, next) /\ (next = "idle" \/ Follows(next, q.pc))
    BY <1>4 DEF UpdateGrants, At, Follows, Updating
  <2>2. req'[r].pc \in {"idle", "updTasks"}
    BY <1>1, <2>1, WroteIs DEF Moved
  <2> QED  BY <2>1, <2>2, WroteIs, SureWritten, SureOfNothing
<1>5. CASE UpdateTasks(r) \/ AccessTasks(r) \/ AssignWrite(r) \/ Die(r)
  <2>1. GoTo(r, "idle") /\ UNCHANGED people
    BY <1>5 DEF UpdateTasks, AccessTasks, AssignWrite, Die
  <2>2. req'[r].pc = "idle" /\ \A o \in Requests \ {r} : req'[o] = req[o]
    BY <1>1, <2>1, GoToIs DEF Moved
  <2> QED  BY <2>1, <2>2, SureUnwritten, SureOfNothing
<1>6. CASE AccessRead(r)
  <2>1. PICK u \in Accounts, g \in Grants, twice \in BOOLEAN :
          /\ ~SeesEveryCompany(role[u])
          /\ Begin(r, [sure |-> TRUE, pc |-> "access", user |-> u, grants |-> g, twice |-> twice, was |-> role[u]])
    BY <1>6 DEF AccessRead
  <2> DEFINE p == [sure |-> TRUE, pc |-> "access", user |-> u, grants |-> g, twice |-> twice, was |-> role[u]]
  <2>2. p \in Reqs
    <3>1. g \in [Companies -> GrantRoles]
      BY PeopleAssumption DEF PeopleAssumption, Grants, GrantRoles
    <3> QED  BY <2>1, <3>1 DEF Reqs, TypeOK, Accounts
  <2>3. req'[r] = p /\ UNCHANGED people /\ \A o \in Requests \ {r} : req'[o] = req[o]
    BY <2>1, <2>2, BeginIs DEF world
  <2>4. Sound(req[r])'
    BY <2>1, <2>3 DEF Sound, people, SeesEveryCompany
  <2> QED  BY <2>3, <2>4, SureUnwritten
<1>7. CASE AccessWrite(r)
  <2> DEFINE next == IF RoleMoves(q) THEN "accRole" ELSE "idle"
  <2>1. q.pc = "access" /\ q.user \in Users /\ UNCHANGED <<role, active>>
    BY <1>1, <1>7, OfReq DEF AccessWrite, At
  <2>2. CASE Wrote(r, next) /\ grant' = [grant EXCEPT ![q.user] = q.grants]
    <3>1. next = "idle" \/ Follows(next, q.pc)
      BY <2>1 DEF Follows, Accessing
    <3>2. Moved(r, next)
      BY <2>2, <3>1, WroteIs
    <3>3. Sound(req[r])'
      <4>1. CASE RoleMoves(q)
        <5>1. req'[r].pc = "accRole" /\ req'[r].sure = q.sure /\ Keeps(req'[r], q)
          BY <3>2, <4>1 DEF Moved
        <5>2. req'[r].user = q.user /\ req'[r].grants = q.grants /\ req'[r].was = q.was
          BY <2>1, <5>1 DEF Keeps, Accessing
        <5>3. q.sure => q.was = role[q.user] /\ q.was # "SUPER_ADMIN"
          BY <1>1, <2>1 DEF Sound
        <5>4. grant'[q.user] = q.grants /\ role'[q.user] = role[q.user]
          BY <2>1, <2>2 DEF TypeOK
        <5> QED  BY <5>1, <5>2, <5>3, <5>4 DEF Sound
      <4>2. CASE ~RoleMoves(q)
        BY <1>1, <3>2, <4>2, SureOfNothing DEF Moved
      <4> QED  BY <4>1, <4>2
    <3> QED  BY <2>2, <3>1, <3>3, WroteIs, SureWritten
  <2>3. CASE GoTo(r, "idle") /\ UNCHANGED grant
    <3>1. req'[r].pc = "idle" /\ \A o \in Requests \ {r} : req'[o] = req[o]
      BY <1>1, <2>3, GoToIs DEF Moved
    <3> QED  BY <2>1, <2>3, <3>1, SureUnwritten, SureOfNothing DEF people
  <2> QED  BY <1>7, <2>2, <2>3 DEF AccessWrite
<1>8. CASE AccessRole(r)
  <2>1. PICK next \in {"accTasks", "idle"} : Wrote(r, next)
    BY <1>8 DEF AccessRole
  <2>2. next = "idle" \/ Follows(next, q.pc)
    BY <1>8 DEF AccessRole, At, Follows, Accessing
  <2>3. req'[r].pc \in {"idle", "accTasks"}
    BY <1>1, <2>1, <2>2, WroteIs DEF Moved
  <2> QED  BY <2>1, <2>2, <2>3, WroteIs, SureWritten, SureOfNothing
<1>9. CASE InviteRead(r) \/ CompanyInviteRead(r)
  <2>1. PICK u \in Users, g \in Roles \ {"SUPER_ADMIN"}, cs \in SUBSET company :
          Begin(r, [sure |-> TRUE, pc |-> "invite", user |-> u, role |-> g, on |-> cs])
    <3>1. CASE InviteRead(r)
      <4>1. PICK u \in Users \ Accounts, g \in Given \ {"SUPER_ADMIN"}, cs \in SUBSET company :
              Begin(r, [sure |-> TRUE, pc |-> "invite", user |-> u, role |-> g, on |-> cs])
        BY <3>1 DEF InviteRead
      <4> QED  BY <4>1, PeopleAssumption DEF PeopleAssumption
    <3>2. CASE CompanyInviteRead(r)
      <4>1. PICK a \in Actors, c \in company, u \in Users \ Accounts, g \in Given :
              /\ CanInviteAs(EffectiveRole(a, c), g)
              /\ Begin(r, [sure |-> TRUE, pc |-> "invite", user |-> u, role |-> g, on |-> {c}])
        BY <3>2 DEF CompanyInviteRead
      <4> QED  BY <4>1 DEF CanInviteAs
    <3> QED  BY <1>9, <3>1, <3>2
  <2> DEFINE p == [sure |-> TRUE, pc |-> "invite", user |-> u, role |-> g, on |-> cs]
  <2>2. p \in Reqs
    BY <2>1 DEF Reqs, TypeOK
  <2>3. req'[r] = p /\ UNCHANGED people /\ \A o \in Requests \ {r} : req'[o] = req[o]
    BY <2>1, <2>2, BeginIs DEF world
  <2> QED  BY <2>3, SureUnwritten, SureOfNothing
<1>10. CASE InviteWrite(r)
  <2>1. (GoTo(r, "idle") /\ UNCHANGED people) \/ Wrote(r, "idle")
    BY <1>10 DEF InviteWrite
  <2>2. CASE GoTo(r, "idle") /\ UNCHANGED people
    <3>1. req'[r].pc = "idle" /\ \A o \in Requests \ {r} : req'[o] = req[o]
      BY <1>1, <2>2, GoToIs DEF Moved
    <3> QED  BY <2>2, <3>1, SureUnwritten, SureOfNothing
  <2>3. CASE Wrote(r, "idle")
    BY <1>1, <2>3, WroteIs, SureWritten, SureOfNothing DEF Moved
  <2> QED  BY <2>1, <2>2, <2>3
<1>11. CASE OnboardRead(r)
  <2>1. PICK a \in Actors, c \in Companies \ company :
          Begin(r, [sure |-> TRUE, pc |-> "onboard", user |-> a, on |-> c, role |-> role[a]]) /\ role[a] \in Roles
    BY <1>11 DEF OnboardRead, Capable
  <2> DEFINE p == [sure |-> TRUE, pc |-> "onboard", user |-> a, on |-> c, role |-> role[a]]
  <2>2. p \in Reqs
    BY <2>1 DEF Reqs, Actors, Accounts
  <2>3. req'[r] = p /\ UNCHANGED people /\ \A o \in Requests \ {r} : req'[o] = req[o]
    BY <2>1, <2>2, BeginIs DEF world
  <2>4. Sound(req[r])'
    BY <2>3 DEF Sound, people
  <2> QED  BY <2>3, <2>4, SureUnwritten
<1>12. CASE OnboardWrite(r)
  <2>1. (GoTo(r, "idle") /\ UNCHANGED people) \/ Wrote(r, "idle")
    BY <1>12 DEF OnboardWrite, people
  <2>2. CASE GoTo(r, "idle") /\ UNCHANGED people
    <3>1. req'[r].pc = "idle" /\ \A o \in Requests \ {r} : req'[o] = req[o]
      BY <1>1, <2>2, GoToIs DEF Moved
    <3> QED  BY <2>2, <3>1, SureUnwritten, SureOfNothing
  <2>3. CASE Wrote(r, "idle")
    BY <1>1, <2>3, WroteIs, SureWritten, SureOfNothing DEF Moved
  <2> QED  BY <2>1, <2>2, <2>3
<1>13. CASE DeleteCompany(r) \/ EdgeAccess(r)
  <2>1. Wrote(r, "idle")
    BY <1>13 DEF DeleteCompany, EdgeAccess
  <2> QED  BY <1>1, <2>1, WroteIs, SureWritten, SureOfNothing DEF Moved
<1>14. CASE AssignRead(r)
  <2>1. PICK t \in Tasks, u \in Actors :
          /\ Assignable(u, TaskCompany[t])
          /\ Begin(r, [sure |-> TRUE, pc |-> "assign", task |-> t, user |-> u])
    BY <1>14 DEF AssignRead
  <2> DEFINE p == [sure |-> TRUE, pc |-> "assign", task |-> t, user |-> u]
  <2>2. p \in Reqs
    BY <2>1 DEF Reqs, Actors, Accounts
  <2>3. req'[r] = p /\ UNCHANGED people /\ \A o \in Requests \ {r} : req'[o] = req[o]
    BY <2>1, <2>2, BeginIs DEF world
  <2>4. Sound(req[r])'
    BY <2>1, <2>3 DEF Sound, people, Assignable, Actors, Accounts
  <2> QED  BY <2>3, <2>4, SureUnwritten
<1>15. CASE Finish(r)
  <2>1. req'[r] = req[r] /\ req[r].pc = "idle" /\ UNCHANGED people
    BY <1>15 DEF Finish, At
  <2>2. \A o \in Requests \ {r} : req'[o] = req[o]
    BY <1>15 DEF Finish
  <2> QED  BY <2>1, <2>2, SureUnwritten, SureOfNothing
<1>16. CASE UpdateCount(r)
  <2>1. q.pc = "updCount" /\ UNCHANGED people
    BY <1>16 DEF UpdateCount, At, world
  <2>2. CASE GoTo(r, "updUser") /\ OthersCounted(q.user)
    <3>1. req'[r].pc = "updUser" /\ req'[r].sure = q.sure /\ Keeps(req'[r], q) /\ \A o \in Requests \ {r} : req'[o] = req[o]
      BY <2>1, <2>2, GoToIs DEF Follows, Updating, Moved
    <3>2. Sound(req[r])'
      BY <1>1, <2>1, <2>2, <3>1 DEF Sound, Keeps, Updating, people, OthersCounted, Actors, Accounts
    <3> QED  BY <2>1, <3>1, <3>2, SureUnwritten
  <2>3. CASE GoTo(r, "idle")
    <3>1. req'[r].pc = "idle" /\ \A o \in Requests \ {r} : req'[o] = req[o]
      BY <1>1, <2>3, GoToIs DEF Moved
    <3> QED  BY <2>1, <3>1, SureUnwritten, SureOfNothing
  <2> QED  BY <1>16, <2>2, <2>3 DEF UpdateCount
<1>17. CASE EdgeInvite(r)
  <2>1. PICK u \in Users \ Accounts, g \in Given, cs \in SUBSET company :
          /\ role'   = [role   EXCEPT ![u] = g]
          /\ active' = [active EXCEPT ![u] = TRUE]
          /\ grant'  = [grant  EXCEPT ![u] = NoGrants]
          /\ req' = [p \in Requests |->
                       IF p # r THEN Doubt(req[p])
                       ELSE IF cs = {} THEN Idle
                       ELSE [sure |-> TRUE, pc |-> "newGrants", user |-> u, role |-> g, on |-> cs]]
    BY <1>17 DEF EdgeInvite
  <2>2. g \in Roles /\ cs \in SUBSET Companies
    BY PeopleAssumption, <2>1 DEF PeopleAssumption, TypeOK
  <2>3. /\ req'[r] = Idle \/ req'[r] = [sure |-> TRUE, pc |-> "newGrants", user |-> u, role |-> g, on |-> cs]
        /\ \A o \in Requests \ {r} : /\ req'[o].pc = req[o].pc /\ Keeps(req'[o], req[o])
                                     /\ req'[o].pc # "idle" => ~req'[o].sure
    BY <2>1, <2>2, EdgeInviteIs
  <2>4. role'[u] = g /\ grant'[u] = NoGrants
    BY <2>1 DEF TypeOK
  <2>5. Sound(req[r])'
    BY <1>1, <2>3, <2>4 DEF Sound
  <2> QED  BY <2>3, <2>5, SureWritten
<1>18. CASE EdgeInviteGrants(r)
  <2>1. (GoTo(r, "idle") /\ UNCHANGED people) \/ Wrote(r, "idle")
    BY <1>18 DEF EdgeInviteGrants, people
  <2>2. CASE GoTo(r, "idle") /\ UNCHANGED people
    <3>1. req'[r].pc = "idle" /\ \A o \in Requests \ {r} : req'[o] = req[o]
      BY <1>1, <2>2, GoToIs DEF Moved
    <3> QED  BY <2>2, <3>1, SureUnwritten, SureOfNothing
  <2>3. CASE Wrote(r, "idle")
    BY <1>1, <2>3, WroteIs, SureWritten, SureOfNothing DEF Moved
  <2> QED  BY <2>1, <2>2, <2>3
<1> QED
  BY <1>2, <1>3, <1>4, <1>5, <1>6, <1>7, <1>8, <1>9, <1>10, <1>11, <1>12, <1>13, <1>14, <1>15, <1>16, <1>17,
     <1>18 DEF Request

\* No single request that is sure leaves the organisation without a super admin,
\* save one that names the role and deactivates in the same breath.
LEMMA AdminStep ==
  ASSUME TypeOK, SureInv, NEW r \in Requests, Request(r), SuperAdmins # {}, SuperAdmins' = {}
  PROVE  /\ req[r] # req'[r]
         /\ ~req[r].sure \/ (At(r, "updUser") /\ req[r].role = "SUPER_ADMIN" /\ req[r].active = "no")
<1> DEFINE q == req[r]
<1>1. PICK v \in Users : role[v] = "SUPER_ADMIN" /\ active[v]
  BY DEF SuperAdmins, Actors, Accounts
<1>2. \A u \in Users : ~(role'[u] = "SUPER_ADMIN" /\ active'[u])
  BY DEF SuperAdmins, Actors, Accounts
<1>3. q \in Reqs /\ Sound(q) /\ Idle.pc = "idle"
  BY DEF TypeOK, SureInv, Idle
<1>4. CASE UpdateUser(r)
  <2> DEFINE next == IF ReachesGrants(q) THEN "updGrants" ELSE IF MustRelease(q) THEN "updTasks" ELSE "idle"
  <2>1. /\ q.pc = "updUser" /\ q.user \in Users
        /\ q.role \in Given \cup {Keep} /\ q.active \in {"yes", "no", Keep}
    BY <1>3, <1>4, OfReq DEF UpdateUser, At, Updating
  <2>2. req'[r] # q
    <3>1. Moved(r, next)
      BY <1>4, <2>1, WroteIs DEF UpdateUser, Follows, Updating
    <3>2. next \in {"updGrants", "updTasks", "idle"}
      OBVIOUS
    <3> HIDE DEF next
    <3> QED  BY <1>3, <2>1, <3>1, <3>2 DEF Moved
  <2>3. /\ role'   = IF q.role = Keep THEN role ELSE [role EXCEPT ![q.user] = q.role]
        /\ active' = IF q.active = Keep THEN active ELSE [active EXCEPT ![q.user] = q.active = "yes"]
    BY <1>4 DEF UpdateUser
  <2>4. \A u \in Users \ {q.user} : role'[u] = role[u] /\ active'[u] = active[u]
    BY <2>3 DEF TypeOK
  <2>5. ~OthersCounted(q.user) /\ v = q.user
    BY <1>1, <1>2, <2>4 DEF OthersCounted, Actors, Accounts
  <2>6. q.sure => ~LosingSuperAdmin(q.user, q.role, q.active)
    BY <1>3, <2>1, <2>5 DEF Sound
  <2>7. ASSUME q.sure  PROVE q.role = "SUPER_ADMIN" /\ q.active = "no"
    <3>1. CASE q.role = Keep
      <4>1. q.active # "no"
        BY <1>1, <2>5, <2>6, <2>7, <3>1 DEF LosingSuperAdmin
      <4>2. role'[v] = "SUPER_ADMIN" /\ active'[v]
        BY <1>1, <2>1, <2>3, <2>5, <3>1, <4>1 DEF TypeOK
      <4> QED  BY <1>2, <4>2
    <3>2. CASE q.role # Keep
      <4>1. q.role = "SUPER_ADMIN"
        BY <1>1, <2>5, <2>6, <2>7, <3>2 DEF LosingSuperAdmin
      <4>2. role'[v] = "SUPER_ADMIN"
        BY <2>3, <2>5, <3>2, <4>1 DEF TypeOK
      <4>3. q.active # "no" => active'[v]
        BY <1>1, <2>1, <2>3, <2>5 DEF TypeOK
      <4> QED  BY <1>2, <4>1, <4>2, <4>3
    <3> QED  BY <3>1, <3>2
  <2> QED  BY <2>1, <2>2, <2>7 DEF At
<1>5. CASE AccessRole(r)
  <2>1. PICK g \in Roles : /\ role' = [role EXCEPT ![q.user] = g] /\ active' = active
                           /\ Wrote(r, IF g = "VIEWER" THEN "accTasks" ELSE "idle")
    BY <1>5 DEF AccessRole
  <2>2. q.pc = "accRole"
    BY <1>5 DEF AccessRole, At
  <2>3. req'[r] # q
    <3> DEFINE next == IF g = "VIEWER" THEN "accTasks" ELSE "idle"
    <3>1. Moved(r, next)
      BY <2>1, <2>2, WroteIs DEF Follows, Accessing
    <3>2. next \in {"accTasks", "idle"}
      OBVIOUS
    <3> HIDE DEF next
    <3> QED  BY <1>3, <2>2, <3>1, <3>2 DEF Moved
  <2>4. q.sure => v # q.user
    BY <1>1, <1>3, <2>2 DEF Sound
  <2>5. v # q.user => role'[v] = "SUPER_ADMIN" /\ active'[v]
    BY <1>1, <2>1 DEF TypeOK
  <2> QED  BY <1>2, <2>3, <2>4, <2>5
<1>6. CASE InviteWrite(r)
  <2>1. CASE UNCHANGED people
    BY <1>1, <1>2, <2>1 DEF people
  <2>2. CASE /\ q.user \notin Accounts
             /\ role'   = [role   EXCEPT ![q.user] = q.role]
             /\ active' = [active EXCEPT ![q.user] = TRUE]
    <3>1. v # q.user
      BY <1>1, <2>2 DEF Accounts
    <3>2. role'[v] = "SUPER_ADMIN" /\ active'[v]
      BY <1>1, <2>2, <3>1 DEF TypeOK
    <3> QED  BY <1>2, <3>2
  <2> QED  BY <1>6, <2>1, <2>2 DEF InviteWrite
<1>7. CASE EdgeInvite(r)
  <2>1. PICK u \in Users \ Accounts : \E g \in Given :
          role' = [role EXCEPT ![u] = g] /\ active' = [active EXCEPT ![u] = TRUE]
    BY <1>7 DEF EdgeInvite
  <2>2. v # u
    BY <1>1, <2>1 DEF Accounts
  <2>3. role'[v] = "SUPER_ADMIN" /\ active'[v]
    BY <1>1, <2>1, <2>2 DEF TypeOK
  <2> QED  BY <1>2, <2>3
<1>8. CASE UNCHANGED <<role, active>>
  BY <1>1, <1>2, <1>8
<1>9. \/ UpdateUser(r) \/ AccessRole(r) \/ InviteWrite(r) \/ EdgeInvite(r) \/ UNCHANGED <<role, active>>
  BY DEF Request, UpdateRead, UpdateCount, UpdateGrants, UpdateTasks, AccessRead, AccessWrite, AccessTasks, InviteRead,
         CompanyInviteRead, OnboardRead, OnboardWrite, DeleteCompany, AssignRead, AssignWrite, Finish, EdgeAccess,
         EdgeInviteGrants, Die, Begin, world, people
<1> QED  BY <1>4, <1>5, <1>6, <1>7, <1>8, <1>9

\* The types and what requests are sure of, in every reachable state.
LEMMA PeopleSure == Spec => [](TypeOK /\ SureInv)
<1>1. Init => TypeOK /\ SureInv
  <2>1. ASSUME Init  PROVE TypeOK
    <3>1. Given \subseteq Roles /\ TaskCompany \in [Tasks -> Companies] /\ MaxRequests \in Nat /\ MaxFaults \in Nat
      BY PeopleAssumption DEF PeopleAssumption
    <3>2. /\ role \in [Users -> Roles \cup {"absent"}] /\ active \in [Users -> BOOLEAN]
          /\ grant \in [Users -> [Companies -> GrantRoles]]
      BY <2>1, <3>1 DEF Init, GrantRoles
    <3>3. req \in [Requests -> Reqs]
      BY <2>1 DEF Init, Reqs
    <3> QED  BY <2>1, <3>1, <3>2, <3>3 DEF Init, TypeOK
  <2>2. ASSUME Init  PROVE SureInv
    <3>1. \A r \in Requests : req[r].pc = "idle"
      BY <2>2 DEF Init, Idle
    <3> QED  BY <3>1 DEF SureInv, Sound
  <2> QED  BY <2>1, <2>2
<1>2. TypeOK /\ SureInv /\ [Next]_vars => TypeOK' /\ SureInv'
  <2>1. CASE TypeOK /\ SureInv /\ Next
    BY <2>1, TypeStep, SureStep DEF Next
  <2>2. CASE TypeOK /\ SureInv /\ UNCHANGED vars
    <3>1. TypeOK'
      BY <2>2 DEF vars, people, work, TypeOK
    <3>2. SureInv'
      BY <2>2 DEF vars, people, SureInv, Sound, LosingSuperAdmin, OthersCounted, Assignable, Actors, Accounts
    <3> QED  BY <3>1, <3>2
  <2> QED  BY <2>1, <2>2
<1> QED  BY <1>1, <1>2, PTL DEF Spec

\* Of any team, however requests overlap and fail: the last super admin goes
\* only by a request overtaken by another, or by the one the code lets through.
THEOREM AdminsRemain == Spec => AdminRemains
<1>1. TypeOK /\ SureInv /\ [Next]_vars =>
        [SuperAdmins # {} /\ SuperAdmins' = {} =>
           \E r \in Requests :
             /\ req[r] # req'[r]
             /\ ~req[r].sure \/ (At(r, "updUser") /\ req[r].role = "SUPER_ADMIN" /\ req[r].active = "no")]_vars
  BY AdminStep DEF Next
<1> QED  BY <1>1, PeopleSure, PTL DEF Spec, AdminRemains

-----------------------------------------------------------------------------
(* Open work can be opened. *)

LEMMA PlaceStep ==
  ASSUME TypeOK, PlaceInv, NEW r \in Requests, Request(r)
  PROVE  PlaceInv'
<1>1. CASE company' = company /\ \A t \in Tasks : holder'[t] \in {holder[t], Nobody}
  BY <1>1 DEF PlaceInv
<1>2. CASE OnboardWrite(r)
  <2>1. company \subseteq company' /\ UNCHANGED holder
    BY <1>2 DEF OnboardWrite, work
  <2> QED  BY <2>1 DEF PlaceInv
<1>3. CASE DeleteCompany(r)
  <2>1. PICK c \in company : company' = company \ {c} /\ Release({t \in Tasks : TaskCompany[t] = c})
    BY <1>3 DEF DeleteCompany
  <2> QED  BY <2>1 DEF PlaceInv, Release
<1>4. CASE AssignWrite(r)
  BY <1>4 DEF AssignWrite, There, PlaceInv, TypeOK
<1>5. CASE UpdateTasks(r) \/ AccessTasks(r) \/ AccessWrite(r)
  <2>1. company' = company /\ \A t \in Tasks : holder'[t] \in {holder[t], Nobody}
    BY <1>5 DEF UpdateTasks, AccessTasks, AccessWrite, Release
  <2> QED  BY <1>1, <2>1
<1>6. CASE \/ UpdateRead(r) \/ UpdateUser(r) \/ UpdateGrants(r) \/ AccessRead(r) \/ AccessRole(r) \/ InviteRead(r)
           \/ CompanyInviteRead(r) \/ InviteWrite(r) \/ OnboardRead(r) \/ AssignRead(r) \/ Finish(r) \/ EdgeAccess(r)
           \/ Die(r) \/ UpdateCount(r) \/ EdgeInvite(r) \/ EdgeInviteGrants(r)
  <2>1. UNCHANGED <<company, holder>>
    BY <1>6 DEF UpdateRead, UpdateUser, UpdateGrants, AccessRead, AccessRole, InviteRead, CompanyInviteRead,
                InviteWrite, OnboardRead, AssignRead, Finish, EdgeAccess, Die, UpdateCount, EdgeInvite,
                EdgeInviteGrants, Begin, world, work
  <2> QED  BY <1>1, <2>1
<1> QED  BY <1>2, <1>3, <1>4, <1>5, <1>6 DEF Request

\* What request r's step has to show: the others go on releasing.
LEMMA WorkKept ==
  ASSUME TypeOK, WorkInv, NEW r \in Requests, cut \subseteq cut',
         \A q \in Requests \ {r} : req'[q].pc = req[q].pc /\ Keeps(req'[q], req[q]),
         \A t \in open' \ doubted', u \in Users \ (cut' \cup {Nobody}) :
           holder'[t] = u =>
             \/ /\ t \in open \ doubted /\ holder[t] = u
                /\ CanOpen(u, t) => CanOpen(u, t)' \/ Releasing(req'[r], u)
                /\ Releasing(req[r], u) => Releasing(req'[r], u)
             \/ CanOpen(u, t)'
  PROVE  WorkInv'
<1> SUFFICES ASSUME NEW t \in open' \ doubted', NEW u \in Users \ (cut' \cup {Nobody}), holder'[t] = u
             PROVE  CanOpen(u, t)' \/ \E q \in Requests : Releasing(req'[q], u)
  BY DEF WorkInv, Releases
<1>1. CASE CanOpen(u, t)'
  BY <1>1
<1>2. CASE /\ t \in open \ doubted /\ holder[t] = u
           /\ CanOpen(u, t) => CanOpen(u, t)' \/ Releasing(req'[r], u)
           /\ Releasing(req[r], u) => Releasing(req'[r], u)
  <2>1. CanOpen(u, t) \/ Releases(u)
    BY <1>2 DEF WorkInv
  <2>2. CASE CanOpen(u, t)
    BY <1>2, <2>2
  <2>3. ASSUME NEW q \in Requests, Releasing(req[q], u)  PROVE Releasing(req'[q], u)
    <3>1. CASE q = r
      BY <1>2, <2>3, <3>1
    <3>2. CASE q # r
      BY <2>3, <3>2 DEF Releasing, MustRelease, Keeps, Updating
    <3> QED  BY <3>1, <3>2
  <2> QED  BY <2>1, <2>2, <2>3 DEF Releases
<1> QED  BY <1>1, <1>2

\* Steps that leave people and work alone, of a request that was releasing nobody.
LEMMA WorkIdle ==
  ASSUME TypeOK, WorkInv, NEW r \in Requests, UNCHANGED <<people, work>>, cut \subseteq cut',
         \A q \in Requests \ {r} : req'[q].pc = req[q].pc /\ Keeps(req'[q], req[q]),
         \A u \in Users \ cut' : ~Releasing(req[r], u)
  PROVE  WorkInv'
<1>1. \A u, t : CanOpen(u, t) => CanOpen(u, t)'
  BY DEF people, CanOpen, Actors, Accounts
<1> QED  BY <1>1, WorkKept DEF work

LEMMA WorkStep ==
  ASSUME TypeOK, SureInv, PlaceInv, WorkInv, NEW r \in Requests, Request(r)
  PROVE  WorkInv'
<1> DEFINE q == req[r]
<1>1. q \in Reqs /\ Sound(q) /\ Idle \in Reqs /\ Idle.pc = "idle"
  BY DEF TypeOK, SureInv, Reqs, Idle
<1>2. \A o \in Requests : Keeps(req[o], req[o])
  BY DEF Keeps
<1>3. None \notin Roles /\ Given \subseteq Roles
  BY PeopleAssumption DEF PeopleAssumption, None, Roles
<1>4. ASSUME UNCHANGED people  PROVE \A u, t : CanOpen(u, t) => CanOpen(u, t)'
  BY <1>4 DEF people, CanOpen, Actors, Accounts
<1>5. CASE UpdateRead(r) \/ AccessRead(r) \/ InviteRead(r) \/ CompanyInviteRead(r) \/ OnboardRead(r) \/ AssignRead(r)
  <2>1. PICK p : Begin(r, p)
    BY <1>5 DEF UpdateRead, AccessRead, InviteRead, CompanyInviteRead, OnboardRead, AssignRead
  <2>2. /\ UNCHANGED <<people, work, cut>> /\ q.pc = "idle"
        /\ \A o \in Requests \ {r} : req'[o] = req[o]
    BY <2>1 DEF Begin, world, TypeOK
  <2> QED  BY <1>2, <2>2, WorkIdle DEF Releasing
<1>6. CASE UpdateUser(r)
  <2> DEFINE next == IF ReachesGrants(q) THEN "updGrants" ELSE IF MustRelease(q) THEN "updTasks" ELSE "idle"
  <2>1. /\ q.pc = "updUser" /\ q.user \in Users /\ q.role \in Given \cup {Keep} /\ q.active \in {"yes", "no", Keep}
        /\ Wrote(r, next) /\ UNCHANGED <<grant, work, cut>>
        /\ role'   = IF q.role = Keep THEN role ELSE [role EXCEPT ![q.user] = q.role]
        /\ active' = IF q.active = Keep THEN active ELSE [active EXCEPT ![q.user] = q.active = "yes"]
    BY <1>1, <1>6, OfReq DEF UpdateUser, At, Updating
  <2>2. Moved(r, next) /\ \A o \in Requests \ {r} : req'[o].pc = req[o].pc /\ Keeps(req'[o], req[o])
    BY <2>1, WroteIs DEF Follows, Updating
  <2>3. MustRelease(q) => Releasing(req'[r], q.user)
    <3>1. ASSUME MustRelease(q)  PROVE Releasing(req'[r], q.user)
      <4>1. next \in {"updGrants", "updTasks"}
        BY <3>1
      <4> HIDE DEF next
      <4>2. req'[r].pc = next /\ Keeps(req'[r], q)
        BY <2>2, <4>1 DEF Moved
      <4> QED  BY <2>1, <3>1, <4>1, <4>2 DEF Releasing, MustRelease, Keeps, Updating
    <3> QED  BY <3>1
  <2>4. ASSUME NEW t, NEW u \in Users, CanOpen(u, t)  PROVE CanOpen(u, t)' \/ Releasing(req'[r], u)
    <3>1. CASE u # q.user
      BY <2>1, <2>4, <3>1 DEF CanOpen, Actors, Accounts, TypeOK
    <3>2. CASE u = q.user /\ MustRelease(q)
      BY <2>3, <3>2
    <3>3. CASE u = q.user /\ ~MustRelease(q)
      <4>1. role'[u] \notin {"SUPER_ADMIN", "absent"}
        BY <1>3, <2>1, <2>4, <3>3 DEF MustRelease, CanOpen, Actors, Accounts, TypeOK, Roles
      <4>2. active'[u]
        BY <2>1, <2>4, <3>3 DEF MustRelease, CanOpen, Actors, TypeOK
      <4> QED  BY <2>1, <2>4, <4>1, <4>2 DEF CanOpen, Actors, Accounts
    <3> QED  BY <3>1, <3>2, <3>3
  <2>5. \A u : ~Releasing(q, u)
    BY <2>1 DEF Releasing
  <2>6. UNCHANGED <<holder, open, doubted, cut>>
    BY <2>1 DEF work
  <2> HIDE DEF next
  <2> QED  BY <2>2, <2>4, <2>5, <2>6, WorkKept
<1>7. CASE UpdateGrants(r)
  <2> DEFINE next == IF MustRelease(q) THEN "updTasks" ELSE "idle"
  <2>1. /\ q.pc = "updGrants" /\ q.user \in Users /\ q.role \in Given
        /\ Wrote(r, next) /\ UNCHANGED <<role, active, work, cut>>
        /\ grant' = [grant EXCEPT ![q.user] = [c \in Companies |-> IF @[c] = None THEN None ELSE q.role]]
    BY <1>1, <1>7, OfReq DEF UpdateGrants, At, Updating, Sound, ReachesGrants
  <2>2. Moved(r, next) /\ \A o \in Requests \ {r} : req'[o].pc = req[o].pc /\ Keeps(req'[o], req[o])
    BY <2>1, WroteIs DEF Follows, Updating
  <2>3. \A u : Releasing(q, u) => Releasing(req'[r], u)
    <3>1. ASSUME NEW u, Releasing(q, u)  PROVE Releasing(req'[r], u)
      <4>1. req'[r].pc = "updTasks" /\ Keeps(req'[r], q)
        BY <2>1, <2>2, <3>1 DEF Moved, Releasing
      <4> QED  BY <2>1, <3>1, <4>1 DEF Releasing, Keeps, Updating
    <3> QED  BY <3>1
  <2>4. ASSUME NEW t \in Tasks, NEW u \in Users, CanOpen(u, t)  PROVE CanOpen(u, t)'
    <3>1. TaskCompany[t] \in Companies
      BY PeopleAssumption DEF PeopleAssumption
    <3>2. grant'[u][TaskCompany[t]] # None
      BY <1>3, <2>1, <2>4, <3>1 DEF CanOpen, TypeOK
    <3> QED  BY <2>1, <2>4, <3>2 DEF CanOpen, Actors, Accounts
  <2>5. UNCHANGED <<holder, open, doubted, cut>> /\ open \subseteq Tasks
    BY <2>1 DEF work, TypeOK
  <2> HIDE DEF next
  <2> QED  BY <2>2, <2>3, <2>4, <2>5, WorkKept
<1>8. CASE UpdateTasks(r) \/ AccessTasks(r)
  <2>1. /\ q.pc \in {"updTasks", "accTasks"} /\ Release(OpenWorkOf(q.user))
        /\ GoTo(r, "idle") /\ UNCHANGED <<people, open, doubted, cut>> /\ open \subseteq Tasks
    BY <1>8 DEF UpdateTasks, AccessTasks, At, TypeOK
  <2>2. \A t \in open', u \in Users \ {Nobody} : holder'[t] = u => holder[t] = u /\ u # q.user
    BY <2>1 DEF Release, OpenWorkOf
  <2>3. \A u : Releasing(q, u) => u = q.user
    BY DEF Releasing
  <2>4. \A o \in Requests \ {r} : req'[o].pc = req[o].pc /\ Keeps(req'[o], req[o])
    BY <1>2, <2>1, GoToIs
  <2> QED  BY <1>4, <2>1, <2>2, <2>3, <2>4, WorkKept
<1>9. CASE AccessWrite(r)
  <2> DEFINE next == IF RoleMoves(q) THEN "accRole" ELSE "idle"
  <2>1. /\ q.pc = "access" /\ q.user \in Users /\ q.grants \in [Companies -> GrantRoles]
        /\ UNCHANGED <<role, active, open, doubted, cut>> /\ open \subseteq Tasks
    BY <1>1, <1>9, OfReq DEF AccessWrite, At, Accessing, TypeOK
  <2>2. \A u : ~Releasing(q, u)
    BY <2>1 DEF Releasing
  <2>3. CASE GoTo(r, "idle") /\ UNCHANGED <<grant, holder>>
    <3>1. \A o \in Requests \ {r} : req'[o].pc = req[o].pc /\ Keeps(req'[o], req[o])
      BY <1>2, <2>3, GoToIs
    <3> QED  BY <2>1, <2>2, <2>3, <3>1, WorkIdle DEF people, work
  <2>4. CASE Wrote(r, next) /\ grant' = [grant EXCEPT ![q.user] = q.grants] /\ Release(Lost(q))
    <3>1. \A o \in Requests \ {r} : req'[o].pc = req[o].pc /\ Keeps(req'[o], req[o])
      BY <2>1, <2>4, WroteIs DEF Follows, Accessing
    <3>2. ASSUME NEW t \in open', NEW u \in Users \ {Nobody}, holder'[t] = u
          PROVE  holder[t] = u /\ (CanOpen(u, t) => CanOpen(u, t)')
      <4>1. t \in open /\ t \notin Lost(q) /\ holder[t] = u
        BY <2>1, <2>4, <3>2 DEF Release
      <4>2. u = q.user => q.grants[TaskCompany[t]] # None
        BY <4>1 DEF Lost, OpenWorkOf
      <4>3. CanOpen(u, t) => CanOpen(u, t)'
        BY <2>1, <2>4, <4>2 DEF CanOpen, Actors, Accounts, TypeOK
      <4> QED  BY <4>1, <4>3
    <3> QED  BY <2>1, <2>2, <3>1, <3>2, WorkKept
  <2> QED  BY <1>9, <2>3, <2>4 DEF AccessWrite
<1>10. CASE AccessRole(r)
  <2>1. PICK g \in Roles : /\ Unanimous(q.grants, g) /\ role' = [role EXCEPT ![q.user] = g]
                           /\ Wrote(r, IF g = "VIEWER" THEN "accTasks" ELSE "idle")
    BY <1>10 DEF AccessRole
  <2>2. /\ q.pc = "accRole" /\ q.grants \in [Companies -> GrantRoles]
        /\ UNCHANGED <<active, grant, work, cut>>
    BY <1>1, <1>10, OfReq DEF AccessRole, At, Accessing
  <2>3. g \notin {"SUPER_ADMIN", "absent"}
    <3>1. PICK c \in Companies : q.grants[c] = g
      BY <2>1 DEF Unanimous
    <3> QED  BY <2>1, <2>2, <3>1 DEF GrantRoles, Roles, None
  <2>4. \A o \in Requests \ {r} : req'[o].pc = req[o].pc /\ Keeps(req'[o], req[o])
    BY <2>1, <2>2, WroteIs DEF Follows, Accessing
  <2>5. \A u \in Users : \A t : CanOpen(u, t) => CanOpen(u, t)'
    BY <2>1, <2>2, <2>3 DEF CanOpen, Actors, Accounts, TypeOK
  <2>6. \A u : ~Releasing(q, u)
    BY <2>2 DEF Releasing
  <2> QED  BY <2>2, <2>4, <2>5, <2>6, WorkKept DEF work
<1>11. CASE InviteWrite(r)
  <2>1. q.pc = "invite" /\ UNCHANGED <<work, cut>>
    BY <1>11 DEF InviteWrite, At
  <2>2. \A u : ~Releasing(q, u)
    BY <2>1 DEF Releasing
  <2>3. \A o \in Requests \ {r} : req'[o].pc = req[o].pc /\ Keeps(req'[o], req[o])
    BY <1>2, <1>11, WroteIs, GoToIs DEF InviteWrite
  <2>4. CASE UNCHANGED people
    BY <2>1, <2>2, <2>3, <2>4, WorkIdle DEF work
  <2>5. CASE /\ q.user \notin Accounts
             /\ role'   = [role   EXCEPT ![q.user] = q.role]
             /\ active' = [active EXCEPT ![q.user] = TRUE]
             /\ grant'  = [grant  EXCEPT ![q.user] = [c \in Companies |-> IF c \in q.on THEN q.role ELSE None]]
    <3>1. \A u \in Users : \A t : CanOpen(u, t) => CanOpen(u, t)'
      BY <2>5 DEF CanOpen, Actors, Accounts, TypeOK
    <3> QED  BY <2>1, <2>2, <2>3, <3>1, WorkKept DEF work
  <2> QED  BY <1>11, <2>4, <2>5 DEF InviteWrite
<1>12. CASE OnboardWrite(r)
  <2>1. q.pc = "onboard" /\ q.role \in Roles /\ q.on \in Companies /\ UNCHANGED <<role, active, cut>>
    BY <1>1, <1>12, OfReq DEF OnboardWrite, At
  <2>2. \A u : ~Releasing(q, u)
    BY <2>1 DEF Releasing
  <2>3. \A o \in Requests \ {r} : req'[o].pc = req[o].pc /\ Keeps(req'[o], req[o])
    BY <1>2, <1>12, WroteIs, GoToIs DEF OnboardWrite
  <2>4. CASE q.on \in company
    <3>1. UNCHANGED <<people, work>>
      BY <1>12, <2>1, <2>4 DEF OnboardWrite, people
    <3> QED  BY <2>1, <2>2, <2>3, <3>1, WorkIdle
  <2>5. CASE q.on \notin company
    <3>1. /\ open' = open \cup {t \in Tasks : TaskCompany[t] = q.on} /\ UNCHANGED <<holder, doubted>>
          /\ grant' = IF SeesEveryCompany(q.role) THEN grant ELSE [grant EXCEPT ![q.user][q.on] = q.role]
      BY <1>12, <2>5 DEF OnboardWrite
    <3>2. \A t \in open' : holder'[t] # Nobody => t \in open
      BY <2>5, <3>1 DEF PlaceInv
    <3>3. ASSUME NEW u \in Users, NEW t \in open, CanOpen(u, t)  PROVE CanOpen(u, t)'
      <4>1. TaskCompany[t] \in Companies
        BY PeopleAssumption DEF PeopleAssumption, TypeOK
      <4>2. grant'[u][TaskCompany[t]] # None
        <5>1. CASE grant' = grant
          BY <3>3, <5>1 DEF CanOpen
        <5>2. CASE grant' = [grant EXCEPT ![q.user][q.on] = q.role]
          BY <1>3, <2>1, <3>3, <4>1, <5>2 DEF CanOpen, TypeOK
        <5> QED  BY <3>1, <5>1, <5>2
      <4> QED  BY <2>1, <3>3, <4>2 DEF CanOpen, Actors, Accounts
    <3> QED  BY <2>1, <2>2, <2>3, <3>1, <3>2, <3>3, WorkKept
  <2> QED  BY <2>4, <2>5
<1>13. CASE DeleteCompany(r)
  <2>1. PICK c \in company :
          /\ grant' = [u \in Users |-> [grant[u] EXCEPT ![c] = None]]
          /\ LET gone == {t \in Tasks : TaskCompany[t] = c}
             IN  Release(gone) /\ open' = open \ gone /\ doubted' = doubted \ gone
    BY <1>13 DEF DeleteCompany
  <2>2. q.pc = "idle" /\ Wrote(r, "idle") /\ UNCHANGED <<role, active, cut>> /\ open \subseteq Tasks
    BY <1>13 DEF DeleteCompany, At, TypeOK
  <2>3. \A o \in Requests \ {r} : req'[o].pc = req[o].pc /\ Keeps(req'[o], req[o])
    BY <2>2, WroteIs
  <2>4. \A t \in open' \ doubted' : t \in open \ doubted /\ TaskCompany[t] # c /\ holder'[t] = holder[t]
    BY <2>1, <2>2 DEF Release
  <2>5. \A u \in Users, t \in open' \ doubted' : CanOpen(u, t) => CanOpen(u, t)'
    BY <2>1, <2>2, <2>4 DEF CanOpen, Actors, Accounts, TypeOK
  <2>6. \A u : ~Releasing(q, u)
    BY <2>2 DEF Releasing
  <2> QED  BY <2>2, <2>3, <2>4, <2>5, <2>6, WorkKept
<1>14. CASE AssignWrite(r)
  <2>1. q.pc = "assign" /\ q.task \in Tasks /\ UNCHANGED <<people, open, cut>> /\ GoTo(r, "idle") /\ open \subseteq Tasks
    BY <1>1, <1>14, OfReq DEF AssignWrite, At, TypeOK
  <2>2. \A u : ~Releasing(q, u)
    BY <2>1 DEF Releasing
  <2>3. \A o \in Requests \ {r} : req'[o].pc = req[o].pc /\ Keeps(req'[o], req[o])
    BY <1>2, <2>1, GoToIs
  <2>4. CASE UNCHANGED <<holder, doubted>>
    BY <2>1, <2>2, <2>3, <2>4, WorkIdle DEF work
  <2>5. CASE /\ holder' = [holder EXCEPT ![q.task] = q.user]
             /\ doubted' = IF q.sure THEN doubted \ {q.task} ELSE doubted \cup {q.task}
    <3>1. ASSUME NEW t \in open' \ doubted', NEW u \in Users, holder'[t] = u
          PROVE  (t \in open \ doubted /\ holder[t] = u) \/ CanOpen(u, t)'
      <4>1. CASE t = q.task
        <5>1. q.sure /\ u = q.user
          BY <2>1, <2>5, <3>1, <4>1 DEF TypeOK
        <5>2. Assignable(u, TaskCompany[t])
          BY <1>1, <2>1, <4>1, <5>1 DEF Sound
        <5>3. CanOpen(u, t)
          BY <5>2 DEF Assignable, CanOpen
        <5> QED  BY <1>4, <2>1, <5>3
      <4>2. CASE t # q.task
        BY <2>1, <2>5, <3>1, <4>2 DEF TypeOK
      <4> QED  BY <4>1, <4>2
    <3> QED  BY <1>4, <2>1, <2>2, <2>3, <3>1, WorkKept
  <2> QED  BY <1>14, <2>4, <2>5 DEF AssignWrite
<1>15. CASE Finish(r)
  <2>1. /\ q.pc = "idle" /\ UNCHANGED <<people, holder, req, cut>>
        /\ open' \ doubted' \subseteq open \ doubted
    BY <1>15 DEF Finish, At
  <2>2. \A u : ~Releasing(q, u)
    BY <2>1 DEF Releasing
  <2> QED  BY <1>2, <1>4, <2>1, <2>2, WorkKept
<1>16. CASE EdgeAccess(r)
  <2>1. PICK w \in Accounts : grant' = [grant EXCEPT ![w] = NoGrants] /\ cut' = cut \cup {w}
    BY <1>16 DEF EdgeAccess
  <2>2. q.pc = "idle" /\ Wrote(r, "idle") /\ UNCHANGED <<role, active, work>>
    BY <1>16 DEF EdgeAccess, At
  <2>3. \A o \in Requests \ {r} : req'[o].pc = req[o].pc /\ Keeps(req'[o], req[o])
    BY <2>2, WroteIs
  <2>4. \A u \in Users \ cut' : \A t : CanOpen(u, t) => CanOpen(u, t)'
    BY <2>1, <2>2 DEF CanOpen, Actors, Accounts, TypeOK
  <2>5. \A u : ~Releasing(q, u)
    BY <2>2 DEF Releasing
  <2> QED  BY <2>1, <2>2, <2>3, <2>4, <2>5, WorkKept DEF work
<1>17. CASE Die(r)
  <2>1. /\ cut' = IF q.pc \in Midway THEN cut \cup {q.user} ELSE cut
        /\ GoTo(r, "idle") /\ UNCHANGED <<people, work>>
    BY <1>17 DEF Die
  <2>2. \A u \in Users \ cut' : ~Releasing(q, u)
    BY <2>1 DEF Releasing, Midway
  <2>3. \A o \in Requests \ {r} : req'[o].pc = req[o].pc /\ Keeps(req'[o], req[o])
    BY <1>2, <2>1, GoToIs
  <2> QED  BY <2>1, <2>2, <2>3, WorkIdle
<1>18. CASE UpdateCount(r)
  <2>1. PICK next \in {"updUser", "idle"} : GoTo(r, next) /\ UNCHANGED world /\ q.pc = "updCount"
    BY <1>18 DEF UpdateCount, At
  <2>2. \A o \in Requests \ {r} : req'[o].pc = req[o].pc /\ Keeps(req'[o], req[o])
    BY <1>2, <2>1, GoToIs DEF Follows, Updating
  <2> QED  BY <2>1, <2>2, WorkIdle DEF Releasing, world
<1>19. CASE EdgeInvite(r)
  <2>1. PICK u \in Users \ Accounts, g \in Given, cs \in SUBSET company :
          /\ role'   = [role   EXCEPT ![u] = g]
          /\ active' = [active EXCEPT ![u] = TRUE]
          /\ grant'  = [grant  EXCEPT ![u] = NoGrants]
          /\ req' = [p \in Requests |->
                       IF p # r THEN Doubt(req[p])
                       ELSE IF cs = {} THEN Idle
                       ELSE [sure |-> TRUE, pc |-> "newGrants", user |-> u, role |-> g, on |-> cs]]
    BY <1>19 DEF EdgeInvite
  <2>2. g \in Roles /\ cs \in SUBSET Companies /\ q.pc = "idle" /\ UNCHANGED <<work, cut>>
    BY <1>3, <1>19, <2>1 DEF TypeOK, EdgeInvite, At
  <2>3. \A o \in Requests \ {r} : req'[o].pc = req[o].pc /\ Keeps(req'[o], req[o])
    BY <2>1, <2>2, EdgeInviteIs
  <2>4. \A v \in Users : \A t : CanOpen(v, t) => CanOpen(v, t)'
    BY <2>1 DEF CanOpen, Actors, Accounts, TypeOK
  <2>5. \A v : ~Releasing(q, v)
    BY <2>2 DEF Releasing
  <2> QED  BY <2>2, <2>3, <2>4, <2>5, WorkKept DEF work
<1>20. CASE EdgeInviteGrants(r)
  <2>1. q.pc = "newGrants" /\ q.user \in Users /\ q.role \in Roles /\ UNCHANGED <<role, active, work, cut>>
    BY <1>1, <1>20, OfReq DEF EdgeInviteGrants, At
  <2>2. \A u : ~Releasing(q, u)
    BY <2>1 DEF Releasing
  <2>3. \A o \in Requests \ {r} : req'[o].pc = req[o].pc /\ Keeps(req'[o], req[o])
    BY <1>2, <1>20, WroteIs, GoToIs DEF EdgeInviteGrants
  <2>4. CASE UNCHANGED grant
    BY <2>1, <2>2, <2>3, <2>4, WorkIdle DEF people
  <2>5. CASE grant' = [grant EXCEPT ![q.user] =
                         [c \in Companies |-> IF c \notin q.on THEN @[c]
                                              ELSE IF SeesEveryCompany(q.role) THEN "ADMIN" ELSE q.role]]
    <3>1. ASSUME NEW u \in Users, NEW t \in Tasks, CanOpen(u, t)  PROVE CanOpen(u, t)'
      <4>1. TaskCompany[t] \in Companies
        BY PeopleAssumption DEF PeopleAssumption
      <4>2. grant'[u][TaskCompany[t]] # None
        BY <1>3, <2>1, <2>5, <3>1, <4>1 DEF CanOpen, TypeOK, None, Roles
      <4> QED  BY <2>1, <3>1, <4>2 DEF CanOpen, Actors, Accounts
    <3> QED  BY <2>1, <2>2, <2>3, <3>1, WorkKept DEF work, TypeOK
  <2> QED  BY <1>20, <2>4, <2>5 DEF EdgeInviteGrants
<1> QED
  BY <1>5, <1>6, <1>7, <1>8, <1>9, <1>10, <1>11, <1>12, <1>13, <1>14, <1>15, <1>16, <1>17, <1>18, <1>19, <1>20
     DEF Request

\* Open work is in the name of someone who can open it, for any team.
THEOREM WorkIsOpenable == Spec => []WorkCanBeOpened
<1>1. Init => PlaceInv /\ WorkInv
  <2>1. ASSUME Init  PROVE PlaceInv
    BY <2>1, PeopleAssumption DEF PeopleAssumption, Init, PlaceInv, Assignable, Actors, Accounts
  <2>2. ASSUME Init  PROVE WorkInv
    BY <2>2 DEF Init, WorkInv, CanOpen, Assignable
  <2> QED  BY <2>1, <2>2
<1>2. TypeOK /\ SureInv /\ PlaceInv /\ WorkInv /\ [Next]_vars => PlaceInv' /\ WorkInv'
  <2>1. CASE TypeOK /\ SureInv /\ PlaceInv /\ WorkInv /\ Next
    BY <2>1, PlaceStep, WorkStep DEF Next
  <2>2. CASE PlaceInv /\ WorkInv /\ UNCHANGED vars
    BY <2>2 DEF vars, people, work, PlaceInv, WorkInv, CanOpen, Releases, Actors, Accounts
  <2> QED  BY <2>1, <2>2
<1>3. TypeOK /\ WorkInv => WorkCanBeOpened
  <2> SUFFICES ASSUME TypeOK, WorkInv, NEW t \in open \ doubted, holder[t] # Nobody, holder[t] \notin InHand \cup cut
               PROVE  CanOpen(holder[t], t)
    BY DEF WorkCanBeOpened, CanOpen, SeesEveryCompany
  <2>1. holder[t] \in Users \ (cut \cup {Nobody})
    BY DEF TypeOK
  <2>2. ~Releases(holder[t])
    BY DEF Releases, Releasing, InHand, Midway
  <2> QED  BY <2>1, <2>2 DEF WorkInv
<1> QED  BY <1>1, <1>2, <1>3, PeopleSure, PTL DEF Spec

-----------------------------------------------------------------------------
(* The list names the role a person holds. *)

\* Who keeps role and grants keeps them in agreement.
LEMMA AgreeSame ==
  ASSUME NEW u, role'[u] = role[u], grant'[u] = grant[u]
  PROVE  Agree(u) => Agree(u)'
  BY DEF Agree, Carried

\* So does one whose grants all carry the role.
LEMMA AgreeBy ==
  ASSUME NEW u, \A c \in Companies : grant'[u][c] \in {None, role'[u]}
  PROVE  Agree(u)'
<1> SUFFICES ASSUME NEW g \in Roles, {grant'[u][c] : c \in Companies} \ {None} = {g}
             PROVE  role'[u] = g
  BY DEF Agree, Carried
<1>1. g \in {grant'[u][c] : c \in Companies} /\ g # None
  OBVIOUS
<1> QED  BY <1>1

\* What request r's step has to show: the others go on levelling.
LEMMA LevelKept ==
  ASSUME TypeOK, LevelInv, NEW r \in Requests, cut \subseteq cut',
         \A q \in Requests \ {r} : req'[q].pc = req[q].pc /\ Keeps(req'[q], req[q]),
         \A u \in Users \ (tangled' \cup cut') :
           \/ Agree(u)' \/ Levelling(req'[r], u) \/ role'[u] = "absent"
           \/ /\ u \in Accounts \ tangled
              /\ Agree(u) => Agree(u)'
              /\ Levelling(req[r], u) => Levelling(req'[r], u)
  PROVE  LevelInv'
<1> SUFFICES ASSUME NEW u \in Users \ (tangled' \cup cut'), role'[u] # "absent"
             PROVE  Agree(u)' \/ \E q \in Requests : Levelling(req'[q], u)
  BY DEF LevelInv, Levels, Accounts
<1>1. CASE Agree(u)' \/ Levelling(req'[r], u)
  BY <1>1
<1>2. CASE /\ u \in Accounts \ tangled
           /\ Agree(u) => Agree(u)'
           /\ Levelling(req[r], u) => Levelling(req'[r], u)
  <2>1. Agree(u) \/ Levels(u)
    BY <1>2 DEF LevelInv
  <2>2. ASSUME NEW q \in Requests, Levelling(req[q], u)  PROVE Levelling(req'[q], u)
    <3>1. CASE q = r
      BY <1>2, <2>2, <3>1
    <3>2. CASE q # r
      BY <2>2, <3>2 DEF Levelling, Keeps, Updating, Accessing
    <3> QED  BY <3>1, <3>2
  <2> QED  BY <1>2, <2>1, <2>2 DEF Levels
<1> QED  BY <1>1, <1>2

\* A step of a request that levels nobody, that changes q.user's rows at most.
LEMMA LevelOfOne ==
  ASSUME TypeOK, LevelInv, NEW r \in Requests, cut \subseteq cut', NEW w,
         \A q \in Requests \ {r} : req'[q].pc = req[q].pc /\ Keeps(req'[q], req[q]),
         \A u \in Users \ (cut' \cup {w}) : role'[u] = role[u] /\ grant'[u] = grant[u] /\ (u \in tangled => u \in tangled'),
         \A u \in Users \ (cut' \cup {w}) : ~Levelling(req[r], u),
         w \in Users \ (tangled' \cup cut') =>
           \/ Agree(w)' \/ Levelling(req'[r], w)
           \/ /\ role'[w] = role[w] /\ grant'[w] = grant[w] /\ w \notin tangled
              /\ ~Levelling(req[r], w)
  PROVE  LevelInv'
<1>1. ASSUME NEW u \in Users \ (tangled' \cup cut')
      PROVE  \/ Agree(u)' \/ Levelling(req'[r], u) \/ role'[u] = "absent"
             \/ /\ u \in Accounts \ tangled
                /\ Agree(u) => Agree(u)'
                /\ Levelling(req[r], u) => Levelling(req'[r], u)
  <2>1. CASE u # w
    <3>1. role'[u] = role[u] /\ grant'[u] = grant[u] /\ u \notin tangled /\ ~Levelling(req[r], u)
      BY <2>1
    <3> QED  BY <3>1, AgreeSame DEF Accounts
  <2>2. CASE u = w
    <3>1. CASE Agree(w)' \/ Levelling(req'[r], w)
      BY <2>2, <3>1
    <3>2. CASE role'[w] = role[w] /\ grant'[w] = grant[w] /\ w \notin tangled /\ ~Levelling(req[r], w)
      BY <2>2, <3>2, AgreeSame DEF Accounts
    <3> QED  BY <2>2, <3>1, <3>2
  <2> QED  BY <2>1, <2>2
<1> QED  BY <1>1, LevelKept

LEMMA LevelStep ==
  ASSUME TypeOK, SureInv, LevelInv, NEW r \in Requests, Request(r)
  PROVE  LevelInv'
<1> DEFINE q == req[r]
<1>1. q \in Reqs /\ Sound(q) /\ Idle \in Reqs /\ Idle.pc = "idle"
  BY DEF TypeOK, SureInv, Reqs, Idle
<1>2. \A o \in Requests : Keeps(req[o], req[o])
  BY DEF Keeps
<1> PICK w : w = q.user
  OBVIOUS
<1>3. CASE UpdateRead(r) \/ AccessRead(r) \/ InviteRead(r) \/ CompanyInviteRead(r) \/ OnboardRead(r) \/ AssignRead(r)
  <2>1. PICK p : Begin(r, p)
    BY <1>3 DEF UpdateRead, AccessRead, InviteRead, CompanyInviteRead, OnboardRead, AssignRead
  <2>2. /\ UNCHANGED <<role, grant, cut, tangled>> /\ q.pc = "idle"
        /\ \A o \in Requests \ {r} : req'[o] = req[o]
    BY <2>1 DEF Begin, world, people, TypeOK
  <2> QED  BY <1>2, <2>2, LevelOfOne DEF Levelling
<1>4. CASE UpdateTasks(r) \/ AccessTasks(r) \/ AssignWrite(r)
  <2>1. /\ UNCHANGED <<role, grant, cut, tangled>> /\ q.pc \in {"updTasks", "accTasks", "assign"} /\ GoTo(r, "idle")
    BY <1>4 DEF UpdateTasks, AccessTasks, AssignWrite, At, people
  <2>2. \A o \in Requests \ {r} : req'[o].pc = req[o].pc /\ Keeps(req'[o], req[o])
    BY <1>2, <2>1, GoToIs
  <2> QED  BY <2>1, <2>2, LevelOfOne DEF Levelling
<1>5. CASE Finish(r)
  <2>1. UNCHANGED <<role, grant, cut, tangled, req>> /\ q.pc = "idle"
    BY <1>5 DEF Finish, At, people
  <2> QED  BY <1>2, <2>1, LevelOfOne DEF Levelling
<1>6. CASE UpdateUser(r)
  <2> DEFINE next == IF ReachesGrants(q) THEN "updGrants" ELSE IF MustRelease(q) THEN "updTasks" ELSE "idle"
  <2>1. /\ q.pc = "updUser" /\ q.user \in Users /\ q.role \in Given \cup {Keep}
        /\ Wrote(r, next) /\ UNCHANGED <<grant, cut>>
        /\ role'    = IF q.role = Keep THEN role ELSE [role EXCEPT ![q.user] = q.role]
        /\ tangled' = IF ~q.sure \/ SeesEveryCompany(q.was) THEN tangled \cup {q.user} ELSE tangled
    BY <1>1, <1>6, OfReq DEF UpdateUser, At, Updating
  <2>2. Moved(r, next) /\ \A o \in Requests \ {r} : req'[o].pc = req[o].pc /\ Keeps(req'[o], req[o])
    BY <2>1, WroteIs DEF Follows, Updating
  <2>3. \A u : ~Levelling(q, u)
    BY <2>1 DEF Levelling
  <2>4. ASSUME w \notin tangled'
        PROVE  \/ Agree(w)' \/ Levelling(req'[r], w)
               \/ role'[w] = role[w] /\ grant'[w] = grant[w] /\ w \notin tangled
    <3>1. ~SeesEveryCompany(q.was) /\ w \notin tangled
      BY <2>1, <2>4
    <3>2. CASE q.role = Keep
      BY <2>1, <3>1, <3>2
    <3>3. CASE q.role = "SUPER_ADMIN"
      <4>1. role'[w] = "SUPER_ADMIN"
        BY <2>1, <3>3 DEF TypeOK, Keep
      <4> QED  BY <4>1 DEF Agree
    <3>4. CASE q.role \notin {Keep, "SUPER_ADMIN"}
      <4>1. ReachesGrants(q)
        BY <3>1, <3>4 DEF ReachesGrants, SeesEveryCompany
      <4>2. req'[r].pc = "updGrants" /\ Keeps(req'[r], q)
        BY <2>2, <4>1 DEF Moved
      <4> QED  BY <2>1, <4>2 DEF Levelling, Keeps, Updating
    <3> QED  BY <3>2, <3>3, <3>4
  <2>5. \A u \in Users \ {w} : role'[u] = role[u] /\ grant'[u] = grant[u] /\ (u \in tangled => u \in tangled')
    BY <2>1 DEF TypeOK
  <2> HIDE DEF next
  <2> QED  BY <2>1, <2>2, <2>3, <2>4, <2>5, LevelOfOne
<1>7. CASE UpdateGrants(r)
  <2> DEFINE next == IF MustRelease(q) THEN "updTasks" ELSE "idle"
  <2>1. /\ q.pc = "updGrants" /\ q.user \in Users /\ q.role \in Given
        /\ Wrote(r, next) /\ UNCHANGED <<role, cut>> /\ Tangle(r, q.user, TRUE)
        /\ grant' = [grant EXCEPT ![q.user] = [c \in Companies |-> IF @[c] = None THEN None ELSE q.role]]
    BY <1>1, <1>7, OfReq DEF UpdateGrants, At, Updating, Sound, ReachesGrants
  <2>2. \A o \in Requests \ {r} : req'[o].pc = req[o].pc /\ Keeps(req'[o], req[o])
    BY <2>1, WroteIs DEF Follows, Updating
  <2>3. \A u \in Users \ {w} : /\ role'[u] = role[u] /\ grant'[u] = grant[u] /\ (u \in tangled => u \in tangled')
                                    /\ ~Levelling(q, u)
    BY <2>1 DEF TypeOK, Tangle, Levelling
  <2>4. ASSUME w \notin tangled'  PROVE Agree(w)'
    <3>1. q.sure
      BY <2>1, <2>4 DEF Tangle
    <3>2. role'[w] = q.role
      BY <1>1, <2>1, <3>1 DEF Sound
    <3>3. \A c \in Companies : grant'[w][c] \in {None, q.role}
      BY <2>1 DEF TypeOK
    <3> QED  BY <3>2, <3>3, AgreeBy
  <2> QED  BY <2>1, <2>2, <2>3, <2>4, LevelOfOne
<1>8. CASE AccessWrite(r)
  <2> DEFINE next == IF RoleMoves(q) THEN "accRole" ELSE "idle"
  <2>1. /\ q.pc = "access" /\ q.user \in Users /\ q.grants \in [Companies -> GrantRoles] /\ UNCHANGED <<role, cut>>
    BY <1>1, <1>8, OfReq DEF AccessWrite, At, Accessing
  <2>2. \A u : ~Levelling(q, u)
    BY <2>1 DEF Levelling
  <2>3. CASE GoTo(r, "idle") /\ UNCHANGED <<grant, tangled>>
    <3>1. \A o \in Requests \ {r} : req'[o].pc = req[o].pc /\ Keeps(req'[o], req[o])
      BY <1>2, <2>3, GoToIs
    <3> QED  BY <2>1, <2>2, <2>3, <3>1, LevelOfOne
  <2>4. CASE Wrote(r, next) /\ grant' = [grant EXCEPT ![q.user] = q.grants] /\ Granted(r)
    <3>1. Moved(r, next) /\ \A o \in Requests \ {r} : req'[o].pc = req[o].pc /\ Keeps(req'[o], req[o])
      BY <2>1, <2>4, WroteIs DEF Follows, Accessing
    <3>2. \A u \in Users \ {w} : role'[u] = role[u] /\ grant'[u] = grant[u] /\ (u \in tangled => u \in tangled')
      BY <2>1, <2>4 DEF TypeOK, Granted, Tangle
    <3>3. ASSUME w \notin tangled'  PROVE Agree(w)' \/ Levelling(req'[r], w)
      <4>1. q.sure /\ ~q.twice
        BY <2>4, <3>3 DEF Granted, Tangle
      <4>2. q.was = role[w]
        BY <1>1, <2>1, <4>1 DEF Sound
      <4>3. CASE RoleMoves(q)
        <5>1. req'[r].pc = "accRole" /\ Keeps(req'[r], q)
          BY <3>1, <4>3 DEF Moved
        <5> QED  BY <2>1, <5>1 DEF Levelling, Keeps, Accessing
      <4>4. CASE ~RoleMoves(q)
        <5>1. grant'[w] = q.grants /\ role'[w] = q.was
          BY <2>1, <2>4, <4>2 DEF TypeOK
        <5>2. \A g \in Roles : {q.grants[c] : c \in Companies} \ {None} = {g} => g = q.was
          BY <4>1, <4>4 DEF RoleMoves, Differs, Unanimous
        <5>3. {grant'[w][c] : c \in Companies} = {q.grants[c] : c \in Companies}
          BY <5>1
        <5> QED  BY <5>1, <5>2, <5>3 DEF Agree, Carried
      <4> QED  BY <4>3, <4>4
    <3> HIDE DEF next
    <3> QED  BY <2>1, <2>2, <3>1, <3>2, <3>3, LevelOfOne
  <2> QED  BY <1>8, <2>3, <2>4 DEF AccessWrite
<1>9. CASE AccessRole(r)
  <2>1. PICK g \in Roles : /\ Unanimous(q.grants, g) /\ role' = [role EXCEPT ![q.user] = g] /\ Tangle(r, q.user, TRUE)
                           /\ Wrote(r, IF g = "VIEWER" THEN "accTasks" ELSE "idle")
    BY <1>9 DEF AccessRole
  <2>2. q.pc = "accRole" /\ q.user \in Users /\ UNCHANGED <<grant, cut>>
    BY <1>1, <1>9, OfReq DEF AccessRole, At
  <2>3. \A o \in Requests \ {r} : req'[o].pc = req[o].pc /\ Keeps(req'[o], req[o])
    BY <2>1, <2>2, WroteIs DEF Follows, Accessing
  <2>4. \A u \in Users \ {w} : /\ role'[u] = role[u] /\ grant'[u] = grant[u] /\ (u \in tangled => u \in tangled')
                                    /\ ~Levelling(q, u)
    BY <2>1, <2>2 DEF TypeOK, Tangle, Levelling
  <2>5. ASSUME w \notin tangled'  PROVE Agree(w)'
    <3>1. q.sure
      BY <2>1, <2>5 DEF Tangle
    <3>2. grant'[w] = q.grants /\ role'[w] = g
      BY <1>1, <2>1, <2>2, <3>1 DEF Sound, TypeOK
    <3>3. \A c \in Companies : q.grants[c] \in {None, g}
      BY <2>1 DEF Unanimous
    <3> QED  BY <3>2, <3>3, AgreeBy
  <2> QED  BY <2>2, <2>3, <2>4, <2>5, LevelOfOne
<1>10. CASE InviteWrite(r)
  <2>1. q.pc = "invite" /\ q.user \in Users /\ UNCHANGED <<cut, tangled>>
    BY <1>1, <1>10, OfReq DEF InviteWrite, At
  <2>2. \A u : ~Levelling(q, u)
    BY <2>1 DEF Levelling
  <2>3. \A o \in Requests \ {r} : req'[o].pc = req[o].pc /\ Keeps(req'[o], req[o])
    BY <1>2, <1>10, WroteIs, GoToIs DEF InviteWrite
  <2>4. CASE UNCHANGED people
    BY <2>1, <2>2, <2>3, <2>4, LevelOfOne DEF people
  <2>5. CASE /\ role'  = [role   EXCEPT ![q.user] = q.role]
             /\ grant' = [grant  EXCEPT ![q.user] = [c \in Companies |-> IF c \in q.on THEN q.role ELSE None]]
    <3>1. Agree(w)'
      <4>1. role'[w] = q.role
        BY <2>1, <2>5 DEF TypeOK
      <4>2. \A c \in Companies : grant'[w][c] \in {None, q.role}
        BY <2>1, <2>5 DEF TypeOK
      <4> QED  BY <4>1, <4>2, AgreeBy
    <3>2. \A u \in Users \ {w} : role'[u] = role[u] /\ grant'[u] = grant[u]
      BY <2>5 DEF TypeOK
    <3> QED  BY <2>1, <2>2, <2>3, <3>1, <3>2, LevelOfOne
  <2> QED  BY <1>10, <2>4, <2>5 DEF InviteWrite
<1>11. CASE OnboardWrite(r)
  <2>1. /\ q.pc = "onboard" /\ q.user \in Users /\ q.role \in Roles /\ q.on \in Companies /\ UNCHANGED <<role, cut>>
    BY <1>1, <1>11, OfReq DEF OnboardWrite, At
  <2>2. \A u : ~Levelling(q, u)
    BY <2>1 DEF Levelling
  <2>3. \A o \in Requests \ {r} : req'[o].pc = req[o].pc /\ Keeps(req'[o], req[o])
    BY <1>2, <1>11, WroteIs, GoToIs DEF OnboardWrite
  <2>4. CASE q.on \in company
    <3>1. UNCHANGED <<grant, tangled>>
      BY <1>11, <2>4 DEF OnboardWrite
    <3> QED  BY <2>1, <2>2, <2>3, <3>1, LevelOfOne
  <2>5. CASE q.on \notin company
    <3>1. /\ Tangle(r, q.user, FALSE)
          /\ grant' = IF SeesEveryCompany(q.role) THEN grant ELSE [grant EXCEPT ![q.user][q.on] = q.role]
      BY <1>11, <2>5 DEF OnboardWrite
    <3>2. \A u \in Users \ {w} : role'[u] = role[u] /\ grant'[u] = grant[u] /\ (u \in tangled => u \in tangled')
      BY <2>1, <3>1 DEF TypeOK, Tangle
    <3>3. ASSUME w \notin tangled'
          PROVE  Agree(w)' \/ (role'[w] = role[w] /\ grant'[w] = grant[w] /\ w \notin tangled)
      <4>1. q.sure /\ w \notin tangled
        BY <3>1, <3>3 DEF Tangle
      <4>2. role'[w] = q.role
        BY <1>1, <2>1, <4>1 DEF Sound
      <4>3. CASE SeesEveryCompany(q.role)
        BY <2>1, <3>1, <4>1, <4>3
      <4>4. CASE ~SeesEveryCompany(q.role)
        <5>1. grant'[w][q.on] = q.role
          BY <2>1, <3>1, <4>4 DEF TypeOK
        <5>2. q.role # None
          BY <2>1 DEF Roles, None
        <5>3. \A g : {grant'[w][c] : c \in Companies} \ {None} = {g} => g = q.role
          BY <2>1, <5>1, <5>2
        <5> QED  BY <4>2, <5>3 DEF Agree, Carried
      <4> QED  BY <4>3, <4>4
    <3> QED  BY <2>1, <2>2, <2>3, <3>2, <3>3, LevelOfOne
  <2> QED  BY <2>4, <2>5
<1>12. CASE DeleteCompany(r)
  <2>1. PICK c \in company :
          /\ grant'   = [u \in Users |-> [grant[u] EXCEPT ![c] = None]]
          /\ tangled' = tangled \cup {u \in Users : grant[u][c] # None}
    BY <1>12 DEF DeleteCompany
  <2>2. q.pc = "idle" /\ Wrote(r, "idle") /\ UNCHANGED <<role, cut>>
    BY <1>12 DEF DeleteCompany, At
  <2>3. \A o \in Requests \ {r} : req'[o].pc = req[o].pc /\ Keeps(req'[o], req[o])
    BY <2>2, WroteIs
  <2>4. ASSUME NEW u \in Users \ tangled'  PROVE u \notin tangled /\ grant'[u] = grant[u]
    BY <2>1 DEF TypeOK
  <2>5. \A u : ~Levelling(q, u)
    BY <2>2 DEF Levelling
  <2>6. \A u \in Users \ (tangled' \cup cut') : role'[u] = "absent" \/ (u \in Accounts \ tangled /\ (Agree(u) => Agree(u)'))
    BY <2>2, <2>4, AgreeSame DEF Accounts
  <2> QED  BY <2>2, <2>3, <2>5, <2>6, LevelKept
<1>13. CASE EdgeAccess(r)
  <2>1. PICK v \in Accounts : grant' = [grant EXCEPT ![v] = NoGrants] /\ cut' = cut \cup {v}
    BY <1>13 DEF EdgeAccess
  <2>2. q.pc = "idle" /\ Wrote(r, "idle") /\ UNCHANGED <<role, tangled>>
    BY <1>13 DEF EdgeAccess, At
  <2>3. \A o \in Requests \ {r} : req'[o].pc = req[o].pc /\ Keeps(req'[o], req[o])
    BY <2>2, WroteIs
  <2>4. \A u \in Users \ (cut' \cup {v}) : role'[u] = role[u] /\ grant'[u] = grant[u] /\ ~Levelling(q, u)
    BY <2>1, <2>2 DEF Levelling, TypeOK
  <2> QED  BY <2>1, <2>2, <2>3, <2>4, LevelOfOne
<1>14. CASE Die(r)
  <2>1. /\ cut' = IF q.pc \in Midway THEN cut \cup {q.user} ELSE cut
        /\ GoTo(r, "idle") /\ UNCHANGED <<role, grant, tangled>>
    BY <1>14 DEF Die, people
  <2>2. \A u \in Users \ cut' : ~Levelling(q, u)
    BY <2>1 DEF Levelling, Midway
  <2>3. \A o \in Requests \ {r} : req'[o].pc = req[o].pc /\ Keeps(req'[o], req[o])
    BY <1>2, <2>1, GoToIs
  <2> QED  BY <2>1, <2>2, <2>3, LevelOfOne
<1>15. CASE UpdateCount(r)
  <2>1. PICK next \in {"updUser", "idle"} : GoTo(r, next) /\ UNCHANGED world /\ q.pc = "updCount"
    BY <1>15 DEF UpdateCount, At
  <2>2. \A o \in Requests \ {r} : req'[o].pc = req[o].pc /\ Keeps(req'[o], req[o])
    BY <1>2, <2>1, GoToIs DEF Follows, Updating
  <2> QED  BY <2>1, <2>2, LevelOfOne DEF Levelling, world, people
<1>16. CASE EdgeInvite(r)
  <2>1. PICK u \in Users \ Accounts, g \in Given, cs \in SUBSET company :
          /\ role'   = [role   EXCEPT ![u] = g]
          /\ active' = [active EXCEPT ![u] = TRUE]
          /\ grant'  = [grant  EXCEPT ![u] = NoGrants]
          /\ req' = [p \in Requests |->
                       IF p # r THEN Doubt(req[p])
                       ELSE IF cs = {} THEN Idle
                       ELSE [sure |-> TRUE, pc |-> "newGrants", user |-> u, role |-> g, on |-> cs]]
    BY <1>16 DEF EdgeInvite
  <2>2. g \in Roles /\ cs \in SUBSET Companies /\ q.pc = "idle" /\ UNCHANGED <<cut, tangled>>
    BY PeopleAssumption, <1>16, <2>1 DEF PeopleAssumption, TypeOK, EdgeInvite, At
  <2>3. \A o \in Requests \ {r} : req'[o].pc = req[o].pc /\ Keeps(req'[o], req[o])
    BY <2>1, <2>2, EdgeInviteIs
  <2>4. Agree(u)'
    <3>1. role'[u] = g /\ \A c \in Companies : grant'[u][c] \in {None, g}
      BY <2>1 DEF TypeOK, NoGrants
    <3> QED  BY <3>1, AgreeBy
  <2>5. \A v \in Users \ {u} : role'[v] = role[v] /\ grant'[v] = grant[v]
    BY <2>1 DEF TypeOK
  <2>6. \A v : ~Levelling(q, v)
    BY <2>2 DEF Levelling
  <2> QED  BY <2>2, <2>3, <2>4, <2>5, <2>6, LevelOfOne
<1>17. CASE EdgeInviteGrants(r)
  <2>1. q.pc = "newGrants" /\ q.user \in Users /\ q.role \in Roles /\ UNCHANGED <<role, cut>>
    BY <1>1, <1>17, OfReq DEF EdgeInviteGrants, At
  <2>2. \A u : ~Levelling(q, u)
    BY <2>1 DEF Levelling
  <2>3. \A o \in Requests \ {r} : req'[o].pc = req[o].pc /\ Keeps(req'[o], req[o])
    BY <1>2, <1>17, WroteIs, GoToIs DEF EdgeInviteGrants
  <2>4. CASE UNCHANGED <<grant, tangled>>
    BY <2>1, <2>2, <2>3, <2>4, LevelOfOne
  <2>5. CASE /\ Tangle(r, q.user, FALSE)
             /\ grant' = [grant EXCEPT ![q.user] =
                           [c \in Companies |-> IF c \notin q.on THEN @[c]
                                                ELSE IF SeesEveryCompany(q.role) THEN "ADMIN" ELSE q.role]]
    <3>1. \A u \in Users \ {w} : role'[u] = role[u] /\ grant'[u] = grant[u] /\ (u \in tangled => u \in tangled')
      BY <2>1, <2>5 DEF TypeOK, Tangle
    <3>2. ASSUME w \notin tangled'  PROVE Agree(w)'
      <4>1. q.sure
        BY <2>5, <3>2 DEF Tangle
      <4>2. role'[w] = q.role /\ grant[w] = NoGrants
        BY <1>1, <2>1, <4>1 DEF Sound
      <4>3. CASE q.role = "SUPER_ADMIN"
        BY <4>2, <4>3 DEF Agree
      <4>4. CASE q.role # "SUPER_ADMIN"
        <5>1. \A c \in Companies : grant'[w][c] \in {None, q.role}
          BY <2>1, <2>5, <4>2, <4>4 DEF TypeOK, NoGrants, SeesEveryCompany
        <5> QED  BY <4>2, <5>1, AgreeBy
      <4> QED  BY <4>3, <4>4
    <3> QED  BY <2>1, <2>2, <2>3, <3>1, <3>2, LevelOfOne
  <2> QED  BY <1>17, <2>4, <2>5 DEF EdgeInviteGrants
<1> QED
  BY <1>3, <1>4, <1>5, <1>6, <1>7, <1>8, <1>9, <1>10, <1>11, <1>12, <1>13, <1>14, <1>15, <1>16, <1>17 DEF Request

\* The list names the role a person's grants carry, for any team.
THEOREM ListIsTrue == Spec => []ListNamesTheRole
<1>1. Init => LevelInv
  <2> SUFFICES ASSUME Init, NEW u \in Accounts, role[u] # "SUPER_ADMIN", NEW g \in Roles, Carried(u) = {g}
               PROVE  role[u] = g
    BY DEF LevelInv, Agree
  <2>1. u \in Users /\ role[u] # "absent" /\ grant[u] \in [Companies -> (Given \ {"SUPER_ADMIN"}) \cup {None}]
    BY DEF Init, Accounts
  <2>2. g \in Given
    BY <2>1 DEF Carried
  <2> QED  BY <2>1, <2>2 DEF Init
<1>2. TypeOK /\ SureInv /\ LevelInv /\ [Next]_vars => LevelInv'
  <2>1. CASE TypeOK /\ SureInv /\ LevelInv /\ Next
    BY <2>1, LevelStep DEF Next
  <2>2. CASE LevelInv /\ UNCHANGED vars
    BY <2>2 DEF vars, people, LevelInv, Levels, Agree, Carried, Accounts
  <2> QED  BY <2>1, <2>2
<1>3. LevelInv => ListNamesTheRole
  <2> SUFFICES ASSUME LevelInv, NEW u \in Accounts \ (tangled \cup cut \cup InHand)  PROVE Agree(u)
    BY DEF ListNamesTheRole, Agree, SeesEveryCompany
  <2>1. ~Levels(u)
    BY DEF Levels, Levelling, InHand, Midway
  <2> QED  BY <2>1 DEF LevelInv
<1> QED  BY <1>1, <1>2, <1>3, PeopleSure, PTL DEF Spec
=============================================================================
