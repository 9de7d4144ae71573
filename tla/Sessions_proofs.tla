---------------------------- MODULE Sessions_proofs ---------------------------
(***************************************************************************)
(* Proofs about Sessions, for any number of browsers, overlapping requests, *)
(* sessions, refresh tokens and password changes.                          *)
(***************************************************************************)
EXTENDS Sessions, TLAPS

-----------------------------------------------------------------------------
(* The inductive invariants. *)

\* Browser b holds session s: by an access token, by a refresh token it was ever
\* given, by a request that is about to be given one, or as the device the account
\* was signed in from.
ByAccess(s, b)  == \E a \in access : a.sid = s /\ a.holder = b
ByRow(s, b)     == \E t \in Tokens : row[t].state # "none" /\ row[t].sid = s /\ row[t].holder = b
ByRequest(s, b) ==
  \E r \in Requests : proc[r].step \in {"start", "issue"} /\ proc[r].sid = s /\ proc[r].holder = b
ByAccount(s, b) == account.sid = s /\ account.device = b

HeldBy(s, b) == ByAccess(s, b) \/ ByRow(s, b) \/ ByRequest(s, b) \/ ByAccount(s, b)

\* No session is held by two browsers, and every one that is held has been begun.
HolderInv ==
  \A s \in Sids \ {NoSid} : \A b \in Browsers :
    HeldBy(s, b) => s <= lastSid /\ \A c \in Browsers : HeldBy(s, c) => b = c

\* Tokens are of a session, the account's has been begun, and what a request goes
\* by: only the browser it came from, or no device, and a token that was issued.
BoundInv ==
  /\ account.sid <= lastSid
  /\ \A a \in access : a.sid # NoSid
  /\ \A t \in Tokens : row[t].state # "none" => row[t].sid # NoSid
  /\ \A r \in Requests :
       /\ proc[r].step = "issue" => proc[r].sid # NoSid
       /\ proc[r].step \in {"signin", "start"} => proc[r].device \in {proc[r].holder, Unknown}
       /\ proc[r].step = "start" /\ proc[r].sid # NoSid => proc[r].device = proc[r].holder
       /\ proc[r].step \in {"rotate", "release"} => row[proc[r].token].state # "none"

-----------------------------------------------------------------------------
(* Types. *)

\* What a request is in the middle of, by its step.
LEMMA OfProc ==
  ASSUME NEW p \in Procs
  PROVE  /\ p.step \in {"idle", "signin", "start", "issue", "rotate", "release", "change"}
         /\ p = Idle <=> p.step = "idle"
         /\ p.step \in {"signin", "start", "issue"} =>
              /\ p.holder \in Browsers /\ p.device \in Browsers \cup {Unknown}
              /\ p.password \in 0..MaxChanges
         /\ p.step \in {"start", "issue"} => p.sid \in Sids
         /\ p.step \in {"rotate", "release"} => p.token \in Tokens
         /\ p.step = "change" => p.holder \in Browsers
<1>1. CASE p = Idle
  BY <1>1 DEF Idle
<1>2. CASE p \in [step : {"signin"}, holder : Browsers, device : Browsers \cup {Unknown}, password : 0..MaxChanges]
  BY <1>2 DEF Idle
<1>3. CASE p \in [step : {"start", "issue"}, holder : Browsers, device : Browsers \cup {Unknown},
                  password : 0..MaxChanges, sid : Sids]
  BY <1>3 DEF Idle
<1>4. CASE p \in [step : {"rotate", "release"}, token : Tokens]
  BY <1>4 DEF Idle
<1>5. CASE p \in [step : {"change"}, holder : Browsers]
  BY <1>5 DEF Idle
<1> QED  BY <1>1, <1>2, <1>3, <1>4, <1>5 DEF Procs

\* A request whose session has been decided on is to be issued tokens of it.
LEMMA IssueOf ==
  ASSUME NEW p \in Procs, p.step = "start", NEW sid \in Sids
  PROVE  /\ [p EXCEPT !.step = "issue", !.sid = sid] \in Procs
         /\ [p EXCEPT !.step = "issue", !.sid = sid].step = "issue"
         /\ [p EXCEPT !.step = "issue", !.sid = sid].sid = sid
         /\ [p EXCEPT !.step = "issue", !.sid = sid].holder = p.holder
<1> DEFINE S == [step : {"start", "issue"}, holder : Browsers, device : Browsers \cup {Unknown},
                 password : 0..MaxChanges, sid : Sids]
<1>1. p \in S
  BY DEF Procs, Idle
<1>2. [p EXCEPT !.step = "issue", !.sid = sid] \in S
  BY <1>1
<1> QED  BY <1>1, <1>2 DEF Procs

LEMMA BecomeType ==
  ASSUME TypeOK, NEW r \in Requests, NEW p \in Procs, Become(r, p)
  PROVE  proc' \in [Requests -> Procs]
  BY DEF TypeOK, Become

\* Revoking everything keeps whose the rows are.
LEMMA RevokedAllType ==
  ASSUME TypeOK
  PROVE  /\ RevokedAll \in [Tokens -> RefreshRows]
         /\ \A t \in Tokens :
              /\ RevokedAll[t].state # "live"
              /\ RevokedAll[t].state # "none" <=> row[t].state # "none"
              /\ RevokedAll[t].sid = row[t].sid /\ RevokedAll[t].holder = row[t].holder
  BY DEF TypeOK, RevokedAll, RefreshRows

\* A password change, on its own.
LEMMA ChangedType ==
  ASSUME SessionsAssumption, TypeOK, PasswordChanged
  PROVE  /\ account' \in Accounts /\ account'.sid = account.sid /\ account'.device = account.device
         /\ row' = RevokedAll /\ row' \in [Tokens -> RefreshRows]
         /\ access' \subseteq AccessTokens
         /\ \A a \in access' : a.stray
         /\ \A a \in access' : \E x \in access : a.sid = x.sid /\ a.holder = x.holder
<1>1. /\ account' \in Accounts /\ account'.sid = account.sid /\ account'.device = account.device
  BY DEF TypeOK, PasswordChanged, Accounts, SessionsAssumption
<1>2. row' = RevokedAll /\ row' \in [Tokens -> RefreshRows]
  BY RevokedAllType DEF PasswordChanged
<1>3. ASSUME NEW a \in access'
      PROVE  a \in AccessTokens /\ a.stray /\ \E x \in access : a.sid = x.sid /\ a.holder = x.holder
  <2>1. PICK x \in access : a = [x EXCEPT !.stray = TRUE]
    BY <1>3 DEF PasswordChanged, Outlasting
  <2>2. x \in AccessTokens
    BY DEF TypeOK
  <2> QED  BY <2>1, <2>2 DEF AccessTokens
<1> QED  BY <1>1, <1>2, <1>3

LEMMA TypeStep ==
  ASSUME SessionsAssumption, TypeOK, [Next]_vars
  PROVE  TypeOK'
<1>1. Idle \in Procs /\ \A r \in Requests : proc[r] \in Procs
  BY DEF Procs, TypeOK
<1>2. ASSUME NEW r \in Requests, NEW b \in Browsers, Login(r, b) PROVE TypeOK'
  <2>1. [step |-> "signin", holder |-> b, device |-> b, password |-> account.password] \in Procs
    BY DEF TypeOK, Accounts, Procs
  <2>2. proc' \in [Requests -> Procs]
    BY <1>2, <2>1, BecomeType DEF Login
  <2> QED  BY <1>2, <2>2 DEF Login, TypeOK
<1>3. ASSUME NEW r \in Requests, NEW t \in Tokens, RefreshRead(r, t) \/ LogoutRevoke(r, t) PROVE TypeOK'
  <2>1. \A step \in {"rotate", "release"} : [step |-> step, token |-> t] \in Procs
    BY DEF Procs
  <2>2. proc' \in [Requests -> Procs]
    BY <1>3, <2>1, BecomeType DEF RefreshRead, LogoutRevoke
  <2>3. row' \in [Tokens -> RefreshRows]
    BY <1>3 DEF RefreshRead, LogoutRevoke, TypeOK, RefreshRows
  <2> QED  BY <1>3, <2>2, <2>3 DEF RefreshRead, LogoutRevoke, TypeOK
<1>4. ASSUME NEW r \in Requests, StartRead(r) PROVE TypeOK'
  <2> DEFINE p(sid) == [step |-> "start", holder |-> proc[r].holder, device |-> proc[r].device,
                        password |-> proc[r].password, sid |-> sid]
  <2>1. proc[r].step = "signin"
    BY <1>4 DEF StartRead
  <2>2. \A sid \in Sids : p(sid) \in Procs
    BY <1>1, <2>1, OfProc DEF Procs
  <2>3. account.sid \in Sids /\ NoSid \in Sids
    BY DEF TypeOK, Accounts, Sids, NoSid, SessionsAssumption
  <2>4. Become(r, p(IF Reuse(proc[r].device) THEN account.sid ELSE NoSid))
    BY <1>4 DEF StartRead
  <2>5. proc' \in [Requests -> Procs]
    <3> HIDE DEF p
    <3> QED  BY <2>2, <2>3, <2>4, BecomeType
  <2> QED  BY <1>4, <2>5 DEF StartRead, TypeOK
<1>5. ASSUME NEW r \in Requests, StartWrite(r) PROVE TypeOK'
  <2> DEFINE sid == IF proc[r].sid # NoSid THEN proc[r].sid ELSE lastSid + 1
  <2>1. proc[r].step = "start" /\ sid <= MaxSid
    BY <1>5 DEF StartWrite
  <2>2. /\ proc[r].sid \in Sids /\ proc[r].holder \in Browsers
        /\ proc[r].device \in Browsers \cup {Unknown} /\ proc[r].password \in 0..MaxChanges
    BY <1>1, <2>1, OfProc
  <2>3. sid \in Sids
    BY <2>1, <2>2 DEF TypeOK, Sids, SessionsAssumption
  <2>4. [proc[r] EXCEPT !.step = "issue", !.sid = sid] \in Procs
    <3> HIDE DEF sid
    <3> QED  BY <1>1, <2>1, <2>3, IssueOf
  <2>5. proc' \in [Requests -> Procs]
    BY <1>5, <2>4, BecomeType DEF StartWrite
  <2>6. row' \in [Tokens -> RefreshRows] /\ lastSid' \in Sids
    BY <1>5, <2>3, RevokedAllType DEF StartWrite, TypeOK
  <2>7. account' \in Accounts
    <3>1. account' = [account EXCEPT !.sid = sid, !.device = proc[r].device]
      BY <1>5 DEF StartWrite
    <3> HIDE DEF sid
    <3> QED  BY <2>2, <2>3, <3>1 DEF TypeOK, Accounts
  <2> QED  BY <1>5, <2>5, <2>6, <2>7 DEF StartWrite, TypeOK
<1>6. ASSUME NEW r \in Requests, Issue(r) PROVE TypeOK'
  <2> DEFINE stray == proc[r].password # account.password
             pair == [holder |-> proc[r].holder, sid |-> proc[r].sid, fresh |-> TRUE,
                      password |-> proc[r].password, stray |-> stray]
             entry == [state |-> "live", holder |-> proc[r].holder, sid |-> proc[r].sid,
                       password |-> proc[r].password, stray |-> stray]
  <2>1. proc[r].step = "issue"
    BY <1>6 DEF Issue
  <2>2. pair \in AccessTokens /\ entry \in RefreshRows
    BY <1>1, <2>1, OfProc DEF AccessTokens, RefreshRows
  <2>3. PICK t \in Tokens : row' = [row EXCEPT ![t] = entry]
    BY <1>6 DEF Issue
  <2>4. access' = access \cup {pair} /\ Become(r, Idle) /\ UNCHANGED <<account, lastSid>>
    BY <1>6 DEF Issue
  <2> HIDE DEF pair, entry
  <2>5. proc' \in [Requests -> Procs]
    BY <1>1, <2>4, BecomeType
  <2> QED  BY <2>2, <2>3, <2>4, <2>5 DEF TypeOK
<1>7. ASSUME NEW r \in Requests, Rotate(r) PROVE TypeOK'
  <2> DEFINE t == proc[r].token
  <2>1. t \in Tokens
    BY <1>1, <1>7, OfProc DEF Rotate
  <2>2. [step |-> "issue", holder |-> row[t].holder, device |-> row[t].holder,
         password |-> row[t].password, sid |-> row[t].sid] \in Procs
    BY <2>1 DEF TypeOK, RefreshRows, Procs
  <2>3. proc' \in [Requests -> Procs]
    BY <1>7, <2>2, BecomeType DEF Rotate
  <2>4. row' \in [Tokens -> RefreshRows]
    BY <1>7, <2>1 DEF Rotate, TypeOK, RefreshRows
  <2> QED  BY <1>7, <2>3, <2>4 DEF Rotate, TypeOK
<1>8. ASSUME NEW r \in Requests, LogoutRelease(r) PROVE TypeOK'
  <2>1. proc' \in [Requests -> Procs]
    BY <1>1, <1>8, BecomeType DEF LogoutRelease
  <2>2. [account EXCEPT !.sid = NoSid, !.device = Unknown] \in Accounts
    <3>1. NoSid \in Sids
      BY DEF NoSid, Sids, SessionsAssumption
    <3>2. account \in Accounts
      BY DEF TypeOK
    <3> QED  BY <3>1, <3>2 DEF Accounts
  <2>3. account' \in {account, [account EXCEPT !.sid = NoSid, !.device = Unknown]}
    BY <1>8 DEF LogoutRelease
  <2> QED  BY <1>8, <2>1, <2>2, <2>3 DEF LogoutRelease, TypeOK
<1>9. CASE LogoutEverywhere
  BY <1>9, RevokedAllType DEF LogoutEverywhere, TypeOK
<1>10. CASE ResetPassword
  BY <1>10, ChangedType DEF ResetPassword, TypeOK
<1>11. ASSUME NEW r \in Requests, ChangeCheck(r) PROVE TypeOK'
  <2>1. PICK token \in access : Become(r, [step |-> "change", holder |-> token.holder])
    BY <1>11 DEF ChangeCheck
  <2>2. [step |-> "change", holder |-> token.holder] \in Procs
    BY DEF TypeOK, AccessTokens, Procs
  <2>3. proc' \in [Requests -> Procs]
    BY <2>1, <2>2, BecomeType
  <2> QED  BY <1>11, <2>3 DEF ChangeCheck, TypeOK
<1>12. ASSUME NEW r \in Requests, ChangeWrite(r) PROVE TypeOK'
  <2>1. PasswordChanged /\ proc[r].holder \in Browsers
    BY <1>1, <1>12, OfProc DEF ChangeWrite
  <2>2. account' \in Accounts /\ row' \in [Tokens -> RefreshRows] /\ access' \subseteq AccessTokens
    BY <2>1, ChangedType
  <2>3. [step |-> "signin", holder |-> proc[r].holder, device |-> Unknown, password |-> account'.password] \in Procs
    BY <2>1, <2>2 DEF Accounts, Procs
  <2>4. proc' \in [Requests -> Procs]
    BY <1>12, <2>3, BecomeType DEF ChangeWrite
  <2> QED  BY <1>12, <2>2, <2>4 DEF ChangeWrite, TypeOK
<1>13. CASE SetActive
  BY <1>13 DEF SetActive, TypeOK, Accounts
<1>14. CASE Tick
  BY <1>14 DEF Tick, TypeOK, AccessTokens
<1>15. ASSUME NEW r \in Requests, Abandon(r) PROVE TypeOK'
  <2>1. proc' \in [Requests -> Procs]
    BY <1>1, <1>15, BecomeType DEF Abandon
  <2> QED  BY <1>15, <2>1 DEF Abandon, TypeOK
<1>16. CASE UNCHANGED vars
  BY <1>16 DEF vars, TypeOK
<1> QED
  BY <1>2, <1>3, <1>4, <1>5, <1>6, <1>7, <1>8, <1>9, <1>10, <1>11, <1>12, <1>13, <1>14, <1>15, <1>16 DEF Next

LEMMA InitType ==
  ASSUME SessionsAssumption, Init
  PROVE  TypeOK
<1>1. (CHOOSE c \in Browsers : TRUE) \in Browsers
  BY SessionsAssumption DEF SessionsAssumption
<1>2. NoSid \in Sids /\ 0 \in 0..MaxChanges
  BY SessionsAssumption DEF SessionsAssumption, NoSid, Sids
<1>3. row \in [Tokens -> RefreshRows]
  <2> DEFINE c == CHOOSE c \in Browsers : TRUE
             r == [state |-> "none", holder |-> c, sid |-> NoSid, password |-> 0, stray |-> FALSE]
  <2>1. row \in [Tokens -> {r}]
    BY DEF Init
  <2>2. r \in RefreshRows
    BY <1>1, <1>2 DEF RefreshRows
  <2> HIDE DEF r
  <2> QED  BY <2>1, <2>2
<1> QED  BY <1>2, <1>3 DEF Init, TypeOK, Accounts, Procs

\* The account, its tokens and its rows, and the requests under way are well formed
\* in every reachable state.
THEOREM SessionsTypeCorrect == Spec => []TypeOK
<1>1. Init => TypeOK
  BY SessionsAssumption, InitType
<1>2. TypeOK /\ [Next]_vars => TypeOK'
  BY SessionsAssumption, TypeStep
<1> QED  BY <1>1, <1>2, PTL DEF Spec

-----------------------------------------------------------------------------
(* Passwords. *)

LEMMA PasswordStep ==
  ASSUME SessionsAssumption, TypeOK, OldPasswordOut, [Next]_vars
  PROVE  OldPasswordOut'
<1>1. ASSUME NEW r \in Requests, Issue(r) PROVE OldPasswordOut'
  <2> DEFINE stray == proc[r].password # account.password
             pair == [holder |-> proc[r].holder, sid |-> proc[r].sid, fresh |-> TRUE,
                      password |-> proc[r].password, stray |-> stray]
             entry == [state |-> "live", holder |-> proc[r].holder, sid |-> proc[r].sid,
                       password |-> proc[r].password, stray |-> stray]
  <2>1. /\ pair.password # account.password => pair.stray
        /\ entry.password # account.password => entry.stray
    OBVIOUS
  <2>2. PICK t \in Tokens : row' = [row EXCEPT ![t] = entry]
    BY <1>1 DEF Issue
  <2>3. access' = access \cup {pair} /\ account' = account
    BY <1>1 DEF Issue
  <2> HIDE DEF pair, entry
  <2>4. \A u \in Tokens : row'[u] = IF u = t THEN entry ELSE row[u]
    BY <2>2 DEF TypeOK
  <2> QED  BY <2>1, <2>3, <2>4 DEF OldPasswordOut
<1>2. ASSUME PasswordChanged PROVE OldPasswordOut'
  BY <1>2, ChangedType, RevokedAllType DEF OldPasswordOut
<1>3. ASSUME account'.password = account.password, UNCHANGED access,
             \A t \in Tokens : row'[t].state = "live" => row'[t] = row[t]
      PROVE  OldPasswordOut'
  BY <1>3 DEF OldPasswordOut
<1>4. ASSUME row' = RevokedAll, NEW t \in Tokens, row'[t].state = "live"
      PROVE  FALSE
  BY <1>4, RevokedAllType
<1>5. ASSUME NEW r \in Requests, NEW t \in Tokens, LogoutRevoke(r, t) PROVE OldPasswordOut'
  <2>1. \A u \in Tokens : row'[u].state = "live" => row'[u] = row[u]
    BY <1>5 DEF LogoutRevoke, TypeOK, RefreshRows
  <2> QED  BY <1>3, <1>5, <2>1 DEF LogoutRevoke
<1>6. ASSUME NEW r \in Requests, Rotate(r) PROVE OldPasswordOut'
  <2>1. \A u \in Tokens : row'[u].state = "live" => row'[u] = row[u]
    BY <1>6 DEF Rotate, TypeOK, RefreshRows
  <2> QED  BY <1>3, <1>6, <2>1 DEF Rotate
<1>7. ASSUME NEW r \in Requests, StartWrite(r) PROVE OldPasswordOut'
  <2>1. account'.password = account.password /\ UNCHANGED access
    BY <1>7 DEF StartWrite, TypeOK, Accounts
  <2>2. row' = row \/ row' = RevokedAll
    BY <1>7 DEF StartWrite
  <2> QED  BY <1>3, <1>4, <2>1, <2>2
<1>8. ASSUME NEW r \in Requests, LogoutRelease(r) PROVE OldPasswordOut'
  <2>1. account'.password = account.password
    BY <1>8 DEF LogoutRelease, TypeOK, Accounts
  <2> QED  BY <1>3, <1>8, <2>1 DEF LogoutRelease
<1>9. CASE LogoutEverywhere
  BY <1>3, <1>4, <1>9 DEF LogoutEverywhere
<1>10. CASE SetActive
  <2>1. account'.password = account.password
    BY <1>10 DEF SetActive, TypeOK, Accounts
  <2> QED  BY <1>3, <1>10, <2>1 DEF SetActive
<1>11. CASE Tick
  <2>1. \A a \in access' : \E x \in access : a.password = x.password /\ a.stray = x.stray
    BY <1>11 DEF Tick, TypeOK, AccessTokens
  <2> QED  BY <1>11, <2>1 DEF Tick, OldPasswordOut
<1>12. CASE UNCHANGED <<account, access, row>>
  BY <1>12 DEF OldPasswordOut
<1> QED
  BY <1>1, <1>2, <1>5, <1>6, <1>7, <1>8, <1>9, <1>10, <1>11, <1>12
  DEF Next, vars, Login, RefreshRead, StartRead, ResetPassword, ChangeCheck, ChangeWrite, Abandon

\* Whatever is still good under an older password came past its change as one of
\* the exceptions: nothing else outlives a reset.
THEOREM OldPasswordsAreOut == Spec => []OldPasswordOut
<1>1. Init => OldPasswordOut
  BY DEF Init, OldPasswordOut
<1>2. TypeOK /\ OldPasswordOut /\ [Next]_vars => OldPasswordOut'
  BY SessionsAssumption, PasswordStep
<1> QED  BY <1>1, <1>2, SessionsTypeCorrect, PTL DEF Spec

-----------------------------------------------------------------------------
(* Sessions and their holders. *)

LEMMA BoundStep ==
  ASSUME SessionsAssumption, TypeOK, BoundInv, HolderInv, [Next]_vars
  PROVE  BoundInv'
<1> DEFINE InRange(s) == s <= lastSid'
           Sound(p) ==
             /\ p.step = "issue" => p.sid # NoSid
             /\ p.step \in {"signin", "start"} => p.device \in {p.holder, Unknown}
             /\ p.step = "start" /\ p.sid # NoSid => p.device = p.holder
             /\ p.step \in {"rotate", "release"} => row'[p.token].state # "none"
<1>1. lastSid' \in Sids /\ lastSid \in Sids /\ account.sid \in Sids /\ lastSid <= lastSid'
  <2>1. lastSid' \in Sids /\ lastSid \in Sids /\ account.sid \in Sids
    BY TypeStep DEF TypeOK, Accounts
  <2>2. lastSid' = lastSid \/ lastSid' = lastSid + 1
    BY DEF Next, vars, Login, RefreshRead, LogoutRevoke, StartRead, StartWrite, Issue, Rotate, LogoutRelease,
           ChangeCheck, ChangeWrite, Abandon, LogoutEverywhere, ResetPassword, PasswordChanged, SetActive, Tick
  <2> QED  BY <2>1, <2>2 DEF Sids, SessionsAssumption
<1>2. \A t \in Tokens : row[t].state # "none" => row'[t].state # "none" /\ row'[t].sid # NoSid
  <2> SUFFICES ASSUME NEW t \in Tokens, row[t].state # "none"
               PROVE  row'[t].state # "none" /\ row'[t].sid # NoSid
    OBVIOUS
  <2>1. row[t].sid # NoSid
    BY DEF BoundInv
  <2>2. CASE row' = row
    BY <2>1, <2>2
  <2>3. CASE row' = RevokedAll
    BY <2>1, <2>3, RevokedAllType
  <2>4. ASSUME NEW u \in Tokens, row' = [row EXCEPT ![u].state = "revoked"]
        PROVE  row'[t].state # "none" /\ row'[t].sid # NoSid
    BY <2>1, <2>4 DEF TypeOK, RefreshRows
  <2>5. ASSUME NEW u \in Tokens, NEW entry, row[u].state = "none", row' = [row EXCEPT ![u] = entry]
        PROVE  row'[t].state # "none" /\ row'[t].sid # NoSid
    BY <2>1, <2>5 DEF TypeOK
  <2>6. ASSUME NEW r \in Requests, Rotate(r) PROVE row'[t].state # "none" /\ row'[t].sid # NoSid
    BY <2>4, <2>6, OfProc DEF Rotate, TypeOK
  <2>7. ASSUME NEW r \in Requests, Issue(r) PROVE row'[t].state # "none" /\ row'[t].sid # NoSid
    BY <2>5, <2>7 DEF Issue
  <2> QED
    BY <2>2, <2>3, <2>4, <2>6, <2>7
    DEF Next, vars, Login, RefreshRead, LogoutRevoke, StartRead, StartWrite, LogoutRelease,
        ChangeCheck, ChangeWrite, Abandon, LogoutEverywhere, ResetPassword, PasswordChanged, SetActive, Tick
<1>3. \A r \in Requests : Sound(proc[r])
  BY <1>2, OfProc DEF BoundInv, TypeOK
<1>4. ASSUME NEW r \in Requests, NEW p, Become(r, p), Sound(p)
      PROVE  \A v \in Requests : Sound(proc'[v])
  <2>1. \A v \in Requests : proc'[v] = IF v = r THEN p ELSE proc[v]
    BY <1>4 DEF Become, TypeOK
  <2> HIDE DEF Sound
  <2> QED  BY <1>3, <1>4, <2>1
<1>5. \A r \in Requests : Sound(proc'[r])
  <2>1. ASSUME NEW r \in Requests, NEW b \in Browsers, Login(r, b) PROVE \A v \in Requests : Sound(proc'[v])
    BY <1>4, <2>1 DEF Login
  <2>2. ASSUME NEW r \in Requests, NEW t \in Tokens, RefreshRead(r, t) \/ LogoutRevoke(r, t)
        PROVE  \A v \in Requests : Sound(proc'[v])
    <3>1. row'[t].state # "none"
      BY <1>2, <2>2 DEF RefreshRead, LogoutRevoke
    <3>2. Become(r, [step |-> "rotate", token |-> t]) \/ Become(r, [step |-> "release", token |-> t])
      BY <2>2 DEF RefreshRead, LogoutRevoke
    <3> QED  BY <1>4, <3>1, <3>2
  <2>3. ASSUME NEW r \in Requests, StartRead(r) PROVE \A v \in Requests : Sound(proc'[v])
    <3> DEFINE sid == IF Reuse(proc[r].device) THEN account.sid ELSE NoSid
               p == [step |-> "start", holder |-> proc[r].holder, device |-> proc[r].device,
                     password |-> proc[r].password, sid |-> sid]
    <3>1. proc[r].device \in {proc[r].holder, Unknown}
      BY <2>3 DEF StartRead, BoundInv
    <3>2. sid # NoSid => proc[r].device # Unknown
      BY DEF Reuse
    <3>3. Become(r, p)
      BY <2>3 DEF StartRead
    <3>4. Sound(p)
      <4> HIDE DEF sid
      <4> QED  BY <3>1, <3>2
    <3> HIDE DEF p, Sound
    <3> QED  BY <1>4, <3>3, <3>4
  <2>4. ASSUME NEW r \in Requests, StartWrite(r) PROVE \A v \in Requests : Sound(proc'[v])
    <3> DEFINE sid == IF proc[r].sid # NoSid THEN proc[r].sid ELSE lastSid + 1
               p == [proc[r] EXCEPT !.step = "issue", !.sid = sid]
    <3>1. sid \in Sids /\ sid # NoSid /\ proc[r].step = "start" /\ proc[r] \in Procs
      BY <1>1, <2>4, OfProc DEF StartWrite, TypeOK, Sids, NoSid, SessionsAssumption
    <3>2. p.step = "issue" /\ p.sid = sid
      <4> HIDE DEF sid
      <4> QED  BY <3>1, IssueOf
    <3>3. Become(r, p)
      BY <2>4 DEF StartWrite
    <3>4. Sound(p)
      <4> HIDE DEF p, sid
      <4> QED  BY <3>1, <3>2
    <3> HIDE DEF p, Sound
    <3> QED  BY <1>4, <3>3, <3>4
  <2>5. ASSUME NEW r \in Requests, Rotate(r) PROVE \A v \in Requests : Sound(proc'[v])
    <3> DEFINE t == proc[r].token
    <3>1. t \in Tokens /\ row[t].sid # NoSid
      BY <2>5, OfProc DEF Rotate, BoundInv, TypeOK
    <3>2. Become(r, [step |-> "issue", holder |-> row[t].holder, device |-> row[t].holder,
                     password |-> row[t].password, sid |-> row[t].sid])
      BY <2>5 DEF Rotate
    <3> QED  BY <1>4, <3>1, <3>2
  <2>6. ASSUME NEW r \in Requests, Issue(r) \/ LogoutRelease(r) \/ Abandon(r)
        PROVE  \A v \in Requests : Sound(proc'[v])
    BY <1>4, <2>6 DEF Issue, LogoutRelease, Abandon, Idle
  <2>7. ASSUME NEW r \in Requests, ChangeCheck(r) PROVE \A v \in Requests : Sound(proc'[v])
    BY <1>4, <2>7 DEF ChangeCheck
  <2>8. ASSUME NEW r \in Requests, ChangeWrite(r) PROVE \A v \in Requests : Sound(proc'[v])
    BY <1>4, <2>8 DEF ChangeWrite
  <2>9. CASE UNCHANGED proc
    BY <1>3, <2>9
  <2> HIDE DEF Sound
  <2> QED
    BY <2>1, <2>2, <2>3, <2>4, <2>5, <2>6, <2>7, <2>8, <2>9
    DEF Next, vars, LogoutEverywhere, ResetPassword, SetActive, Tick
<1>6. account'.sid <= lastSid'
  <2>1. account.sid <= lastSid'
    BY <1>1 DEF BoundInv, Sids, SessionsAssumption
  <2>2. ASSUME NEW r \in Requests, StartWrite(r) PROVE account'.sid <= lastSid'
    <3>1. CASE proc[r].sid = NoSid
      <4>1. account'.sid = lastSid + 1 /\ lastSid' = lastSid + 1
        BY <2>2, <3>1 DEF StartWrite, TypeOK, Accounts
      <4> QED  BY <1>1, <4>1 DEF Sids, SessionsAssumption
    <3>2. CASE proc[r].sid # NoSid
      <4>1. account'.sid = proc[r].sid /\ lastSid' = lastSid
        BY <2>2, <3>2 DEF StartWrite, TypeOK, Accounts
      <4>2. proc[r].step = "start" /\ proc[r].sid \in Sids /\ proc[r].holder \in Browsers
        BY <2>2, OfProc DEF StartWrite, TypeOK
      <4>3. HeldBy(proc[r].sid, proc[r].holder)
        BY <4>2 DEF HeldBy, ByRequest
      <4> QED  BY <3>2, <4>1, <4>2, <4>3 DEF HolderInv
    <3> QED  BY <3>1, <3>2
  <2>3. ASSUME NEW r \in Requests, LogoutRelease(r) PROVE account'.sid <= lastSid'
    <3>1. account'.sid \in {NoSid, account.sid}
      BY <2>3 DEF LogoutRelease, TypeOK, Accounts
    <3> QED  BY <1>1, <2>1, <3>1 DEF NoSid, Sids, SessionsAssumption
  <2>4. CASE PasswordChanged
    BY <2>1, <2>4, ChangedType
  <2>5. CASE SetActive
    BY <2>1, <2>5 DEF SetActive, TypeOK, Accounts
  <2>6. CASE UNCHANGED account
    BY <2>1, <2>6
  <2> QED
    BY <2>2, <2>3, <2>4, <2>5, <2>6
    DEF Next, vars, Login, RefreshRead, LogoutRevoke, StartRead, Issue, Rotate, LogoutEverywhere,
        ResetPassword, ChangeCheck, ChangeWrite, Abandon, Tick
<1>7. /\ \A a \in access' : a.sid # NoSid
      /\ \A t \in Tokens : row'[t].state # "none" => row'[t].sid # NoSid
  <2>1. ASSUME NEW r \in Requests, Issue(r)
        PROVE  /\ \A a \in access' : a.sid # NoSid
               /\ \A t \in Tokens : row'[t].state # "none" => row'[t].sid # NoSid
    <3>1. proc[r].sid # NoSid
      BY <2>1 DEF Issue, BoundInv
    <3>2. \A a \in access' : a \in access \/ a.sid = proc[r].sid
      BY <2>1 DEF Issue
    <3>3. \A t \in Tokens : row'[t] = row[t] \/ row'[t].sid = proc[r].sid
      BY <2>1 DEF Issue, TypeOK
    <3> QED  BY <3>1, <3>2, <3>3 DEF BoundInv
  <2>2. ASSUME ~(\E r \in Requests : Issue(r))
        PROVE  \A t \in Tokens : row'[t].state # "none" => row[t].state # "none"
    <3> SUFFICES ASSUME NEW t \in Tokens, row[t].state = "none" PROVE row'[t].state = "none"
      BY DEF TypeOK
    <3>1. ASSUME NEW r \in Requests, Rotate(r) PROVE row'[t].state = "none"
      <4>1. proc[r].token \in Tokens /\ row[proc[r].token].state # "none"
        BY <3>1, OfProc DEF Rotate, BoundInv, TypeOK
      <4> QED  BY <3>1, <4>1 DEF Rotate, TypeOK
    <3>2. ASSUME NEW r \in Requests, NEW u \in Tokens, LogoutRevoke(r, u) PROVE row'[t].state = "none"
      BY <3>2 DEF LogoutRevoke, TypeOK
    <3>3. CASE row' = RevokedAll
      BY <3>3, RevokedAllType
    <3>4. CASE row' = row
      BY <3>4
    <3> QED
      BY <2>2, <3>1, <3>2, <3>3, <3>4
      DEF Next, vars, Login, RefreshRead, StartRead, StartWrite, LogoutRelease, ChangeCheck, ChangeWrite,
          Abandon, LogoutEverywhere, ResetPassword, PasswordChanged, SetActive, Tick
  <2>3. ASSUME ~(\E r \in Requests : Issue(r)), NEW a \in access'
        PROVE  \E x \in access : a.sid = x.sid
    <3>1. CASE PasswordChanged
      BY <2>3, <3>1, ChangedType
    <3>2. CASE Tick
      BY <2>3, <3>2 DEF Tick, TypeOK, AccessTokens
    <3>3. CASE UNCHANGED access
      BY <2>3, <3>3
    <3> QED
      BY <2>3, <3>1, <3>2, <3>3
      DEF Next, vars, Login, RefreshRead, LogoutRevoke, StartRead, StartWrite, Rotate, LogoutRelease,
          ChangeCheck, ChangeWrite, Abandon, LogoutEverywhere, ResetPassword, SetActive
  <2> QED  BY <1>2, <2>1, <2>2, <2>3 DEF BoundInv
<1> QED  BY <1>5, <1>6, <1>7 DEF BoundInv

\* A step makes a browser the holder of a session that it does not hold yet only by
\* starting a new one for it.
LEMMA HeldBefore ==
  ASSUME SessionsAssumption, TypeOK, BoundInv, [Next]_vars,
         NEW s \in Sids \ {NoSid}, NEW b \in Browsers, HeldBy(s, b)'
  PROVE  \/ HeldBy(s, b)
         \/ \E r \in Requests :
              StartWrite(r) /\ proc[r].sid = NoSid /\ s = lastSid + 1 /\ b = proc[r].holder
<1> DEFINE Begun == \E r \in Requests :
              StartWrite(r) /\ proc[r].sid = NoSid /\ s = lastSid + 1 /\ b = proc[r].holder
<1>1. ASSUME NEW r \in Requests, StartWrite(r)
      PROVE  LET sid == IF proc[r].sid # NoSid THEN proc[r].sid ELSE lastSid + 1 IN
             /\ account'.sid = sid /\ account'.device = proc[r].device
             /\ \A v \in Requests : v # r => proc'[v] = proc[v]
             /\ proc'[r].sid = sid /\ proc'[r].holder = proc[r].holder
             /\ sid = s /\ b = proc[r].holder => HeldBy(s, b) \/ Begun
  <2> DEFINE sid == IF proc[r].sid # NoSid THEN proc[r].sid ELSE lastSid + 1
  <2>1. proc[r] \in Procs /\ proc[r].step = "start" /\ sid <= MaxSid
    BY <1>1 DEF StartWrite, TypeOK
  <2>2. sid \in Sids
    BY <2>1, OfProc DEF TypeOK, Sids, SessionsAssumption
  <2> DEFINE p == [proc[r] EXCEPT !.step = "issue", !.sid = sid]
  <2>3. proc'[r] = p
    BY <1>1 DEF StartWrite, Become, TypeOK
  <2>4. proc'[r].sid = sid /\ proc'[r].holder = proc[r].holder
    <3> HIDE DEF sid
    <3>1. p.sid = sid /\ p.holder = proc[r].holder
      BY <2>1, <2>2, IssueOf
    <3> HIDE DEF p
    <3> QED  BY <2>3, <3>1
  <2>5. account' = [account EXCEPT !.sid = sid, !.device = proc[r].device]
    BY <1>1 DEF StartWrite
  <2>6. account'.sid = sid /\ account'.device = proc[r].device
    <3> HIDE DEF sid
    <3> QED  BY <2>5 DEF TypeOK, Accounts
  <2>7. sid = s /\ b = proc[r].holder => HeldBy(s, b) \/ Begun
    BY <1>1, <2>1 DEF HeldBy, ByRequest
  <2> QED  BY <1>1, <2>4, <2>6, <2>7 DEF StartWrite, Become, TypeOK
<1>2. ASSUME ByAccess(s, b)' PROVE HeldBy(s, b)
  <2>1. PICK a \in access' : a.sid = s /\ a.holder = b
    BY <1>2 DEF ByAccess
  <2>2. ASSUME NEW x \in access, x.sid = s, x.holder = b PROVE HeldBy(s, b)
    BY <2>2 DEF HeldBy, ByAccess
  <2>3. ASSUME NEW r \in Requests, Issue(r) PROVE HeldBy(s, b)
    <3>1. CASE a \in access
      BY <2>1, <2>2, <3>1
    <3>2. CASE a \notin access
      <4>1. a.sid = proc[r].sid /\ a.holder = proc[r].holder /\ proc[r].step = "issue"
        BY <2>1, <2>3, <3>2 DEF Issue
      <4> QED  BY <2>1, <4>1 DEF HeldBy, ByRequest
    <3> QED  BY <3>1, <3>2
  <2>4. CASE PasswordChanged
    BY <2>1, <2>2, <2>4, ChangedType
  <2>5. CASE Tick
    <3>1. PICK x \in access : a.sid = x.sid /\ a.holder = x.holder
      BY <2>1, <2>5 DEF Tick, TypeOK, AccessTokens
    <3> QED  BY <2>1, <2>2, <3>1
  <2>6. CASE UNCHANGED access
    BY <2>1, <2>2, <2>6
  <2> QED
    BY <2>3, <2>4, <2>5, <2>6
    DEF Next, vars, Login, RefreshRead, LogoutRevoke, StartRead, StartWrite, Rotate, LogoutRelease,
        ChangeCheck, ChangeWrite, Abandon, LogoutEverywhere, ResetPassword, SetActive
<1>3. ASSUME ByRow(s, b)' PROVE HeldBy(s, b)
  <2>1. PICK t \in Tokens : row'[t].state # "none" /\ row'[t].sid = s /\ row'[t].holder = b
    BY <1>3 DEF ByRow
  <2>2. ASSUME row[t].state # "none", row[t].sid = s, row[t].holder = b PROVE HeldBy(s, b)
    BY <2>2 DEF HeldBy, ByRow
  <2>3. ASSUME NEW r \in Requests, Issue(r) PROVE HeldBy(s, b)
    <3>1. CASE row'[t] = row[t]
      BY <2>1, <2>2, <3>1
    <3>2. CASE row'[t] # row[t]
      <4>1. row'[t].sid = proc[r].sid /\ row'[t].holder = proc[r].holder /\ proc[r].step = "issue"
        BY <2>3, <3>2 DEF Issue, TypeOK
      <4> QED  BY <2>1, <4>1 DEF HeldBy, ByRequest
    <3> QED  BY <3>1, <3>2
  <2>4. ASSUME NEW u \in Tokens, row[u].state # "none", row' = [row EXCEPT ![u].state = "revoked"]
        PROVE  HeldBy(s, b)
    BY <2>1, <2>2, <2>4 DEF TypeOK, RefreshRows
  <2>5. ASSUME NEW r \in Requests, Rotate(r) PROVE HeldBy(s, b)
    <3>1. proc[r].token \in Tokens /\ row[proc[r].token].state # "none"
      BY <2>5, OfProc DEF Rotate, BoundInv, TypeOK
    <3> QED  BY <2>4, <2>5, <3>1 DEF Rotate
  <2>6. ASSUME NEW r \in Requests, NEW u \in Tokens, LogoutRevoke(r, u) PROVE HeldBy(s, b)
    BY <2>4, <2>6 DEF LogoutRevoke
  <2>7. CASE row' = RevokedAll
    BY <2>1, <2>2, <2>7, RevokedAllType
  <2>8. CASE row' = row
    BY <2>1, <2>2, <2>8
  <2> QED
    BY <2>3, <2>5, <2>6, <2>7, <2>8
    DEF Next, vars, Login, RefreshRead, StartRead, StartWrite, LogoutRelease, ChangeCheck, ChangeWrite,
        Abandon, LogoutEverywhere, ResetPassword, PasswordChanged, SetActive, Tick
<1>4. ASSUME ByRequest(s, b)' PROVE HeldBy(s, b) \/ Begun
  <2>1. PICK r \in Requests : proc'[r].step \in {"start", "issue"} /\ proc'[r].sid = s /\ proc'[r].holder = b
    BY <1>4 DEF ByRequest
  <2>2. ASSUME proc'[r] = proc[r] PROVE HeldBy(s, b)
    BY <2>1, <2>2 DEF HeldBy, ByRequest
  <2>3. ASSUME NEW v \in Requests, NEW p, Become(v, p), p.step \notin {"start", "issue"} PROVE HeldBy(s, b)
    <3>1. proc'[r] = IF r = v THEN p ELSE proc[r]
      BY <2>3 DEF Become, TypeOK
    <3> QED  BY <2>1, <2>2, <2>3, <3>1
  <2>4. ASSUME NEW v \in Requests, StartRead(v) PROVE HeldBy(s, b)
    <3>1. CASE r # v
      BY <2>2, <2>4, <3>1 DEF StartRead, Become, TypeOK
    <3>2. CASE r = v
      <4> DEFINE sid == IF Reuse(proc[r].device) THEN account.sid ELSE NoSid
      <4>1. proc'[r] = [step |-> "start", holder |-> proc[r].holder, device |-> proc[r].device,
                        password |-> proc[r].password, sid |-> sid]
        BY <2>4, <3>2 DEF StartRead, Become, TypeOK
      <4>2. sid = s /\ proc[r].holder = b
        <5> HIDE DEF sid
        <5> QED  BY <2>1, <4>1
      <4>3. Reuse(proc[r].device) /\ account.sid = s
        BY <4>2
      <4>4. proc[r].device = b
        BY <2>4, <3>2, <4>2, <4>3 DEF StartRead, BoundInv, Reuse
      <4> QED  BY <4>3, <4>4 DEF Reuse, HeldBy, ByAccount
    <3> QED  BY <3>1, <3>2
  <2>5. ASSUME NEW v \in Requests, StartWrite(v) PROVE HeldBy(s, b) \/ Begun
    <3>1. CASE r # v
      BY <1>1, <2>2, <2>5, <3>1
    <3>2. CASE r = v
      BY <1>1, <2>1, <2>5, <3>2
    <3> QED  BY <3>1, <3>2
  <2>6. ASSUME NEW v \in Requests, Rotate(v) PROVE HeldBy(s, b)
    <3> DEFINE t == proc[v].token
    <3>1. CASE r # v
      BY <2>2, <2>6, <3>1 DEF Rotate, Become, TypeOK
    <3>2. CASE r = v
      <4>1. proc'[r].sid = row[t].sid /\ proc'[r].holder = row[t].holder
        BY <2>6, <3>2 DEF Rotate, Become, TypeOK
      <4>2. t \in Tokens /\ row[t].state # "none"
        BY <2>6, OfProc DEF Rotate, BoundInv, TypeOK
      <4> QED  BY <2>1, <4>1, <4>2 DEF HeldBy, ByRow
    <3> QED  BY <3>1, <3>2
  <2>7. ASSUME NEW v \in Requests, Issue(v) \/ LogoutRelease(v) \/ Abandon(v) PROVE HeldBy(s, b)
    BY <2>3, <2>7 DEF Issue, LogoutRelease, Abandon, Idle
  <2>8. ASSUME NEW v \in Requests, NEW c \in Browsers, Login(v, c) PROVE HeldBy(s, b)
    BY <2>3, <2>8 DEF Login
  <2>9. ASSUME NEW v \in Requests, NEW t \in Tokens, RefreshRead(v, t) \/ LogoutRevoke(v, t) PROVE HeldBy(s, b)
    <3>1. Become(v, [step |-> "rotate", token |-> t]) \/ Become(v, [step |-> "release", token |-> t])
      BY <2>9 DEF RefreshRead, LogoutRevoke
    <3> QED  BY <2>3, <3>1
  <2>10. ASSUME NEW v \in Requests, ChangeCheck(v) PROVE HeldBy(s, b)
    BY <2>3, <2>10 DEF ChangeCheck
  <2>11. ASSUME NEW v \in Requests, ChangeWrite(v) PROVE HeldBy(s, b)
    BY <2>3, <2>11 DEF ChangeWrite
  <2>12. CASE UNCHANGED proc
    BY <2>2, <2>12
  <2> HIDE DEF Begun
  <2> QED
    BY <2>4, <2>5, <2>6, <2>7, <2>8, <2>9, <2>10, <2>11, <2>12
    DEF Next, vars, LogoutEverywhere, ResetPassword, SetActive, Tick
<1>5. ASSUME ByAccount(s, b)' PROVE HeldBy(s, b) \/ Begun
  <2>1. account'.sid = s /\ account'.device = b
    BY <1>5 DEF ByAccount
  <2>2. ASSUME account'.sid = account.sid, account'.device = account.device PROVE HeldBy(s, b)
    BY <2>1, <2>2 DEF HeldBy, ByAccount
  <2>3. ASSUME NEW r \in Requests, StartWrite(r) PROVE HeldBy(s, b) \/ Begun
    <3>1. proc[r].device = b /\ b # Unknown
      BY <1>1, <2>1, <2>3 DEF SessionsAssumption
    <3>2. proc[r].holder = b
      BY <2>3, <3>1 DEF StartWrite, BoundInv
    <3> QED  BY <1>1, <2>1, <2>3, <3>2
  <2>4. ASSUME NEW r \in Requests, LogoutRelease(r) PROVE HeldBy(s, b)
    <3>1. account' = account
      BY <2>1, <2>4 DEF LogoutRelease, TypeOK, Accounts
    <3> QED  BY <2>2, <3>1
  <2>5. CASE PasswordChanged
    BY <2>2, <2>5, ChangedType
  <2>6. CASE SetActive
    BY <2>2, <2>6 DEF SetActive, TypeOK, Accounts
  <2>7. CASE UNCHANGED account
    BY <2>2, <2>7
  <2> HIDE DEF Begun
  <2> QED
    BY <2>3, <2>4, <2>5, <2>6, <2>7
    DEF Next, vars, Login, RefreshRead, LogoutRevoke, StartRead, Issue, Rotate, LogoutEverywhere,
        ResetPassword, ChangeCheck, ChangeWrite, Abandon, Tick
<1> QED  BY <1>2, <1>3, <1>4, <1>5 DEF HeldBy

LEMMA HolderStep ==
  ASSUME SessionsAssumption, TypeOK, BoundInv, HolderInv, [Next]_vars
  PROVE  HolderInv'
<1> SUFFICES ASSUME NEW s \in Sids \ {NoSid}, NEW b \in Browsers, HeldBy(s, b)'
             PROVE  s <= lastSid' /\ \A c \in Browsers : HeldBy(s, c)' => b = c
  BY DEF HolderInv
<1>1. /\ lastSid \in Nat /\ s \in Nat
      /\ \A c \in Browsers : HeldBy(s, c) => s <= lastSid
  BY DEF TypeOK, Sids, SessionsAssumption, HolderInv
<1>2. ASSUME ~(\E r \in Requests : StartWrite(r) /\ proc[r].sid = NoSid)
      PROVE  s <= lastSid' /\ \A c \in Browsers : HeldBy(s, c)' => b = c
  <2>1. lastSid' = lastSid
    BY <1>2
    DEF Next, vars, Login, RefreshRead, LogoutRevoke, StartRead, StartWrite, Issue, Rotate, LogoutRelease,
        ChangeCheck, ChangeWrite, Abandon, LogoutEverywhere, ResetPassword, PasswordChanged, SetActive, Tick
  <2>2. \A c \in Browsers : HeldBy(s, c)' => HeldBy(s, c)
    BY <1>2, HeldBefore
  <2> QED  BY <2>1, <2>2 DEF HolderInv
<1>3. ASSUME NEW r \in Requests, StartWrite(r), proc[r].sid = NoSid
      PROVE  s <= lastSid' /\ \A c \in Browsers : HeldBy(s, c)' => b = c
  <2>1. lastSid' = lastSid + 1
    BY <1>3 DEF StartWrite
  <2>2. ASSUME NEW v \in Requests, StartWrite(v) PROVE v = r
    <3>1. proc[v].step = "start" /\ proc'[v].step = "issue"
      <4> DEFINE sid == IF proc[v].sid # NoSid THEN proc[v].sid ELSE lastSid + 1
      <4>1. proc[v] \in Procs /\ proc[v].step = "start" /\ sid <= MaxSid
        BY <2>2 DEF StartWrite, TypeOK
      <4>2. sid \in Sids
        BY <4>1, OfProc DEF TypeOK, Sids, SessionsAssumption
      <4> DEFINE p == [proc[v] EXCEPT !.step = "issue", !.sid = sid]
      <4>3. proc'[v] = p
        BY <2>2 DEF StartWrite, Become, TypeOK
      <4> HIDE DEF sid
      <4>4. p.step = "issue"
        BY <4>1, <4>2, IssueOf
      <4> HIDE DEF p
      <4> QED  BY <4>1, <4>3, <4>4
    <3>2. v # r => proc'[v] = proc[v]
      BY <1>3 DEF StartWrite, Become, TypeOK
    <3> QED  BY <3>1, <3>2
  <2>3. \A c \in Browsers : HeldBy(s, c)' => HeldBy(s, c) \/ (s = lastSid + 1 /\ c = proc[r].holder)
    BY <2>2, HeldBefore
  <2>4. CASE s = lastSid + 1
    BY <1>1, <2>1, <2>3, <2>4
  <2>5. CASE s # lastSid + 1
    BY <1>1, <2>1, <2>3, <2>5 DEF HolderInv
  <2> QED  BY <2>4, <2>5
<1> QED  BY <1>2, <1>3

\* What a session binds, all of it.
SessionInv == TypeOK /\ BoundInv /\ HolderInv

LEMMA SessionInvHolds == Spec => []SessionInv
<1>1. Init => SessionInv
  <2> SUFFICES ASSUME Init PROVE BoundInv /\ HolderInv
    BY SessionsAssumption, InitType DEF SessionInv
  <2>1. BoundInv
    BY DEF Init, BoundInv, Idle, NoSid
  <2>2. ASSUME NEW s \in Sids \ {NoSid}, NEW b \in Browsers PROVE ~HeldBy(s, b)
    <3>1. access = {} /\ account.sid = NoSid /\ \A t \in Tokens : row[t].state = "none"
      BY DEF Init
    <3>2. \A r \in Requests : proc[r].step = "idle"
      BY DEF Init, Idle
    <3> QED  BY <3>1, <3>2 DEF HeldBy, ByAccess, ByRow, ByRequest, ByAccount
  <2> QED  BY <2>1, <2>2 DEF HolderInv
<1>2. SessionInv /\ [Next]_vars => SessionInv'
  BY SessionsAssumption, TypeStep, BoundStep, HolderStep DEF SessionInv
<1> QED  BY <1>1, <1>2, PTL DEF Spec

\* The tokens that are let in, and the refresh tokens that could still be exchanged,
\* are held by one browser: an account is signed in at one place.
THEOREM OneBrowserAtATime == Spec => []OneBrowser
<1>1. SessionInv => OneBrowser
  <2> SUFFICES ASSUME SessionInv,
                      NEW a \in access \cup {row[t] : t \in {u \in Tokens : row[u].state = "live"}},
                      NEW b \in access \cup {row[t] : t \in {u \in Tokens : row[u].state = "live"}},
                      LetIn(a), LetIn(b)
               PROVE  a.holder = b.holder
    BY DEF OneBrowser
  <2>1. a.sid = account.sid /\ b.sid = account.sid /\ account.sid \in Sids \ {NoSid}
    BY DEF LetIn, SessionInv, TypeOK, Accounts
  <2>2. ASSUME NEW x \in access \cup {row[t] : t \in {u \in Tokens : row[u].state = "live"}}
        PROVE  x.holder \in Browsers /\ HeldBy(x.sid, x.holder)
    <3>1. CASE x \in access
      BY <3>1 DEF HeldBy, ByAccess, SessionInv, TypeOK, AccessTokens
    <3>2. CASE x \notin access
      <4>1. PICK t \in Tokens : row[t].state = "live" /\ x = row[t]
        BY <2>2, <3>2
      <4> QED  BY <4>1 DEF HeldBy, ByRow, SessionInv, TypeOK, RefreshRows
    <3> QED  BY <3>1, <3>2
  <2> QED  BY <2>1, <2>2 DEF SessionInv, HolderInv
<1> QED  BY <1>1, SessionInvHolds, PTL

\* A displaced browser is let in again only by a sign-in at that browser.
THEOREM DisplacedIsOut == Spec => DisplacedStaysOut
<1>1. SessionInv /\ [Next]_vars =>
        [\A a \in access :
           account.sid # a.sid /\ account'.sid = a.sid =>
             \E r \in Requests : proc[r].step = "start" /\ proc[r].holder = a.holder]_vars
  <2> SUFFICES ASSUME SessionInv, [Next]_vars, NEW a \in access,
                      account.sid # a.sid, account'.sid = a.sid
               PROVE  \E r \in Requests : proc[r].step = "start" /\ proc[r].holder = a.holder
    OBVIOUS
  <2>1. a.sid \in Sids \ {NoSid} /\ a.holder \in Browsers /\ HeldBy(a.sid, a.holder)
    BY DEF SessionInv, BoundInv, TypeOK, AccessTokens, HeldBy, ByAccess
  <2>2. PICK r \in Requests : StartWrite(r) \/ LogoutRelease(r)
    BY ChangedType, SessionsAssumption
    DEF SessionInv, TypeOK, Accounts, Next, vars, Login, RefreshRead, LogoutRevoke, StartRead, Issue, Rotate,
        LogoutEverywhere, ResetPassword, ChangeCheck, ChangeWrite, SetActive, Abandon, Tick
  <2>3. StartWrite(r)
    BY <2>1, <2>2 DEF LogoutRelease, SessionInv, TypeOK, Accounts
  <2>4. account'.sid = IF proc[r].sid # NoSid THEN proc[r].sid ELSE lastSid + 1
    BY <2>3 DEF StartWrite, SessionInv, TypeOK, Accounts
  <2>5. a.sid <= lastSid /\ a.sid \in Nat /\ lastSid \in Nat
    BY <2>1 DEF SessionInv, HolderInv, TypeOK, Sids, SessionsAssumption
  <2>6. proc[r].sid = a.sid
    BY <2>4, <2>5
  <2>7. proc[r].step = "start" /\ proc[r].holder \in Browsers
    BY <2>3, OfProc DEF StartWrite, SessionInv, TypeOK
  <2>8. HeldBy(a.sid, proc[r].holder)
    BY <2>6, <2>7 DEF HeldBy, ByRequest
  <2> QED  BY <2>1, <2>7, <2>8 DEF SessionInv, HolderInv
<1> QED  BY <1>1, SessionInvHolds, PTL DEF Spec, DisplacedStaysOut

\* The account's session is given up only to a sign-out that presents a token of it.
THEOREM SignOutIsOfItsSession == Spec => SignedOutByItself
<1>1. SessionInv /\ [Next]_vars =>
        [account.sid # NoSid /\ account'.sid = NoSid =>
           \E r \in Requests : proc[r].step = "release" /\ row[proc[r].token].sid = account.sid]_vars
  <2> SUFFICES ASSUME SessionInv, [Next]_vars, account.sid # NoSid, account'.sid = NoSid
               PROVE  \E r \in Requests : proc[r].step = "release" /\ row[proc[r].token].sid = account.sid
    OBVIOUS
  <2>1. PICK r \in Requests : StartWrite(r) \/ LogoutRelease(r)
    BY ChangedType, SessionsAssumption
    DEF SessionInv, TypeOK, Accounts, Next, vars, Login, RefreshRead, LogoutRevoke, StartRead, Issue, Rotate,
        LogoutEverywhere, ResetPassword, ChangeCheck, ChangeWrite, SetActive, Abandon, Tick
  <2>2. ~StartWrite(r)
    <3>1. lastSid \in Nat
      BY DEF SessionInv, TypeOK, Sids, SessionsAssumption
    <3>2. StartWrite(r) => account'.sid = IF proc[r].sid # NoSid THEN proc[r].sid ELSE lastSid + 1
      BY DEF StartWrite, SessionInv, TypeOK, Accounts
    <3> QED  BY <3>1, <3>2 DEF NoSid
  <2>3. Releases(row[proc[r].token].sid) /\ proc[r].step = "release"
    BY <2>1, <2>2 DEF LogoutRelease
  <2> QED  BY <2>3 DEF Releases
<1> QED  BY <1>1, SessionInvHolds, PTL DEF Spec, SignedOutByItself
=============================================================================
