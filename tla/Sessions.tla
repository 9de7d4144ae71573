------------------------------ MODULE Sessions ------------------------------
(***************************************************************************)
(* One account, the browsers that sign in to it, and the single session it *)
(* may have: lib/session.ts, the session half of auth.service.ts and       *)
(* middleware/auth.ts.                                                     *)
(*                                                                         *)
(* An access token is never taken back: requireAuth judges it by the       *)
(* account row on every request.  One that a password change has outlawed  *)
(* stays so, and is dropped here.  Tokens do not expire in the model, which *)
(* only lets them live longer than they may.                               *)
(***************************************************************************)
EXTENDS Integers, FiniteSets

CONSTANTS
  Browsers,   \* a browser at an address: what sameDevice compares
  Requests,   \* requests in flight
  Tokens,     \* bound: refresh tokens ever issued
  MaxSid,     \* bound: sessions ever started
  MaxChanges  \* bound: how often the password changes

Unknown == "unknown"   \* a null user agent, which is no device

ASSUME SessionsAssumption ==
  /\ Browsers # {} /\ Unknown \notin Browsers
  /\ MaxSid \in Nat /\ MaxChanges \in Nat

VARIABLES
  account,  \* the columns of the users row that decide who is let in
  lastSid,  \* session ids given out so far; randomUUID never repeats one
  access,   \* the access tokens browsers hold
  row,      \* row[t]: the refresh_tokens row, and the token a browser holds
  proc      \* proc[r]: what request r is in the middle of

vars == <<account, lastSid, access, row, proc>>

NoSid == 0
Sids  == 0..MaxSid

\* sid, device: activeSessionId and what it was started from.  password counts
\* the changes of passwordHash.
Accounts ==
  [sid : Sids, device : Browsers \cup {Unknown}, password : 0..MaxChanges, active : BOOLEAN]

\* Whoever holds a token, the session it is bound to, and the password its chain
\* of refreshes began with.  stray: it came past a password change, because the
\* request that minted it had begun before, or within requireAuth's second of
\* slack.  (password and stray are history; the rest is in the tokens.)
AccessTokens ==
  [holder : Browsers, sid : Sids, password : 0..MaxChanges, stray : BOOLEAN, fresh : BOOLEAN]

RefreshRows ==
  [state : {"none", "live", "revoked"}, holder : Browsers, sid : Sids,
   password : 0..MaxChanges, stray : BOOLEAN]

Idle == [step |-> "idle"]
Procs ==
  {Idle}
  \cup [step : {"signin"}, holder : Browsers, device : Browsers \cup {Unknown}, password : 0..MaxChanges]
  \cup [step : {"start", "issue"}, holder : Browsers, device : Browsers \cup {Unknown},
        password : 0..MaxChanges, sid : Sids]
  \cup [step : {"rotate", "release"}, token : Tokens]
  \cup [step : {"change"}, holder : Browsers]

Init ==
  /\ account = [sid |-> NoSid, device |-> Unknown, password |-> 0, active |-> TRUE]
  /\ lastSid = NoSid
  /\ access = {}
  /\ row \in [Tokens -> {[state |-> "none", holder |-> b, sid |-> NoSid, password |-> 0, stray |-> FALSE] :
                           b \in {CHOOSE c \in Browsers : TRUE}}]
  /\ proc = [r \in Requests |-> Idle]

Become(r, p) == proc' = [proc EXCEPT ![r] = p]

RevokedAll == [t \in Tokens |-> IF row[t].state = "live" THEN [row[t] EXCEPT !.state = "revoked"] ELSE row[t]]

\* requireAuth, with checkSession.
LetIn(token) == account.active /\ account.sid # NoSid /\ account.sid = token.sid

-----------------------------------------------------------------------------
(* login and startSession *)

\* The password is compared, and the user row kept.
Login(r, b) ==
  /\ proc[r] = Idle /\ account.active
  /\ Become(r, [step |-> "signin", holder |-> b, device |-> b, password |-> account.password])
  /\ UNCHANGED <<account, lastSid, access, row>>

Reuse_AnyDevice(device) == account.sid # NoSid

\* The same device signing in again keeps its session.
Reuse(device) == account.sid # NoSid /\ device # Unknown /\ account.device = device

\* startSession's read: the session to keep, or NoSid for a new one.
StartRead(r) ==
  /\ proc[r].step = "signin"
  /\ Become(r, [step |-> "start", holder |-> proc[r].holder, device |-> proc[r].device,
                password |-> proc[r].password,
                sid |-> IF Reuse(proc[r].device) THEN account.sid ELSE NoSid])
  /\ UNCHANGED <<account, lastSid, access, row>>

\* Its transaction: a new session revokes every refresh token of the account.
StartWrite(r) ==
  /\ proc[r].step = "start"
  /\ LET reuse == proc[r].sid # NoSid
         sid   == IF reuse THEN proc[r].sid ELSE lastSid + 1
     IN  /\ sid <= MaxSid
         /\ row' = IF reuse THEN row ELSE RevokedAll
         /\ lastSid' = IF reuse THEN lastSid ELSE sid
         /\ account' = [account EXCEPT !.sid = sid, !.device = proc[r].device]
         /\ Become(r, [proc[r] EXCEPT !.step = "issue", !.sid = sid])
  /\ UNCHANGED access

\* issueTokens: the pair is minted for the session and the user that were read.
Issue(r) ==
  /\ proc[r].step = "issue"
  /\ LET stray == proc[r].password # account.password IN
       /\ \E t \in Tokens :
            /\ row[t].state = "none"
            /\ row' = [row EXCEPT ![t] = [state |-> "live", holder |-> proc[r].holder, sid |-> proc[r].sid,
                                          password |-> proc[r].password, stray |-> stray]]
       /\ access' = access \cup {[holder |-> proc[r].holder, sid |-> proc[r].sid, fresh |-> TRUE,
                                  password |-> proc[r].password, stray |-> stray]}
  /\ Become(r, Idle)
  /\ UNCHANGED <<account, lastSid>>

-----------------------------------------------------------------------------
(* refresh *)

RefreshRead(r, t) ==
  /\ proc[r] = Idle /\ row[t].state = "live" /\ LetIn(row[t])
  /\ Become(r, [step |-> "rotate", token |-> t])
  /\ UNCHANGED <<account, lastSid, access, row>>

\* The presented token is revoked, then the pair issued: two writes.  Only the
\* session is looked at again, by whoever is shown the tokens.
Rotate(r) ==
  /\ proc[r].step = "rotate"
  /\ LET t == proc[r].token IN
       /\ row' = [row EXCEPT ![t].state = "revoked"]
       /\ Become(r, [step |-> "issue", holder |-> row[t].holder, device |-> row[t].holder,
                     password |-> row[t].password, sid |-> row[t].sid])
  /\ UNCHANGED <<account, lastSid, access>>

-----------------------------------------------------------------------------
(* logout, logoutEverywhere *)

LogoutRevoke(r, t) ==
  /\ proc[r] = Idle /\ row[t].state = "live"
  /\ row' = [row EXCEPT ![t].state = "revoked"]
  /\ Become(r, [step |-> "release", token |-> t])
  /\ UNCHANGED <<account, lastSid, access>>

Releases_Always(sid) == TRUE

\* "A device that was already displaced must not be able to sign the current
\* session out on its way past."
Releases(sid) == account.sid = sid

LogoutRelease(r) ==
  /\ proc[r].step = "release"
  /\ account' = IF Releases(row[proc[r].token].sid)
                THEN [account EXCEPT !.sid = NoSid, !.device = Unknown] ELSE account
  /\ Become(r, Idle)
  /\ UNCHANGED <<lastSid, access, row>>

LogoutEverywhere ==
  /\ \E token \in access : LetIn(token)
  /\ row' = RevokedAll
  /\ UNCHANGED <<account, lastSid, access, proc>>

-----------------------------------------------------------------------------
(* resetPassword, changeOwnPassword, updateUser *)

\* What passwordChangedAt leaves of the access tokens.
Outlasting_All == {[token EXCEPT !.stray = token.fresh] : token \in access}
Outlasting == {[token EXCEPT !.stray = TRUE] : token \in {a \in access : a.fresh}}

PasswordChanged ==
  /\ account.password < MaxChanges
  /\ account' = [account EXCEPT !.password = @ + 1]
  /\ row' = RevokedAll
  /\ access' = Outlasting

\* A super admin's reset: one transaction.
ResetPassword == PasswordChanged /\ UNCHANGED <<lastSid, proc>>

ChangeCheck(r) ==
  /\ proc[r] = Idle
  /\ \E token \in access :
       LetIn(token) /\ Become(r, [step |-> "change", holder |-> token.holder])
  /\ UNCHANGED <<account, lastSid, access, row>>

\* The transaction; then startSession, without a user agent, and a fresh pair.
ChangeWrite(r) ==
  /\ proc[r].step = "change"
  /\ PasswordChanged
  /\ Become(r, [step |-> "signin", holder |-> proc[r].holder, device |-> Unknown,
                password |-> account'.password])
  /\ UNCHANGED lastSid

SetActive ==
  /\ account' = [account EXCEPT !.active = ~@]
  /\ UNCHANGED <<lastSid, access, row, proc>>

-----------------------------------------------------------------------------
\* A second passes: no token is fresh any more.  A change takes passwordChangedAt
\* when it begins, so no token of its while grows old for it.
Tick ==
  /\ \A r \in Requests : proc[r].step # "change"
  /\ access' = {[token EXCEPT !.fresh = FALSE] : token \in access}
  /\ UNCHANGED <<account, lastSid, row, proc>>

Abandon(r) ==
  /\ proc[r] # Idle
  /\ Become(r, Idle)
  /\ UNCHANGED <<account, lastSid, access, row>>

Next ==
  \/ \E r \in Requests :
       \/ \E b \in Browsers : Login(r, b)
       \/ \E t \in Tokens : RefreshRead(r, t) \/ LogoutRevoke(r, t)
       \/ StartRead(r) \/ StartWrite(r) \/ Issue(r) \/ Rotate(r) \/ LogoutRelease(r)
       \/ ChangeCheck(r) \/ ChangeWrite(r) \/ Abandon(r)
  \/ LogoutEverywhere \/ ResetPassword \/ SetActive \/ Tick

Spec == Init /\ [][Next]_vars

-----------------------------------------------------------------------------
(***************************************************************************)
(* Properties.                                                             *)
(***************************************************************************)

\* The account, its tokens and the requests are well formed.
TypeOK ==
  /\ account \in Accounts
  /\ lastSid \in Sids
  /\ access \subseteq AccessTokens
  /\ row \in [Tokens -> RefreshRows]
  /\ proc \in [Requests -> Procs]

\* "One active session per account" (lib/session.ts): however sign-ins, refreshes
\* and sign-outs overlap, the tokens that are let in are held by one browser, and
\* so is every refresh token that could still be exchanged.
OneBrowser ==
  \A a, b \in access \cup {row[t] : t \in {u \in Tokens : row[u].state = "live"}} :
    LetIn(a) /\ LetIn(b) => a.holder = b.holder

\* A browser that has been displaced is let in again only when somebody at that
\* browser signs in: no refresh in flight, no sign-out elsewhere revives it.
DisplacedStaysOut ==
  [][\A a \in access :
       account.sid # a.sid /\ account'.sid = a.sid =>
         \E r \in Requests : proc[r].step = "start" /\ proc[r].holder = a.holder]_vars

\* "A device that was already displaced must not be able to sign the current
\* session out" (logout): an account gives its session up only to a token of
\* that session.
SignedOutByItself ==
  [][account.sid # NoSid /\ account'.sid = NoSid =>
       \E r \in Requests : proc[r].step = "release" /\ row[proc[r].token].sid = account.sid]_vars

\* "Password resets end every session" (README.md): whatever can still be used
\* under an older password got past the change by being minted while it was being
\* made or in the second before, or by a request already under way, or descends
\* from such.
OldPasswordOut ==
  /\ \A a \in access : a.password # account.password => a.stray
  /\ \A t \in Tokens : row[t].state = "live" /\ row[t].password # account.password => row[t].stray
=============================================================================
