----------------------------- MODULE WebSession -----------------------------
(***************************************************************************)
(* The tabs of browsers signed in to one account (web/src/api/client.ts,   *)
(* AuthContext.tsx) and the edge functions that start, renew, check and    *)
(* end its one session (auth-api, _shared/session.ts, _shared/auth.ts).    *)
(*                                                                         *)
(* The tabs of a browser share its local storage, but not the promise by   *)
(* which the calls of one tab share a refresh.  An access token and the    *)
(* refresh token given with it are one pair.                               *)
(***************************************************************************)
EXTENDS Naturals, FiniteSets, Registers

CONSTANTS
  Tabs,     \* <<browser, number>>
  Handles,  \* handles of calls in flight
  MaxPairs, \* bound: pairs of tokens ever issued
  MaxSid,   \* bound: sessions ever started
  MaxCalls, \* bound: calls that tabs make
  MaxLost   \* bound: calls, refreshes and answers lost

ASSUME WebAssumption ==
  /\ MaxPairs \in Nat /\ MaxSid \in Nat /\ MaxCalls \in Nat /\ MaxLost \in Nat
  /\ \A t \in Tabs : t = <<t[1], t[2]>>

VARIABLES
  account,    \* the session the account holds, and the browser it was started from
  pair,       \* the pairs issued: session, tab, whether by a refresh, whether the
              \* refresh token's row is there and the access token has expired
  store,      \* store[b]: the pair in the local storage of browser b, or None
  tab,        \* tab[t]: whether it shows the application
  refreshing, \* refreshing[t]: the refresh its calls share
  call,       \* what call q is in the middle of
  lastSid, made, lost,
  out,        \* history: browsers signed out with a token on record and no
              \* refresh under way
  thrown      \* history: tabs that took a 401 for the end of a session their own
              \* refresh had renewed

webVars == <<account, pair, store, tab, refreshing, call, lastSid, made, lost, out, thrown>>

Browser(t) == t[1]
Browsers   == {Browser(t) : t \in Tabs}

None   == 0
Pairs  == DOMAIN pair
NoCall == [step |-> "idle"]

\* The browser of one tab is signed in on all its tabs, the others are not.
WebInit ==
  \E first \in Tabs :
    /\ account = [sid |-> 1, device |-> Browser(first)]
    /\ pair = [k \in {1} |-> [sid |-> 1, tab |-> first, renewed |-> FALSE,
                              live |-> TRUE, old |-> FALSE, crossed |-> FALSE]]
    /\ store = [b \in Browsers |-> IF b = Browser(first) THEN 1 ELSE None]
    /\ tab = [t \in Tabs |-> IF Browser(t) = Browser(first) THEN "in" ELSE "out"]
    /\ refreshing = [t \in Tabs |-> NoCall]
    /\ call = [q \in Handles |-> NoCall]
    /\ lastSid = 1 /\ made = 0 /\ lost = 0 /\ out = {} /\ thrown = {}

Become(q, c) == call' = [call EXCEPT ![q] = c]

\* Its access token has run out, when the browser looks and when the server does.
Old(k) == k # None /\ pair[k].old

Good(b) == store[b] # None /\ pair[store[b]].live /\ pair[store[b]].sid = account.sid

\* The tokens just stored came from the tab's own refresh in the same session.
OwnRenewal(t, k) ==
  LET s == store[Browser(t)] IN
  Good(Browser(t)) /\ pair[s].renewed /\ pair[s].tab = t /\ k # None /\ pair[k].sid = pair[s].sid

\* tokens.clear and onSessionLost: the storage is emptied whatever it holds by now.
Lose(q) ==
  LET t == call[q].tab IN
  /\ store' = [store EXCEPT ![Browser(t)] = None]
  /\ tab'   = [tab EXCEPT ![t] = "out"]
  /\ thrown' = thrown \cup {s \in {t} : /\ OwnRenewal(s, call[q].pair) /\ lost = 0
                                        /\ call[q].step # "displaced"}
  /\ Become(q, NoCall)

-----------------------------------------------------------------------------
(* A call of a tab: send *)

Start(q, t) == call[q] = NoCall /\ made < MaxCalls /\ made' = made + 1

CallOf(t, what, k) ==
  [step |-> "sent", tab |-> t, what |-> what, pair |-> k, body |-> None, retry |-> FALSE, sid |-> None,
   let |-> FALSE]

\* refreshSession: the refresh in flight, or a new one with the token in storage.
Renewal(k) == [step |-> "sent", pair |-> k, new |-> None]

Join_SentToken(c) ==
  refreshing' = [refreshing EXCEPT ![c.tab] = IF @ # NoCall THEN @
    ELSE Renewal(IF c.pair = None THEN store[Browser(c.tab)] ELSE c.pair)]

Join(c) ==
  refreshing' = [refreshing EXCEPT ![c.tab] = IF @ # NoCall THEN @ ELSE Renewal(store[Browser(c.tab)])]

\* An expired access token is renewed before the call is sent.
Send(q, r) ==
  IF Old(r.pair)
  THEN Become(q, [r EXCEPT !.step = "waits"]) /\ Join(r)
  ELSE Become(q, r) /\ UNCHANGED refreshing

Ask(q, t) ==
  /\ tab[t] = "in" /\ Start(q, t)
  /\ Send(q, CallOf(t, "panel", store[Browser(t)]))
  /\ UNCHANGED <<account, pair, store, tab, lastSid, lost, out, thrown>>

\* requireAuth at the edge: getAuthContext with checkSession.
Verdict(k) ==
  IF k = None \/ Old(k) THEN "unauthorized"
  ELSE IF pair[k].sid # account.sid THEN "displaced" ELSE "ok"

\* A call let in is answered; a panel's may be a lookup, which answers what came
\* of it.
Answer(q) ==
  /\ call[q].step = "sent" /\ call[q].what \in {"panel", "me"}
  /\ LET v == Verdict(call[q].pair)
         in == v = "ok" /\ call[q].what = "panel" IN
     \E said \in IF in THEN {IF s = 401 THEN "unauthorized" ELSE "ok" : s \in LookupStatuses} ELSE {v} :
       Become(q, [call[q] EXCEPT !.step = said, !.let = in])
  /\ UNCHANGED <<account, pair, store, tab, refreshing, lastSid, made, lost, out, thrown>>

Receive(q) ==
  /\ call[q].step = "ok"
  /\ tab' = [tab EXCEPT ![call[q].tab] = IF call[q].what = "me" THEN "in" ELSE @]
  /\ Become(q, NoCall)
  /\ UNCHANGED <<account, pair, store, refreshing, lastSid, made, lost, out, thrown>>

\* A 401 is refreshed away once; a displaced session, or a second 401, is lost.
Refused(q) ==
  /\ \/ /\ call[q].step = "unauthorized" /\ ~call[q].retry /\ store[Browser(call[q].tab)] # None
        /\ Become(q, [call[q] EXCEPT !.step = "waits", !.retry = TRUE])
        /\ Join(call[q]) /\ UNCHANGED <<store, tab, thrown>>
     \/ /\ call[q].step = "unauthorized" /\ (call[q].retry \/ store[Browser(call[q].tab)] = None)
        /\ Lose(q) /\ UNCHANGED refreshing
     \/ /\ call[q].step = "displaced"
        /\ Lose(q) /\ UNCHANGED refreshing
  /\ UNCHANGED <<account, pair, lastSid, made, lost, out>>

\* The shared refresh has settled: the call goes out with what is in storage.
Resume(q) ==
  /\ call[q].step = "waits"
  /\ \/ /\ refreshing[call[q].tab].step = "renewed"
        /\ Become(q, [call[q] EXCEPT !.step = "sent", !.pair = store[Browser(call[q].tab)]])
        /\ UNCHANGED <<store, tab, thrown>>
     \/ refreshing[call[q].tab].step = "failed" /\ Lose(q)
  /\ UNCHANGED <<account, pair, refreshing, lastSid, made, lost, out>>

-----------------------------------------------------------------------------
(* POST /auth/refresh *)

Issue(b, t, sid, renewed, crossed, pairs) ==
  LET k == Cardinality(Pairs) + 1 IN
  /\ k <= MaxPairs
  /\ pair' = [i \in Pairs \cup {k} |->
                IF i = k THEN [sid |-> sid, tab |-> t, renewed |-> renewed,
                               live |-> TRUE, old |-> FALSE, crossed |-> crossed]
                ELSE pairs[i]]

Purged == \E q \in Handles : call[q].step = "purged"

\* The stored token and the user are read, and the session compared.
RefreshRead(t) ==
  /\ refreshing[t].step = "sent"
  /\ LET k == refreshing[t].pair IN
     \/ /\ pair[k].live /\ pair[k].sid = account.sid
        /\ refreshing' = [refreshing EXCEPT ![t].step = "checked"] /\ UNCHANGED pair
     \/ /\ pair[k].live /\ pair[k].sid # account.sid
        /\ refreshing' = [refreshing EXCEPT ![t].step = "failed"]
        /\ pair' = [pair EXCEPT ![k].live = FALSE]
     \/ /\ ~pair[k].live
        /\ refreshing' = [refreshing EXCEPT ![t].step = "failed"] /\ UNCHANGED pair
  /\ UNCHANGED <<account, store, tab, call, lastSid, made, lost, out, thrown>>

\* The row is replaced, whether or not it is still there.
Rotate(t) ==
  /\ refreshing[t].step = "checked"
  /\ LET k == refreshing[t].pair IN
     /\ Issue(Browser(t), t, pair[k].sid, TRUE, Purged \/ pair[k].sid # account.sid,
              [pair EXCEPT ![k].live = FALSE])
     /\ refreshing' = [refreshing EXCEPT ![t] = [@ EXCEPT !.step = "answered", !.new = Cardinality(Pairs) + 1]]
  /\ UNCHANGED <<account, store, tab, call, lastSid, made, lost, out, thrown>>

\* tokens.set, whatever has happened to the storage since.
Settle(t) ==
  /\ refreshing[t].step = "answered"
  /\ store' = [store EXCEPT ![Browser(t)] = refreshing[t].new]
  /\ refreshing' = [refreshing EXCEPT ![t].step = "renewed"]
  /\ UNCHANGED <<account, pair, tab, call, lastSid, made, lost, out, thrown>>

\* The timer that drops the promise runs after the calls that waited for it.
Forget(t) ==
  /\ refreshing[t].step \in {"renewed", "failed"}
  /\ \A q \in Handles : call[q].step = "waits" => call[q].tab # t
  /\ refreshing' = [refreshing EXCEPT ![t] = NoCall]
  /\ UNCHANGED <<account, pair, store, tab, call, lastSid, made, lost, out, thrown>>

-----------------------------------------------------------------------------
(* Signing in and out *)

\* The sign-in page of a tab.  Bound: with no expired token in storage.
Login(q, t) ==
  /\ tab[t] = "out" /\ ~Old(store[Browser(t)]) /\ Start(q, t)
  /\ \A p \in Handles : call[p].step # "idle" => call[p].tab # t
  /\ Become(q, CallOf(t, "login", None))
  /\ UNCHANGED <<account, pair, store, tab, refreshing, lastSid, lost, out, thrown>>

\* startSession's read: a browser that holds the session keeps it.
LoginRead(q) ==
  /\ call[q].step = "sent" /\ call[q].what = "login"
  /\ Become(q, IF account.sid # None /\ account.device = Browser(call[q].tab)
               THEN [call[q] EXCEPT !.step = "claims", !.sid = account.sid]
               ELSE [call[q] EXCEPT !.step = "read"])
  /\ UNCHANGED <<account, pair, store, tab, refreshing, lastSid, made, lost, out, thrown>>

Purge_OfTheBrowser(q) ==
  /\ call[q].step = "read" /\ lastSid < MaxSid /\ lastSid' = lastSid + 1
  /\ pair' = [k \in Pairs |-> [pair[k] EXCEPT !.live = @ /\ Browser(pair[k].tab) # Browser(call[q].tab)]]
  /\ Become(q, [call[q] EXCEPT !.step = "purged", !.sid = lastSid + 1])
  /\ UNCHANGED <<account, store, tab, refreshing, made, lost, out, thrown>>

\* Another one starts a session of its own and deletes the account's tokens.
Purge(q) ==
  /\ call[q].step = "read" /\ lastSid < MaxSid /\ lastSid' = lastSid + 1
  /\ pair' = [k \in Pairs |-> [pair[k] EXCEPT !.live = FALSE]]
  /\ Become(q, [call[q] EXCEPT !.step = "purged", !.sid = lastSid + 1])
  /\ UNCHANGED <<account, store, tab, refreshing, made, lost, out, thrown>>

\* The session is written; one that is kept may have been replaced meanwhile.
ClaimSession(q) ==
  /\ call[q].step \in {"claims", "purged"}
  /\ account' = [sid |-> call[q].sid, device |-> Browser(call[q].tab)]
  /\ pair' = [k \in Pairs |-> [pair[k] EXCEPT !.crossed =
                @ \/ (call[q].step = "claims" /\ pair[k].sid # call[q].sid)]]
  /\ Become(q, [call[q] EXCEPT !.step = "claimed"])
  /\ UNCHANGED <<store, tab, refreshing, lastSid, made, lost, out, thrown>>

\* issueSession: the tokens reach the storage, and the tab asks who it is.
SignedIn(q) ==
  /\ call[q].step = "claimed"
  /\ LET t == call[q].tab IN
     /\ Issue(Browser(t), t, call[q].sid, FALSE, Purged \/ call[q].sid # account.sid, pair)
     /\ store' = [store EXCEPT ![Browser(t)] = Cardinality(Pairs) + 1]
     /\ Become(q, CallOf(t, "me", Cardinality(Pairs) + 1))
     /\ out' = out \ {Browser(t)}
  /\ UNCHANGED <<account, tab, refreshing, lastSid, made, lost, thrown>>

\* The tab lets go at once.  The call carries the refresh token that was in
\* storage, but renews an expired access token first.
Logout(q, t) ==
  /\ tab[t] = "in" /\ Start(q, t) /\ tab' = [tab EXCEPT ![t] = "out"]
  /\ store' = [store EXCEPT ![Browser(t)] = None]
  /\ LET k == store[Browser(t)] IN
     IF k = None THEN UNCHANGED <<call, refreshing>>
     ELSE Send(q, [CallOf(t, "logout", k) EXCEPT !.body = k])
  /\ out' = out \cup {b \in {Browser(t)} : /\ store[b] # None /\ pair[store[b]].live
                                           /\ \A s \in Tabs : Browser(s) = b => refreshing'[s] = NoCall}
  /\ UNCHANGED <<account, pair, lastSid, lost, thrown>>

\* POST /auth/logout: a token on record is deleted, then the account's session
\* ended.
SignOut(q) ==
  /\ call[q].step = "sent" /\ call[q].what = "logout"
  /\ LET k == call[q].body IN
     /\ pair' = [pair EXCEPT ![k].live = FALSE]
     /\ Become(q, IF pair[k].live THEN [call[q] EXCEPT !.step = "ends", !.sid = account.sid] ELSE NoCall)
  /\ UNCHANGED <<account, store, tab, refreshing, lastSid, made, lost, out, thrown>>

EndSession(q) ==
  /\ call[q].step = "ends"
  /\ account' = [account EXCEPT !.sid = None]
  /\ Become(q, NoCall)
  /\ UNCHANGED <<pair, store, tab, refreshing, lastSid, made, lost, out, thrown>>

-----------------------------------------------------------------------------
(* Time and faults *)

\* Bound: an access token outlives the calls that it was renewed for, and those
\* that are to go out with it as soon as their tab's refresh has settled.
Expire(k) ==
  /\ \A t \in Tabs : refreshing[t] # NoCall =>
       refreshing[t].new # k /\ (refreshing[t].step = "renewed" => store[Browser(t)] # k)
  /\ \A q \in Handles : call[q] # NoCall => ~(call[q].retry /\ call[q].pair = k)
  /\ ~pair[k].old /\ pair' = [pair EXCEPT ![k].old = TRUE]
  /\ UNCHANGED <<account, store, tab, refreshing, call, lastSid, made, lost, out, thrown>>

\* A call, or its answer, is lost.  The probe of a page being loaded empties the
\* storage when it fails.
CallLost(q) ==
  /\ call[q].step \in {"sent", "ok", "unauthorized", "displaced"}
  /\ lost < MaxLost /\ lost' = lost + 1
  /\ Become(q, NoCall)
  /\ store' = IF call[q].what = "me" /\ tab[call[q].tab] = "probe"
              THEN [store EXCEPT ![Browser(call[q].tab)] = None] ELSE store
  /\ tab' = [tab EXCEPT ![call[q].tab] = IF @ = "probe" THEN "out" ELSE @]
  /\ out' = IF call[q].what = "logout" THEN out \ {Browser(call[q].tab)} ELSE out
  /\ UNCHANGED <<account, pair, refreshing, lastSid, made, thrown>>

RefreshLost(t) ==
  /\ refreshing[t].step \in {"sent", "answered"}
  /\ lost < MaxLost /\ lost' = lost + 1
  /\ refreshing' = [refreshing EXCEPT ![t].step = "failed"]
  /\ UNCHANGED <<account, pair, store, tab, call, lastSid, made, out, thrown>>

\* The page is loaded again: what it waited for is dropped, and it asks who it is
\* if there are tokens.  Bound: with no refresh under way.
Reload(q, t) ==
  /\ refreshing[t] = NoCall /\ tab[t] # "probe" /\ Start(q, t)
  /\ \A p \in Handles : call[p].step # "idle" => call[p].tab # t
  /\ store[Browser(t)] # None /\ Send(q, CallOf(t, "me", store[Browser(t)]))
  /\ tab' = [tab EXCEPT ![t] = "probe"]
  /\ UNCHANGED <<account, pair, store, lastSid, lost, out, thrown>>

-----------------------------------------------------------------------------
WebNext ==
  \/ \E q \in Handles, t \in Tabs : Ask(q, t) \/ Login(q, t) \/ Logout(q, t) \/ Reload(q, t)
  \/ \E q \in Handles :
       \/ Answer(q) \/ Receive(q) \/ Refused(q) \/ Resume(q) \/ CallLost(q)
       \/ LoginRead(q) \/ Purge(q) \/ ClaimSession(q) \/ SignedIn(q) \/ SignOut(q) \/ EndSession(q)
  \/ \E t \in Tabs : RefreshRead(t) \/ Rotate(t) \/ Settle(t) \/ Forget(t) \/ RefreshLost(t)
  \/ \E k \in Pairs : Expire(k)

WebSpec == WebInit /\ [][WebNext]_webVars

-----------------------------------------------------------------------------
\* A register that refuses this service's own token answers it with a 401; the
\* functions that asked it say PROVIDER_UNAUTHORIZED (gst-api, udyam-api, pan-api):
\* a call the server let in starts no refresh and signs no tab out, whatever a
\* register answered.
ProviderSparesSession ==
  [][\A q \in Handles :
       call[q] # NoCall /\ call[q].let /\ call'[q] # call[q] => call'[q] = NoCall /\ UNCHANGED <<store, refreshing>>]_webVars

\* "Concurrent 401s share the same refresh promise so a page with six panels does
\* not fire six rotations and invalidate its own token" (client.ts): with no call
\* lost, no tab ends on a 401, or on a refresh that failed, the good session that
\* its own refresh has just renewed.
OwnRefreshKept == thrown = {}

\* "Give up the session on an explicit sign-out, so nothing is left claimable"
\* (session.ts): when a browser was signed out with a refresh token on record, and
\* no refresh was under way in it nor begun by the sign-out itself, and the call
\* has been served, no token of that browser renews the account's session.
SignOutLeavesNothing ==
  \A b \in out :
    \/ \E q \in Handles : call[q].step # "idle" /\ Browser(call[q].tab) = b
    \/ \A k \in Pairs : Browser(pair[k].tab) = b => ~(pair[k].live /\ pair[k].sid = account.sid)

\* A displaced browser's tokens are deleted with its session (startSession): a
\* sign-out ends the session it was given for, unless its token was minted, or
\* the call was served, across a sign-in elsewhere, or a sign-in that had read an
\* older session to keep has brought that back since.
SignOutSparesOthers ==
  [][\A q \in Handles :
       call[q].step = "ends" /\ account'.sid # account.sid /\ account'.sid = None =>
         \/ account.sid = pair[call[q].body].sid
         \/ pair[call[q].body].crossed
         \/ account.sid # call[q].sid]_webVars

\* A sign-out ends the session of its own browser, all of it and no other.
SignOutEndsItsOwn == []SignOutLeavesNothing /\ SignOutSparesOthers
=============================================================================
