----------------------------- MODULE WebSession -----------------------------
(***************************************************************************)
(* The browser's session (src/web/lib/api.js, src/web/app/page.jsx) over   *)
(* RefreshTokens: the page keeps the tokens in a ref and in localStorage,  *)
(* authFetch rotates them when a call is answered 401, logout drops them   *)
(* and sends a revocation it does not wait for.                            *)
(*                                                                         *)
(* A call is one authFetch, and makes the refresh request of its name.     *)
(* An access token has the number of the refresh token it was issued with. *)
(* RedisFails: the calls of refresh and logout to Redis may fail, and the  *)
(* tokens it has may lapse.                                                *)
(* Reloads: customers may reload a page or open it in another tab.         *)
(* NetFails: replies may be lost on their way to the browser.              *)
(* Limits: the rate limiter may turn any request away before its handler   *)
(* runs; a login that is turned away is not made.                          *)
(***************************************************************************)
EXTENDS RefreshTokens

CONSTANTS Tabs, Nobody, RedisFails, Reloads, NetFails, Limits

WebAssumption ==
  /\ Nobody \notin Tabs \union [user : Users, token : Tokens]
  /\ {RedisFails, Reloads, NetFails, Limits} \subseteq BOOLEAN

ASSUME WebAssumption

VARIABLES
  auth,     \* authRef of a tab: a user with the token pair, or Nobody
  stored,   \* localStorage "auth", which the tabs share
  call,     \* authFetch calls: the tab, the auth they began with, how far they are
  revoking, \* tokens whose logout request is on its way
  stale     \* access tokens that have expired

webVars == <<auth, stored, call, revoking, stale>>
vars == <<tokenVars, webVars>>

Calls == Requests
NewCall == [tab |-> Nobody, auth |-> Nobody, step |-> "idle"]

Init ==
  /\ TokensInit
  /\ auth = [t \in Tabs |-> Nobody]
  /\ stored = Nobody
  /\ call = [c \in Calls |-> NewCall]
  /\ revoking = {} /\ stale = {}

-----------------------------------------------------------------------------
(* The page *)

\* setAuth: the ref, and localStorage through persistAuth.
SetAuth(t, a) ==
  /\ auth' = [auth EXCEPT ![t] = a]
  /\ stored' = a

\* AuthForm: the reply of login or register is set; it may be lost.
LogIn(t, u) ==
  /\ auth[t] = Nobody
  /\ Login(u)
  /\ \/ SetAuth(t, [user |-> u, token |-> minted + 1])
     \/ NetFails /\ UNCHANGED <<auth, stored>>
  /\ UNCHANGED <<call, revoking, stale>>

\* logout: the revocation is sent and not awaited; calls under way go on.
LogOut(t) ==
  /\ auth[t] # Nobody
  /\ revoking' = revoking \union {auth[t].token}
  /\ SetAuth(t, Nobody)
  /\ UNCHANGED <<tokenVars, call, stale>>

\* The revocation arrives.
Revoke(p) ==
  /\ p \in revoking
  /\ revoking' = revoking \ {p}
  /\ Logout(p)
  /\ UNCHANGED <<auth, stored, call, stale>>

\* The revocation is lost or turned away, or its DEL fails: nobody is told.
RevokeFails(p) ==
  /\ NetFails \/ RedisFails \/ Limits
  /\ p \in revoking
  /\ revoking' = revoking \ {p}
  /\ UNCHANGED <<tokenVars, auth, stored, call, stale>>

TokenLapses(p) ==
  /\ RedisFails
  /\ Lapse(p)
  /\ UNCHANGED webVars

UnderWay == {"sent", "refreshing", "retry"}

\* A call that is cut off, and whose refresh may still be served. How a call ends is its
\* caller's matter.
CutOff(s) == IF s = "refreshing" THEN "orphaned" ELSE "ended"

\* The page is loaded again: it reads localStorage, and its calls are aborted.
Reload(t) ==
  /\ Reloads
  /\ auth' = [auth EXCEPT ![t] = stored]
  /\ call' = [c \in Calls |->
                IF call[c].tab = t /\ call[c].step \in UnderWay
                THEN [call[c] EXCEPT !.step = CutOff(@)] ELSE call[c]]
  /\ UNCHANGED <<tokenVars, stored, revoking, stale>>

-----------------------------------------------------------------------------
(* authFetch *)

Step(c, s) == call' = [call EXCEPT ![c] = [@ EXCEPT !.step = s]]

\* The call reads the tab's auth and is sent with its access token.
Send(c, t) ==
  /\ call[c].step = "idle"
  /\ auth[t] # Nobody
  /\ call' = [call EXCEPT ![c] = [tab |-> t, auth |-> auth[t], step |-> "sent"]]
  /\ UNCHANGED <<tokenVars, auth, stored, revoking, stale>>

\* auth() accepts the access token.
Accepted(c) ==
  /\ \/ call[c].step = "sent" /\ call[c].auth.token \notin stale
     \/ call[c].step = "retry" /\ req[c].new \notin stale
  /\ Step(c, "ended")
  /\ UNCHANGED <<tokenVars, auth, stored, revoking, stale>>

\* 429 is the caller's: authFetch looks for 401 alone.
RateLimited(c) ==
  /\ Limits
  /\ call[c].step \in {"sent", "retry"}
  /\ Step(c, "ended")
  /\ UNCHANGED <<tokenVars, auth, stored, revoking, stale>>

\* The first 401: the refresh token read at the start is sent.
Unauthorized(c) ==
  /\ call[c].step = "sent"
  /\ call[c].auth.token \in stale
  /\ Step(c, "refreshing")
  /\ UNCHANGED <<tokenVars, auth, stored, revoking, stale>>

\* A second 401 is the caller's.
UnauthorizedAgain(c) ==
  /\ call[c].step = "retry"
  /\ req[c].new \in stale
  /\ Step(c, "ended")
  /\ UNCHANGED <<tokenVars, auth, stored, revoking, stale>>

\* The server's part; the context of a request that was cut off is cancelled, so
\* that its calls to Redis may fail as well.
Serve(c) ==
  /\ call[c].step \in {"refreshing", "orphaned"}
  /\ LET p == call[c].auth.token IN
       \/ GetDel(c, p) \/ InvalidRefresh(c, p) \/ IssueNext(c)
       \/ Limits /\ TurnedAway(c)
       \/ /\ RedisFails \/ call[c].step = "orphaned"
          /\ GetDelFails(c, p) \/ IssueFails(c)
  /\ UNCHANGED webVars

\* Mutant of Rotated: the access token is replaced and the refresh token kept.
RotatedAccessOnly(c) == call[c].auth
\* Mutant of Rotated: the tokens are put into the auth that is current by now.
RotatedOver(c) ==
  LET a == auth[call[c].tab] IN
    [IF a = Nobody THEN call[c].auth ELSE a EXCEPT !.token = req[c].new]
\* What a call sets when its refresh was granted: { ...a, access, refresh }.
Rotated(c) == [call[c].auth EXCEPT !.token = req[c].new]

\* The answers of refresh that are not ok: the handler's, or the limiter's.
Denials == {"refused", "limited"}

\* Mutant of Renewed: the status of the refresh is not looked at.
RenewedWhatever(c) == req[c].step \in {"granted"} \union Denials
\* refreshTokens: r.ok.
Renewed(c) == req[c].step = "granted"

\* The new pair is set, and the call is sent again with it.
Granted(c) ==
  /\ call[c].step = "refreshing"
  /\ Renewed(c)
  /\ SetAuth(call[c].tab, Rotated(c))
  /\ Step(c, "retry")
  /\ UNCHANGED <<tokenVars, revoking, stale>>

\* Any of them logs the customer out, though the token may be live.
Denied(c) ==
  /\ call[c].step = "refreshing"
  /\ req[c].step \in Denials
  /\ SetAuth(call[c].tab, Nobody)
  /\ Step(c, "ended")
  /\ UNCHANGED <<tokenVars, revoking, stale>>

\* fetch rejects and so does authFetch: nothing is set.
NetError(c) ==
  /\ NetFails
  /\ call[c].step \in UnderWay
  /\ Step(c, CutOff(call[c].step))
  /\ UNCHANGED <<tokenVars, auth, stored, revoking, stale>>

AuthFetch(c) ==
  \/ \E t \in Tabs : Send(c, t)
  \/ Accepted(c) \/ RateLimited(c) \/ Unauthorized(c) \/ UnauthorizedAgain(c)
  \/ Serve(c) \/ Granted(c) \/ Denied(c) \/ NetError(c)

-----------------------------------------------------------------------------

InUse(p) ==
  \/ \E t \in Tabs : auth[t] # Nobody /\ auth[t].token = p
  \/ \E c \in Calls : \/ call[c].step = "sent" /\ call[c].auth.token = p
                      \/ call[c].step = "retry" /\ req[c].new = p

\* An access token expires; only of those in use does it make a difference.
Expire(p) ==
  /\ p \in 1..minted \ stale
  /\ InUse(p)
  /\ stale' = stale \union {p}
  /\ UNCHANGED <<tokenVars, auth, stored, call, revoking>>

\* Every customer has logged out and every call has ended.
Rest ==
  /\ Cardinality(Logins) = MaxLogins
  /\ \A t \in Tabs : auth[t] = Nobody
  /\ \A c \in Calls : call[c].step \notin UnderWay
  /\ UNCHANGED vars

Next ==
  \/ \E t \in Tabs : LogOut(t) \/ Reload(t) \/ \E u \in Users : LogIn(t, u)
  \/ \E p \in revoking : Revoke(p) \/ RevokeFails(p)
  \/ \E p \in live : TokenLapses(p)
  \/ \E c \in Calls : AuthFetch(c)
  \/ \E p \in 1..minted : Expire(p)
  \/ Rest

Spec == Init /\ [][Next]_vars

-----------------------------------------------------------------------------
(* Properties *)

Auths == [user : Users, token : Tokens]

\* Every variable has its type, and a token a tab or a call has was issued.
TypeOK ==
  /\ TokensTypeOK
  /\ auth \in [Tabs -> Auths \union {Nobody}]
  /\ stored \in Auths \union {Nobody}
  /\ call \in [Calls -> [tab : Tabs \union {Nobody}, auth : Auths \union {Nobody},
                         step : UnderWay \union {"idle", "ended", "orphaned"}]]
  /\ revoking \union stale \subseteq 1..minted

\* A tab acts under the user it shows: a refresh that ends after its customer
\* logged out and another logged in never mixes the two ({ ...a, access, refresh }
\* spreads the auth the call began with, src/web/lib/api.js:66).
UserOfToken ==
  \A t \in Tabs : auth[t] # Nobody => auth[t].user = owner[auth[t].token]

\* src/docs/techniques-used.md:68: an expired token is renewed by itself and the call
\* repeated, the customer need not log in again.  So a refresh is refused only when
\* the login has no token left.
TransparentRefresh ==
  \A c \in Calls :
    call[c].step = "refreshing" /\ req[c].step \in Denials =>
      \A p \in live \union Held : root[p] # root[call[c].auth.token]

=============================================================================
