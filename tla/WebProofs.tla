------------------------------ MODULE WebProofs ------------------------------
(* Theorems of WebSession and CalmSession, for any tabs, users, calls and    *)
(* bounds, and all failures: what the browser does is something              *)
(* RefreshTokens allows, a tab never has a token of another user than the    *)
(* one it shows, and nobody is stranded before something fails.              *)
EXTENDS CalmSession, TokensProofs

\* The auth of a tab, of localStorage or of a call, when there is one.
Known(a) == a # Nobody => a \in Auths /\ a.token <= minted /\ a.user = owner[a.token]

WebTypes ==
  /\ auth \in [Tabs -> Auths \union {Nobody}]
  /\ call \in [Calls -> [tab : Tabs \union {Nobody}, auth : Auths \union {Nobody},
                         step : UnderWay \union {"idle", "ended", "orphaned"}]]
  /\ revoking \subseteq Tokens

AuthsKnown ==
  /\ \A t \in Tabs : Known(auth[t])
  /\ Known(stored)
  /\ \A c \in Calls : Known(call[c].auth)

\* A request to refresh presents the token its call began with, and what it is granted
\* is of the same user.
RequestsMatch ==
  \A c \in Calls :
    /\ call[c].step # "idle" => call[c].auth # Nobody /\ call[c].tab \in Tabs
    /\ call[c].step = "idle" => req[c].step = "none"
    /\ req[c].step = "granted" =>
         /\ req[c].token = call[c].auth.token
         /\ req[c].new \in 1..minted
         /\ owner[req[c].new] = owner[req[c].token]
    /\ req[c].step = "taken" => req[c].token = call[c].auth.token

WebInv == WebTypes /\ AuthsKnown /\ RequestsMatch

-----------------------------------------------------------------------------

LEMMA InitWebInv == Init => WebInv
  BY DEF Init, TokensInit, WebInv, WebTypes, AuthsKnown, Known, RequestsMatch, NewCall,
    NewRequest, Calls, UnderWay

LEMMA Distinct == Nobody \notin Auths
  BY WebAssumption DEF WebAssumption, Auths

\* The records of tokens that were issued stay as they are.
LEMMA IssuedStay ==
  ASSUME IInv,
         \/ UNCHANGED <<minted, owner>>
         \/ \E u, r : Mint(u, r)
  PROVE  /\ minted' >= minted
         /\ \A p \in 1..minted : owner'[p] = owner[p]
         /\ \A a : Known(a) => Known(a)'
<1>1. minted' \in Nat /\ minted' >= minted /\ \A p \in 1..minted : owner'[p] = owner[p]
  <2>1. CASE UNCHANGED <<minted, owner>>
    BY <2>1, MaxNat DEF IInv, TokensTypeOK
  <2>2. ASSUME NEW u, NEW r, Mint(u, r)
        PROVE  minted' \in Nat /\ minted' >= minted /\ \A p \in 1..minted : owner'[p] = owner[p]
    BY <2>2, MaxNat DEF IInv, TokensTypeOK, Mint, Tokens
  <2> QED
    BY <2>1, <2>2
<1>2. ASSUME NEW a, Known(a) PROVE Known(a)'
  <2>1. CASE a = Nobody
    BY <2>1 DEF Known
  <2>2. CASE a # Nobody
    <3>1. a \in Auths /\ a.token <= minted /\ a.user = owner[a.token]
      BY <1>2, <2>2 DEF Known
    <3>2. a.token \in 1..minted /\ minted \in Nat
      <4>1. a.token \in 1..MaxTokens
        BY <3>1 DEF Auths, Tokens
      <4> QED
        BY <3>1, <4>1, MaxNat DEF IInv, TokensTypeOK
    <3>3. a.token <= minted' /\ a.user = owner'[a.token]
      BY <1>1, <3>1, <3>2
    <3> QED
      BY <3>1, <3>3 DEF Known, Auths, Tokens
  <2> QED
    BY <2>1, <2>2
<1> QED
  BY <1>1, <1>2

\* Every step of the browser is a step of RefreshTokens or leaves it alone.
LEMMA StepsAreTokens ==
  ASSUME IInv, WebInv, [Next]_vars
  PROVE  [TokensNext]_tokenVars
<1>1. ASSUME NEW t \in Tabs, NEW u \in Users, LogIn(t, u) PROVE TokensNext
  BY <1>1 DEF LogIn, TokensNext
<1>2. ASSUME NEW p \in revoking, Revoke(p) PROVE [TokensNext]_tokenVars
  <2>1. Logout(p)
    BY <1>2 DEF Revoke
  <2>2. CASE p \in 1..minted
    BY <2>1, <2>2 DEF TokensNext
  <2>3. CASE p \notin 1..minted
    BY <2>1, <2>3 DEF Logout, tokenVars, IInv, TokensTypeOK
  <2> QED
    BY <2>2, <2>3
<1>3. ASSUME NEW c \in Calls, Serve(c) PROVE TokensNext
  <2>1. c \in Requests /\ live \subseteq 1..minted
    BY DEF Calls, IInv, TokensTypeOK
  <2>2. Refresh(c)
    BY <1>3, <2>1 DEF Serve, Refresh, GetDel, InvalidRefresh, GetDelFails
  <2> QED
    BY <2>1, <2>2 DEF TokensNext
<1>4. ASSUME NEW c \in Calls, AuthFetch(c), ~Serve(c) PROVE UNCHANGED tokenVars
  BY <1>4 DEF AuthFetch, Send, Accepted, RateLimited, Unauthorized, UnauthorizedAgain, Granted,
              Denied,
    NetError, tokenVars
<1>5. ASSUME NEW t \in Tabs, LogOut(t) \/ Reload(t) PROVE UNCHANGED tokenVars
  BY <1>5 DEF LogOut, Reload, tokenVars
<1>6. ASSUME NEW p, RevokeFails(p) \/ Expire(p) PROVE UNCHANGED tokenVars
  BY <1>6 DEF RevokeFails, Expire, tokenVars
<1>7. ASSUME NEW p \in live, TokenLapses(p) PROVE TokensNext
  BY <1>7 DEF TokenLapses, TokensNext
<1>8. CASE Rest \/ UNCHANGED vars
  BY <1>8 DEF Rest, vars
<1> QED
  BY <1>1, <1>2, <1>3, <1>4, <1>5, <1>6, <1>7, <1>8 DEF Next

-----------------------------------------------------------------------------
(* The invariant of the browser *)

LEMMA LogInKeeps ==
  ASSUME IInv, WebInv, NEW t \in Tabs, NEW u \in Users, LogIn(t, u)
  PROVE  WebInv'
<1>1. Mint(u, minted + 1) /\ UNCHANGED <<req, call, revoking>>
  BY DEF LogIn, Login
<1>2. minted' = minted + 1 /\ minted \in Nat /\ minted + 1 \in Tokens
  BY <1>1, MaxNat DEF Mint, IInv, TokensTypeOK, Tokens
<1>3. owner'[minted + 1] = u
  BY <1>1, <1>2 DEF Mint, IInv, TokensTypeOK
<1>0. PICK new : new = [user |-> u, token |-> minted + 1]
  OBVIOUS
<1>4. new \in Auths /\ Known(new)'
  <2>1. new \in Auths /\ new.token = minted + 1 /\ new.user = u
    BY <1>0, <1>2 DEF Auths
  <2>2. new.token <= minted' /\ new.user = owner'[new.token]
    BY <1>2, <1>3, <2>1
  <2> QED
    BY <2>1, <2>2 DEF Known, Auths, Tokens
<1>5. \/ auth' = [auth EXCEPT ![t] = new] /\ stored' = new
      \/ UNCHANGED <<auth, stored>>
  BY <1>0 DEF LogIn, SetAuth
<1>6. \A a : Known(a) => Known(a)'
  BY <1>1, IssuedStay
<1>7. WebTypes'
  BY <1>1, <1>4, <1>5 DEF WebInv, WebTypes
<1>8. \A s \in Tabs : auth'[s] = new \/ auth'[s] = auth[s]
  BY <1>5 DEF WebInv, WebTypes
<1>9. stored' = new \/ stored' = stored
  BY <1>5
<1>10. AuthsKnown'
  <2>1. \A s \in Tabs : Known(auth[s])'
    BY <1>4, <1>6, <1>8 DEF WebInv, AuthsKnown
  <2>2. Known(stored)'
    BY <1>4, <1>6, <1>9 DEF WebInv, AuthsKnown
  <2>3. \A c \in Calls : Known(call[c].auth)'
    BY <1>1, <1>6 DEF WebInv, AuthsKnown, Known
  <2> QED
    BY <2>1, <2>2, <2>3 DEF AuthsKnown
<1>11. \A p \in 1..minted : owner'[p] = owner[p]
  BY <1>1, IssuedStay
<1>12. RequestsMatch'
  BY <1>1, <1>2, <1>11 DEF WebInv, RequestsMatch, IInv, Successors, Calls
<1> QED
  BY <1>7, <1>10, <1>12 DEF WebInv

\* The server's steps touch no auth.
LEMMA ServeKeeps ==
  ASSUME IInv, WebInv, NEW c \in Calls, Serve(c)
  PROVE  WebInv'
<1> DEFINE p == call[c].auth.token
           o == req[c].token
<1>1. UNCHANGED <<auth, stored, call, revoking>> /\ c \in Requests
  BY DEF Serve, webVars, Calls
<1>2. call[c].step # "idle"
  BY DEF Serve
<1>3. UNCHANGED <<minted, owner>> \/ \E u, r : Mint(u, r)
  BY DEF Serve, TurnedAway, GetDel, InvalidRefresh, GetDelFails, IssueNext, IssueFails
<1>4. \A a : Known(a) => Known(a)'
  BY <1>3, IssuedStay
<1>5. AuthsKnown' /\ WebTypes'
  BY <1>1, <1>4 DEF WebInv, AuthsKnown, WebTypes
<1>6. minted' >= minted /\ minted \in Nat /\ \A q \in 1..minted : owner'[q] = owner[q]
  BY <1>3, IssuedStay DEF IInv, TokensTypeOK
<1>7. \A d \in Calls : d # c => req'[d] = req[d]
  BY <1>1 DEF Serve, TurnedAway, GetDel, InvalidRefresh, GetDelFails, IssueNext, IssueFails,
              Taking, Refusing, IInv, TokensTypeOK, Calls
<1>8. \A d \in Calls : d # c =>
        /\ req[d].step = "granted" => req[d].token \in 1..minted
        /\ req[d].step = "granted" => req[d].new \in 1..minted
  BY DEF IInv, Successors, Calls
<1>9. /\ req'[c].step = "taken" => req'[c].token = p
      /\ req'[c].step = "granted" =>
           req'[c].token = p /\ req'[c].new \in 1..minted' /\ owner'[req'[c].new] = owner'[p]
  <2>1. CASE GetDel(c, p)
    BY <1>1, <2>1 DEF GetDel, Taking, IInv, TokensTypeOK
  <2>2. CASE InvalidRefresh(c, p) \/ GetDelFails(c, p) \/ IssueFails(c) \/ TurnedAway(c)
    <3>1. \/ Refusing(c, p) \/ Refusing(c, o)
          \/ req' = [req EXCEPT ![c] = [@ EXCEPT !.step = "limited"]]
      BY <2>2 DEF InvalidRefresh, GetDelFails, IssueFails, TurnedAway
    <3>2. req'[c].step \in {"refused", "limited"}
      BY <1>1, <3>1 DEF Refusing, IInv, TokensTypeOK
    <3> QED
      BY <3>2
  <2>3. CASE IssueNext(c)
    <3>1. o = p /\ o \in 1..minted
      BY <1>1, <2>3 DEF IssueNext, WebInv, RequestsMatch, IInv, Exchanges
    <3>2. req'[c].token = o /\ req'[c].new = minted + 1
      BY <1>1, <2>3 DEF IssueNext, IInv, TokensTypeOK
    <3>3. minted' = minted + 1 /\ owner'[minted + 1] = owner[o]
      BY <1>1, <2>3, MaxNat DEF IssueNext, Mint, IInv, TokensTypeOK, Tokens
    <3> QED
      BY <1>6, <3>1, <3>2, <3>3
  <2> QED
    BY <2>1, <2>2, <2>3 DEF Serve
<1>10. RequestsMatch'
  <2> SUFFICES ASSUME NEW d \in Calls
               PROVE  /\ call[d].step # "idle" => call[d].auth # Nobody /\ call[d].tab \in Tabs
                      /\ call[d].step = "idle" => req'[d].step = "none"
                      /\ req'[d].step = "granted" =>
                           /\ req'[d].token = call[d].auth.token
                           /\ req'[d].new \in 1..minted'
                           /\ owner'[req'[d].new] = owner'[req'[d].token]
                      /\ req'[d].step = "taken" => req'[d].token = call[d].auth.token
    BY <1>1 DEF RequestsMatch
  <2>1. CASE d = c
    BY <1>2, <1>9, <2>1 DEF WebInv, RequestsMatch
  <2>2. CASE d # c
    <3>1. req'[d] = req[d]
      BY <1>7, <2>2
    <3>2. req[d].step = "granted" =>
            /\ owner'[req[d].new] = owner[req[d].new]
            /\ owner'[req[d].token] = owner[req[d].token]
            /\ req[d].new \in 1..minted'
      <4>1. minted' \in Nat
        BY <1>3, MaxNat DEF IInv, TokensTypeOK, Mint
      <4> QED
        BY <1>6, <1>8, <2>2, <4>1
    <3> QED
      BY <3>1, <3>2 DEF WebInv, RequestsMatch
  <2> QED
    BY <2>1, <2>2
<1> QED
  BY <1>5, <1>10 DEF WebInv

\* The other steps set an auth only to one that is known.
LEMMA SetAuthKeeps ==
  ASSUME IInv, WebInv, NEW t \in Tabs, NEW a, Known(a), a \in Auths \union {Nobody},
         SetAuth(t, a), UNCHANGED <<minted, owner>>
  PROVE  auth' \in [Tabs -> Auths \union {Nobody}] /\ (\A s \in Tabs : Known(auth[s])')
         /\ Known(stored)'
  BY DEF WebInv, WebTypes, AuthsKnown, Known, SetAuth

\* A call that only moves on.
LEMMA StepKeeps ==
  ASSUME IInv, WebInv, NEW c \in Calls, call[c].step # "idle",
         NEW s \in UnderWay \union {"ended", "orphaned"},
         Step(c, s), UNCHANGED <<minted, owner, req, revoking>>,
         auth' \in [Tabs -> Auths \union {Nobody}], \A t \in Tabs : Known(auth[t])',
         Known(stored)'
  PROVE  WebInv'
<1>1. s # "idle"
  BY DEF UnderWay
<1>2. /\ \A d \in Calls : d # c => call'[d] = call[d]
      /\ call'[c] = [call[c] EXCEPT !.step = s]
      /\ call'[c].auth = call[c].auth /\ call'[c].tab = call[c].tab /\ call'[c].step = s
  BY DEF Step, WebInv, WebTypes
<1>3. WebTypes'
  BY <1>2 DEF WebInv, WebTypes, Step
<1>4. \A d \in Calls :
        /\ call'[d].auth = call[d].auth /\ call'[d].tab = call[d].tab
        /\ call[d].step = "idle" <=> call'[d].step = "idle"
  BY <1>1, <1>2
<1>5. AuthsKnown'
  BY <1>4 DEF WebInv, AuthsKnown, Known
<1>6. RequestsMatch'
  BY <1>4 DEF WebInv, RequestsMatch
<1> QED
  BY <1>3, <1>5, <1>6 DEF WebInv

LEMMA CallKeeps ==
  ASSUME IInv, WebInv, NEW c \in Calls, AuthFetch(c), ~Serve(c)
  PROVE  WebInv'
<1>0. \A a : UNCHANGED <<minted, owner>> => (Known(a) => Known(a)')
  BY DEF Known
<1>00. UNCHANGED <<auth, stored, minted, owner>> =>
         /\ auth' \in [Tabs -> Auths \union {Nobody}]
         /\ \A t \in Tabs : Known(auth[t])'
         /\ Known(stored)'
  BY DEF WebInv, WebTypes, AuthsKnown, Known
<1>1. ASSUME NEW t \in Tabs, Send(c, t) PROVE WebInv'
  <2>1. /\ \A d \in Calls : d # c => call'[d] = call[d]
        /\ call'[c] = [tab |-> t, auth |-> auth[t], step |-> "sent"]
        /\ UNCHANGED <<tokenVars, auth, stored, revoking>>
    BY <1>1 DEF Send, WebInv, WebTypes
  <2>2. WebTypes'
    BY <1>1, <2>1 DEF WebInv, WebTypes, UnderWay, Send
  <2>3. AuthsKnown'
    BY <2>1 DEF WebInv, AuthsKnown, Known, tokenVars
  <2>4. RequestsMatch'
    BY <1>1, <2>1 DEF WebInv, RequestsMatch, Send, tokenVars
  <2> QED
    BY <2>2, <2>3, <2>4 DEF WebInv
<1>2. CASE Accepted(c) \/ RateLimited(c) \/ Unauthorized(c) \/ UnauthorizedAgain(c)
  BY <1>2, <1>00, StepKeeps
  DEF Accepted, RateLimited, Unauthorized, UnauthorizedAgain, tokenVars, UnderWay
<1>3. CASE NetError(c)
  BY <1>3, <1>00, StepKeeps DEF NetError, tokenVars, UnderWay, CutOff
<1>4. CASE Denied(c)
  <2>1. call[c].tab \in Tabs /\ call[c].step # "idle" /\ UNCHANGED <<minted, owner, req, revoking>>
    BY <1>4 DEF Denied, WebInv, RequestsMatch, tokenVars
  <2>2. Known(Nobody)
    BY DEF Known
  <2> QED
    BY <1>4, <2>1, <2>2, SetAuthKeeps, StepKeeps DEF Denied
<1>5. CASE Granted(c)
  <2>1. call[c].tab \in Tabs /\ call[c].step # "idle" /\ UNCHANGED <<minted, owner, req, revoking>>
    BY <1>5 DEF Granted, WebInv, RequestsMatch, tokenVars
  <2>2. /\ call[c].auth \in Auths /\ call[c].auth.user = owner[call[c].auth.token]
        /\ req[c].token = call[c].auth.token /\ req[c].new \in 1..minted
        /\ owner[req[c].new] = owner[req[c].token]
    BY <1>5 DEF Granted, Renewed, WebInv, RequestsMatch, AuthsKnown, Known
  <2>3. Rotated(c) \in Auths /\ Rotated(c).token = req[c].new
        /\ Rotated(c).user = call[c].auth.user
    <3>1. req[c].new \in Tokens
      BY <2>2, MaxNat DEF IInv, TokensTypeOK, Tokens
    <3> QED
      BY <2>2, <3>1 DEF Rotated, Auths
  <2>4. Known(Rotated(c))
    BY <2>2, <2>3 DEF Known, IInv, TokensTypeOK
  <2> QED
    BY <1>5, <2>1, <2>3, <2>4, SetAuthKeeps, StepKeeps DEF Granted, UnderWay
<1> QED
  BY <1>1, <1>2, <1>3, <1>4, <1>5 DEF AuthFetch

LEMMA ReloadKeeps ==
  ASSUME IInv, WebInv, NEW t \in Tabs, Reload(t)
  PROVE  WebInv'
<1>1. UNCHANGED <<minted, owner, req, stored, revoking>>
  BY DEF Reload, tokenVars
<1>2. /\ DOMAIN call' = Calls
      /\ \A c \in Calls : \/ call'[c] = call[c]
                          \/ /\ call[c].step # "idle"
                             /\ \E s \in {"orphaned", "ended"} : call'[c] = [call[c] EXCEPT !.step = s]
  BY DEF Reload, UnderWay, CutOff
<1>3. \A c \in Calls :
        /\ call'[c].auth = call[c].auth /\ call'[c].tab = call[c].tab
        /\ call[c].step = "idle" <=> call'[c].step = "idle"
  BY <1>2 DEF WebInv, WebTypes
<1>4. WebTypes'
  BY <1>1 DEF WebInv, WebTypes, Reload, AuthsKnown, Known, UnderWay, CutOff
<1>5. AuthsKnown'
  BY <1>1, <1>3 DEF WebInv, WebTypes, AuthsKnown, Known, Reload
<1>6. RequestsMatch'
  BY <1>1, <1>3 DEF WebInv, RequestsMatch
<1> QED
  BY <1>4, <1>5, <1>6 DEF WebInv

LEMMA LogOutKeeps ==
  ASSUME IInv, WebInv, NEW t \in Tabs, LogOut(t)
  PROVE  WebInv'
<1>1. UNCHANGED <<minted, owner, req, call>> /\ SetAuth(t, Nobody)
  BY DEF LogOut, tokenVars
<1>2. Known(Nobody)
  BY DEF Known
<1>3. auth[t] \in Auths
  BY DEF LogOut, WebInv, AuthsKnown, Known
<1>4. revoking' \subseteq Tokens
  BY <1>3 DEF LogOut, WebInv, WebTypes, Auths
<1>5. auth' \in [Tabs -> Auths \union {Nobody}] /\ (\A s \in Tabs : Known(auth[s])')
      /\ Known(stored)'
  BY <1>1, <1>2, SetAuthKeeps
<1> QED
  BY <1>1, <1>4, <1>5 DEF WebInv, WebTypes, AuthsKnown, Known, RequestsMatch

LEMMA OthersKeep ==
  ASSUME IInv, WebInv, UNCHANGED <<minted, owner, req, auth, stored, call>>,
         revoking' \subseteq revoking
  PROVE  WebInv'
  BY DEF WebInv, WebTypes, AuthsKnown, Known, RequestsMatch

LEMMA WebNextKeeps ==
  ASSUME IInv, WebInv, [Next]_vars
  PROVE  WebInv'
<1>1. ASSUME NEW t \in Tabs, NEW u \in Users, LogIn(t, u) PROVE WebInv'
  BY <1>1, LogInKeeps
<1>2. ASSUME NEW t \in Tabs, LogOut(t) \/ Reload(t) PROVE WebInv'
  BY <1>2, LogOutKeeps, ReloadKeeps
<1>3. ASSUME NEW c \in Calls, AuthFetch(c) PROVE WebInv'
  BY <1>3, ServeKeeps, CallKeeps
<1>4. ASSUME NEW p \in revoking, Revoke(p) \/ RevokeFails(p) PROVE WebInv'
  BY <1>4, OthersKeep DEF Revoke, RevokeFails, Logout, tokenVars
<1>5. ASSUME NEW p \in 1..minted, Expire(p) PROVE WebInv'
  BY <1>5, OthersKeep DEF Expire, tokenVars
<1>6. ASSUME NEW p \in live, TokenLapses(p) PROVE WebInv'
  BY <1>6, OthersKeep DEF TokenLapses, Lapse, webVars
<1>7. CASE Rest \/ UNCHANGED vars
  BY <1>7, OthersKeep DEF Rest, vars, tokenVars, webVars
<1> QED
  BY <1>1, <1>2, <1>3, <1>4, <1>5, <1>6, <1>7 DEF Next

-----------------------------------------------------------------------------

LEMMA WebInductive == Spec => [](IInv /\ WebInv)
<1>1. Init => IInv /\ WebInv
  BY InitIInv, InitWebInv DEF Init
<1>2. (IInv /\ WebInv) /\ [Next]_vars => (IInv /\ WebInv)'
  BY StepsAreTokens, NextKeeps, WebNextKeeps
<1> QED
  BY <1>1, <1>2, PTL DEF Spec

\* Whatever browsers do, lose and reload, it is something that RefreshTokens allows:
\* its theorems hold of every session of the web page.
THEOREM BrowserIsAClient == Spec => TokensSpec
<1>1. Init => TokensInit
  BY DEF Init
<1>2. IInv /\ WebInv /\ [Next]_vars => [TokensNext]_tokenVars
  BY StepsAreTokens
<1> QED
  BY <1>1, <1>2, WebInductive, PTL DEF Spec, TokensSpec

\* A tab has only tokens of the user it shows.
THEOREM NeverAnotherUser == Spec => []UserOfToken
<1>1. WebInv => UserOfToken
  BY DEF WebInv, AuthsKnown, Known, UserOfToken
<1> QED
  BY <1>1, WebInductive, PTL

-----------------------------------------------------------------------------
(* Without faults *)

\* The tabs that show somebody, and the calls that began with a token.
ShownIn(t) == auth[t] # Nobody
Begun(c) == call[c].step # "idle"

\* A call that waits for its refresh, which was granted.
Waiting(c) == call[c].step = "refreshing" /\ req[c].step = "granted"

\* Nothing was cut off, and who has not been refused asks for no refresh.
NothingCut ==
  \A c \in Calls : /\ call[c].step # "orphaned"
                   /\ call[c].step = "sent" => req[c].step = "none"

TabsSafe ==
  \A t \in Tabs : ShownIn(t) =>
    /\ auth[t].token \in live \/ BeingRotated(auth[t].token)
    /\ auth[t].token \notin revoking

\* No two tabs have one token, and no call but the tab's own began with it.
TabsApart ==
  \A t \in Tabs : ShownIn(t) =>
    /\ \A s \in Tabs : ShownIn(s) /\ auth[s].token = auth[t].token => s = t
    /\ \A c \in Calls : Begun(c) /\ call[c].auth.token = auth[t].token => call[c].tab = t

\* The token that waits for its tab is live and nobody else knows it.
WaitingSafe ==
  \A c \in Calls : Waiting(c) =>
    /\ req[c].new \in live \ revoking
    /\ \A t \in Tabs : ShownIn(t) => auth[t].token # req[c].new
    /\ \A d \in Calls : /\ Begun(d) => call[d].auth.token # req[c].new
                        /\ Waiting(d) /\ req[d].new = req[c].new => d = c

CalmSafe == NothingCut /\ TabsSafe /\ TabsApart /\ WaitingSafe

\* What a login does whose reply arrives.
LoggedIn(t, u) ==
  /\ auth[t] = Nobody
  /\ Mint(u, minted + 1)
  /\ SetAuth(t, [user |-> u, token |-> minted + 1])
  /\ UNCHANGED <<req, call, revoking, stale>>

\* What the server does with a refresh whose calls to Redis do not fail, be it turned away.
Served(c) ==
  /\ call[c].step \in {"refreshing", "orphaned"}
  /\ \/ GetDel(c, call[c].auth.token) \/ InvalidRefresh(c, call[c].auth.token)
     \/ IssueNext(c) \/ TurnedAway(c)
     \/ call[c].step = "orphaned"
  /\ UNCHANGED webVars

\* The steps of the system without faults.
LEMMA FaultlessSteps ==
  ASSUME Faultless!Next
  PROVE  \/ \E t \in Tabs : LogOut(t) \/ \E u \in Users : LoggedIn(t, u)
         \/ \E p \in revoking : Revoke(p) \/ RevokeFails(p)
         \/ \E c \in Calls : \/ \E t \in Tabs : Send(c, t)
                             \/ Accepted(c) \/ RateLimited(c)
                             \/ Unauthorized(c) \/ UnauthorizedAgain(c)
                             \/ Served(c) \/ Granted(c) \/ Denied(c)
         \/ \E p \in 1..minted : Expire(p)
         \/ UNCHANGED vars
<1>1. ASSUME NEW t \in Tabs, NEW u \in Users, Faultless!LogIn(t, u) PROVE LoggedIn(t, u)
  <2>1. Mint(u, minted + 1) /\ UNCHANGED req
    BY <1>1 DEF Faultless!LogIn, Faultless!Login, Faultless!Mint, Mint
  <2> QED
    BY <1>1, <2>1 DEF Faultless!LogIn, Faultless!SetAuth, LoggedIn, SetAuth
<1>2. ASSUME NEW t \in Tabs, Faultless!LogOut(t) PROVE LogOut(t)
  BY <1>2 DEF Faultless!LogOut, Faultless!SetAuth, Faultless!tokenVars, LogOut, SetAuth, tokenVars
<1>3. ASSUME NEW t \in Tabs PROVE ~Faultless!Reload(t)
  BY DEF Faultless!Reload
<1>4. ASSUME NEW p \in revoking, Faultless!Revoke(p) PROVE Revoke(p)
  BY <1>4 DEF Faultless!Revoke, Faultless!Logout, Revoke, Logout
<1>5. ASSUME NEW p \in revoking, Faultless!RevokeFails(p) PROVE RevokeFails(p)
  BY <1>5 DEF Faultless!RevokeFails, Faultless!tokenVars, RevokeFails, tokenVars
<1>6. ASSUME NEW c \in Calls, NEW t \in Tabs, Faultless!Send(c, t) PROVE Send(c, t)
  BY <1>6 DEF Faultless!Send, Faultless!tokenVars, Send, tokenVars
<1>7. ASSUME NEW c \in Calls, Faultless!Accepted(c) PROVE Accepted(c)
  BY <1>7 DEF Faultless!Accepted, Faultless!Step, Faultless!tokenVars, Accepted, Step, tokenVars
<1>8. ASSUME NEW c \in Calls, Faultless!Unauthorized(c) PROVE Unauthorized(c)
  BY <1>8 DEF Faultless!Unauthorized, Faultless!Step, Faultless!tokenVars, Unauthorized, Step,
              tokenVars
<1>9. ASSUME NEW c \in Calls, Faultless!UnauthorizedAgain(c) PROVE UnauthorizedAgain(c)
  BY <1>9 DEF Faultless!UnauthorizedAgain, Faultless!Step, Faultless!tokenVars,
              UnauthorizedAgain, Step, tokenVars
<1>10. ASSUME NEW c \in Calls, Faultless!Serve(c) PROVE Served(c)
  BY <1>10 DEF Faultless!Serve, Faultless!GetDel, Faultless!Remaining, Faultless!Taking,
               Faultless!InvalidRefresh, Faultless!Refusing, Faultless!IssueNext,
               Faultless!Mint, Faultless!webVars, Faultless!GetDelFails, Faultless!IssueFails,
               Faultless!TurnedAway, TurnedAway, Served, GetDel, Remaining, Taking,
               InvalidRefresh, Refusing, IssueNext, Mint, webVars
<1>11. ASSUME NEW c \in Calls, Faultless!Granted(c) PROVE Granted(c)
  BY <1>11 DEF Faultless!Granted, Faultless!Renewed, Faultless!Rotated, Faultless!SetAuth,
               Faultless!Step, Faultless!tokenVars, Granted, Renewed, Rotated, SetAuth, Step,
               tokenVars
<1>12. ASSUME NEW c \in Calls, Faultless!Denied(c) PROVE Denied(c)
  BY <1>12 DEF Faultless!Denied, Faultless!Denials, Faultless!SetAuth, Faultless!Step,
               Faultless!tokenVars, Denied, Denials, SetAuth, Step, tokenVars
<1>13. ASSUME NEW c \in Calls PROVE ~Faultless!NetError(c)
  BY DEF Faultless!NetError
<1>14. ASSUME NEW p \in 1..minted, Faultless!Expire(p) PROVE Expire(p)
  BY <1>14 DEF Faultless!Expire, Faultless!InUse, Faultless!Calls, Faultless!tokenVars,
               Expire, InUse, Calls, tokenVars
<1>15. ASSUME Faultless!Rest PROVE UNCHANGED vars
  BY <1>15 DEF Faultless!Rest, Faultless!vars, Faultless!tokenVars, Faultless!webVars,
               vars, tokenVars, webVars
<1>16. ASSUME NEW c \in Calls, Faultless!RateLimited(c) PROVE RateLimited(c)
  BY <1>16 DEF Faultless!RateLimited, Faultless!Step, Faultless!tokenVars, RateLimited, Step,
               tokenVars
<1>17. ASSUME NEW p PROVE ~Faultless!TokenLapses(p)
  BY DEF Faultless!TokenLapses
<1> QED
  BY <1>1, <1>2, <1>3, <1>4, <1>5, <1>6, <1>7, <1>8, <1>9, <1>10, <1>11, <1>12, <1>13,
     <1>14, <1>15, <1>16, <1>17 DEF Faultless!Next, Faultless!AuthFetch, Faultless!Calls, Calls

-----------------------------------------------------------------------------
(* Nobody is stranded *)

\* What a step leaves alone keeps the invariant.
LEMMA CalmSame ==
  ASSUME CalmSafe, UNCHANGED <<live, req, auth, call>>, revoking' \subseteq revoking
  PROVE  CalmSafe'
  BY DEF CalmSafe, NothingCut, TabsSafe, TabsApart, WaitingSafe, ShownIn, Begun, Waiting,
         BeingRotated

\* What is known of the numbers of tokens.
LEMMA Numbers ==
  ASSUME IInv, WebInv
  PROVE  /\ minted \in Nat /\ live \subseteq 1..minted
         /\ \A t \in Tabs : ShownIn(t) => auth[t].token \in 1..minted
         /\ \A c \in Calls : Begun(c) => call[c].auth.token \in 1..minted
         /\ \A c \in Calls : Waiting(c) => req[c].new \in 1..minted
<1>1. minted \in Nat /\ live \subseteq 1..minted
  BY MaxNat DEF IInv, TokensTypeOK
<1>2. \A a : Known(a) /\ a # Nobody => a.token \in 1..minted
  BY <1>1, MaxNat DEF Known, Auths, Tokens
<1>3. \A t \in Tabs : ShownIn(t) => auth[t].token \in 1..minted
  BY <1>2 DEF WebInv, AuthsKnown, ShownIn
<1>4. \A c \in Calls : Begun(c) => call[c].auth.token \in 1..minted
  BY <1>2 DEF WebInv, AuthsKnown, RequestsMatch, Begun
<1>5. \A c \in Calls : Waiting(c) => req[c].new \in 1..minted
  BY DEF WebInv, RequestsMatch, Waiting
<1> QED
  BY <1>1, <1>3, <1>4, <1>5

\* A login begins with a token that nobody knows.
LEMMA LoggedInSafe ==
  ASSUME IInv, WebInv, revoking \subseteq 1..minted, CalmSafe,
         NEW t \in Tabs, NEW u \in Users, LoggedIn(t, u)
  PROVE  CalmSafe'
<1> DEFINE n == minted + 1
<1>1. /\ live' = live \cup {n} /\ UNCHANGED <<req, call, revoking>>
      /\ auth' = [auth EXCEPT ![t] = [user |-> u, token |-> n]]
  BY DEF LoggedIn, Mint, SetAuth
<1>2. /\ n \notin revoking
      /\ \A s \in Tabs : ShownIn(s) => auth[s].token # n
      /\ \A c \in Calls : Begun(c) => call[c].auth.token # n
      /\ \A c \in Calls : Waiting(c) => req[c].new # n
  BY Numbers
<1>3. /\ ShownIn(t)' => auth'[t].token = n
      /\ \A s \in Tabs : s # t => auth'[s] = auth[s] /\ (ShownIn(s)' <=> ShownIn(s))
  BY <1>1 DEF WebInv, WebTypes, ShownIn
<1>4. \A c \in Calls : (Begun(c)' <=> Begun(c)) /\ (Waiting(c)' <=> Waiting(c))
  BY <1>1 DEF Begun, Waiting
<1>5. \A p : BeingRotated(p) => BeingRotated(p)'
  BY <1>1 DEF BeingRotated
<1> HIDE DEF n
<1>6. NothingCut'
  BY <1>1 DEF CalmSafe, NothingCut
<1>7. TabsSafe'
  BY <1>1, <1>2, <1>3, <1>5 DEF CalmSafe, TabsSafe
<1>8. TabsApart'
  BY <1>1, <1>2, <1>3, <1>4 DEF CalmSafe, TabsApart
<1>9. WaitingSafe'
  BY <1>1, <1>2, <1>3, <1>4 DEF CalmSafe, WaitingSafe
<1> QED
  BY <1>6, <1>7, <1>8, <1>9 DEF CalmSafe

\* A logout sends the token of its own tab.
LEMMA LogOutSafe ==
  ASSUME IInv, WebInv, CalmSafe, NEW t \in Tabs, LogOut(t) PROVE CalmSafe'
<1>1. /\ revoking' = revoking \cup {auth[t].token} /\ UNCHANGED <<live, req, call>>
      /\ auth' = [auth EXCEPT ![t] = Nobody] /\ ShownIn(t)
  BY DEF LogOut, SetAuth, tokenVars, ShownIn
<1>2. /\ ~ShownIn(t)'
      /\ \A s \in Tabs : s # t => auth'[s] = auth[s] /\ (ShownIn(s)' <=> ShownIn(s))
  BY <1>1 DEF WebInv, WebTypes, ShownIn
<1>3. \A c \in Calls : (Begun(c)' <=> Begun(c)) /\ (Waiting(c)' <=> Waiting(c))
  BY <1>1 DEF Begun, Waiting
<1>4. \A p : BeingRotated(p) => BeingRotated(p)'
  BY <1>1 DEF BeingRotated
<1>5. NothingCut'
  BY <1>1 DEF CalmSafe, NothingCut
<1>6. TabsSafe'
  BY <1>1, <1>2, <1>4 DEF CalmSafe, TabsSafe, TabsApart
<1>7. TabsApart'
  BY <1>1, <1>2, <1>3 DEF CalmSafe, TabsApart
<1>8. WaitingSafe'
  BY <1>1, <1>2, <1>3 DEF CalmSafe, WaitingSafe
<1> QED
  BY <1>5, <1>6, <1>7, <1>8 DEF CalmSafe

\* A revocation takes a token that no tab has and none will get.
LEMMA RevokeSafe ==
  ASSUME CalmSafe, NEW p \in revoking, Revoke(p) PROVE CalmSafe'
<1>1. /\ live' = live \ {p} /\ revoking' = revoking \ {p}
      /\ UNCHANGED <<req, auth, call>>
  BY DEF Revoke, Logout
<1>2. \A q : BeingRotated(q) => BeingRotated(q)'
  BY <1>1 DEF BeingRotated
<1>3. \A c \in Calls : (Begun(c)' <=> Begun(c)) /\ (Waiting(c)' <=> Waiting(c))
  BY <1>1 DEF Begun, Waiting
<1>4. \A s \in Tabs : ShownIn(s)' <=> ShownIn(s)
  BY <1>1 DEF ShownIn
<1>5. NothingCut' /\ TabsApart'
  BY <1>1, <1>3, <1>4 DEF CalmSafe, NothingCut, TabsApart
<1>6. TabsSafe'
  BY <1>1, <1>2, <1>4 DEF CalmSafe, TabsSafe
<1>7. WaitingSafe'
  BY <1>1, <1>3, <1>4 DEF CalmSafe, WaitingSafe
<1> QED
  BY <1>5, <1>6, <1>7 DEF CalmSafe

\* The server exchanges the token of a call.
LEMMA ServedSafe ==
  ASSUME IInv, WebInv, revoking \subseteq 1..minted, CalmSafe,
         NEW c \in Calls, Served(c)
  PROVE  CalmSafe'
<1> DEFINE p == call[c].auth.token
           n == minted + 1
<1>1. /\ UNCHANGED <<auth, call, revoking>> /\ call[c].step = "refreshing"
      /\ c \in Requests
  BY DEF Served, webVars, CalmSafe, NothingCut, Calls
<1>2. /\ \A d \in Calls : Begun(d)' <=> Begun(d)
      /\ \A s \in Tabs : ShownIn(s)' <=> ShownIn(s)
      /\ Begun(c)
  BY <1>1 DEF Begun, ShownIn
<1>3. \A d \in Calls : d # c => /\ req'[d] = req[d]
                                /\ Waiting(d)' <=> Waiting(d)
  BY <1>1 DEF Served, TurnedAway, GetDel, InvalidRefresh, IssueNext, Taking, Refusing, IInv,
              TokensTypeOK, Calls, Waiting
<1>4. NothingCut'
  BY <1>1, <1>3 DEF CalmSafe, NothingCut
<1>5. TabsApart'
  BY <1>1, <1>2 DEF CalmSafe, TabsApart
<1>6. CASE GetDel(c, p)
  <2>1. /\ live' = live \ {p} /\ req'[c].step = "taken"
    BY <1>1, <1>6 DEF GetDel, Remaining, Taking, IInv, TokensTypeOK
  <2>2. BeingRotated(p)'
    BY <1>1, <2>1 DEF BeingRotated
  <2>3. \A q : BeingRotated(q) => BeingRotated(q)'
    BY <1>1, <1>3, <2>1 DEF BeingRotated
  <2>4. TabsSafe'
    BY <1>1, <1>2, <2>1, <2>2, <2>3 DEF CalmSafe, TabsSafe
  <2>5. ~Waiting(c)'
    BY <2>1 DEF Waiting
  <2>6. WaitingSafe'
    BY <1>1, <1>2, <1>3, <2>1, <2>5 DEF CalmSafe, WaitingSafe
  <2> QED
    BY <1>4, <1>5, <2>4, <2>6 DEF CalmSafe
<1>7. CASE InvalidRefresh(c, p) \/ TurnedAway(c)
  <2>1. /\ live' = live /\ req'[c].step \in Denials /\ req[c].step = "none"
    BY <1>1, <1>7 DEF InvalidRefresh, Refusing, TurnedAway, Denials, IInv, TokensTypeOK
  <2>2. \A q : BeingRotated(q) => BeingRotated(q)'
    BY <1>1, <1>3, <2>1 DEF BeingRotated
  <2>3. TabsSafe'
    BY <1>1, <1>2, <2>1, <2>2 DEF CalmSafe, TabsSafe
  <2>4. ~Waiting(c)'
    BY <2>1 DEF Waiting, Denials
  <2>5. WaitingSafe'
    BY <1>1, <1>2, <1>3, <2>1, <2>4 DEF CalmSafe, WaitingSafe
  <2> QED
    BY <1>4, <1>5, <2>3, <2>5 DEF CalmSafe
<1>8. CASE IssueNext(c)
  <2>1. /\ live' = live \cup {n} /\ req'[c].step = "granted" /\ req'[c].new = n
    BY <1>1, <1>8 DEF IssueNext, Mint, IInv, TokensTypeOK
  <2>2. \A q : BeingRotated(q) => BeingRotated(q)'
    BY <1>1, <1>3, <2>1 DEF BeingRotated
  <2>3. TabsSafe'
    BY <1>1, <1>2, <2>1, <2>2 DEF CalmSafe, TabsSafe
  <2>4. /\ n \notin revoking
        /\ \A s \in Tabs : ShownIn(s) => auth[s].token # n
        /\ \A d \in Calls : Begun(d) => call[d].auth.token # n
        /\ \A d \in Calls : Waiting(d) => req[d].new # n
    BY Numbers
  <2> HIDE DEF n
  <2>5. WaitingSafe'
    BY <1>1, <1>2, <1>3, <2>1, <2>4 DEF CalmSafe, WaitingSafe
  <2> QED
    BY <1>4, <1>5, <2>3, <2>5 DEF CalmSafe
<1> QED
  BY <1>1, <1>6, <1>7, <1>8 DEF Served

\* The steps of the browser that change no auth.
LEMMA MovesSafe ==
  ASSUME IInv, WebInv, CalmSafe, NEW c \in Calls,
         Accepted(c) \/ RateLimited(c) \/ Unauthorized(c) \/ UnauthorizedAgain(c)
  PROVE  CalmSafe'
<1>1. /\ UNCHANGED <<live, req, auth, revoking>>
      /\ \A d \in Calls : d # c => call'[d] = call[d]
      /\ call'[c].auth = call[c].auth /\ call'[c].tab = call[c].tab
  BY DEF Accepted, RateLimited, Unauthorized, UnauthorizedAgain, Step, WebInv, WebTypes,
         tokenVars
<1>2. /\ call[c].step \in {"sent", "retry"}
      /\ call[c].step = "sent" => req[c].step = "none"
      /\ call'[c].step \in {"ended", "refreshing"}
      /\ call'[c].step = "refreshing" => call[c].step = "sent"
  BY DEF Accepted, RateLimited, Unauthorized, UnauthorizedAgain, Step, WebInv, WebTypes, CalmSafe,
         NothingCut
<1>3. /\ \A d \in Calls : Begun(d)' <=> Begun(d)
      /\ \A s \in Tabs : ShownIn(s)' <=> ShownIn(s)
      /\ \A d \in Calls : Waiting(d)' => Waiting(d)
  BY <1>1, <1>2 DEF Begun, ShownIn, Waiting
<1>4. \A q : BeingRotated(q) => BeingRotated(q)'
  BY <1>1, <1>2 DEF BeingRotated
<1>5. NothingCut'
  BY <1>1, <1>2 DEF CalmSafe, NothingCut
<1>6. \A d \in Calls : call'[d].auth = call[d].auth /\ call'[d].tab = call[d].tab
  BY <1>1
<1>7. TabsSafe' /\ TabsApart'
  BY <1>1, <1>3, <1>4, <1>6 DEF CalmSafe, TabsSafe, TabsApart
<1>8. WaitingSafe'
  BY <1>1, <1>3, <1>6 DEF CalmSafe, WaitingSafe
<1> QED
  BY <1>5, <1>7, <1>8 DEF CalmSafe

\* A call begins with the token of its tab.
LEMMA SendSafe ==
  ASSUME IInv, WebInv, CalmSafe, NEW c \in Calls, NEW t \in Tabs, Send(c, t)
  PROVE  CalmSafe'
<1>1. /\ UNCHANGED <<live, req, auth, revoking>>
      /\ \A d \in Calls : d # c => call'[d] = call[d]
      /\ call'[c] = [tab |-> t, auth |-> auth[t], step |-> "sent"]
      /\ ShownIn(t) /\ call[c].step = "idle" /\ req[c].step = "none"
  BY DEF Send, WebInv, WebTypes, RequestsMatch, tokenVars, ShownIn
<1>2. /\ \A d \in Calls : d # c => (Begun(d)' <=> Begun(d))
      /\ \A s \in Tabs : ShownIn(s)' <=> ShownIn(s)
      /\ \A d \in Calls : Waiting(d)' => Waiting(d) /\ d # c
  BY <1>1 DEF Begun, ShownIn, Waiting
<1>3. \A q : BeingRotated(q) => BeingRotated(q)'
  BY <1>1 DEF BeingRotated
<1>4. NothingCut'
  BY <1>1 DEF CalmSafe, NothingCut
<1>5. TabsSafe'
  BY <1>1, <1>2, <1>3 DEF CalmSafe, TabsSafe
<1>6. TabsApart'
  BY <1>1, <1>2 DEF CalmSafe, TabsApart
<1>7. WaitingSafe'
  BY <1>1, <1>2 DEF CalmSafe, WaitingSafe
<1> QED
  BY <1>4, <1>5, <1>6, <1>7 DEF CalmSafe

\* A refresh that was granted gives its token to its tab; one that was refused logs the
\* tab out.
LEMMA AnswerSafe ==
  ASSUME IInv, WebInv, CalmSafe, NEW c \in Calls, Granted(c) \/ Denied(c)
  PROVE  CalmSafe'
<1>0. PICK t, p, n : t = call[c].tab /\ p = call[c].auth.token /\ n = req[c].new
  OBVIOUS
<1>1. /\ UNCHANGED <<live, req, revoking>> /\ t \in Tabs /\ call[c].auth # Nobody
      /\ \A d \in Calls : d # c => call'[d] = call[d]
      /\ call'[c].auth = call[c].auth /\ call'[c].tab = t
      /\ call[c].step = "refreshing" /\ call'[c].step \in {"retry", "ended"}
      /\ \A s \in Tabs : s # t => auth'[s] = auth[s]
  BY <1>0 DEF Granted, Denied, SetAuth, Step, WebInv, WebTypes, RequestsMatch, tokenVars
<1>2. \/ /\ Waiting(c) /\ auth'[t].token = n
      \/ /\ auth'[t] = Nobody /\ req[c].step \in Denials
  <2>1. CASE Granted(c)
    <3>1. call[c].auth \in Auths
      BY <1>1 DEF WebInv, AuthsKnown, Known
    <3>2. Rotated(c).token = n
      BY <1>0, <3>1 DEF Rotated, Auths
    <3> QED
      BY <1>0, <1>1, <2>1, <3>2 DEF Granted, SetAuth, Renewed, Waiting, WebInv, WebTypes
  <2>2. CASE Denied(c)
    BY <1>0, <1>1, <2>2 DEF Denied, SetAuth, WebInv, WebTypes
  <2> QED
    BY <2>1, <2>2
<1>3. /\ \A d \in Calls : Begun(d)' <=> Begun(d)
      /\ \A s \in Tabs : s # t => (ShownIn(s)' <=> ShownIn(s))
      /\ \A d \in Calls : Waiting(d)' => Waiting(d) /\ d # c
      /\ Begun(c)
  BY <1>1 DEF Begun, ShownIn, Waiting
<1>4. \A d \in Calls : call'[d].auth = call[d].auth /\ call'[d].tab = call[d].tab
  BY <1>0, <1>1
<1>5. \A q : BeingRotated(q) /\ q # p => BeingRotated(q)'
  BY <1>0, <1>1 DEF BeingRotated
<1>6. \A s \in Tabs : s # t /\ ShownIn(s) => auth[s].token # p
  BY <1>0, <1>3 DEF CalmSafe, TabsApart
<1>7. ShownIn(t)' => Waiting(c) /\ auth'[t].token = n
  BY <1>2 DEF ShownIn
<1>8. Waiting(c) =>
        /\ n \in live \ revoking
        /\ \A s \in Tabs : ShownIn(s) => auth[s].token # n
        /\ \A d \in Calls : /\ Begun(d) => call[d].auth.token # n
                            /\ Waiting(d) /\ req[d].new = n => d = c
  BY <1>0 DEF CalmSafe, WaitingSafe
<1>9. NothingCut'
  BY <1>1 DEF CalmSafe, NothingCut
<1>10. TabsSafe'
  BY <1>1, <1>3, <1>5, <1>6, <1>7, <1>8 DEF CalmSafe, TabsSafe
<1>11. TabsApart'
  BY <1>1, <1>3, <1>4, <1>7, <1>8 DEF CalmSafe, TabsApart
<1>12. WaitingSafe'
  BY <1>1, <1>3, <1>4, <1>7, <1>8 DEF CalmSafe, WaitingSafe
<1> QED
  BY <1>9, <1>10, <1>11, <1>12 DEF CalmSafe

\* Revocations are sent for tokens that were issued, and access tokens expire that were.
IssuedOnly == revoking \cup stale \subseteq 1..minted

LEMMA IssuedStep ==
  ASSUME IInv, WebInv, IssuedOnly, [Next]_vars PROVE IssuedOnly'
<1>1. minted \in Nat /\ minted' \in Nat /\ minted <= minted'
  <2>1. [TokensNext]_tokenVars
    BY StepsAreTokens
  <2>2. IInv'
    BY <2>1, NextKeeps
  <2>3. minted' = minted \/ minted' = minted + 1
    BY <2>1 DEF TokensNext, Login, Refresh, GetDel, InvalidRefresh, GetDelFails, IssueNext,
                IssueFails, TurnedAway, Mint, Logout, Lapse, TokensRest, tokenVars
  <2> QED
    BY <2>2, <2>3, MaxNat DEF IInv, TokensTypeOK
<1>2. 1..minted \subseteq 1..minted'
  BY <1>1
<1>3. ASSUME NEW t \in Tabs, LogOut(t) PROVE IssuedOnly'
  <2>1. auth[t].token \in 1..minted
    BY <1>3, Numbers DEF LogOut, ShownIn
  <2> QED
    BY <1>2, <1>3, <2>1 DEF LogOut, IssuedOnly
<1>4. ASSUME NEW p \in 1..minted, Expire(p) PROVE IssuedOnly'
  BY <1>2, <1>4 DEF Expire, IssuedOnly
<1>5. ASSUME revoking' \subseteq revoking, UNCHANGED stale PROVE IssuedOnly'
  BY <1>2, <1>5 DEF IssuedOnly
<1> QED
  BY <1>3, <1>4, <1>5
  DEF Next, LogIn, Reload, Revoke, RevokeFails, TokenLapses, AuthFetch, Send, Accepted,
      RateLimited, Unauthorized, UnauthorizedAgain, Serve, Granted, Denied, NetError, Rest, vars,
      webVars

LEMMA SessionInductive == Spec => [](IInv /\ WebInv /\ IssuedOnly)
<1>1. Init => IssuedOnly
  BY DEF Init, IssuedOnly
<1>2. IInv /\ WebInv /\ IssuedOnly /\ [Next]_vars => IssuedOnly'
  BY IssuedStep
<1> QED
  BY <1>1, <1>2, WebInductive, PTL DEF Spec

\* Every variable has its type, and a token a tab or a call has was issued.
THEOREM SessionTyped == Spec => []TypeOK
<1>1. IInv /\ WebInv /\ IssuedOnly => TypeOK
  BY DEF IInv, WebInv, WebTypes, AuthsKnown, Known, IssuedOnly, TypeOK
<1> QED
  BY <1>1, SessionInductive, PTL

\* A step of the system without faults strands nobody.
LEMMA CalmStep ==
  ASSUME IInv, WebInv, IssuedOnly, CalmSafe, Faultless!Next PROVE CalmSafe'
<1>1. revoking \subseteq 1..minted
  BY DEF IssuedOnly
<1>2. ASSUME NEW p \in 1..minted, Expire(p) PROVE CalmSafe'
  BY <1>2, CalmSame DEF Expire, tokenVars
<1>3. CASE UNCHANGED vars
  BY <1>3, CalmSame DEF vars, tokenVars, webVars
<1>4. ASSUME NEW p, RevokeFails(p) PROVE CalmSafe'
  BY <1>4, CalmSame DEF RevokeFails, tokenVars
<1> QED
  BY <1>1, <1>2, <1>3, <1>4, FaultlessSteps, LoggedInSafe, LogOutSafe, RevokeSafe, SendSafe,
     MovesSafe, ServedSafe, AnswerSafe

\* As long as nothing fails and no page is reloaded, the token of a tab is live or a call
\* is exchanging it, for any tabs, users and calls, however logins, refreshes and logouts
\* overlap (src/web/lib/api.js:55-75).
THEOREM NeverStranded == CalmSpec => []NotStranded
<1> DEFINE Inv == IInv /\ WebInv /\ IssuedOnly
           CalmInv == calm => CalmSafe
<1>1. CalmInit => CalmInv
  BY DEF CalmInit, Init, TokensInit, CalmSafe, NothingCut, TabsSafe, TabsApart, WaitingSafe,
         ShownIn, Begun, Waiting, NewCall, NewRequest, Calls
<1>2. Inv /\ CalmInv /\ [CalmNext]_<<vars, calm>> => CalmInv'
  <2> SUFFICES ASSUME Inv, CalmInv, [CalmNext]_<<vars, calm>>, calm' PROVE CalmSafe'
    OBVIOUS
  <2>1. CASE CalmNext
    BY <2>1, CalmStep DEF CalmNext
  <2>2. CASE UNCHANGED <<vars, calm>>
    BY <2>2, CalmSame DEF vars, tokenVars, webVars
  <2> QED
    BY <2>1, <2>2
<1>3. CalmSpec => []Inv
  <2>1. CalmInit => Init
    BY DEF CalmInit
  <2>2. [CalmNext]_<<vars, calm>> => [Next]_vars
    BY DEF CalmNext
  <2> QED
    BY <2>1, <2>2, SessionInductive, PTL DEF CalmSpec, Spec
<1>4. CalmInv => NotStranded
  BY DEF NotStranded, CalmSafe, TabsSafe, ShownIn
<1> QED
  BY <1>1, <1>2, <1>3, <1>4, PTL DEF CalmSpec

-----------------------------------------------------------------------------
(* Refreshes that are alone *)

\* A call is under way while the token it began with may still be presented.
Presents(c) == call[c].step \in {"sent", "refreshing"}

\* While a call exchanges a token, no other call is under way that began with it.
RefreshAlone ==
  \A c, d \in Calls :
    /\ call[d].step = "refreshing" /\ Presents(c)
    /\ call[c].auth.token = call[d].auth.token
    => c = d

\* A login none of whose tokens is current.
Over(r) == \A p \in Current : root[p] # r

\* The token of a call is live until the call presents it or the limiter turns it away, or
\* its login is over; so is the login of a token that was refused.
RefreshSafe ==
  \A c \in Calls : Presents(c) =>
    \/ req[c].step \in {"limited", "taken", "granted"}
    \/ req[c].step = "none" /\ call[c].auth.token \in live
    \/ Over(root[call[c].auth.token])

\* What a step leaves alone, and what it adds no current token to.
LEMMA RefreshSame ==
  ASSUME RefreshSafe, UNCHANGED <<live, root, req>>,
         \A c \in Calls : Presents(c)' => Presents(c) /\ call'[c].auth = call[c].auth
  PROVE  RefreshSafe'
  BY DEF RefreshSafe, Over, Current, Held

\* A login that is over stays so: a new token is of a login that was not, or of none.
LEMMA OverStays ==
  ASSUME IInv, NEW p \in 1..minted, Over(root[p]),
         \/ live' \subseteq live \cup Held /\ Held' \subseteq live \cup Held /\ UNCHANGED root
         \/ \E u, r : Mint(u, r) /\ r \in {minted + 1} \cup {root[q] : q \in Current}
                      /\ Held' \subseteq Held
  PROVE  Over(root[p])'
<1>1. CASE live' \subseteq live \cup Held /\ Held' \subseteq live \cup Held /\ UNCHANGED root
  BY <1>1 DEF Over, Current
<1>2. ASSUME NEW u, NEW r, Mint(u, r), r \in {minted + 1} \cup {root[q] : q \in Current},
             Held' \subseteq Held
      PROVE  Over(root[p])'
  <2>1. /\ minted \in Nat /\ live' = live \cup {minted + 1} /\ minted + 1 \in Tokens
        /\ Current \subseteq 1..minted
    <3>1. live' = live \cup {minted + 1} /\ minted < MaxTokens /\ minted \in 0..MaxTokens
      BY <1>2 DEF Mint, IInv, TokensTypeOK
    <3>2. Current \subseteq 1..minted
      BY DEF IInv, TokensTypeOK, Exchanges, Current, Held
    <3> QED
      BY <3>1, <3>2, MaxNat DEF Tokens
  <2>2. root'[minted + 1] = r /\ \A q \in 1..minted : root'[q] = root[q]
    BY <1>2, <2>1 DEF Mint, IInv, TokensTypeOK, Tokens
  <2>3. root[p] \in 1..p
    BY DEF IInv, TokensTypeOK
  <2>4. r # root[p]
    BY <1>2, <2>1, <2>3 DEF Over
  <2>5. \A q \in Current' : q = minted + 1 \/ q \in Current
    BY <1>2, <2>1 DEF Current
  <2> QED
    BY <2>1, <2>2, <2>4, <2>5 DEF Over
<1> QED
  BY <1>1, <1>2

\* A login touches no token that a call has.
LEMMA LoggedInRefresh ==
  ASSUME IInv, WebInv, RefreshSafe, NEW t \in Tabs, NEW u \in Users, LoggedIn(t, u)
  PROVE  RefreshSafe'
<1>1. /\ live' = live \cup {minted + 1} /\ UNCHANGED <<req, call>> /\ Mint(u, minted + 1)
      /\ Held' \subseteq Held
  BY DEF LoggedIn, Mint, Held
<1>2. minted \in Nat /\ \A p \in 1..minted : root'[p] = root[p]
  BY <1>1, MaxNat DEF Mint, IInv, TokensTypeOK, Tokens
<1> SUFFICES ASSUME NEW c \in Calls, Presents(c)',
                    ~(req'[c].step \in {"limited", "taken", "granted"}),
                    ~(req'[c].step = "none" /\ call'[c].auth.token \in live')
             PROVE  Over(root[call[c].auth.token])'
  BY <1>1 DEF RefreshSafe, Over
<1>3. call[c].auth.token \in 1..minted
  BY <1>1, Numbers DEF Presents, Begun
<1>4. Over(root[call[c].auth.token])
  BY <1>1 DEF RefreshSafe, Presents
<1> QED
  BY <1>1, <1>3, <1>4, OverStays

\* A revocation ends the login of its token, if that was live.
LEMMA RevokeRefresh ==
  ASSUME IInv, WebInv, RefreshSafe, NEW p \in revoking, Revoke(p) PROVE RefreshSafe'
<1>1. /\ live' = live \ {p} /\ UNCHANGED <<minted, root, req, call>> /\ Held' = Held
  BY DEF Revoke, Logout, Held
<1>2. \A r : Over(r) => Over(r)'
  BY <1>1 DEF Over, Current
<1>3. p \in live => Over(root[p])'
  BY <1>1 DEF IInv, OneTokenPerLogin, TokensTypeOK, Exchanges, Over, Current, Held
<1> QED
  BY <1>1, <1>2, <1>3 DEF RefreshSafe, Presents

\* A call that begins takes a live token along, for nobody is exchanging it.
LEMMA SendRefresh ==
  ASSUME WebInv, CalmSafe, RefreshSafe, RefreshAlone',
         NEW c \in Calls, NEW t \in Tabs, Send(c, t)
  PROVE  RefreshSafe'
<1>1. /\ UNCHANGED <<live, root, req>> /\ ShownIn(t)
      /\ \A d \in Calls : d # c => call'[d] = call[d]
      /\ call'[c] = [tab |-> t, auth |-> auth[t], step |-> "sent"]
      /\ call[c].step = "idle" /\ req[c].step = "none"
  BY DEF Send, WebInv, WebTypes, RequestsMatch, tokenVars, ShownIn
<1>2. ~BeingRotated(auth[t].token)
  <2> SUFFICES ASSUME NEW d \in Calls, call[d].step = "refreshing",
                      call[d].auth.token = auth[t].token
               PROVE  FALSE
    BY DEF BeingRotated
  <2>1. d # c /\ call'[d] = call[d] /\ Presents(c)'
    BY <1>1 DEF Presents
  <2> QED
    BY <1>1, <2>1 DEF RefreshAlone
<1>3. auth[t].token \in live
  BY <1>1, <1>2 DEF CalmSafe, TabsSafe
<1> QED
  BY <1>1, <1>3 DEF RefreshSafe, Presents, Over, Current, Held

\* The server takes a token from nobody else, and refuses one whose login is over.
LEMMA ServedRefresh ==
  ASSUME IInv, WebInv, CalmSafe, RefreshSafe, RefreshAlone, NEW c \in Calls, Served(c)
  PROVE  RefreshSafe'
<1> DEFINE p == call[c].auth.token
<1>1. /\ UNCHANGED call /\ call[c].step = "refreshing" /\ c \in Requests
  BY DEF Served, webVars, CalmSafe, NothingCut, Calls
<1>2. \A d \in Calls : d # c => req'[d] = req[d]
  BY <1>1 DEF Served, GetDel, InvalidRefresh, IssueNext, TurnedAway, Taking, Refusing, IInv,
              TokensTypeOK, Calls
<1>3. \A d \in Calls : Presents(d) => call[d].auth.token \in 1..minted
  BY Numbers DEF Presents, Begun
<1>4. \A d \in Calls : Presents(d) /\ call[d].auth.token = p => d = c
  BY <1>1 DEF RefreshAlone
<1>5. CASE GetDel(c, p)
  <2>1. /\ live' = live \ {p} /\ p \in live /\ UNCHANGED root /\ req'[c].step = "taken"
        /\ Held' \subseteq Held \cup {p}
    BY <1>1, <1>5 DEF GetDel, Remaining, Taking, Held, IInv, TokensTypeOK
  <2>2. \A r : Over(r) => Over(r)'
    BY <2>1 DEF Over, Current
  <2> QED
    BY <1>1, <1>2, <1>4, <2>1, <2>2 DEF RefreshSafe, Presents
<1>6. CASE InvalidRefresh(c, p)
  <2>1. /\ UNCHANGED <<live, root>> /\ p \notin live
        /\ req[c].step = "none" /\ req'[c].step = "refused" /\ Held' \subseteq Held
    BY <1>1, <1>6 DEF InvalidRefresh, Refusing, Held, IInv, TokensTypeOK
  <2>2. \A r : Over(r) => Over(r)'
    BY <2>1 DEF Over, Current
  <2>3. Over(root[p])
    BY <1>1, <2>1 DEF RefreshSafe, Presents
  <2> QED
    BY <1>1, <1>2, <2>1, <2>2, <2>3 DEF RefreshSafe, Presents
<1>7. CASE IssueNext(c)
  <2>1. PICK o : o = req[c].token
    OBVIOUS
  <2>2. o \in Held /\ Mint(owner[o], root[o]) /\ req'[c].step = "granted"
    BY <1>1, <1>7, <2>1 DEF IssueNext, Held, IInv, TokensTypeOK
  <2>3. Held' \subseteq Held /\ live' = live \cup {minted + 1}
    BY <1>1, <1>7 DEF IssueNext, Mint, Held, IInv, TokensTypeOK
  <2>4. /\ minted \in Nat /\ \A q \in 1..minted : root'[q] = root[q]
    BY <2>2, MaxNat DEF Mint, IInv, TokensTypeOK, Tokens
  <2>5. \A q \in 1..minted : Over(root[q]) => Over(root[q])'
    BY <2>2, <2>3, OverStays DEF Current
  <2> SUFFICES ASSUME NEW d \in Calls, Presents(d),
                      ~(req'[d].step \in {"limited", "taken", "granted"}),
                      ~(req'[d].step = "none" /\ call[d].auth.token \in live')
               PROVE  Over(root[call[d].auth.token])'
    BY <1>1 DEF RefreshSafe, Over, Presents
  <2>6. Over(root[call[d].auth.token])
    BY <1>2, <2>2, <2>3 DEF RefreshSafe
  <2> QED
    BY <1>1, <1>3, <2>5, <2>6
<1>8. CASE TurnedAway(c)
  <2>1. UNCHANGED <<live, root>> /\ req'[c].step = "limited" /\ Held' \subseteq Held
    BY <1>1, <1>8 DEF TurnedAway, Held, IInv, TokensTypeOK
  <2>2. \A q : Over(q) => Over(q)'
    BY <2>1 DEF Over, Current
  <2> QED
    BY <1>1, <1>2, <2>1, <2>2 DEF RefreshSafe, Presents
<1> QED
  BY <1>1, <1>5, <1>6, <1>7, <1>8 DEF Served

\* Once nobody presents a token another is exchanging, a step keeps logins and calls in
\* agreement.
LEMMA RefreshStep ==
  ASSUME IInv, WebInv, CalmSafe, RefreshSafe, RefreshAlone, RefreshAlone', Faultless!Next
  PROVE  RefreshSafe'
<1>1. ASSUME NEW c \in Calls,
             \/ Accepted(c) \/ RateLimited(c) \/ Unauthorized(c) \/ UnauthorizedAgain(c)
             \/ Granted(c) \/ Denied(c)
      PROVE  RefreshSafe'
  <2>1. UNCHANGED <<live, root, req>>
    BY <1>1 DEF Accepted, RateLimited, Unauthorized, UnauthorizedAgain, Granted, Denied,
                tokenVars
  <2>2. /\ \A d \in Calls : d # c => call'[d] = call[d]
        /\ call'[c].auth = call[c].auth
        /\ Presents(c)' => Presents(c)
    BY <1>1 DEF Accepted, RateLimited, Unauthorized, UnauthorizedAgain, Granted, Denied, Step,
                WebInv, WebTypes, Presents
  <2> QED
    BY <2>1, <2>2, RefreshSame DEF Presents
<1>2. ASSUME NEW t \in Tabs, LogOut(t) PROVE RefreshSafe'
  BY <1>2, RefreshSame DEF LogOut, tokenVars, Presents
<1>3. ASSUME NEW p \in 1..minted, Expire(p) PROVE RefreshSafe'
  BY <1>3, RefreshSame DEF Expire, tokenVars, Presents
<1>4. CASE UNCHANGED vars
  BY <1>4, RefreshSame DEF vars, tokenVars, webVars, Presents
<1>5. ASSUME NEW p, RevokeFails(p) PROVE RefreshSafe'
  BY <1>5, RefreshSame DEF RevokeFails, tokenVars, Presents
<1> QED
  BY <1>1, <1>2, <1>3, <1>4, <1>5, FaultlessSteps, LoggedInRefresh, RevokeRefresh, SendRefresh,
     ServedRefresh

\* A refresh is denied only when the limiter turned that very request away or its login
\* has no token left, live or being exchanged.
TransparentUnlessLimited ==
  \A c \in Calls :
    call[c].step = "refreshing" /\ req[c].step \in Denials =>
      req[c].step = "limited" \/ Over(root[call[c].auth.token])

\* While nothing fails and no call is under way with a token that another call is
\* exchanging, a refresh is denied only when the limiter turned that very request away or
\* its login has no token left (src/web/lib/api.js:28-75, src/api/auth.go:163-200,
\* src/api/ratelimit.go:100-117).  The denials of a refresh whose login has a live token are
\* thus those of calls that overlap, which the run "concurrent" finds, and the limiter's.
\* Whom a denial logs out is another matter: Denied empties the tab whoever it shows by then.
THEOREM RefreshIsTransparent ==
  CalmSpec /\ []RefreshAlone => [](calm => TransparentUnlessLimited)
<1> DEFINE Inv == IInv /\ WebInv /\ IssuedOnly
           CalmInv == calm => CalmSafe /\ RefreshSafe
<1>1. CalmInit => CalmInv
  BY DEF CalmInit, Init, TokensInit, CalmSafe, NothingCut, TabsSafe, TabsApart, WaitingSafe,
         ShownIn, Begun, Waiting, NewCall, NewRequest, Calls, RefreshSafe, Presents
<1>2. Inv /\ CalmInv /\ RefreshAlone /\ RefreshAlone' /\ [CalmNext]_<<vars, calm>> => CalmInv'
  <2> SUFFICES ASSUME Inv, CalmInv, RefreshAlone, RefreshAlone',
                      [CalmNext]_<<vars, calm>>, calm'
               PROVE  CalmSafe' /\ RefreshSafe'
    OBVIOUS
  <2>1. CASE CalmNext
    BY <2>1, CalmStep, RefreshStep DEF CalmNext
  <2>2. CASE UNCHANGED <<vars, calm>>
    BY <2>2, CalmSame, RefreshSame DEF vars, tokenVars, webVars, Presents
  <2> QED
    BY <2>1, <2>2
<1>3. CalmSpec => []Inv
  <2>1. CalmInit => Init
    BY DEF CalmInit
  <2>2. [CalmNext]_<<vars, calm>> => [Next]_vars
    BY DEF CalmNext
  <2> QED
    BY <2>1, <2>2, SessionInductive, PTL DEF CalmSpec, Spec
<1>4. CalmInv => (calm => TransparentUnlessLimited)
  BY DEF TransparentUnlessLimited, Denials, RefreshSafe, Presents
<1> QED
  BY <1>1, <1>2, <1>3, <1>4, PTL DEF CalmSpec

=============================================================================
