---------------------------- MODULE TokensProofs ----------------------------
(* Theorems of RefreshTokens, for any users, requests and bounds, with Redis *)
(* failing at any call.                                                    *)
EXTENDS RefreshTokens, TLAPS

\* A token is current while it is live or being exchanged.
Current == live \union Held

\* Who is exchanging a token is alone with it, and Redis no longer has it.
Exchanges ==
  \A q \in Requests : req[q].step = "taken" =>
    /\ req[q].token \in (1..minted) \ live
    /\ \A q2 \in Requests : req[q2].step = "taken" /\ req[q2].token = req[q].token => q2 = q

\* The token issued for another is younger and of the same login.
Successors ==
  \A q \in Requests : req[q].step = "granted" =>
    /\ req[q].token \in 1..minted /\ req[q].new \in 1..minted
    /\ req[q].token < req[q].new
    /\ root[req[q].new] = root[req[q].token]

IInv ==
  /\ TokensTypeOK
  /\ Exchanges /\ Successors
  /\ OneTokenPerLogin /\ ExchangedIsDead /\ SingleUse

-----------------------------------------------------------------------------

ReqType == [step : {"none", "limited", "taken", "granted", "refused"},
            token : 0..MaxTokens, new : 0..MaxTokens]

LEMMA MaxNat == MaxTokens \in Nat
  BY TokensAssumption DEF TokensAssumption

\* The tables start empty.
LEMMA InitIInv == TokensInit => IInv
  BY MaxNat DEF TokensInit, IInv, TokensTypeOK, Exchanges, Successors, OneTokenPerLogin,
    ExchangedIsDead, SingleUse, Held, NewRequest, Tokens

\* A step that only takes tokens out of Redis.
LEMMA Dropping ==
  ASSUME IInv, live' \subseteq live, UNCHANGED <<minted, owner, root, req>>
  PROVE  IInv'
  BY DEF IInv, TokensTypeOK, Exchanges, Successors, OneTokenPerLogin, ExchangedIsDead,
    SingleUse, Held

\* A new token of a login that has no current one, issued to no request.
LEMMA Minting ==
  ASSUME IInv, NEW u \in Users, NEW r \in 1..(minted + 1),
         Mint(u, r), UNCHANGED req,
         \A p \in Current : root[p] # r
  PROVE  IInv'
<1> USE MaxNat
<1>1. TokensTypeOK'
  BY DEF IInv, TokensTypeOK, Mint, Tokens
<1>2. Held' = Held /\ Held \subseteq 1..minted /\ minted' = minted + 1 /\ minted \in Nat
  BY DEF IInv, Exchanges, Mint, Held, TokensTypeOK
<1>3. \A p \in 1..minted : root'[p] = root[p]
  BY DEF IInv, TokensTypeOK, Mint, Tokens
<1>4. root'[minted + 1] = r
  BY DEF IInv, TokensTypeOK, Mint, Tokens
<1>5. live' = live \union {minted + 1} /\ live \subseteq 1..minted
  BY DEF IInv, TokensTypeOK, Mint
<1>6. Exchanges'
  BY <1>2, <1>5 DEF IInv, Exchanges
<1>7. Successors'
  BY <1>2, <1>3 DEF IInv, Successors
<1>8. OneTokenPerLogin'
  BY <1>2, <1>3, <1>4, <1>5 DEF IInv, OneTokenPerLogin, Current
<1>9. ExchangedIsDead'
  BY <1>2, <1>3, <1>4, <1>5 DEF IInv, ExchangedIsDead, Successors
<1> QED
  BY <1>1, <1>6, <1>7, <1>8, <1>9 DEF IInv, SingleUse

LEMMA LoginKeeps == ASSUME IInv, NEW u \in Users, Login(u) PROVE IInv'
<1>1. minted + 1 \in 1..(minted + 1)
  BY MaxNat DEF IInv, TokensTypeOK
<1>2. \A p \in Current : root[p] # minted + 1
  <2>1. Current \subseteq 1..minted
    BY DEF IInv, TokensTypeOK, Exchanges, Current, Held
  <2>2. \A p \in 1..minted : root[p] \in 1..p
    BY DEF IInv, TokensTypeOK
  <2> QED
    BY <2>1, <2>2, MaxNat DEF IInv, TokensTypeOK
<1> QED
  BY <1>1, <1>2, Minting DEF Login

LEMMA GetDelKeeps ==
  ASSUME IInv, NEW q \in Requests, NEW p \in 1..minted, GetDel(q, p)
  PROVE  IInv'
<1>1. TokensTypeOK'
  <2>1. p \in 0..MaxTokens /\ req[q] \in ReqType
    BY MaxNat DEF IInv, TokensTypeOK, ReqType
  <2>2. [req[q] EXCEPT !.step = "taken", !.token = p] \in ReqType
    BY <2>1 DEF ReqType
  <2> QED
    BY <2>2 DEF IInv, TokensTypeOK, ReqType, GetDel, Taking, Remaining
<1>2. Held' \subseteq Held \union {p} /\ live' = live \ {p} /\ p \in live
  BY DEF IInv, TokensTypeOK, GetDel, Taking, Remaining, Held
<1>3. Exchanges'
  BY DEF IInv, TokensTypeOK, Exchanges, GetDel, Taking, Remaining
<1>4. Successors' /\ SingleUse'
  BY DEF IInv, TokensTypeOK, Successors, SingleUse, GetDel, Taking
<1>5. OneTokenPerLogin'
  BY <1>2 DEF IInv, OneTokenPerLogin, GetDel
<1>6. ExchangedIsDead'
  BY <1>2 DEF IInv, TokensTypeOK, ExchangedIsDead, GetDel, Taking
<1> QED
  BY <1>1, <1>3, <1>4, <1>5, <1>6 DEF IInv

\* A refused request has no part in what is current.
LEMMA RefusingKeeps ==
  ASSUME IInv, NEW q \in Requests, NEW p \in 1..minted, req[q].step \in {"none", "taken"},
         Refusing(q, p), live' \subseteq live, UNCHANGED <<minted, owner, root>>
  PROVE  IInv'
<1>1. TokensTypeOK'
  <2>1. p \in 0..MaxTokens /\ req[q] \in ReqType
    BY MaxNat DEF IInv, TokensTypeOK, ReqType
  <2>2. [req[q] EXCEPT !.step = "refused", !.token = p] \in ReqType
    BY <2>1 DEF ReqType
  <2> QED
    BY <2>2 DEF IInv, TokensTypeOK, ReqType, Refusing
<1>2. Held' \subseteq Held
  BY DEF IInv, TokensTypeOK, Refusing, Held
<1>3. Exchanges' /\ Successors' /\ SingleUse'
  BY DEF IInv, TokensTypeOK, Exchanges, Successors, SingleUse, Refusing
<1>4. OneTokenPerLogin'
  BY <1>2 DEF IInv, OneTokenPerLogin
<1>5. ExchangedIsDead'
  BY <1>2 DEF IInv, TokensTypeOK, ExchangedIsDead, Refusing
<1> QED
  BY <1>1, <1>3, <1>4, <1>5 DEF IInv

LEMMA TurnedAwayKeeps ==
  ASSUME IInv, NEW q \in Requests, TurnedAway(q) PROVE IInv' /\ Held' = Held
<1>1. TokensTypeOK'
  <2>1. [req[q] EXCEPT !.step = "limited"] \in ReqType
    BY DEF IInv, TokensTypeOK, ReqType
  <2> QED
    BY <2>1 DEF IInv, TokensTypeOK, ReqType, TurnedAway
<1>2. Held' = Held
  BY DEF IInv, TokensTypeOK, TurnedAway, Held
<1>3. Exchanges' /\ Successors' /\ SingleUse'
  BY DEF IInv, TokensTypeOK, Exchanges, Successors, SingleUse, TurnedAway
<1>4. OneTokenPerLogin' /\ ExchangedIsDead'
  BY <1>2 DEF IInv, TokensTypeOK, OneTokenPerLogin, ExchangedIsDead, TurnedAway
<1> QED
  BY <1>1, <1>2, <1>3, <1>4 DEF IInv

\* The second half of refresh, granted or stored without a reply: the token that was
\* being exchanged goes, and its successor takes its place.
LEMMA SettingKeeps ==
  ASSUME IInv, NEW q \in Requests, req[q].step = "taken",
         Mint(owner[req[q].token], root[req[q].token]),
         \/ Refusing(q, req[q].token)
         \/ req' = [req EXCEPT ![q] = [@ EXCEPT !.step = "granted", !.new = minted + 1]]
  PROVE  IInv'
<1> USE MaxNat
<1> DEFINE t == req[q].token
<1>1. t \in (1..minted) \ live /\ t \in Held /\ minted \in Nat /\ minted' = minted + 1
  BY DEF IInv, TokensTypeOK, Exchanges, Held, Mint
<1>2. \A p \in 1..minted : root'[p] = root[p]
  BY DEF IInv, TokensTypeOK, Mint, Tokens
<1>3. root'[minted + 1] = root[t]
  BY DEF IInv, TokensTypeOK, Mint, Tokens
<1>4. live' = live \union {minted + 1} /\ live \subseteq 1..minted /\ Held \subseteq 1..minted
  BY DEF IInv, TokensTypeOK, Exchanges, Held, Mint
<1>5. Held' = Held \ {t}
  <2>1. \A q2 \in Requests : q2 # q => req'[q2] = req[q2]
    BY DEF IInv, TokensTypeOK, Refusing
  <2>2. req'[q].step # "taken"
    BY DEF IInv, TokensTypeOK, Refusing
  <2>3. \A q2 \in Requests : q2 # q /\ req[q2].step = "taken" => req[q2].token # t
    BY DEF IInv, Exchanges
  <2> QED
    BY <2>1, <2>2, <2>3 DEF Held
<1>6. TokensTypeOK'
  <2>1. owner[t] \in Users /\ root[t] \in 1..t
    BY <1>1 DEF IInv, TokensTypeOK
  <2>2. owner' \in [Tokens -> Users \union {NoUser}] /\ root' \in [Tokens -> 0..MaxTokens]
    <3>1. root[t] \in 0..MaxTokens
      BY <1>1, <2>1 DEF IInv, TokensTypeOK
    <3> QED
      BY <2>1, <3>1 DEF IInv, TokensTypeOK, Mint
  <2>3. req' \in [Requests -> [step : {"none", "limited", "taken", "granted", "refused"},
                              token : 0..MaxTokens, new : 0..MaxTokens]]
    <3>1. t \in 0..MaxTokens /\ minted + 1 \in 0..MaxTokens /\ req[q] \in ReqType
      BY <1>1 DEF IInv, TokensTypeOK, Mint, ReqType
    <3>2. /\ [req[q] EXCEPT !.step = "refused", !.token = t] \in ReqType
          /\ [req[q] EXCEPT !.step = "granted", !.new = minted + 1] \in ReqType
      BY <3>1 DEF ReqType
    <3> QED
      BY <3>2 DEF IInv, TokensTypeOK, ReqType, Refusing
  <2>4. \A p \in 1..minted' : owner'[p] \in Users /\ root'[p] \in 1..p
    BY <1>1, <2>1 DEF IInv, TokensTypeOK, Mint, Tokens
  <2> QED
    BY <1>1, <1>4, <2>2, <2>3, <2>4 DEF IInv, TokensTypeOK, Mint
<1>7. \A q2 \in Requests : q2 # q => req'[q2] = req[q2]
  BY DEF IInv, TokensTypeOK, Refusing
<1>8. /\ req'[q].step \in {"refused", "granted"}
      /\ req'[q].step = "granted" => req'[q].token = t /\ req'[q].new = minted + 1
  BY DEF IInv, TokensTypeOK, Refusing
\* What is current from now on is what was, but for t and its successor.
<1>9. \A p \in (live \union Held)' : p = minted + 1 \/ (p \in Current /\ p # t /\ root[p] # root[t])
  BY <1>1, <1>4, <1>5 DEF IInv, OneTokenPerLogin, Current
<1>10. OneTokenPerLogin'
  BY <1>1, <1>2, <1>3, <1>4, <1>9 DEF IInv, OneTokenPerLogin, Current
<1>11. Exchanges'
  BY <1>1, <1>4, <1>7, <1>8 DEF IInv, Exchanges
<1>12. Successors'
  BY <1>1, <1>2, <1>3, <1>7, <1>8 DEF IInv, Successors
<1>13. ExchangedIsDead'
  <2> SUFFICES ASSUME NEW q2 \in Requests, req'[q2].step = "granted",
                      NEW p \in (live \union Held)', root'[p] = root'[req'[q2].token]
               PROVE  p >= req'[q2].new
    BY DEF ExchangedIsDead
  <2>1. CASE q2 = q
    BY <1>1, <1>2, <1>4, <1>9, <1>8, <2>1 DEF Current
  <2>2. CASE q2 # q /\ p = minted + 1
    BY <1>1, <1>7, <2>2 DEF IInv, Successors
  <2>3. CASE q2 # q /\ p # minted + 1
    <3>1. req[q2].step = "granted" /\ req[q2].token \in 1..minted /\ p \in Current
      BY <1>9, <1>7, <2>3 DEF IInv, Successors
    <3>2. root[p] = root[req[q2].token]
      BY <1>2, <1>4, <1>7, <2>3, <3>1 DEF Current
    <3> QED
      BY <1>7, <2>3, <3>1, <3>2 DEF IInv, ExchangedIsDead, Current
  <2> QED
    BY <2>1, <2>2, <2>3
<1>14. SingleUse'
  <2>1. \A q2 \in Requests : req[q2].step = "granted" => req[q2].token # t
    BY <1>1 DEF IInv, ExchangedIsDead, Successors
  <2> QED
    BY <1>7, <1>8, <2>1 DEF IInv, SingleUse
<1> QED
  BY <1>6, <1>10, <1>11, <1>12, <1>13, <1>14 DEF IInv

LEMMA NextKeeps == IInv /\ [TokensNext]_tokenVars => IInv'
<1> SUFFICES ASSUME IInv, [TokensNext]_tokenVars PROVE IInv'
  OBVIOUS
<1>1. CASE UNCHANGED tokenVars
  BY <1>1, Dropping DEF tokenVars
<1>2. ASSUME NEW u \in Users, Login(u) PROVE IInv'
  BY <1>2, LoginKeeps
<1>3. ASSUME NEW q \in Requests, Refresh(q) PROVE IInv'
  <2>1. ASSUME NEW p \in 1..minted, GetDel(q, p) PROVE IInv'
    BY <2>1, GetDelKeeps
  <2>2. ASSUME NEW p \in 1..minted, InvalidRefresh(q, p) PROVE IInv'
    BY <2>2, RefusingKeeps DEF InvalidRefresh
  <2>3. CASE IssueNext(q)
    BY <2>3, SettingKeeps DEF IssueNext
  <2>4. ASSUME NEW p \in 1..minted, GetDelFails(q, p) PROVE IInv'
    BY <2>4, RefusingKeeps DEF GetDelFails, Remaining
  <2>5. CASE IssueFails(q)
    <3>1. req[q].token \in 1..minted
      BY <2>5 DEF IInv, Exchanges, IssueFails
    <3> QED
      BY <2>5, <3>1, RefusingKeeps, SettingKeeps DEF IssueFails
  <2>6. CASE TurnedAway(q)
    BY <2>6, TurnedAwayKeeps
  <2> QED
    BY <1>3, <2>1, <2>2, <2>3, <2>4, <2>5, <2>6 DEF Refresh
<1>4. ASSUME NEW p \in 1..minted, Logout(p) PROVE IInv'
  BY <1>4, Dropping DEF Logout
<1>5. ASSUME NEW p \in live, Lapse(p) PROVE IInv'
  BY <1>5, Dropping DEF Lapse
<1>6. CASE TokensRest
  BY <1>6, Dropping DEF TokensRest, tokenVars
<1> QED
  BY <1>1, <1>2, <1>3, <1>4, <1>5, <1>6 DEF TokensNext

LEMMA TokensInductive == TokensSpec => []IInv
  BY InitIInv, NextKeeps, PTL DEF TokensSpec

\* Variables keep their types, and a live token has a user.
THEOREM TokensTyped == TokensSpec => []TokensTypeOK
<1>1. IInv => TokensTypeOK
  BY DEF IInv
<1> QED
  BY <1>1, TokensInductive, PTL

\* Of two refreshes with one token at most one is granted.
THEOREM OnlyOneWins == TokensSpec => []SingleUse
<1>1. IInv => SingleUse
  BY DEF IInv
<1> QED
  BY <1>1, TokensInductive, PTL

\* A login never has two tokens that can be exchanged.
THEOREM OneTokenAtATime == TokensSpec => []OneTokenPerLogin
<1>1. IInv => OneTokenPerLogin
  BY DEF IInv
<1> QED
  BY <1>1, TokensInductive, PTL

\* An exchanged token, and whatever is older of its login, is dead.
THEOREM NoWayBack == TokensSpec => []ExchangedIsDead
<1>1. IInv => ExchangedIsDead
  BY DEF IInv
<1> QED
  BY <1>1, TokensInductive, PTL

\* A token that is neither live nor being exchanged.
Dead(p) == p \in 1..minted /\ p \notin Current

LEMMA DeadStep ==
  ASSUME NEW p, IInv, Dead(p), [TokensNext]_tokenVars PROVE Dead(p)'
<1>0. minted \in Nat /\ p \in 1..minted /\ p \notin live
  BY MaxNat DEF IInv, TokensTypeOK, Dead, Current
<1>1. ASSUME NEW u, NEW r, Mint(u, r)
      PROVE  p \in 1..minted' /\ p \notin live'
  <2>1. minted' = minted + 1 /\ live' = live \cup {minted + 1}
    BY <1>1 DEF Mint
  <2> QED
    BY <1>0, <2>1
<1>2. ASSUME NEW u \in Users, Login(u) PROVE Dead(p)'
  BY <1>1, <1>2 DEF Login, Dead, Current, Held
<1>3. ASSUME p \in 1..minted', p \notin live', Held' \subseteq Held \cup live PROVE Dead(p)'
  BY <1>0, <1>3 DEF Dead, Current
<1>4. ASSUME NEW q \in Requests, NEW o \in 1..minted, GetDel(q, o) PROVE Dead(p)'
  <2>1. live' = live \ {o} /\ minted' = minted /\ o \in live
    BY <1>4 DEF GetDel, Remaining
  <2>2. Held' \subseteq Held \cup {o}
    BY <1>4 DEF GetDel, Taking, Held, IInv, TokensTypeOK
  <2> QED
    BY <1>0, <1>3, <2>1, <2>2
<1>5. ASSUME NEW q \in Requests, NEW o, Refusing(q, o) PROVE Held' \subseteq Held
  BY <1>5 DEF Refusing, Held, IInv, TokensTypeOK
<1>6. ASSUME NEW q \in Requests, NEW o \in 1..minted,
             InvalidRefresh(q, o) \/ GetDelFails(q, o)
      PROVE  Dead(p)'
  <2>1. live' \subseteq live /\ minted' = minted /\ Refusing(q, o)
    BY <1>6 DEF InvalidRefresh, GetDelFails, Remaining
  <2> QED
    BY <1>0, <1>3, <1>5, <2>1
<1>7. ASSUME NEW q \in Requests, IssueNext(q) PROVE Dead(p)'
  <2>1. p \in 1..minted' /\ p \notin live'
    BY <1>1, <1>7 DEF IssueNext
  <2>2. Held' \subseteq Held
    BY <1>7 DEF IssueNext, Held, IInv, TokensTypeOK
  <2> QED
    BY <1>3, <2>1, <2>2
<1>8. ASSUME NEW q \in Requests, IssueFails(q) PROVE Dead(p)'
  <2>1. p \in 1..minted' /\ p \notin live'
    BY <1>0, <1>1, <1>8 DEF IssueFails
  <2>2. Refusing(q, req[q].token)
    BY <1>8 DEF IssueFails
  <2> QED
    BY <1>3, <1>5, <2>1, <2>2
<1>9. ASSUME NEW o, Logout(o) \/ Lapse(o) PROVE Dead(p)'
  BY <1>9 DEF Logout, Lapse, Dead, Current, Held
<1>10. CASE TokensRest \/ UNCHANGED tokenVars
  BY <1>10 DEF TokensRest, tokenVars, Dead, Current, Held
<1>11. ASSUME NEW q \in Requests, TurnedAway(q) PROVE Dead(p)'
  BY <1>0, <1>3, <1>11, TurnedAwayKeeps DEF TurnedAway
<1> QED
  BY <1>2, <1>4, <1>6, <1>7, <1>8, <1>9, <1>10, <1>11 DEF TokensNext, Refresh

\* A token that was exchanged, revoked or has lapsed is never accepted again, nor is one
\* whose exchange failed half way (src/api/auth.go:163-200).
THEOREM DeadForEver ==
  ASSUME NEW p PROVE TokensSpec => [](Dead(p) => []Dead(p))
<1>1. IInv /\ Dead(p) /\ [TokensNext]_tokenVars => Dead(p)'
  BY DeadStep
<1> QED
  BY <1>1, TokensInductive, PTL DEF TokensSpec

=============================================================================
