--------------------------- MODULE RefreshTokens ---------------------------
(***************************************************************************)
(* Refresh tokens (src/api/auth.go): issued on login and registration,     *)
(* rotated by refresh, revoked by logout.  A token is a Redis key with a   *)
(* user for its value and a TTL; tokens are numbered as they are issued.   *)
(*                                                                         *)
(* A request to refresh is two calls to Redis, GETDEL of the old token and *)
(* SET of the new one, and others come between.  Either call may fail      *)
(* before or after it took effect, and the rate limiter may turn a request *)
(* away before its handler runs.  Passwords, proof of work and access      *)
(* tokens are left out: access tokens keep no state.                       *)
(***************************************************************************)
EXTENDS Naturals, FiniteSets

CONSTANTS Users, NoUser,
          Requests,     \* requests to refresh, each made at most once
          MaxTokens,    \* bound: tokens issued
          MaxLogins     \* bound: logins and registrations

\* A login issues one token and so does a refresh.
TokensAssumption ==
  /\ NoUser \notin Users
  /\ IsFiniteSet(Requests)
  /\ MaxTokens \in Nat /\ MaxLogins \in Nat
  /\ MaxLogins + Cardinality(Requests) <= MaxTokens

ASSUME TokensAssumption

Tokens == 1..MaxTokens

VARIABLES
  minted,  \* how many tokens have been issued
  live,    \* the tokens Redis has
  owner,   \* the user stored under a token
  root,    \* the login a token descends from, named by its first token (not stored)
  req      \* requests: the token presented, how far it is, the token issued

tokenVars == <<minted, live, owner, root, req>>

NewRequest == [step |-> "none", token |-> 0, new |-> 0]

TokensInit ==
  /\ minted = 0
  /\ live = {}
  /\ owner = [p \in Tokens |-> NoUser]
  /\ root = [p \in Tokens |-> 0]
  /\ req = [q \in Requests |-> NewRequest]

-----------------------------------------------------------------------------
(* issueTokens *)

\* SET refresh:<token> u: a new token of user u in the session that began with r.
Mint(u, r) ==
  /\ minted < MaxTokens
  /\ minted' = minted + 1
  /\ live' = live \union {minted + 1}
  /\ owner' = [owner EXCEPT ![minted + 1] = u]
  /\ root' = [root EXCEPT ![minted + 1] = r]

Logins == {p \in 1..minted : root[p] = p}

\* login or register; also one whose reply is lost.
Login(u) ==
  /\ Cardinality(Logins) < MaxLogins
  /\ Mint(u, minted + 1)
  /\ UNCHANGED req

-----------------------------------------------------------------------------
(* refresh *)

Taking(q, p) == req' = [req EXCEPT ![q] = [@ EXCEPT !.step = "taken", !.token = p]]
Refusing(q, p) == req' = [req EXCEPT ![q] = [@ EXCEPT !.step = "refused", !.token = p]]

\* Mutant of Remaining: GET, as before it was replaced by GETDEL.
RemainingAll(p) == live
\* What GETDEL leaves of the tokens.
Remaining(p) == live \ {p}

\* The rate limiter's middleware runs first: 429 rate_limited, and no handler.
TurnedAway(q) ==
  /\ req[q].step = "none"
  /\ req' = [req EXCEPT ![q] = [@ EXCEPT !.step = "limited"]]
  /\ UNCHANGED <<minted, live, owner, root>>

\* GETDEL returns the user of a live token and removes it.
GetDel(q, p) ==
  /\ req[q].step = "none"
  /\ p \in live
  /\ live' = Remaining(p)
  /\ Taking(q, p)
  /\ UNCHANGED <<minted, owner, root>>

\* redis.Nil: 401 invalid_refresh.
InvalidRefresh(q, p) ==
  /\ req[q].step = "none"
  /\ p \in 1..minted \ live
  /\ Refusing(q, p)
  /\ UNCHANGED <<minted, live, owner, root>>

\* GETDEL fails, having run or not: 503 auth_unavailable.
GetDelFails(q, p) ==
  /\ req[q].step = "none"
  /\ p \in 1..minted
  /\ live' \in {live, Remaining(p)}
  /\ Refusing(q, p)
  /\ UNCHANGED <<minted, owner, root>>

\* The new token is stored and sent.
IssueNext(q) ==
  /\ req[q].step = "taken"
  /\ Mint(owner[req[q].token], root[req[q].token])
  /\ req' = [req EXCEPT ![q] = [@ EXCEPT !.step = "granted", !.new = minted + 1]]

\* SET fails, having run or not: 500 token_error.  Also the end of the request by the
\* cancellation of its context or the death of the process.
IssueFails(q) ==
  /\ req[q].step = "taken"
  /\ Refusing(q, req[q].token)
  /\ \/ UNCHANGED <<minted, live, owner, root>>
     \/ Mint(owner[req[q].token], root[req[q].token])

-----------------------------------------------------------------------------

\* logout: DEL, whose error is ignored (then nothing happens).
Logout(p) ==
  /\ live' = live \ {p}
  /\ UNCHANGED <<minted, owner, root, req>>

\* The TTL of a token ends.
Lapse(p) ==
  /\ p \in live
  /\ live' = live \ {p}
  /\ UNCHANGED <<minted, owner, root, req>>

Refresh(q) ==
  \/ \E p \in 1..minted : GetDel(q, p) \/ InvalidRefresh(q, p) \/ GetDelFails(q, p)
  \/ IssueNext(q) \/ IssueFails(q) \/ TurnedAway(q)

\* The clients have nothing more to ask.
TokensRest ==
  /\ Cardinality(Logins) = MaxLogins /\ live = {}
  /\ \A q \in Requests : req[q].step \notin {"none", "taken"}
  /\ UNCHANGED tokenVars

TokensNext ==
  \/ \E u \in Users : Login(u)
  \/ \E q \in Requests : Refresh(q)
  \/ \E p \in 1..minted : Logout(p)
  \/ \E p \in live : Lapse(p)
  \/ TokensRest

TokensSpec == TokensInit /\ [][TokensNext]_tokenVars

-----------------------------------------------------------------------------
(* Properties *)

\* Every variable has its type; what is stored under a live token is a user.
TokensTypeOK ==
  /\ minted \in 0..MaxTokens
  /\ live \subseteq 1..minted
  /\ owner \in [Tokens -> Users \union {NoUser}]
  /\ root \in [Tokens -> 0..MaxTokens]
  /\ req \in [Requests -> [step : {"none", "limited", "taken", "granted", "refused"},
                           token : 0..MaxTokens, new : 0..MaxTokens]]
  /\ \A p \in 1..minted : owner[p] \in Users /\ root[p] \in 1..p

Held == {req[q].token : q \in {q \in Requests : req[q].step = "taken"}}

\* Two refreshes with one token are never both granted, whatever comes between
\* their GETDEL and their SET (src/api/auth.go, "only one caller wins").
SingleUse ==
  \A q1, q2 \in Requests :
    /\ req[q1].step = "granted" /\ req[q2].step = "granted"
    /\ req[q1].token = req[q2].token
    => q1 = q2

\* A login is worth one token at a time: of all the tokens that descend from it
\* at most one is live or is being exchanged (the rotation of refresh).
OneTokenPerLogin ==
  \A p1, p2 \in live \union Held : root[p1] = root[p2] => p1 = p2

\* A token that was exchanged is not accepted again, and neither is an older
\* token of its login (src/api/auth_test.go, "reusing rotated refresh token").
ExchangedIsDead ==
  \A q \in Requests : req[q].step = "granted" =>
    \A p \in live \union Held : root[p] = root[req[q].token] => p >= req[q].new

=============================================================================
