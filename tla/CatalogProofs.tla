----------------------------- MODULE CatalogProofs -----------------------------
(* Theorems of Accounts and of Catalog, which runs over it, for every value of *)
(* their constants.                                                            *)
EXTENDS Catalog, TLAPS

USE AccountsAssumption

-----------------------------------------------------------------------------
(* Types *)

\* Every variable starts with its type.
LEMMA TypedInit == AccountsInit => AccountsTypeOK
  BY DEF AccountsInit, AccountsTypeOK, Steps, Codes

\* Every step of a submission, of Redis and of the bootstrap keeps the types.
LEMMA TypedStep ==
  ASSUME AccountsTypeOK, [AccountsNext]_accountVars PROVE AccountsTypeOK'
<1> USE DEF AccountsTypeOK, Steps, Codes, powVars, subVars, Goto, Answer
<1>1. ASSUME NEW r \in Subs, Submit(r) PROVE AccountsTypeOK'
  BY <1>1 DEF Submit
<1>2. ASSUME NEW r \in Subs, NEW q \in Subs, Repeat(r, q) PROVE AccountsTypeOK'
  BY <1>2 DEF Repeat
<1>3. ASSUME NEW r \in Subs, Solve(r) PROVE AccountsTypeOK'
  <2>1. proof[r] \in 1..minted
    BY <1>3 DEF Solve
  <2>2. solved' \subseteq 1..minted
    BY <1>3, <2>1 DEF Solve
  <2> QED
    BY <1>3, <2>2 DEF Solve
<1>4. ASSUME NEW r \in Subs, PowRequired(r) PROVE AccountsTypeOK'
  <2>1. /\ minted' = minted + 1 /\ minted + 1 \in 1..MaxChallenges
        /\ proof' = [proof EXCEPT ![r] = minted + 1]
        /\ step' = [step EXCEPT ![r] = "solve"] /\ step[r] = "check"
        /\ UNCHANGED <<users, solved, form, got, tries, resp>>
    BY <1>4 DEF PowRequired
  <2>2. fresh' \subseteq 1..minted' /\ solved' \subseteq 1..minted'
    <3>1. fresh' \subseteq fresh \cup {minted + 1}
      BY <1>4 DEF PowRequired
    <3>2. \A c \in 1..minted : c \in 1..(minted + 1)
      OBVIOUS
    <3> QED
      BY <2>1, <3>1, <3>2
  <2>3. proof' \in [Subs -> 0..minted']
    BY <2>1
  <2>4. minted' \in 0..MaxChallenges /\ step' \in [Subs -> Steps]
    BY <2>1
  <2>5. \A q \in Subs :
          /\ step'[q] # "idle" => form'[q] # Nobody
          /\ step'[q] = "idle" => proof'[q] = 0
          /\ step'[q] = "solve" => proof'[q] # 0
          /\ step'[q] = "compare" => got'[q] # Nobody /\ form'[q].mode = "login"
          /\ resp'[q] # "none" <=> step'[q] = "ended"
    BY <2>1
  <2> QED
    BY <2>1, <2>2, <2>3, <2>4, <2>5
<1>5. ASSUME NEW r \in Subs, PowPassed(r) PROVE AccountsTypeOK'
  BY <1>5 DEF PowPassed, Consumed
<1>6. ASSUME NEW r \in Subs, PowInvalid(r) PROVE AccountsTypeOK'
  BY <1>6 DEF PowInvalid, Consumed
<1>7. ASSUME NEW r \in Subs, Register(r) PROVE AccountsTypeOK'
  <2>1. form[r] \in Form
    BY <1>7 DEF Register
  <2>a. [password |-> form[r].password, admin |-> FALSE] \in Row
    BY <2>1 DEF Row, Form
  <2>2. users' \in [Emails -> Row \cup {Nobody}]
    BY <1>7, <2>a DEF Register
  <2>3. \/ step' = [step EXCEPT ![r] = "tokens"] /\ UNCHANGED resp
        \/ /\ step' = [step EXCEPT ![r] = "ended"]
           /\ \E code \in Codes \ {"none"} : resp' = [resp EXCEPT ![r] = code]
    BY <1>7 DEF Register
  <2>4. step[r] = "row" /\ UNCHANGED <<powVars, form, proof, got, tries>>
    BY <1>7 DEF Register
  <2> QED
    BY <2>2, <2>3, <2>4
<1>8. ASSUME NEW r \in Subs, ReadUser(r) PROVE AccountsTypeOK'
  <2>1. form[r] \in Form
    BY <1>8 DEF ReadUser
  <2>2. users[form[r].email] \in Row \cup {Nobody}
    BY <2>1 DEF Form
  <2>3. \/ /\ step' = [step EXCEPT ![r] = "compare"] /\ UNCHANGED resp
           /\ \E row \in Row : got' = [got EXCEPT ![r] = row]
        \/ /\ step' = [step EXCEPT ![r] = "ended"] /\ UNCHANGED got
           /\ \E code \in Codes \ {"none"} : resp' = [resp EXCEPT ![r] = code]
    BY <1>8, <2>2 DEF ReadUser
  <2>4. /\ step[r] = "row" /\ form[r].mode = "login"
        /\ UNCHANGED <<users, powVars, form, proof, tries>>
    BY <1>8 DEF ReadUser
  <2> QED
    BY <2>3, <2>4
<1>9. ASSUME NEW r \in Subs, Compare(r) \/ IssueTokens(r) PROVE AccountsTypeOK'
  <2>1. \/ step' = [step EXCEPT ![r] = "tokens"] /\ UNCHANGED resp
        \/ /\ step' = [step EXCEPT ![r] = "ended"]
           /\ \E code \in Codes \ {"none"} : resp' = [resp EXCEPT ![r] = code]
    BY <1>9 DEF Compare, IssueTokens
  <2>2. /\ step[r] \in {"compare", "tokens"}
        /\ UNCHANGED <<users, powVars, form, proof, got, tries>>
    BY <1>9 DEF Compare, IssueTokens
  <2> QED
    BY <2>1, <2>2
<1>10. ASSUME NEW c \in fresh, Lapse(c) PROVE AccountsTypeOK'
  BY <1>10 DEF Lapse
<1>11. CASE EnsureAdmin \/ Restart
  <2>1. AdminRow \in Row
    BY DEF AdminRow, Row
  <2>2. users' \in [Emails -> Row \cup {Nobody}]
    BY <1>11, <2>1 DEF EnsureAdmin, Restart, Upserted
  <2>3. tries' \in 0..MaxTries \cup {Nobody}
    BY <1>11 DEF EnsureAdmin, Restart
  <2> QED
    BY <1>11, <2>2, <2>3 DEF EnsureAdmin, Restart
<1>12. CASE UNCHANGED accountVars
  BY <1>12 DEF accountVars
<1> QED
  BY <1>1, <1>2, <1>3, <1>4, <1>5, <1>6, <1>7, <1>8, <1>9, <1>10, <1>11, <1>12
  DEF AccountsNext, Submission, CheckPoW

\* Every variable of the accounts has its type, at every step of a submission.
THEOREM AccountsTyped == AccountsSpec => []AccountsTypeOK
  BY TypedInit, TypedStep, PTL DEF AccountsSpec

-----------------------------------------------------------------------------
(* The challenges *)

\* Who has got past checkPoW has a solved challenge, consumed, and of one's own.
LEMMA WorkStep ==
  ASSUME AccountsTypeOK, WorkPerSubmission, [AccountsNext]_accountVars
  PROVE  WorkPerSubmission'
<1> SUFFICES ASSUME PowOn, NEW r \in Subs, NEW q \in Subs, Passed(r)'
             PROVE  /\ proof'[r] \in solved' /\ proof'[r] \notin fresh'
                    /\ Passed(q)' /\ proof'[q] = proof'[r] => q = r
  BY DEF WorkPerSubmission
<1> USE DEF AccountsTypeOK, Passed, WorkPerSubmission, powVars, subVars, Goto, Answer
<1> DEFINE Goal == /\ proof'[r] \in solved' /\ proof'[r] \notin fresh'
                   /\ Passed(q)' /\ proof'[q] = proof'[r] => q = r
<1>1. ASSUME NEW x \in Subs, Submit(x) PROVE Goal
  BY <1>1 DEF Submit
<1>2. ASSUME NEW x \in Subs, NEW y \in Subs, Repeat(x, y) PROVE Goal
  BY <1>2 DEF Repeat
<1>3. ASSUME NEW x \in Subs, Solve(x) PROVE Goal
  BY <1>3 DEF Solve
<1>4. ASSUME NEW x \in Subs, PowRequired(x) PROVE Goal
  BY <1>4 DEF PowRequired
<1>5. ASSUME NEW x \in Subs, PowPassed(x) PROVE Goal
  BY <1>5 DEF PowPassed, Consumed
<1>6. ASSUME NEW x \in Subs, PowInvalid(x) PROVE Goal
  BY <1>6 DEF PowInvalid, Consumed
<1>7. ASSUME NEW x \in Subs, Register(x) PROVE Goal
  BY <1>7 DEF Register
<1>8. ASSUME NEW x \in Subs, ReadUser(x) \/ Compare(x) \/ IssueTokens(x) PROVE Goal
  BY <1>8 DEF ReadUser, Compare, IssueTokens
<1>9. ASSUME NEW c \in fresh, Lapse(c) PROVE Goal
  BY <1>9 DEF Lapse
<1>10. CASE EnsureAdmin \/ Restart \/ UNCHANGED accountVars
  BY <1>10 DEF EnsureAdmin, Restart, accountVars
<1> QED
  BY <1>1, <1>2, <1>3, <1>4, <1>5, <1>6, <1>7, <1>8, <1>9, <1>10
  DEF AccountsNext, Submission, CheckPoW

\* GETDEL hands a challenge to one request: no proof of work is used twice, and nobody
\* gets to the table users without one (src/api/pow.go:69-76).
THEOREM WorkIsDone == AccountsSpec => []WorkPerSubmission
<1>1. AccountsInit => WorkPerSubmission
  BY DEF AccountsInit, WorkPerSubmission, Passed
<1> QED
  BY <1>1, WorkStep, AccountsTyped, PTL DEF AccountsSpec

-----------------------------------------------------------------------------
(* The accounts *)

\* A step that lets nobody in, writes no row and does not start the bootstrap again.
LEMMA StandAlone ==
  ASSUME AccountsStand, UNCHANGED users, tries' = tries \/ tries' # Nobody,
         \A q \in Subs : Registered(q)' => Registered(q) /\ form'[q] = form[q]
  PROVE  AccountsStand'
<1>1. OneAccountPerEmail'
  BY DEF AccountsStand, OneAccountPerEmail
<1>2. AdminIsConfigured'
  BY DEF AccountsStand, AdminIsConfigured
<1> QED
  BY <1>1, <1>2 DEF AccountsStand

\* The unique index lets one of two registrations in.
LEMMA RegisterStands ==
  ASSUME AccountsTypeOK, AccountsStand, NEW x \in Subs, Register(x)
  PROVE  AccountsStand'
<1> USE DEF AccountsTypeOK
<1>1. form[x] \in Form /\ form[x].email \in Emails /\ form[x].password \in Passwords
  BY DEF Register, Form
<1>2. \A q \in Subs : Registered(q)' => q = x \/ Registered(q)
  BY DEF Register, Registered, Goto, Answer
<1>3. UNCHANGED <<form, tries>>
  BY DEF Register
<1>4. step[x] = "row" /\ resp[x] = "none"
  BY DEF Register
<1>5. CASE UNCHANGED users
  <2>1. [password |-> form[x].password, admin |-> FALSE] \in Row
    BY <1>1 DEF Row
  <2>2. users' # [users EXCEPT ![form[x].email] =
                    [password |-> form[x].password, admin |-> FALSE]]
        \/ ~EmailFree(form[x].email)
    BY <1>1, <1>5, <2>1 DEF EmailFree
  <2>3. step'[x] = "ended" /\ resp'[x] # "ok"
    BY <2>2 DEF Register, Answer
  <2>4. ~Registered(x)'
    BY <2>3 DEF Registered
  <2> QED
    BY <1>2, <1>3, <1>5, <2>4, StandAlone
<1>6. CASE /\ users[form[x].email] = Nobody
           /\ users' = [users EXCEPT ![form[x].email] =
                          [password |-> form[x].password, admin |-> FALSE]]
  <2>1. \A q \in Subs : Registered(q) => form[q].email # form[x].email
    <3>1. ASSUME NEW q \in Subs, Registered(q) PROVE users[form[q].email] # Nobody
      <4>1. users[form[q].email] \in {AdminRow, [password |-> form[q].password, admin |-> FALSE]}
        BY <3>1 DEF AccountsStand, OneAccountPerEmail
      <4>2. form[q] \in Form
        BY <3>1 DEF Registered
      <4>3. users[form[q].email] \in Row
        <5>1. AdminRow \in Row
          BY DEF AdminRow, Row
        <5>2. [password |-> form[q].password, admin |-> FALSE] \in Row
          BY <4>2 DEF Row, Form
        <5> QED
          BY <4>1, <5>1, <5>2
      <4> QED
        BY <4>3
    <3> QED
      BY <1>6, <3>1
  <2>2. \A q \in Subs : Registered(q) => users'[form[q].email] = users[form[q].email]
    BY <1>6, <2>1
  <2>3. users'[form[x].email] = [password |-> form[x].password, admin |-> FALSE]
    BY <1>1, <1>6
  <2>4. OneAccountPerEmail'
    BY <1>2, <1>3, <2>1, <2>2, <2>3 DEF AccountsStand, OneAccountPerEmail
  <2>5. tries = Nobody => form[x].email # AdminEmail
    <3>1. AdminRow \in Row
      BY DEF AdminRow, Row
    <3> QED
      BY <1>6, <3>1 DEF AccountsStand, AdminIsConfigured
  <2>6. ASSUME NEW e \in Emails, users'[e] # Nobody, users'[e].admin PROVE e = AdminEmail
    BY <1>1, <1>6, <2>6 DEF AccountsStand, AdminIsConfigured
  <2>7. AdminIsConfigured'
    BY <1>3, <1>6, <2>5, <2>6 DEF AccountsStand, AdminIsConfigured
  <2> QED
    BY <2>4, <2>7 DEF AccountsStand
<1> QED
  BY <1>5, <1>6 DEF Register, EmailFree

\* The bootstrap writes the administrator's row and no other.
LEMMA BootstrapStands ==
  ASSUME AccountsTypeOK, AccountsStand, EnsureAdmin PROVE AccountsStand'
<1> USE DEF AccountsTypeOK
<1>1. UNCHANGED <<form, step, resp>>
  BY DEF EnsureAdmin, subVars
<1>2. CASE users' = Upserted
  <2>1. \A e \in Emails : users'[e] = IF e = AdminEmail THEN AdminRow ELSE users[e]
    BY <1>2 DEF Upserted
  <2>2. \A q \in Subs : Registered(q) => form[q] \in Form /\ form[q].email \in Emails
    BY DEF Registered, Form
  <2>3. OneAccountPerEmail'
    <3> HIDE DEF AccountsTypeOK
    <3>1. \A q \in Subs : Registered(q)' <=> Registered(q)
      BY <1>1 DEF Registered
    <3>2. SUFFICES ASSUME NEW r \in Subs, Registered(r)
                   PROVE  /\ users'[form[r].email] \in
                               {AdminRow, [password |-> form[r].password, admin |-> FALSE]}
                          /\ \A q \in Subs : Registered(q) /\ form[r].email = form[q].email
                                              => r = q
      BY <1>1, <3>1 DEF OneAccountPerEmail
    <3>3. /\ users[form[r].email] \in
               {AdminRow, [password |-> form[r].password, admin |-> FALSE]}
          /\ \A q \in Subs : Registered(q) /\ form[r].email = form[q].email => r = q
      BY <3>2 DEF AccountsStand, OneAccountPerEmail
    <3>4. users'[form[r].email] \in {AdminRow, users[form[r].email]}
      BY <2>1, <2>2, <3>2
    <3> QED
      BY <3>3, <3>4
  <2>4. AdminIsConfigured'
    BY <2>1 DEF AccountsStand, AdminIsConfigured
  <2> QED
    BY <2>3, <2>4 DEF AccountsStand
<1>3. CASE UNCHANGED users /\ tries' = tries + 1
  <2>1. tries' # Nobody
    BY <1>3 DEF EnsureAdmin
  <2> QED
    BY <1>1, <1>3, <2>1, StandAlone DEF Registered
<1> QED
  BY <1>2, <1>3 DEF EnsureAdmin

\* Of two registrations of an email one is let in, and the bootstrap's row is never
\* replaced.
LEMMA StandStep ==
  ASSUME AccountsTypeOK, AccountsStand, [AccountsNext]_accountVars PROVE AccountsStand'
<1> USE DEF powVars, subVars, Goto, Answer
<1>1. ASSUME NEW x \in Subs,
             Submit(x) \/ Solve(x) \/ CheckPoW(x) \/ (\E y \in Subs : Repeat(x, y))
      PROVE  AccountsStand'
  <2>1. \A q \in Subs : Registered(q)' => Registered(q) /\ form'[q] = form[q]
    BY <1>1 DEF Submit, Solve, CheckPoW, PowRequired, PowPassed, PowInvalid, Repeat,
                Registered, AccountsTypeOK
  <2>2. UNCHANGED <<users, tries>>
    BY <1>1 DEF Submit, Solve, CheckPoW, PowRequired, PowPassed, PowInvalid, Repeat
  <2> QED
    BY <2>1, <2>2, StandAlone
<1>2. ASSUME NEW x \in Subs, ReadUser(x) \/ Compare(x) \/ IssueTokens(x)
      PROVE  AccountsStand'
  <2>1. \A q \in Subs : Registered(q)' => Registered(q)
    BY <1>2 DEF ReadUser, Compare, IssueTokens, Registered, AccountsTypeOK
  <2>2. UNCHANGED <<users, form, tries>>
    BY <1>2 DEF ReadUser, Compare, IssueTokens
  <2> QED
    BY <2>1, <2>2, StandAlone
<1>3. ASSUME NEW c \in fresh, Lapse(c) PROVE AccountsStand'
  BY <1>3, StandAlone DEF Lapse, Registered
<1>4. CASE Restart \/ UNCHANGED accountVars
  BY <1>4, StandAlone DEF Restart, accountVars, Registered
<1> QED
  BY <1>1, <1>2, <1>3, <1>4, RegisterStands, BootstrapStands DEF AccountsNext, Submission

\* However registrations, logins and the bootstrap's attempts overlap, an email has one
\* account, and the administrator's is as configured (src/api/auth.go:100-111,
\* src/api/admin.go:24-36).
THEOREM AccountsKept == AccountsSpec => []AccountsStand
<1>1. AccountsInit => AccountsStand
  BY DEF AccountsInit, AccountsStand, OneAccountPerEmail, AdminIsConfigured, Registered
<1> QED
  BY <1>1, StandStep, AccountsTyped, PTL DEF AccountsSpec

-----------------------------------------------------------------------------
(* The catalog over the accounts *)

USE CatalogAssumption

\* A call changes no account.
LEMMA AccountsStep ==
  ASSUME [CatalogNext]_<<accountVars, catalogVars>> PROVE [AccountsNext]_accountVars
<1>1. ASSUME NEW c \in Calls, Call(c) PROVE UNCHANGED accountVars
  BY <1>1 DEF Call, AdminAuth, InsertShow, CommitShow, PatchShow
<1>2. ASSUME NEW e \in DOMAIN shows, NEW p \in DOMAIN seats[e], Sell(e, p)
      PROVE  UNCHANGED accountVars
  BY <1>2 DEF Sell
<1> QED
  BY <1>1, <1>2 DEF CatalogNext

\* What is proved of Accounts holds under the calls of the administrator.
THEOREM CatalogIsAccounts == CatalogSpec => AccountsSpec
<1>1. CatalogInit => AccountsInit
  BY DEF CatalogInit
<1> QED
  BY <1>1, AccountsStep, PTL DEF CatalogSpec, AccountsSpec

-----------------------------------------------------------------------------
(* The inductive invariant *)

\* An open transaction is a creation's whose body was accepted.
OpenValid == \A c \in Open : ask[c] \in Create /\ ValidShow(ask[c])

\* Two open transactions do not insert one id.
IdsApart == \A c, d \in Open : tx[c].id = tx[d].id => c = d

\* The series of a new production is in no other row and in no request.
NewSeries ==
  \A c \in Open : ask[c].series = Null /\ tx[c].series # Null =>
    /\ \A e \in DOMAIN shows : shows[e].series # tx[c].series
    /\ \A d \in Open : tx[d].series = tx[c].series => d = c
    /\ \A d \in Asking("create") : ask[d].series # tx[c].series

\* A round agrees with those its production has by now, and has no name if it has none.
Joins ==
  \A c \in Open : ask[c].series # Null =>
    /\ tx[c].series = ask[c].series
    /\ \A e \in Rounds(ask[c]) : /\ tx[c].series_name = shows[e].series_name
                                 /\ tx[c].venue = shows[e].venue
    /\ Rounds(ask[c]) = {} => tx[c].series_name = Null /\ tx[c].venue = Null

TypesOfShows ==
  /\ DOMAIN shows \subseteq Uuids /\ DOMAIN seats = DOMAIN shows
  /\ \A e \in DOMAIN shows :
       /\ shows[e] \in Show /\ shows[e].id = e
       /\ DOMAIN seats[e] # {} /\ \A p \in DOMAIN seats[e] : seats[e][p] \in Seat

TypesOfCalls ==
  /\ ask \in [Calls -> Create \cup Patch \cup {Null}]
  /\ tx \in [Calls -> Show \cup {Null}]
  /\ at \in [Calls -> {"idle", "body", "rows", "ended"}]
  /\ told \in [Calls -> {"none", "admin_only", "bad_request", "db_error", "created",
                         "updated", "event_not_found"}]
  /\ \A c \in Calls :
       /\ at[c] \in {"body", "rows"} => ask[c] # Null
       /\ at[c] = "rows" <=> tx[c] # Null
       /\ told[c] # "none" <=> at[c] = "ended"

IdsFree == \A c \in Open : tx[c].id \notin DOMAIN shows

CatInv == /\ TypesOfShows /\ TypesOfCalls /\ IdsFree /\ OpenValid
          /\ IdsApart /\ NewSeries /\ Joins /\ SeriesConsistent

\* It holds of the seed, before any call.
LEMMA CatInvInit == CatalogInit => CatInv
<1> SUFFICES ASSUME CatalogInit PROVE CatInv
  OBVIOUS
<1> USE DEF CatalogInit
<1>1. TypesOfShows
  BY DEF TypesOfShows, Show
<1>2. TypesOfCalls
  BY DEF TypesOfCalls
<1>3. Open = {}
  BY DEF Open
<1>4. IdsFree /\ OpenValid /\ IdsApart /\ NewSeries /\ Joins
  BY <1>3 DEF IdsFree, OpenValid, IdsApart, NewSeries, Joins
<1>5. SeriesConsistent
  BY DEF SeriesConsistent
<1> QED
  BY <1>1, <1>2, <1>4, <1>5 DEF CatInv

-----------------------------------------------------------------------------
(* The steps *)

\* A drawn id is new.
LEMMA DrawIsFresh ==
  ASSUME NEW id, id = Draw(Fresh), Fresh \ {id} # {}, NEW s, s = Draw(Fresh \ {id})
  PROVE  id \in Fresh /\ s \in Fresh /\ s # id
  BY DEF Draw

\* adminAuth opens no transaction, and nobody names what an open one has drawn.
LEMMA AuthStep == ASSUME CatInv, NEW c \in Calls, AdminAuth(c) PROVE CatInv'
<1> USE DEF CatInv, TypesOfCalls, Reached, Told, showVars
<1>1. UNCHANGED <<shows, seats, tx>> /\ tx[c] = Null
  BY DEF AdminAuth
<1>2. \/ UNCHANGED ask
      \/ \E b \in Create \cup Patch : Known(b) /\ ask' = [ask EXCEPT ![c] = b]
  BY DEF AdminAuth
<1>3. TypesOfCalls'
  BY DEF AdminAuth
<1>4. Open' = Open /\ c \notin Open /\ \A d \in Open : ask'[d] = ask[d]
  BY <1>1, <1>2 DEF Open
<1>5. TypesOfShows' /\ IdsFree' /\ OpenValid' /\ IdsApart' /\ SeriesConsistent'
  BY <1>1, <1>4 DEF TypesOfShows, IdsFree, OpenValid, IdsApart, SeriesConsistent, Open
<1>6. Joins'
  BY <1>1, <1>4 DEF Joins, Rounds
<1>7. NewSeries'
  <2> SUFFICES ASSUME NEW d \in Open, ask[d].series = Null, tx[d].series # Null,
                      NEW q \in Asking("create")'
               PROVE  ask'[q].series # tx[d].series
    BY <1>1, <1>4 DEF NewSeries
  <2>1. CASE ask'[q] = ask[q]
    BY <2>1 DEF NewSeries, Asking
  <2>2. CASE q = c /\ Known(ask'[q])
    <3>1. tx[d].series \in Drawn \ {Null}
      BY DEF Drawn
    <3> QED
      BY <2>2, <3>1 DEF Known, Asking
  <2> QED
    BY <1>2, <2>1, <2>2 DEF Asking
<1> QED
  BY <1>3, <1>5, <1>6, <1>7

\* A call that ends without a commit.
LEMMA EndStep ==
  ASSUME CatInv, NEW c \in Calls, UNCHANGED <<shows, seats, ask>>,
         tx' = [tx EXCEPT ![c] = Null], at' = [at EXCEPT ![c] = "ended"],
         NEW code \in {"admin_only", "bad_request", "db_error", "created", "updated",
                       "event_not_found"},
         told' = [told EXCEPT ![c] = code]
  PROVE  CatInv'
<1> USE DEF CatInv, TypesOfCalls
<1>1. TypesOfCalls'
  OBVIOUS
<1>2. Open' = Open \ {c} /\ \A d \in Open' : tx'[d] = tx[d]
  BY DEF Open
<1>3. TypesOfShows' /\ SeriesConsistent' /\ IdsFree' /\ OpenValid' /\ IdsApart'
  BY <1>2 DEF TypesOfShows, SeriesConsistent, IdsFree, OpenValid, IdsApart
<1>4. NewSeries' /\ Joins'
  BY <1>2 DEF NewSeries, Joins, Rounds, Asking
<1> QED
  BY <1>1, <1>3, <1>4

\* The row of a transaction has an id of its own, and the names of its production.
LEMMA InsertStep == ASSUME CatInv, NEW c \in Calls, InsertShow(c) PROVE CatInv'
<1> USE DEF CatInv, TypesOfCalls
<1>0. /\ at[c] = "body" /\ tx[c] = Null /\ ask[c] \in Create /\ c \in Asking("create")
      /\ UNCHANGED <<shows, seats, ask>>
  BY DEF InsertShow, showVars, Asking, Patch, Create
<1>1. CASE UNCHANGED tx /\ \E code \in {"bad_request", "db_error"} : Told(c, code)
  <2>1. tx' = [tx EXCEPT ![c] = Null]
    BY <1>0, <1>1
  <2> QED
    BY <1>0, <1>1, <2>1, EndStep DEF Told
<1>2. ASSUME NEW id, id = Draw(Fresh), Fresh \ {id} # {}, ValidShow(ask[c]),
             NEW g \in Grouping(ask[c], id), NEW row,
             row = [id |-> id, status |-> ask[c].status, internal |-> FALSE,
                    starts_at |-> ask[c].starts_at, series |-> g.series,
                    series_name |-> g.series_name, venue |-> g.venue],
             tx' = [tx EXCEPT ![c] = row], Reached(c, "rows")
      PROVE  CatInv'
  <2>s. PICK s : s = Draw(Fresh \ {id})
    OBVIOUS
  <2>f. id \in Fresh /\ s \in Fresh /\ s # id
    BY <1>2, <2>s, DrawIsFresh
  <2>u. Fresh \subseteq Uuids
    BY DEF Fresh
  <2>g. \/ /\ ask[c].series # Null /\ row.series = ask[c].series
           /\ row.series_name \in JoinedNames(ask[c]) /\ row.venue \in JoinedVenues(ask[c])
        \/ /\ ask[c].series = Null /\ row.series = s
           /\ row.series_name = ask[c].series_name /\ row.venue = ask[c].venue
        \/ ask[c].series = Null /\ row.series = Null /\ row.series_name = Null /\ row.venue = Null
    BY <1>2, <2>s DEF Grouping
  <2>t. row \in Show
    <3>1. /\ row.series \in Uuids \cup {Null} /\ row.series_name \in Names \cup {Null}
          /\ row.venue \in Names \cup {Null}
      BY <1>0, <2>f, <2>g, <2>u
      DEF Create, JoinedNames, JoinedVenues, TypesOfShows, Show, Rounds
    <3>2. row.status \in Statuses /\ row.starts_at \in Starts /\ row.id \in Uuids
      BY <1>0, <1>2, <2>f, <2>u DEF Create
    <3> QED
      BY <1>2, <3>1, <3>2 DEF Show
  <2>o. Open' = Open \cup {c} /\ c \notin Open /\ tx'[c] = row
        /\ \A d \in Open : tx'[d] = tx[d]
    <3>1. row # Null
      BY <2>t
    <3> QED
      BY <1>0, <1>2, <3>1 DEF Open
  <2>1. TypesOfShows' /\ SeriesConsistent'
    BY <1>0 DEF TypesOfShows, SeriesConsistent
  <2>2. TypesOfCalls'
    BY <1>0, <1>2, <2>t DEF Reached
  <2>3. IdsFree'
    BY <1>0, <1>2, <2>f, <2>o DEF IdsFree, Fresh
  <2>4. OpenValid'
    BY <1>0, <1>2, <2>o DEF OpenValid
  <2>5. IdsApart'
    <3>1. \A d \in Open : tx[d].id # id
      BY <2>f DEF Fresh, Drawn
    <3> QED
      BY <1>2, <2>o, <3>1 DEF IdsApart
  <2>6. NewSeries'
    <3>1. ASSUME NEW d \in Open, ask[d].series = Null, tx[d].series # Null
          PROVE  row.series # tx[d].series
      <4>1. s # tx[d].series
        BY <2>f, <3>1 DEF Fresh, Drawn
      <4>2. ask[c].series # tx[d].series
        BY <1>0, <3>1 DEF NewSeries
      <4> QED
        BY <2>g, <3>1, <4>1, <4>2
    <3>2. ASSUME row.series = s, ask[c].series = Null
          PROVE  /\ \A e \in DOMAIN shows : shows[e].series # s
                 /\ \A d \in Open : tx[d].series # s
                 /\ \A d \in Asking("create") : ask[d].series # s
      <4>1. /\ \A e \in DOMAIN shows : shows[e].series # s
            /\ \A d \in Asking("create") : ask[d].series # s
        BY <2>f DEF Fresh
      <4>2. ASSUME NEW d \in Open PROVE tx[d].series # s
        <5>1. CASE ask[d].series = Null
          BY <2>f, <5>1 DEF Fresh, Drawn
        <5>2. CASE ask[d].series # Null
          <6>1. d \in Asking("create")
            BY DEF OpenValid, Create, Asking, Open
          <6> QED
            BY <4>1, <5>2, <6>1 DEF Joins
        <5> QED
          BY <5>1, <5>2
      <4> QED
        BY <4>1, <4>2
    <3>3. Asking("create")' = Asking("create")
      BY <1>0 DEF Asking
    <3> QED
      BY <1>0, <2>g, <2>o, <3>1, <3>2, <3>3 DEF NewSeries
  <2>7. Joins'
    <3>1. ASSUME ask[c].series # Null
          PROVE  /\ \A e \in Rounds(ask[c]) : /\ row.series_name = shows[e].series_name
                                              /\ row.venue = shows[e].venue
                 /\ Rounds(ask[c]) = {} => row.series_name = Null /\ row.venue = Null
      BY <2>g, <3>1 DEF JoinedNames, JoinedVenues, Rounds, SeriesConsistent
    <3>2. \A d \in Calls : Rounds(ask[d])' = Rounds(ask[d])
      BY <1>0 DEF Rounds
    <3> QED
      BY <1>0, <2>g, <2>o, <3>1, <3>2 DEF Joins, Open
  <2> QED
    BY <2>1, <2>2, <2>3, <2>4, <2>5, <2>6, <2>7
<1> QED
  BY <1>1, <1>2 DEF InsertShow

\* Each seat of a layout has a price.
LEMMA LayoutTyped ==
  ASSUME NEW b \in Create, ValidShow(b)
  PROVE  /\ DOMAIN Layout(b) # {}
         /\ \A p \in DOMAIN Layout(b) : Layout(b)[p] \in Seat
<1>1. <<1, 1>> \in DOMAIN Layout(b)
  BY DEF Layout, ValidShow
<1>2. PremiumPrice(b) \in Nat \ {0} /\ b.price \in Nat \ {0}
  BY DEF PremiumPrice, ValidShow, Create
<1> QED
  BY <1>1, <1>2 DEF Layout, Seat

\* A commit adds the show with its seats, and leaves the other transactions theirs.
LEMMA CommitStep == ASSUME CatInv, NEW c \in Calls, CommitShow(c) PROVE CatInv'
<1> USE DEF CatInv, TypesOfCalls
<1>0. /\ c \in Open /\ tx[c] \in Show /\ at[c] = "rows" /\ ask[c] \in Create
      /\ ValidShow(ask[c]) /\ tx' = [tx EXCEPT ![c] = Null] /\ UNCHANGED ask
  BY DEF CommitShow, Open, OpenValid
<1>t. \E code \in {"created", "db_error"} : Told(c, code)
  BY DEF CommitShow
<1>1. CASE UNCHANGED <<shows, seats>>
  BY <1>0, <1>1, <1>t, EndStep DEF Told
<1>2. CASE /\ shows' = With(shows, tx[c].id, tx[c])
           /\ seats' = With(seats, tx[c].id, Layout(ask[c]))
  <2>n. PICK n : n = tx[c].id
    OBVIOUS
  <2>i. n \in Uuids /\ n \notin DOMAIN shows
    BY <1>0, <2>n DEF Show, IdsFree
  <2>s. /\ DOMAIN shows' = DOMAIN shows \cup {n} /\ shows'[n] = tx[c]
        /\ \A e \in DOMAIN shows : shows'[e] = shows[e]
    BY <1>2, <2>i, <2>n DEF With
  <2>o. Open' = Open \ {c} /\ \A d \in Open' : tx'[d] = tx[d]
    BY <1>0 DEF Open
  <2>1. TypesOfShows'
    <3>1. /\ DOMAIN seats' = DOMAIN seats \cup {n} /\ seats'[n] = Layout(ask[c])
          /\ \A e \in DOMAIN seats : seats'[e] = seats[e]
      BY <1>2, <2>i, <2>n DEF With, TypesOfShows
    <3>2. /\ DOMAIN shows' \subseteq Uuids /\ DOMAIN seats' = DOMAIN shows'
      BY <2>i, <2>s, <3>1 DEF TypesOfShows
    <3>3. ASSUME NEW e \in DOMAIN shows'
          PROVE  /\ shows'[e] \in Show /\ shows'[e].id = e
                 /\ DOMAIN seats'[e] # {} /\ \A p \in DOMAIN seats'[e] : seats'[e][p] \in Seat
      BY <1>0, <2>n, <2>s, <3>1, <3>3, LayoutTyped DEF TypesOfShows
    <3> QED
      BY <3>2, <3>3 DEF TypesOfShows
  <2>2. TypesOfCalls'
    BY <1>0, <1>t DEF Told
  <2>3. IdsFree' /\ OpenValid' /\ IdsApart'
    BY <1>0, <2>n, <2>o, <2>s DEF IdsFree, OpenValid, IdsApart
  <2>4. SeriesConsistent'
    <3>1. ASSUME NEW e \in DOMAIN shows, tx[c].series # Null,
                 shows[e].series = tx[c].series
          PROVE  shows[e].series_name = tx[c].series_name /\ shows[e].venue = tx[c].venue
      BY <1>0, <3>1 DEF NewSeries, Joins, Rounds
    <3> QED
      BY <2>s, <3>1 DEF SeriesConsistent
  <2>5. NewSeries'
    <3>1. Asking("create")' = Asking("create")
      BY <1>0 DEF Asking
    <3> QED
      BY <1>0, <2>o, <2>s, <3>1 DEF NewSeries
  <2>6. Joins'
    <3> SUFFICES ASSUME NEW d \in Open, d # c, ask[d].series # Null
                 PROVE  /\ tx[d].series = ask[d].series
                        /\ \A e \in Rounds(ask[d])' :
                             /\ tx[d].series_name = shows'[e].series_name
                             /\ tx[d].venue = shows'[e].venue
                        /\ Rounds(ask[d])' = {} => tx[d].series_name = Null /\ tx[d].venue = Null
      BY <1>0, <2>o DEF Joins
    <3>1. Rounds(ask[d])' = Rounds(ask[d]) \cup (IF tx[c].series = ask[d].series THEN {n} ELSE {})
      BY <1>0, <2>s DEF Rounds
    <3>2. ASSUME tx[c].series = ask[d].series
          PROVE  tx[d].series_name = tx[c].series_name /\ tx[d].venue = tx[c].venue
      <4>1. ask[c].series # Null
        BY <1>0, <3>2 DEF NewSeries, Joins
      <4>2. tx[c].series = ask[c].series /\ Rounds(ask[c]) = Rounds(ask[d])
        BY <1>0, <3>2, <4>1 DEF Joins, Rounds
      <4>3. CASE Rounds(ask[c]) = {}
        <5>1. tx[c].series_name = Null /\ tx[c].venue = Null
          BY <1>0, <4>1, <4>3 DEF Joins
        <5>2. tx[d].series_name = Null /\ tx[d].venue = Null
          BY <4>2, <4>3 DEF Joins
        <5> QED
          BY <5>1, <5>2
      <4>4. CASE Rounds(ask[c]) # {}
        <5>1. PICK e : e \in Rounds(ask[c]) /\ e \in Rounds(ask[d])
          BY <4>2, <4>4
        <5>2. tx[c].series_name = shows[e].series_name /\ tx[c].venue = shows[e].venue
          BY <1>0, <4>1, <5>1 DEF Joins
        <5>3. tx[d].series_name = shows[e].series_name /\ tx[d].venue = shows[e].venue
          BY <5>1 DEF Joins
        <5> QED
          BY <5>2, <5>3
      <4> QED
        BY <4>3, <4>4
    <3> QED
      BY <2>s, <3>1, <3>2 DEF Joins, Rounds
  <2> QED
    BY <2>1, <2>2, <2>3, <2>4, <2>5, <2>6
<1> QED
  BY <1>1, <1>2 DEF CommitShow, showVars

\* A change of the status leaves the ids and the series of a show.
LEMMA PatchStep == ASSUME CatInv, NEW c \in Calls, PatchShow(c) PROVE CatInv'
<1> USE DEF CatInv, TypesOfCalls
<1>0. /\ at[c] = "body" /\ tx[c] = Null /\ ask[c] \in Patch /\ UNCHANGED <<seats, ask, tx>>
      /\ tx' = [tx EXCEPT ![c] = Null]
  BY DEF PatchShow, Patch, Create
<1>t. \E code \in {"bad_request", "event_not_found", "updated", "db_error"} : Told(c, code)
  BY DEF PatchShow
<1>1. CASE UNCHANGED shows
  BY <1>0, <1>1, <1>t, EndStep DEF Told
<1>2. CASE /\ ask[c].id \in DOMAIN shows
           /\ shows' = [shows EXCEPT ![ask[c].id].status = ask[c].status]
  <2>s. /\ DOMAIN shows' = DOMAIN shows
        /\ \A e \in DOMAIN shows :
             /\ shows'[e] \in Show /\ shows'[e].id = shows[e].id
             /\ shows'[e].series = shows[e].series
             /\ shows'[e].series_name = shows[e].series_name
             /\ shows'[e].venue = shows[e].venue
    <3>1. ASSUME NEW e \in DOMAIN shows
          PROVE  shows'[e] = IF e = ask[c].id
                               THEN [shows[e] EXCEPT !.status = ask[c].status] ELSE shows[e]
      BY <1>2
    <3>2. ask[c].status \in Statuses
      BY <1>0 DEF Patch
    <3> QED
      BY <1>2, <3>1, <3>2 DEF TypesOfShows, Show
  <2>1. TypesOfShows' /\ SeriesConsistent'
    BY <1>0, <2>s DEF TypesOfShows, SeriesConsistent
  <2>2. TypesOfCalls'
    BY <1>0, <1>t DEF Told
  <2>3. IdsFree' /\ OpenValid' /\ IdsApart'
    BY <1>0, <2>s DEF IdsFree, OpenValid, IdsApart, Open
  <2>4. NewSeries'
    BY <1>0, <2>s DEF NewSeries, Open, Asking
  <2>5. Joins'
    <3>1. \A d \in Calls : Rounds(ask[d])' = Rounds(ask[d])
      BY <1>0, <2>s DEF Rounds
    <3> QED
      BY <1>0, <2>s, <3>1 DEF Joins, Open, Rounds
  <2> QED
    BY <2>1, <2>2, <2>3, <2>4, <2>5
<1> QED
  BY <1>1, <1>2 DEF PatchShow

\* A sale keeps the seats and their prices.
LEMMA SellStep ==
  ASSUME CatInv, NEW e \in DOMAIN shows, NEW p \in DOMAIN seats[e], Sell(e, p) PROVE CatInv'
<1> USE DEF CatInv
<1>1. UNCHANGED <<shows, ask, at, tx, told>> /\ seats' = [seats EXCEPT ![e][p].sold = TRUE]
  BY DEF Sell, callVars
<1>2. TypesOfShows'
  <2>1. DOMAIN seats' = DOMAIN seats
    BY <1>1
  <2>2. ASSUME NEW d \in DOMAIN seats
        PROVE  DOMAIN seats'[d] # {} /\ \A q \in DOMAIN seats'[d] : seats'[d][q] \in Seat
    <3>1. CASE d # e
      BY <1>1, <3>1 DEF TypesOfShows
    <3>2. CASE d = e
      <4>1. seats'[e] = [seats[e] EXCEPT ![p] = [seats[e][p] EXCEPT !.sold = TRUE]]
        BY <1>1 DEF TypesOfShows
      <4>2. seats[e][p] \in Seat
        BY DEF TypesOfShows
      <4>3. [seats[e][p] EXCEPT !.sold = TRUE] \in Seat
        BY <4>2 DEF Seat
      <4> QED
        BY <3>2, <4>1, <4>3 DEF TypesOfShows
    <3> QED
      BY <3>1, <3>2
  <2> QED
    BY <1>1, <2>1, <2>2 DEF TypesOfShows
<1>3. TypesOfCalls' /\ IdsFree' /\ OpenValid' /\ IdsApart' /\ SeriesConsistent'
  BY <1>1 DEF TypesOfCalls, IdsFree, OpenValid, IdsApart, SeriesConsistent, Open
<1>4. NewSeries' /\ Joins'
  BY <1>1 DEF NewSeries, Joins, Rounds, Open, Asking
<1> QED
  BY <1>2, <1>3, <1>4

\* Every call, every sale and every step of the accounts preserves the invariant.
LEMMA CatInvStep ==
  ASSUME CatInv, [CatalogNext]_<<accountVars, catalogVars>> PROVE CatInv'
<1>1. CASE UNCHANGED catalogVars
  <2>1. UNCHANGED <<shows, seats, ask, at, tx, told>>
    BY <1>1 DEF catalogVars, showVars, callVars
  <2>2. TypesOfShows' /\ TypesOfCalls' /\ SeriesConsistent'
    BY <2>1 DEF CatInv, TypesOfShows, TypesOfCalls, SeriesConsistent
  <2>3. IdsFree' /\ OpenValid' /\ IdsApart'
    BY <2>1 DEF CatInv, IdsFree, OpenValid, IdsApart, Open
  <2>4. NewSeries' /\ Joins'
    BY <2>1 DEF CatInv, NewSeries, Joins, Rounds, Open, Asking
  <2> QED
    BY <2>2, <2>3, <2>4 DEF CatInv
<1>2. ASSUME NEW c \in Calls, Call(c) PROVE CatInv'
  BY <1>2, AuthStep, InsertStep, CommitStep, PatchStep DEF Call
<1> QED
  BY <1>1, <1>2, SellStep DEF CatalogNext

-----------------------------------------------------------------------------
(* The theorems *)

\* The inductive invariant of the catalog.
THEOREM CatalogInductive == CatalogSpec => []CatInv
  BY CatInvInit, CatInvStep, PTL DEF CatalogSpec

\* Every variable of the catalog has its type, and no show is without its seats.
THEOREM CatalogTyped == CatalogSpec => []CatalogTypeOK
<1>1. CatInv /\ AccountsTypeOK => CatalogTypeOK
  BY DEF CatInv, TypesOfShows, TypesOfCalls, IdsFree, Open, CatalogTypeOK
<1> QED
  BY <1>1, CatalogInductive, CatalogIsAccounts, AccountsTyped, PTL

\* The rounds of a production agree on its name and venue, though nothing locks the
\* rows that a round takes them from: no round of a production is ever renamed, and a
\* new production's series is known to nobody before it commits (src/api/admin.go:187-206).
THEOREM ProductionsAgree == CatalogSpec => []SeriesConsistent
<1>1. CatInv => SeriesConsistent
  BY DEF CatInv
<1> QED
  BY <1>1, CatalogInductive, PTL
-----------------------------------------------------------------------------
(* Who changes the catalog *)

\* Who is let in has an account: a row is read or written on the way, and none goes.
LetIn ==
  \A r \in Subs : step[r] \in {"compare", "tokens"} \/ resp[r] = "ok" =>
    form[r] \in Form /\ users[form[r].email] # Nobody

LEMMA LetInStep ==
  ASSUME AccountsTypeOK, LetIn, [AccountsNext]_accountVars PROVE LetIn'
<1> DEFINE In(q) == step[q] \in {"compare", "tokens"} \/ resp[q] = "ok"
<1> USE DEF AccountsTypeOK, LetIn, powVars, subVars, Goto, Answer
<1>r. \A e \in Emails : users[e] # Nobody => users'[e] # Nobody
  <2>1. AdminRow # Nobody /\ \A f \in Form : [password |-> f.password, admin |-> FALSE] # Nobody
    <3>1. AdminRow \in Row /\ \A f \in Form : [password |-> f.password, admin |-> FALSE] \in Row
      BY DEF AdminRow, Row, Form
    <3> QED
      BY <3>1
  <2>2. ASSUME NEW x \in Subs, Register(x) PROVE \A e \in Emails : users[e] # Nobody => users'[e] # Nobody
    BY <2>1, <2>2 DEF Register, EmailFree
  <2>3. CASE EnsureAdmin
    BY <2>1, <2>3 DEF EnsureAdmin, Upserted
  <2> QED
    BY <2>2, <2>3 DEF AccountsNext, Submission, Submit, Repeat, Solve, CheckPoW, PowRequired,
       PowPassed, PowInvalid, ReadUser, Compare, IssueTokens, Lapse, Restart, accountVars
<1>k. ASSUME NEW q \in Subs, In(q), form'[q] = form[q]
      PROVE  form'[q] \in Form /\ users'[form'[q].email] # Nobody
  BY <1>k, <1>r DEF Form
<1> SUFFICES ASSUME NEW q \in Subs, In(q)'
             PROVE  form'[q] \in Form /\ users'[form'[q].email] # Nobody
  OBVIOUS
<1>1. ASSUME NEW x \in Subs,
             \/ Submit(x) \/ Solve(x) \/ CheckPoW(x) \/ Compare(x) \/ IssueTokens(x)
             \/ \E y \in Subs : Repeat(x, y)
      PROVE  In(q) /\ form'[q] = form[q]
  BY <1>1 DEF Submit, Solve, CheckPoW, PowRequired, PowPassed, PowInvalid, Repeat, Compare,
     IssueTokens
<1>2. ASSUME NEW x \in Subs, Register(x)
      PROVE  form'[q] \in Form /\ users'[form'[q].email] # Nobody
  <2>1. form[x] \in Form /\ form[x].email \in Emails /\ UNCHANGED form
    BY <1>2 DEF Register, Form
  <2>2. CASE q # x \/ In(q)
    BY <1>2, <1>k, <2>1, <2>2 DEF Register
  <2>3. CASE q = x /\ ~In(q)
    <3>1. users' = [users EXCEPT ![form[x].email] =
                      [password |-> form[x].password, admin |-> FALSE]]
      BY <1>2, <2>3 DEF Register
    <3>2. [password |-> form[x].password, admin |-> FALSE] \in Row
      BY <2>1 DEF Row, Form
    <3>3. PICK row \in Row : row = [password |-> form[x].password, admin |-> FALSE]
      BY <3>2
    <3>4. users'[form[x].email] = row
      BY <2>1, <3>1, <3>3
    <3>5. row # Nobody
      OBVIOUS
    <3> QED
      BY <2>1, <2>3, <3>4, <3>5
  <2> QED
    BY <2>2, <2>3
<1>3. ASSUME NEW x \in Subs, ReadUser(x)
      PROVE  form'[q] \in Form /\ users'[form'[q].email] # Nobody
  <2>1. form[x] \in Form /\ UNCHANGED <<form, users>>
    BY <1>3 DEF ReadUser
  <2>2. CASE q # x \/ In(q)
    BY <1>3, <1>k, <2>1, <2>2 DEF ReadUser
  <2>3. CASE q = x /\ ~In(q)
    BY <1>3, <2>1, <2>3 DEF ReadUser
  <2> QED
    BY <2>2, <2>3
<1>4. CASE (\E c \in fresh : Lapse(c)) \/ EnsureAdmin \/ Restart \/ UNCHANGED accountVars
  BY <1>4, <1>k DEF Lapse, EnsureAdmin, Restart, accountVars
<1> QED
  BY <1>1, <1>2, <1>3, <1>4, <1>k DEF AccountsNext, Submission

\* A session of the account with the administrator's email has begun.
AdminSession == \E r \in Subs : resp[r] = "ok" /\ form[r].email = AdminEmail

\* Until then the catalog is the seed's, and nobody's call has passed adminAuth.
OnlyTheAdmin ==
  AdminSession \/ (shows = SeedShows /\ \A c \in Calls : ask[c] = Null)

\* A session that has begun is not forgotten.
LEMMA SessionStays ==
  ASSUME AccountsTypeOK, [AccountsNext]_accountVars, AdminSession PROVE AdminSession'
<1>1. PICK r \in Subs : resp[r] = "ok" /\ form[r].email = AdminEmail
  BY DEF AdminSession
<1>2. step[r] = "ended"
  BY <1>1 DEF AccountsTypeOK
<1>3. resp'[r] = resp[r] /\ form'[r] = form[r]
  <2> DEFINE Goal == resp'[r] = resp[r] /\ form'[r] = form[r]
  <2> USE <1>2 DEF AccountsTypeOK, subVars, Goto, Answer
  <2>1. ASSUME NEW x \in Subs, Submit(x) \/ Solve(x) \/ (\E y \in Subs : Repeat(x, y)) PROVE Goal
    BY <2>1 DEF Submit, Solve, Repeat
  <2>2. ASSUME NEW x \in Subs, CheckPoW(x) PROVE Goal
    BY <2>2 DEF CheckPoW, PowRequired, PowPassed, PowInvalid
  <2>3. ASSUME NEW x \in Subs, Register(x) \/ ReadUser(x) \/ Compare(x) \/ IssueTokens(x) PROVE Goal
    BY <2>3 DEF Register, ReadUser, Compare, IssueTokens
  <2>4. CASE (\E c \in fresh : Lapse(c)) \/ EnsureAdmin \/ Restart \/ UNCHANGED accountVars
    BY <2>4 DEF Lapse, EnsureAdmin, Restart, accountVars
  <2> QED
    BY <2>1, <2>2, <2>3, <2>4 DEF AccountsNext, Submission
<1> QED
  BY <1>1, <1>3 DEF AdminSession

LEMMA OnlyTheAdminStep ==
  ASSUME AccountsTypeOK, AccountsStand, LetIn, CatInv, OnlyTheAdmin,
         [CatalogNext]_<<accountVars, catalogVars>>
  PROVE  OnlyTheAdmin'
<1> USE DEF OnlyTheAdmin
<1>1. CASE AdminSession
  BY <1>1, AccountsStep, SessionStays
<1>2. ASSUME ~AdminSession, NEW c \in Calls, AdminAuth(c) PROVE OnlyTheAdmin'
  <2>1. ASSUME NEW r \in Subs, resp[r] = "ok" PROVE ~users[form[r].email].admin
    <3>1. form[r].email \in Emails /\ users[form[r].email] # Nobody
      BY <2>1 DEF LetIn, Form
    <3>2. form[r].email # AdminEmail
      BY <1>2, <2>1 DEF AdminSession
    <3> QED
      BY <3>1, <3>2 DEF AccountsStand, AdminIsConfigured
  <2> QED
    BY <1>2, <2>1 DEF AdminAuth, showVars
<1>3. ASSUME ~AdminSession, NEW c \in Calls PROVE ~(InsertShow(c) \/ CommitShow(c) \/ PatchShow(c))
  <2>1. at[c] \notin {"body", "rows"}
    BY <1>3 DEF CatInv, TypesOfCalls
  <2> QED
    BY <2>1 DEF InsertShow, CommitShow, PatchShow
<1>4. CASE ~AdminSession /\ UNCHANGED <<shows, ask>>
  BY <1>4
<1> QED
  BY <1>1, <1>2, <1>3, <1>4 DEF CatalogNext, Call, Sell, catalogVars, showVars, callVars

\* Before a session of the administrator's account begins, no show is added or changed:
\* the sessions of all others are refused, as the right is looked up at each call
\* (src/api/admin.go:37-51), and no account but that one ever has it.
THEOREM NobodyElse == CatalogSpec => []OnlyTheAdmin
<1>1. AccountsInit => LetIn
  BY DEF AccountsInit, LetIn
<1>2. CatalogInit => AccountsInit /\ OnlyTheAdmin
  BY DEF CatalogInit, OnlyTheAdmin
<1>3. CatalogSpec => []LetIn
  BY <1>1, <1>2, LetInStep, AccountsStep, CatalogIsAccounts, AccountsTyped, PTL DEF CatalogSpec
<1> QED
  BY <1>2, <1>3, OnlyTheAdminStep, CatalogInductive, CatalogIsAccounts, AccountsTyped, AccountsKept, PTL
  DEF CatalogSpec

-----------------------------------------------------------------------------
(* What stays of the catalog *)

Lasting(e) == [id |-> shows[e].id, starts_at |-> shows[e].starts_at,
               series |-> shows[e].series, series_name |-> shows[e].series_name,
               venue |-> shows[e].venue, internal |-> shows[e].internal]

\* A show, and what stands at each of its places.
ShowStays(e) == e \in DOMAIN shows' /\ Lasting(e)' = Lasting(e)
SeatsStay(e) ==
  /\ DOMAIN seats'[e] = DOMAIN seats[e]
  /\ \A p \in DOMAIN seats[e] : /\ seats'[e][p].price = seats[e][p].price
                                /\ seats[e][p].sold => seats'[e][p].sold

CatalogStays == \A e \in DOMAIN shows : ShowStays(e) /\ SeatsStay(e)

\* A transaction inserts under an id that no show has.
LEMMA CommitAdds ==
  ASSUME CatInv, NEW c \in Calls, CommitShow(c), NEW e \in DOMAIN shows
  PROVE  e \in DOMAIN shows' /\ shows'[e] = shows[e] /\ seats'[e] = seats[e]
<1>1. tx[c].id \notin DOMAIN shows /\ DOMAIN seats = DOMAIN shows
  BY DEF CommitShow, CatInv, TypesOfCalls, IdsFree, Open, TypesOfShows
<1>2. CASE UNCHANGED showVars
  BY <1>2 DEF showVars
<1>3. CASE /\ shows' = With(shows, tx[c].id, tx[c])
           /\ seats' = With(seats, tx[c].id, Layout(ask[c]))
  BY <1>1, <1>3 DEF With
<1> QED
  BY <1>2, <1>3 DEF CommitShow

\* A change of a show is one of its status.
LEMMA PatchOpensOrCloses ==
  ASSUME CatInv, NEW c \in Calls, PatchShow(c), NEW e \in DOMAIN shows PROVE ShowStays(e)
<1>1. shows[e] \in Show
  BY DEF CatInv, TypesOfShows
<1>2. CASE UNCHANGED shows
  BY <1>2 DEF ShowStays, Lasting
<1>3. CASE shows' = [shows EXCEPT ![ask[c].id].status = ask[c].status]
  <2>1. DOMAIN shows' = DOMAIN shows
        /\ shows'[e] = IF e = ask[c].id THEN [shows[e] EXCEPT !.status = ask[c].status]
                                        ELSE shows[e]
    BY <1>3
  <2> QED
    BY <1>1, <2>1 DEF ShowStays, Lasting, Show
<1> QED
  BY <1>2, <1>3 DEF PatchShow

\* A sale takes one seat, for the price it has.
LEMMA SaleTakesOne ==
  ASSUME CatInv, NEW d \in DOMAIN shows, NEW q \in DOMAIN seats[d], Sell(d, q),
         NEW e \in DOMAIN shows
  PROVE  ShowStays(e) /\ SeatsStay(e)
<1>1. e \in DOMAIN seats /\ \A p \in DOMAIN seats[e] : seats[e][p] \in Seat
  BY DEF CatInv, TypesOfShows
<1>2. UNCHANGED shows /\ seats' = [seats EXCEPT ![d][q].sold = TRUE]
  BY DEF Sell
<1>3. CASE e # d
  BY <1>1, <1>2, <1>3 DEF ShowStays, SeatsStay, Lasting
<1>4. CASE e = d
  <2>1. seats'[e] = [seats[e] EXCEPT ![q] = [seats[e][q] EXCEPT !.sold = TRUE]]
    BY <1>1, <1>2, <1>4
  <2>2. \A p \in DOMAIN seats[e] :
          seats'[e][p] = IF p = q THEN [seats[e][q] EXCEPT !.sold = TRUE] ELSE seats[e][p]
    BY <2>1
  <2>3. \A p \in DOMAIN seats[e] : /\ seats'[e][p].price = seats[e][p].price
                                   /\ seats[e][p].sold => seats'[e][p].sold
    BY <1>1, <2>2 DEF Seat
  <2> QED
    BY <1>2, <2>1, <2>3 DEF ShowStays, SeatsStay, Lasting
<1> QED
  BY <1>3, <1>4

LEMMA CatalogStaysStep ==
  ASSUME CatInv, [CatalogNext]_<<accountVars, catalogVars>> PROVE CatalogStays
<1> SUFFICES ASSUME NEW e \in DOMAIN shows PROVE ShowStays(e) /\ SeatsStay(e)
  BY DEF CatalogStays
<1>1. CASE UNCHANGED showVars
  BY <1>1 DEF showVars, ShowStays, SeatsStay, Lasting
<1>2. ASSUME NEW c \in Calls, CommitShow(c) PROVE ShowStays(e) /\ SeatsStay(e)
  BY <1>2, CommitAdds DEF ShowStays, SeatsStay, Lasting
<1>3. ASSUME NEW c \in Calls, PatchShow(c) PROVE ShowStays(e) /\ SeatsStay(e)
  <2>1. UNCHANGED seats
    BY <1>3 DEF PatchShow
  <2> QED
    BY <1>3, <2>1, PatchOpensOrCloses DEF SeatsStay
<1> QED
  BY <1>1, <1>2, <1>3, SaleTakesOne
  DEF CatalogNext, Call, AdminAuth, InsertShow, catalogVars

\* What is on sale is neither withdrawn nor replaced: no call of an administrator, however
\* it overlaps with others, loses a show, moves it to another day or production, or changes
\* a seat of it, its price or that it is sold (src/api/admin.go:195-227, 272-278).
THEOREM ShowsStay == CatalogSpec => [][CatalogStays]_<<accountVars, catalogVars>>
  BY CatalogStaysStep, CatalogInductive, PTL DEF CatalogSpec

-----------------------------------------------------------------------------
(* The keys of the productions *)

INSTANCE Productions

\* No call starts or joins a production under the id of a show.
JoinsProductions == \A c \in Asking("create") : ask[c].series \notin DOMAIN shows

\* Nor does the seed.
SeedApart == \A e \in DOMAIN SeedShows : SeedShows[e].series \notin DOMAIN SeedShows

\* No series has the id of a show, nor one that a show is about to have.
SeriesApart ==
  /\ \A e \in DOMAIN shows : /\ shows[e].series \notin DOMAIN shows
                             /\ \A c \in Open : shows[e].series # tx[c].id
  /\ \A c \in Open : /\ tx[c].series \notin DOMAIN shows
                     /\ \A d \in Open : tx[c].series # tx[d].id
  /\ \A c \in Asking("create"), d \in Open : ask[c].series # tx[d].id

\* The customer's page and the administrator's put the same shows together.
GroupedAlike ==
  \A e, d \in DOMAIN shows :
    CustomerKey(shows[e]) = CustomerKey(shows[d]) <=> AdminKey(shows[e]) = AdminKey(shows[d])

\* A call that is let in does not name an id somebody has drawn.
LEMMA AuthApart ==
  ASSUME CatInv, SeriesApart, NEW c \in Calls, AdminAuth(c) PROVE SeriesApart'
<1> USE DEF CatInv, TypesOfCalls
<1>1. UNCHANGED <<shows, tx>>
  BY DEF AdminAuth, showVars
<1>2. \/ UNCHANGED ask
      \/ \E b \in Create \cup Patch : Known(b) /\ ask' = [ask EXCEPT ![c] = b]
  BY DEF AdminAuth
<1>3. Open' = Open
  BY <1>1 DEF Open
<1>4. ASSUME NEW q \in Asking("create")', NEW d \in Open PROVE ask'[q].series # tx[d].id
  <2>1. CASE ask'[q] = ask[q]
    BY <2>1 DEF SeriesApart, Asking
  <2>2. CASE q = c /\ Known(ask'[q])
    <3>1. tx[d].id \in Drawn \ {Null}
      <4>1. tx[d] \in Show
        BY DEF Open
      <4> QED
        BY <4>1, CatalogAssumption DEF Drawn, Show, CatalogAssumption
    <3> QED
      BY <2>2, <3>1 DEF Known, Asking
  <2> QED
    BY <1>2, <2>1, <2>2 DEF Asking
<1> QED
  BY <1>1, <1>3, <1>4 DEF SeriesApart

\* A new show has an id that is nobody's series; a new series is nobody's id.
LEMMA InsertApart ==
  ASSUME CatInv, SeriesApart, JoinsProductions, NEW c \in Calls, InsertShow(c)
  PROVE  SeriesApart'
<1> USE DEF CatInv, TypesOfCalls
<1>0. /\ tx[c] = Null /\ ask[c] \in Create /\ c \in Asking("create")
      /\ UNCHANGED <<shows, ask>>
  BY DEF InsertShow, showVars, Asking, Patch, Create
<1>1. CASE UNCHANGED tx
  BY <1>0, <1>1 DEF SeriesApart, Open, Asking
<1>2. ASSUME NEW id, id = Draw(Fresh), Fresh \ {id} # {},
             NEW g \in Grouping(ask[c], id), NEW row, row.id = id, row.series = g.series,
             row # Null, tx' = [tx EXCEPT ![c] = row]
      PROVE  SeriesApart'
  <2>s. PICK s : s = Draw(Fresh \ {id})
    OBVIOUS
  <2>f. id \in Fresh /\ s \in Fresh /\ s # id
    BY <1>2, <2>s, DrawIsFresh
  <2>u. Null \notin DOMAIN shows /\ id # Null /\ \A d \in Open : tx[d].id # Null
    BY <2>f, CatalogAssumption DEF TypesOfShows, Fresh, Open, Show, CatalogAssumption
  <2>g. row.series \in {ask[c].series, s, Null}
    BY <1>2, <2>s DEF Grouping
  <2>o. Open' = Open \cup {c} /\ c \notin Open /\ tx'[c] = row
        /\ \A d \in Open : tx'[d] = tx[d]
    BY <1>0, <1>2 DEF Open
  <2>1. \A d \in Open : tx[d].series # id
    <3> SUFFICES ASSUME NEW d \in Open PROVE tx[d].series # id
      OBVIOUS
    <3>1. CASE ask[d].series = Null
      BY <2>f, <3>1 DEF Fresh, Drawn
    <3>2. CASE ask[d].series # Null
      <4>1. d \in Asking("create") /\ tx[d].series = ask[d].series
        BY <3>2 DEF OpenValid, Create, Asking, Open, Joins
      <4> QED
        BY <2>f, <4>1 DEF Fresh
    <3> QED
      BY <3>1, <3>2
  <2>2. /\ \A e \in DOMAIN shows : shows[e].series # id
        /\ \A d \in Asking("create") : ask[d].series # id
    BY <2>f DEF Fresh
  <2>3. row.series # id /\ row.series \notin DOMAIN shows
        /\ \A d \in Open : row.series # tx[d].id
    <3>1. CASE row.series = ask[c].series
      BY <1>0, <2>2, <3>1 DEF JoinsProductions, SeriesApart
    <3>2. CASE row.series = s
      BY <2>f, <3>2 DEF Fresh, Drawn
    <3>3. CASE row.series = Null
      BY <2>u, <3>3
    <3> QED
      BY <2>g, <3>1, <3>2, <3>3
  <2>4. Asking("create")' = Asking("create")
    BY <1>0 DEF Asking
  <2> QED
    BY <1>0, <1>2, <2>o, <2>1, <2>2, <2>3, <2>4 DEF SeriesApart
<1>3. \/ UNCHANGED tx
      \/ \E id, g, row : /\ id = Draw(Fresh) /\ Fresh \ {id} # {}
                         /\ g \in Grouping(ask[c], id)
                         /\ row = [id |-> id, status |-> ask[c].status, internal |-> FALSE,
                                   starts_at |-> ask[c].starts_at, series |-> g.series,
                                   series_name |-> g.series_name, venue |-> g.venue]
                         /\ tx' = [tx EXCEPT ![c] = row] /\ at' = [at EXCEPT ![c] = "rows"]
  BY DEF InsertShow, Reached
<1>4. CASE at' = [at EXCEPT ![c] = "rows"]
  <2>1. tx'[c] # Null
    BY <1>4, InsertStep
  <2> QED
    BY <1>1, <1>2, <1>3, <2>1
<1> QED
  BY <1>1, <1>3, <1>4

\* A commit turns what a transaction has drawn into a row.
LEMMA CommitApart ==
  ASSUME CatInv, SeriesApart, NEW c \in Calls, CommitShow(c) PROVE SeriesApart'
<1> USE DEF CatInv, TypesOfCalls
<1>0. c \in Open /\ tx' = [tx EXCEPT ![c] = Null] /\ UNCHANGED ask
  BY DEF CommitShow, Open
<1>1. Open' = Open \ {c} /\ (\A d \in Open' : tx'[d] = tx[d])
      /\ Asking("create")' = Asking("create")
  BY <1>0 DEF Open, Asking
<1>2. CASE UNCHANGED shows
  BY <1>0, <1>1, <1>2 DEF SeriesApart
<1>3. CASE shows' = With(shows, tx[c].id, tx[c])
  <2>1. /\ DOMAIN shows' = DOMAIN shows \cup {tx[c].id} /\ shows'[tx[c].id] = tx[c]
        /\ \A e \in DOMAIN shows : shows'[e] = shows[e]
    BY <1>0, <1>3 DEF With, IdsFree
  <2> QED
    BY <1>0, <1>1, <2>1 DEF SeriesApart
<1> QED
  BY <1>2, <1>3 DEF CommitShow, showVars

LEMMA ApartStep ==
  ASSUME CatInv, SeriesApart, JoinsProductions,
         [CatalogNext]_<<accountVars, catalogVars>>
  PROVE  SeriesApart'
<1>1. ASSUME NEW c \in Calls, PatchShow(c) PROVE SeriesApart'
  <2>1. UNCHANGED <<ask, tx>>
    BY <1>1 DEF PatchShow
  <2>2. DOMAIN shows' = DOMAIN shows /\ \A e \in DOMAIN shows : shows'[e].series = shows[e].series
    BY <1>1, PatchOpensOrCloses, CatInvStep
    DEF ShowStays, Lasting, PatchShow, CatInv
  <2> QED
    BY <2>1, <2>2 DEF SeriesApart, Open, Asking
<1>2. CASE UNCHANGED <<shows, ask, tx>>
  BY <1>2 DEF SeriesApart, Open, Asking
<1> QED
  BY <1>1, <1>2, AuthApart, InsertApart, CommitApart
  DEF CatalogNext, Call, Sell, callVars, catalogVars, showVars

\* Both pages make the same productions of the shows, though the customer's keys a show on
\* its own by its bare id and the administrator's by "solo-" and its id, as long as no
\* administrator joins a round to a series that has the id of a show: nothing refuses
\* that, and then the customer sees as one what the administrator sees as two
\* (src/web/features/catalog/grouping.js:9 and 28, src/api/admin.go:187-206).
THEOREM PagesGroupAlike ==
  ASSUME SeedApart PROVE CatalogSpec /\ []JoinsProductions => []GroupedAlike
<1>1. CatalogInit => SeriesApart
  BY DEF CatalogInit, SeriesApart, SeedApart, Open, Asking
<1>2. CatInv /\ SeriesApart => GroupedAlike
  <2> SUFFICES ASSUME CatInv, SeriesApart, NEW e \in DOMAIN shows, NEW d \in DOMAIN shows
               PROVE  CustomerKey(shows[e]) = CustomerKey(shows[d])
                        <=> AdminKey(shows[e]) = AdminKey(shows[d])
    BY DEF GroupedAlike
  <2>1. /\ shows[e].id = e /\ shows[d].id = d
        /\ shows[e].series # d /\ shows[d].series # e
    BY DEF CatInv, TypesOfShows, SeriesApart
  <2>2. CustomerKey(shows[e]) = CustomerKey(shows[d])
          => (shows[e].series = Null <=> shows[d].series = Null)
    BY <2>1 DEF CustomerKey
  <2>3. (shows[e].series = Null <=> shows[d].series = Null)
          => (shows[e].series = Null) = (shows[d].series = Null)
    OBVIOUS
  <2> QED
    BY <2>2, <2>3 DEF AdminKey
<1> QED
  BY <1>1, <1>2, ApartStep, CatalogInductive, PTL DEF CatalogSpec

\* The administrator's productions are the series, with one name and one venue each.
PanelIsBySeries ==
  \A e, d \in DOMAIN shows : AdminKey(shows[e]) = AdminKey(shows[d]) =>
    \/ e = d
    \/ /\ shows[e].series # Null /\ shows[e].series = shows[d].series
       /\ shows[e].series_name = shows[d].series_name /\ shows[e].venue = shows[d].venue

\* Every two rounds of a series are in one production of the administrator's.
RoundsTogether ==
  \A e, d \in DOMAIN shows :
    shows[e].series = shows[d].series /\ shows[e].series # Null
      => AdminKey(shows[e]) = AdminKey(shows[d])

\* To the administrator a production is a show on its own or rounds of one series, which
\* agree on its name and its venue, and every two rounds of a series are in one, whatever
\* ids administrators send for series: what the fold of a list by these keys puts together
\* belongs together (src/web/features/catalog/grouping.js:25-33).
THEOREM PanelShowsSeries == CatalogSpec => [](PanelIsBySeries /\ RoundsTogether)
<1>1. ASSUME NEW e \in DOMAIN shows, NEW d \in DOMAIN shows,
             shows[e].series = shows[d].series, shows[e].series # Null
      PROVE  AdminKey(shows[e]) = AdminKey(shows[d])
  BY <1>1 DEF AdminKey, CustomerKey
<1>2. ASSUME CatInv, NEW e \in DOMAIN shows, NEW d \in DOMAIN shows,
             AdminKey(shows[e]) = AdminKey(shows[d])
      PROVE  \/ e = d
             \/ /\ shows[e].series # Null /\ shows[e].series = shows[d].series
                /\ shows[e].series_name = shows[d].series_name /\ shows[e].venue = shows[d].venue
  <2>1. /\ CustomerKey(shows[e]) = CustomerKey(shows[d])
        /\ (shows[e].series = Null) = (shows[d].series = Null)
    BY <1>2 DEF AdminKey
  <2>2. shows[e].id = e /\ shows[d].id = d
    BY <1>2 DEF CatInv, TypesOfShows
  <2>3. CASE shows[e].series = Null
    BY <2>1, <2>2, <2>3 DEF CustomerKey
  <2>4. CASE shows[e].series # Null
    <3>1. shows[d].series # Null
      BY <2>1, <2>4
    <3>2. shows[e].series = shows[d].series
      BY <2>1, <2>4, <3>1 DEF CustomerKey
    <3> QED
      BY <1>2, <2>4, <3>2 DEF CatInv, SeriesConsistent
  <2> QED
    BY <2>3, <2>4
<1>3. CatInv => PanelIsBySeries /\ RoundsTogether
  BY <1>1, <1>2 DEF PanelIsBySeries, RoundsTogether
<1> QED
  BY <1>3, CatalogInductive, PTL
=============================================================================
