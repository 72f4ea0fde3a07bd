------------------------------ MODULE Accounts ------------------------------
(***************************************************************************)
(* Who may log in: register and login (src/api/auth.go) behind the proof   *)
(* of work (src/api/pow.go), the form that solves it (AuthForm.jsx), and   *)
(* the bootstrap of the administrator (src/api/admin.go, src/api/main.go). *)
(*                                                                         *)
(* A submission is one use of the form: a call, and a second one with a    *)
(* solved challenge when the first is answered pow_required.  The second   *)
(* may be repeated on its way, and then counts as a submission of its own. *)
(* A row of users is named by its email, a token by the row it is for; the *)
(* hash of the challenge is whether somebody has solved it.                *)
(***************************************************************************)
EXTENDS Naturals, FiniteSets

CONSTANTS
  Emails, Passwords,
  Subs,           \* submissions
  Forms,          \* what may be filled in
  AdminEmail, AdminPassword,
  PowOn,          \* powDifficulty > 0
  MaxChallenges,  \* bound: challenges issued
  MaxTries,       \* attempts of the bootstrap, 30 in the code
  Faults,
  Nobody

Row == [password : Passwords, admin : BOOLEAN]
Form == [mode : {"register", "login"}, email : Emails, password : Passwords,
         valid : BOOLEAN]

ASSUME AccountsAssumption ==
  /\ Forms \subseteq Form
  /\ AdminEmail \in Emails /\ AdminPassword \in Passwords
  /\ PowOn \in BOOLEAN
  /\ MaxChallenges \in Nat /\ MaxTries \in Nat \ {0}
  /\ Nobody \notin Row \cup Form \cup Nat
  /\ Faults \subseteq {"redis_error", "reply_lost", "db_error"}

VARIABLES
  users,   \* the table users, by its unique email
  fresh,   \* Redis: pow:<challenge>
  minted,  \* challenges issued so far
  solved,  \* challenges somebody has solved
  form,    \* what a submission sends
  proof,   \* the challenge in its header; 0: none
  step,    \* how far it is
  got,     \* the row login has read
  resp,    \* the answer the form ends with
  tries    \* failed attempts of the bootstrap, or Nobody when it has landed

powVars == <<fresh, minted, solved>>
subVars == <<form, proof, step, got, resp>>
accountVars == <<users, powVars, subVars, tries>>

Challenges == 1..MaxChallenges

AccountsInit ==
  /\ users = [e \in Emails |-> Nobody]
  /\ fresh = {} /\ minted = 0 /\ solved = {}
  /\ form = [r \in Subs |-> Nobody]
  /\ proof = [r \in Subs |-> 0]
  /\ step = [r \in Subs |-> "idle"]
  /\ got = [r \in Subs |-> Nobody]
  /\ resp = [r \in Subs |-> "none"]
  /\ tries = 0

Goto(r, s) == step' = [step EXCEPT ![r] = s] /\ UNCHANGED resp
Answer(r, code) == step' = [step EXCEPT ![r] = "ended"] /\ resp' = [resp EXCEPT ![r] = code]

-----------------------------------------------------------------------------
(* The form *)

\* submit: the first call has no proof.
Submit(r) ==
  /\ step[r] = "idle"
  /\ \E f \in Forms : form' = [form EXCEPT ![r] = f]
  /\ Goto(r, "check")
  /\ UNCHANGED <<users, powVars, proof, got, tries>>

\* The second call of q reaches the API once more.
Repeat(r, q) ==
  /\ step[r] = "idle"
  /\ step[q] \notin {"idle", "solve"} /\ proof[q] # 0
  /\ form' = [form EXCEPT ![r] = form[q]]
  /\ proof' = [proof EXCEPT ![r] = proof[q]]
  /\ Goto(r, "check")
  /\ UNCHANGED <<users, powVars, got, tries>>

\* solvePow, and the second call; another client may send what it has not solved.
Solve(r) ==
  /\ step[r] = "solve"
  /\ solved' = solved \cup {proof[r]} \/ UNCHANGED solved
  /\ Goto(r, "check")
  /\ UNCHANGED <<users, fresh, minted, form, proof, got, tries>>

-----------------------------------------------------------------------------
(* checkPoW *)

\* pow_required with a new challenge, which is sent even if Redis did not take it.
PowRequired(r) ==
  /\ PowOn /\ step[r] = "check" /\ proof[r] = 0
  /\ minted < MaxChallenges
  /\ minted' = minted + 1
  /\ fresh' = fresh \cup {minted + 1} \/ ("redis_error" \in Faults /\ UNCHANGED fresh)
  /\ proof' = [proof EXCEPT ![r] = minted + 1]
  /\ Goto(r, "solve")
  /\ UNCHANGED <<users, solved, form, got, tries>>

\* Mutant of Consumed: GET instead of GETDEL.
ConsumedNot(c) == fresh \cup ({c} \cap fresh)
Consumed(c) == fresh \ {c}

PowPassed(r) ==
  /\ step[r] = "check"
  /\ PowOn => proof[r] \in fresh \cap solved
  /\ fresh' = IF PowOn THEN Consumed(proof[r]) ELSE fresh
  /\ Goto(r, "row")
  /\ UNCHANGED <<users, minted, solved, form, proof, got, tries>>

\* Unknown, consumed, lapsed or unsolved; or GETDEL fails, before it took effect or
\* after.  The form does not try the challenge of this answer.
PowInvalid(r) ==
  /\ PowOn /\ step[r] = "check" /\ proof[r] # 0
  /\ \/ proof[r] \notin fresh /\ UNCHANGED fresh
     \/ /\ proof[r] \in fresh /\ proof[r] \notin solved
        /\ fresh' = Consumed(proof[r])
     \/ "redis_error" \in Faults /\ UNCHANGED fresh
     \/ "reply_lost" \in Faults /\ fresh' = Consumed(proof[r])
  /\ Answer(r, "pow_invalid")
  /\ UNCHANGED <<users, minted, solved, form, proof, got, tries>>

Lapse(c) ==
  /\ c \in fresh
  /\ fresh' = fresh \ {c}
  /\ UNCHANGED <<users, minted, solved, subVars, tries>>

CheckPoW(r) == PowRequired(r) \/ PowPassed(r) \/ PowInvalid(r)

-----------------------------------------------------------------------------
(* register and login *)

\* Mutant of EmailFree: the insert overwrites the row of the email.
EmailAlwaysFree(e) == e \in Emails
\* The unique index on users(email) has no entry.
EmailFree(e) == users[e] = Nobody

\* The challenge is spent by now, whatever comes of the registration.
Register(r) ==
  /\ step[r] = "row" /\ form[r].mode = "register"
  /\ LET e == form[r].email IN
       \/ /\ ~form[r].valid
          /\ Answer(r, "invalid") /\ UNCHANGED users
       \/ /\ form[r].valid /\ ~EmailFree(e)
          /\ Answer(r, "email_taken") /\ UNCHANGED users
       \/ /\ form[r].valid /\ EmailFree(e)
          /\ users' = [users EXCEPT ![e] = [password |-> form[r].password, admin |-> FALSE]]
          /\ \/ Goto(r, "tokens")
             \/ "reply_lost" \in Faults /\ Answer(r, "db_error")
       \/ "db_error" \in Faults /\ Answer(r, "db_error") /\ UNCHANGED users
  /\ UNCHANGED <<powVars, form, proof, got, tries>>

\* The row is read, and its hash compared later, with nothing locked.
ReadUser(r) ==
  /\ step[r] = "row" /\ form[r].mode = "login"
  /\ LET row == users[form[r].email] IN
       \/ /\ row = Nobody
          /\ Answer(r, "invalid_credentials") /\ UNCHANGED got
       \/ /\ row # Nobody
          /\ got' = [got EXCEPT ![r] = row]
          /\ Goto(r, "compare")
       \/ "db_error" \in Faults /\ Answer(r, "db_error") /\ UNCHANGED got
  /\ UNCHANGED <<users, powVars, form, proof, tries>>

Compare(r) ==
  /\ step[r] = "compare"
  /\ IF got[r].password = form[r].password
       THEN Goto(r, "tokens") ELSE Answer(r, "invalid_credentials")
  /\ UNCHANGED <<users, powVars, form, proof, got, tries>>

\* issueTokens; when it fails, a registered row stays.
IssueTokens(r) ==
  /\ step[r] = "tokens"
  /\ \/ Answer(r, "ok")
     \/ "redis_error" \in Faults /\ Answer(r, "token_error")
  /\ UNCHANGED <<users, powVars, form, proof, got, tries>>

Submission(r) ==
  \/ Submit(r) \/ Solve(r) \/ (\E q \in Subs : Repeat(r, q))
  \/ CheckPoW(r) \/ Register(r) \/ ReadUser(r) \/ Compare(r) \/ IssueTokens(r)

-----------------------------------------------------------------------------
(* The bootstrap *)

AdminRow == [password |-> AdminPassword, admin |-> TRUE]

\* Mutant of Upserted: ON CONFLICT DO NOTHING.
UpsertedUnlessThere ==
  IF users[AdminEmail] = Nobody THEN [users EXCEPT ![AdminEmail] = AdminRow] ELSE users
Upserted == [users EXCEPT ![AdminEmail] = AdminRow]

\* ensureAdmin, again after a failure, which may be one of the reply only.
EnsureAdmin ==
  /\ tries # Nobody /\ tries < MaxTries
  /\ \/ users' = Upserted /\ tries' = Nobody
     \/ "reply_lost" \in Faults /\ users' = Upserted /\ tries' = tries + 1
     \/ "db_error" \in Faults /\ UNCHANGED users /\ tries' = tries + 1
  /\ UNCHANGED <<powVars, subVars>>

\* The API process is started again.
Restart ==
  /\ tries = Nobody \/ tries = MaxTries
  /\ tries' = 0
  /\ UNCHANGED <<users, powVars, subVars>>

AccountsNext ==
  \/ \E r \in Subs : Submission(r)
  \/ \E c \in fresh : Lapse(c)
  \/ EnsureAdmin
  \/ Restart

AccountsSpec == AccountsInit /\ [][AccountsNext]_accountVars

-----------------------------------------------------------------------------
(* Properties *)

Steps == {"idle", "check", "solve", "row", "compare", "tokens", "ended"}
Codes == {"none", "ok", "pow_invalid", "invalid", "email_taken", "db_error",
          "invalid_credentials", "token_error"}

\* Every variable has its type, and a submission shows how far it is in its proof.
AccountsTypeOK ==
  /\ users \in [Emails -> Row \cup {Nobody}]
  /\ minted \in 0..MaxChallenges
  /\ fresh \subseteq 1..minted /\ solved \subseteq 1..minted
  /\ form \in [Subs -> Form \cup {Nobody}]
  /\ proof \in [Subs -> 0..minted]
  /\ step \in [Subs -> Steps] /\ resp \in [Subs -> Codes]
  /\ got \in [Subs -> Row \cup {Nobody}]
  /\ tries \in 0..MaxTries \cup {Nobody}
  /\ \A r \in Subs :
       /\ step[r] # "idle" => form[r] # Nobody
       /\ step[r] = "idle" => proof[r] = 0
       /\ step[r] = "solve" => proof[r] # 0
       /\ step[r] = "compare" => got[r] # Nobody /\ form[r].mode = "login"
       /\ resp[r] # "none" <=> step[r] = "ended"

Passed(r) == \/ step[r] \in {"row", "compare", "tokens"}
             \/ resp[r] \notin {"none", "pow_invalid"}

\* Every submission that gets as far as the table has found a solution of its own: no
\* challenge is accepted twice, by requests that overlap, are repeated or come
\* late either (src/api/pow.go:69-76).
WorkPerSubmission ==
  PowOn => \A r, q \in Subs : Passed(r) =>
    /\ proof[r] \in solved /\ proof[r] \notin fresh
    /\ Passed(q) /\ proof[q] = proof[r] => q = r

Registered(r) == /\ resp[r] = "ok" \/ step[r] = "tokens"
                 /\ form[r].mode = "register"

\* Of the registrations of one email one gets in, and its password stays unless
\* the bootstrap sets the administrator's (src/api/auth.go:100-111).
OneAccountPerEmail ==
  \A r, q \in Subs : Registered(r) =>
    /\ users[form[r].email] \in
         {AdminRow, [password |-> form[r].password, admin |-> FALSE]}
    /\ Registered(q) /\ form[r].email = form[q].email => r = q

\* Once the bootstrap has landed, the administrator has the configured password
\* and rights, also if somebody had registered the email or does so later, and
\* nobody else ever has those rights (src/api/admin.go:30-33).
AdminIsConfigured ==
  /\ tries = Nobody => users[AdminEmail] = AdminRow
  /\ \A e \in Emails : users[e] # Nobody /\ users[e].admin => e = AdminEmail

\* Registrations, logins and the bootstrap together keep the accounts.
AccountsStand == OneAccountPerEmail /\ AdminIsConfigured

=============================================================================
