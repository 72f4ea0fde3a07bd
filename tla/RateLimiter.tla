----------------------------- MODULE RateLimiter -----------------------------
(***************************************************************************)
(* The rate limiter (src/api/ratelimit.go) for the requests of one client  *)
(* address: the middleware and its two token buckets, "ip" for every       *)
(* request but probes, and "auth" for logins and registrations as well.    *)
(*                                                                         *)
(* A bucket is a Redis hash that one script reads and writes.  The script  *)
(* takes the time from its caller, who read the clock of its process       *)
(* before: scripts run up to Late ticks after that, in any order, and the  *)
(* clocks of the processes are up to Skew ahead of Redis'.                 *)
(*                                                                         *)
(* Tokens are counted in units: one comes back every tick, a request       *)
(* costs Cost of them.  Rounding is left out, and so is a limiter that is  *)
(* switched off (rps or burst 0): it lets every request pass.              *)
(***************************************************************************)
EXTENDS Integers, FiniteSets

CONSTANTS Reqs,
          Burst, Cost,   \* of each bucket, in units
          Slack,         \* by how much the TTL exceeds the time to refill
          Late, Skew,
          MaxTime,       \* bound: the clock
          Absent,
          RedisFails     \* whether calls to Redis may fail

Buckets == {"ip", "auth"}

BucketAssumption ==
  /\ Burst \in [Buckets -> Nat \ {0}] /\ Cost \in [Buckets -> Nat \ {0}]
  /\ \A b \in Buckets : Cost[b] <= Burst[b]
  /\ Late \in Nat /\ Skew \in Nat /\ MaxTime \in Nat
  /\ Slack \in Nat
  /\ Absent \notin [tokens : Nat, ts : Nat, life : Nat]
  /\ RedisFails \in BOOLEAN

ASSUME BucketAssumption

VARIABLES
  clock,    \* Redis' time
  bucket,   \* tokens and ts of the hash, and the time it has to live; or Absent
  req,      \* requests: kind, the bucket they ask, the time they read, how far they are
  granted,  \* requests a bucket let through (history)
  denied    \* requests a bucket refused (history)

vars == <<clock, bucket, req, granted, denied>>

NewReq == [kind |-> "probe", asks |-> "ip", now |-> 0, by |-> 0, step |-> "new"]

Init ==
  /\ clock = 0
  /\ bucket = [b \in Buckets |-> Absent]
  /\ req = [r \in Reqs |-> NewReq]
  /\ granted = [b \in Buckets |-> 0]
  /\ denied = [b \in Buckets |-> 0]

Least(m, n) == IF m <= n THEN m ELSE n
Most(m, n) == IF m >= n THEN m ELSE n

-----------------------------------------------------------------------------
(* tokenBucketScript *)

\* Mutant of TTL: the time one unit takes, not a full bucket.
TTLShort(b) == 1
\* The key's time to live: long enough to refill a full bucket, then evict.
TTL(b) == Burst[b] + Slack

\* Mutant of Refilled: without math.min(burst, ...).
RefilledOver(b, now) ==
  IF bucket[b] = Absent THEN Burst[b]
  ELSE bucket[b].tokens + Most(0, now - bucket[b].ts)
\* The tokens of the bucket at a time, refilled by the time elapsed since ts.
Refilled(b, now) ==
  IF bucket[b] = Absent THEN Burst[b]
  ELSE Least(Burst[b], bucket[b].tokens + Most(0, now - bucket[b].ts))

\* Mutant of Saved: ts is set when the bucket is made and not again.
SavedOnceTs(b, tokens, now) ==
  bucket' = [bucket EXCEPT ![b] =
    [tokens |-> tokens, ts |-> IF @ = Absent THEN now ELSE @.ts, life |-> TTL(b)]]
\* HSET tokens and ts, EXPIRE.
Saved(b, tokens, now) ==
  bucket' = [bucket EXCEPT ![b] = [tokens |-> tokens, ts |-> now, life |-> TTL(b)]]

Allowed(b, now) ==
  /\ Refilled(b, now) >= Cost[b]
  /\ Saved(b, Refilled(b, now) - Cost[b], now)
  /\ granted' = [granted EXCEPT ![b] = @ + 1]
  /\ UNCHANGED denied

Limited(b, now) ==
  /\ Refilled(b, now) < Cost[b]
  /\ Saved(b, Refilled(b, now), now)
  /\ denied' = [denied EXCEPT ![b] = @ + 1]
  /\ UNCHANGED granted

-----------------------------------------------------------------------------
(* middleware *)

\* allow() reads the clock of its process and sends the script.
Asking(r, kind, b) ==
  \E skew \in 0..Skew :
    req' = [req EXCEPT ![r] = [kind |-> kind, asks |-> b, now |-> clock + skew,
                               by |-> clock + Late, step |-> "asked"]]

Arrive(r, kind) ==
  /\ req[r].step = "new"
  /\ IF kind = "probe"
     THEN req' = [req EXCEPT ![r] = [NewReq EXCEPT !.step = "served"]]
     ELSE Asking(r, kind, "ip")
  /\ UNCHANGED <<clock, bucket, granted, denied>>

\* allow() returned true: the next bucket, if there is one, or the handler.
GoOn(r) ==
  IF req[r].kind = "credential" /\ req[r].asks = "ip"
  THEN Asking(r, "credential", "auth")
  ELSE req' = [req EXCEPT ![r] = [@ EXCEPT !.step = "served"]]

\* 429 rate_limited.
TurnAway(r) == req' = [req EXCEPT ![r] = [@ EXCEPT !.step = "limited"]]

RunScript(r) ==
  /\ req[r].step = "asked"
  /\ \/ Allowed(req[r].asks, req[r].now) /\ GoOn(r)
     \/ Limited(req[r].asks, req[r].now) /\ TurnAway(r)
  /\ UNCHANGED clock

\* Redis fails, before or after the script ran: allow() fails open.
FailOpen(r) ==
  /\ RedisFails
  /\ req[r].step = "asked"
  /\ \/ UNCHANGED <<bucket, granted, denied>>
     \/ Allowed(req[r].asks, req[r].now)
     \/ Limited(req[r].asks, req[r].now)
  /\ GoOn(r)
  /\ UNCHANGED clock

-----------------------------------------------------------------------------

\* A tick of Redis' clock; a key whose time to live is over is gone.  Scripts do not
\* wait longer than Late.
Tick ==
  /\ clock < MaxTime
  /\ \A r \in Reqs : req[r].step = "asked" => clock < req[r].by
  /\ clock' = clock + 1
  /\ bucket' = [b \in Buckets |->
                  IF bucket[b] = Absent \/ bucket[b].life <= 1 THEN Absent
                  ELSE [bucket[b] EXCEPT !.life = @ - 1]]
  /\ UNCHANGED <<req, granted, denied>>

\* All requests have their answer.
Rest ==
  /\ clock = MaxTime
  /\ \A r \in Reqs : req[r].step \notin {"new", "asked"}
  /\ UNCHANGED vars

Next ==
  \/ \E r \in Reqs :
       \/ \E kind \in {"probe", "general", "credential"} : Arrive(r, kind)
       \/ RunScript(r) \/ FailOpen(r)
  \/ Tick
  \/ Rest

Spec == Init /\ [][Next]_vars

-----------------------------------------------------------------------------
(* Properties *)

\* Every variable has its type; a bucket never has more tokens than it holds.
TypeOK ==
  /\ clock \in 0..MaxTime
  /\ bucket \in [Buckets -> [tokens : Nat, ts : Nat, life : Nat] \cup {Absent}]
  /\ \A b \in Buckets :
       bucket[b] # Absent => bucket[b] \in [tokens : 0..Burst[b], ts : 0..clock + Skew,
                                            life : 1..TTL(b)]
  /\ req \in [Reqs -> [kind : {"probe", "general", "credential"}, asks : Buckets,
                       now : 0..MaxTime + Skew, by : 0..MaxTime + Late,
                       step : {"new", "asked", "served", "limited"}]]
  /\ granted \in [Buckets -> Nat] /\ denied \in [Buckets -> Nat]

Disorder == Late + Skew
Runs(b) == granted[b] + denied[b]

\* However the scripts are late and the clocks disagree, a bucket grants no more than
\* its burst, what the time gives back, and the disorder of each run of the script
\* (which may set ts back by so much); a key that lapses gives nothing away.
BudgetUnderDisorder ==
  \A b \in Buckets :
    granted[b] * Cost[b] <= Burst[b] + clock + Skew + Disorder * Runs(b)

\* With scripts that run when they are sent and clocks that agree, each bucket is an
\* ideal one: the hash with its ts, and the key that lapses, are only a way to store it.
Level(b) == Refilled(b, clock)

IpBucket == INSTANCE IdealBucket WITH
  Burst <- Burst["ip"], Cost <- Cost["ip"],
  level <- Level("ip"), granted <- granted["ip"], denied <- denied["ip"]

AuthBucket == INSTANCE IdealBucket WITH
  Burst <- Burst["auth"], Cost <- Cost["auth"],
  level <- Level("auth"), granted <- granted["auth"], denied <- denied["auth"]

IdealBuckets == IpBucket!Spec /\ AuthBucket!Spec

=============================================================================
