----------------------------- MODULE RateProofs -----------------------------
(* Theorems of RateLimiter, for any buckets, requests, delays and clocks:   *)
(* how much a bucket grants, and that it is an ideal one when scripts run   *)
(* when they are sent and the clocks agree.                                 *)
EXTENDS RateLimiter, TLAPS

Spent(b) == granted[b] * Cost[b]
Credit(b) == Disorder * Runs(b)

\* What a request that waits for its script has read, and for how long it waits.
Waiting ==
  \A r \in Reqs : req[r].step = "asked" =>
    /\ req[r].now <= clock + Skew
    /\ clock <= req[r].by
    /\ req[r].by <= req[r].now + Late

\* A key lives for a full refill after ts, as its writer saw the time.
Lives ==
  \A b \in Buckets : bucket[b] # Absent => clock + bucket[b].life + Skew >= bucket[b].ts + TTL(b)

\* What was spent and what is left came from the burst, the time up to ts, and disorder.
Balance ==
  \A b \in Buckets :
    IF bucket[b] = Absent
    THEN Spent(b) <= clock + Skew + Credit(b)
    ELSE Spent(b) + bucket[b].tokens <= Burst[b] + bucket[b].ts + Credit(b)

IInv == TypeOK /\ Waiting /\ Lives /\ Balance

-----------------------------------------------------------------------------

LEMMA Constants ==
  /\ \A b \in Buckets : Burst[b] \in Nat /\ Cost[b] \in Nat /\ Cost[b] <= Burst[b]
                        /\ Burst[b] > 0 /\ Cost[b] > 0
                        /\ TTL(b) \in Nat /\ TTL(b) >= Burst[b] /\ TTL(b) >= 1
  /\ Late \in Nat /\ Skew \in Nat /\ MaxTime \in Nat /\ Slack \in Nat
  BY BucketAssumption DEF BucketAssumption, TTL

LEMMA OneMore == \A g, c \in Nat : (g + 1) * c = g * c + c /\ g * c \in Nat /\ c * (g + 1) = c * g + c
  OBVIOUS

LEMMA Product == \A m, n \in Nat : m * n \in Nat
  OBVIOUS

\* A hash is not the absence of one.
LEMMA Present ==
  \A tokens, ts, life \in Nat : [tokens |-> tokens, ts |-> ts, life |-> life] # Absent
  BY BucketAssumption DEF BucketAssumption

LEMMA InitIInv == Init => IInv
<1> SUFFICES ASSUME Init PROVE IInv
  OBVIOUS
<1>1. TypeOK
  BY Constants DEF Init, TypeOK, NewReq, Buckets
<1>2. Waiting /\ Lives
  BY DEF Init, Waiting, Lives, NewReq, Buckets
<1>3. \A b \in Buckets : granted[b] = 0 /\ denied[b] = 0 /\ bucket[b] = Absent /\ clock = 0
  BY DEF Init
<1>4. Balance
  <2> SUFFICES ASSUME NEW b \in Buckets PROVE Spent(b) <= clock + Skew + Credit(b)
    BY <1>3 DEF Balance
  <2>1. Spent(b) = 0
    BY <1>3, Constants DEF Spent
  <2>2. Credit(b) = 0
    BY <1>3, Constants DEF Credit, Runs, Disorder
  <2> QED
    BY <1>3, <2>1, <2>2, Constants
<1> QED
  BY <1>1, <1>2, <1>4 DEF IInv

-----------------------------------------------------------------------------
(* The script *)

\* What the script finds in a bucket.
LEMMA RefilledBounds ==
  ASSUME IInv, NEW b \in Buckets, NEW now \in Nat
  PROVE  /\ Refilled(b, now) \in 0..Burst[b]
         /\ bucket[b] = Absent => Refilled(b, now) = Burst[b]
         /\ bucket[b] # Absent =>
              /\ bucket[b].tokens \in 0..Burst[b] /\ bucket[b].ts \in 0..(clock + Skew)
              /\ Refilled(b, now) <= bucket[b].tokens + Most(0, now - bucket[b].ts)
<1>1. CASE bucket[b] = Absent
  BY <1>1, Constants DEF Refilled
<1>2. CASE bucket[b] # Absent
  <2>1. bucket[b].tokens \in 0..Burst[b] /\ bucket[b].ts \in 0..(clock + Skew)
    BY <1>2 DEF IInv, TypeOK
  <2>2. clock \in Nat
    BY Constants DEF IInv, TypeOK
  <2> QED
    BY <1>2, <2>1, <2>2, Constants DEF Refilled, Least, Most
<1> QED
  BY <1>1, <1>2

\* One run of the script, allowed or not, at a time read up to Late ago on a clock that
\* is up to Skew ahead.
Ran(b, now) == Allowed(b, now) \/ Limited(b, now)

LEMMA RanEffect ==
  ASSUME IInv, NEW b \in Buckets, NEW now \in Nat, Ran(b, now)
  PROVE  /\ granted' \in [Buckets -> Nat] /\ denied' \in [Buckets -> Nat]
         /\ \A a \in Buckets \ {b} : granted'[a] = granted[a] /\ denied'[a] = denied[a]
         /\ \E tokens \in 0..Burst[b] :
              /\ bucket' = [bucket EXCEPT ![b] = [tokens |-> tokens, ts |-> now, life |-> TTL(b)]]
              /\ granted'[b] * Cost[b] + tokens = granted[b] * Cost[b] + Refilled(b, now)
              /\ granted'[b] + denied'[b] = granted[b] + denied[b] + 1
<1>1. /\ granted \in [Buckets -> Nat] /\ denied \in [Buckets -> Nat]
      /\ Refilled(b, now) \in 0..Burst[b] /\ Cost[b] \in Nat /\ Burst[b] \in Nat
  BY RefilledBounds, Constants DEF IInv, TypeOK
<1>2. CASE Allowed(b, now)
  <2>1. Refilled(b, now) - Cost[b] \in 0..Burst[b]
    BY <1>1, <1>2 DEF Allowed
  <2>2. granted' = [granted EXCEPT ![b] = @ + 1] /\ denied' = denied
    BY <1>2 DEF Allowed
  <2>3. granted'[b] = granted[b] + 1 /\ granted[b] \in Nat /\ denied[b] \in Nat
    BY <1>1, <2>2
  <2>4. granted'[b] * Cost[b] = granted[b] * Cost[b] + Cost[b] /\ granted[b] * Cost[b] \in Nat
    BY <1>1, <2>3, OneMore
  <2>5. bucket' = [bucket EXCEPT ![b] = [tokens |-> Refilled(b, now) - Cost[b], ts |-> now,
                                         life |-> TTL(b)]]
    BY <1>2 DEF Allowed, Saved
  <2>6. granted'[b] * Cost[b] + (Refilled(b, now) - Cost[b])
          = granted[b] * Cost[b] + Refilled(b, now)
    BY <1>1, <2>4
  <2>7. granted'[b] + denied'[b] = granted[b] + denied[b] + 1
    BY <2>2, <2>3
  <2>8. granted' \in [Buckets -> Nat] /\ denied' \in [Buckets -> Nat]
    BY <1>1, <2>2
  <2>9. \A a \in Buckets \ {b} : granted'[a] = granted[a] /\ denied'[a] = denied[a]
    BY <1>1, <2>2
  <2> QED
    BY <2>1, <2>5, <2>6, <2>7, <2>8, <2>9
<1>3. CASE Limited(b, now)
  <2>1. denied' = [denied EXCEPT ![b] = @ + 1] /\ granted' = granted
    BY <1>3 DEF Limited
  <2>2. denied'[b] = denied[b] + 1 /\ granted[b] \in Nat /\ denied[b] \in Nat
    BY <1>1, <2>1
  <2>3. bucket' = [bucket EXCEPT ![b] = [tokens |-> Refilled(b, now), ts |-> now,
                                         life |-> TTL(b)]]
    BY <1>3 DEF Limited, Saved
  <2>4. granted'[b] * Cost[b] + Refilled(b, now) = granted[b] * Cost[b] + Refilled(b, now)
    BY <2>1
  <2>5. granted'[b] + denied'[b] = granted[b] + denied[b] + 1
    BY <2>1, <2>2
  <2>6. granted' \in [Buckets -> Nat] /\ denied' \in [Buckets -> Nat]
    BY <1>1, <2>1
  <2>7. \A a \in Buckets \ {b} : granted'[a] = granted[a] /\ denied'[a] = denied[a]
    BY <1>1, <2>1
  <2> QED
    BY <1>1, <2>3, <2>4, <2>5, <2>6, <2>7
<1> QED
  BY <1>2, <1>3 DEF Ran

\* The script keeps the bucket in balance, though it may set ts back.
LEMMA RanKeeps ==
  ASSUME IInv, NEW b \in Buckets, NEW now \in Nat, Ran(b, now), UNCHANGED clock,
         now <= clock + Skew, clock <= now + Late
  PROVE  /\ bucket' \in [Buckets -> [tokens : Nat, ts : Nat, life : Nat] \cup {Absent}]
         /\ \A a \in Buckets : bucket'[a] # Absent =>
              bucket'[a] \in [tokens : 0..Burst[a], ts : 0..(clock' + Skew), life : 1..TTL(a)]
         /\ granted' \in [Buckets -> Nat] /\ denied' \in [Buckets -> Nat]
         /\ Lives' /\ Balance'
<1>1. PICK tokens \in 0..Burst[b] :
        /\ bucket' = [bucket EXCEPT ![b] = [tokens |-> tokens, ts |-> now, life |-> TTL(b)]]
        /\ granted'[b] * Cost[b] + tokens = granted[b] * Cost[b] + Refilled(b, now)
        /\ granted'[b] + denied'[b] = granted[b] + denied[b] + 1
  BY RanEffect
<1>2. /\ granted \in [Buckets -> Nat] /\ denied \in [Buckets -> Nat]
      /\ granted' \in [Buckets -> Nat] /\ denied' \in [Buckets -> Nat]
      /\ \A a \in Buckets \ {b} : granted'[a] = granted[a] /\ denied'[a] = denied[a]
      /\ bucket \in [Buckets -> [tokens : Nat, ts : Nat, life : Nat] \cup {Absent}]
      /\ clock \in Nat /\ clock' = clock
  BY RanEffect, Constants DEF IInv, TypeOK
<1>3. tokens \in Nat /\ TTL(b) \in Nat /\ Burst[b] \in Nat /\ TTL(b) >= 1
  BY Constants
<1>4. bucket'[b] = [tokens |-> tokens, ts |-> now, life |-> TTL(b)] /\ bucket'[b] # Absent
  BY <1>1, <1>2, <1>3, Present
<1>5. \A a \in Buckets \ {b} : bucket'[a] = bucket[a]
  BY <1>1, <1>2
<1>6. bucket' \in [Buckets -> [tokens : Nat, ts : Nat, life : Nat] \cup {Absent}]
  BY <1>1, <1>2, <1>3
<1>7. ASSUME NEW a \in Buckets, bucket'[a] # Absent
      PROVE  bucket'[a] \in [tokens : 0..Burst[a], ts : 0..(clock' + Skew), life : 1..TTL(a)]
  <2>1. CASE a = b
    BY <2>1, <1>2, <1>3, <1>4, Constants
  <2>2. CASE a # b
    BY <2>2, <1>2, <1>5, <1>7 DEF IInv, TypeOK
  <2> QED
    BY <2>1, <2>2
<1>8. Lives'
  <2> SUFFICES ASSUME NEW a \in Buckets, bucket'[a] # Absent
               PROVE  clock' + bucket'[a].life + Skew >= bucket'[a].ts + TTL(a)
    BY DEF Lives, TTL
  <2>1. CASE a = b
    BY <2>1, <1>2, <1>3, <1>4, Constants
  <2>2. CASE a # b
    BY <2>2, <1>2, <1>5 DEF IInv, Lives
  <2> QED
    BY <2>1, <2>2
<1>9. Balance'
  <2> SUFFICES ASSUME NEW a \in Buckets
               PROVE  IF bucket'[a] = Absent
                      THEN Spent(a)' <= clock' + Skew + Credit(a)'
                      ELSE Spent(a)' + bucket'[a].tokens
                             <= Burst[a] + bucket'[a].ts + Credit(a)'
    BY DEF Balance
  <2>1. CASE a # b
    BY <2>1, <1>2, <1>5 DEF IInv, Balance, Spent, Credit, Runs
  <2>2. ASSUME a = b PROVE Spent(b)' + tokens <= Burst[b] + now + Credit(b)'
    <3>1. PICK s \in Nat : s = granted[b] * Cost[b]
      BY <1>2, Constants, OneMore
    <3>2. PICK n \in Nat : n = granted[b] + denied[b]
      BY <1>2
    <3>3. PICK d \in Nat : d = Late + Skew
      BY Constants
    <3>4. PICK c \in Nat : c = d * n
      BY <3>2, <3>3, OneMore
    <3>5. Spent(b) = s /\ Credit(b) = c /\ Spent(b)' + tokens = s + Refilled(b, now)
      BY <1>1, <3>1, <3>2, <3>3, <3>4 DEF Spent, Credit, Runs, Disorder
    <3>6. Credit(b)' = c + d
      <4>1. d * (n + 1) = d * n + d
        BY <3>2, <3>3, OneMore
      <4> QED
        BY <4>1, <1>1, <3>2, <3>3, <3>4 DEF Credit, Runs, Disorder
    <3>7. CASE bucket[b] = Absent
      <4>1. s <= clock + Skew + c /\ Refilled(b, now) = Burst[b]
        BY <3>5, <3>7, RefilledBounds DEF IInv, Balance
      <4> QED
        BY <4>1, <3>3, <3>5, <3>6, <1>2, <1>3, Constants
    <3>8. CASE bucket[b] # Absent
      <4>1. /\ s + bucket[b].tokens <= Burst[b] + bucket[b].ts + c
            /\ bucket[b].tokens \in Nat /\ bucket[b].ts \in Nat
            /\ bucket[b].ts <= clock + Skew
            /\ Refilled(b, now) <= bucket[b].tokens + Most(0, now - bucket[b].ts)
            /\ Refilled(b, now) \in Nat
        BY <3>5, <3>8, <1>2, Constants, RefilledBounds DEF IInv, Balance
      <4> QED
        BY <4>1, <3>3, <3>5, <3>6, <1>2, <1>3, Constants DEF Most
    <3> QED
      BY <3>7, <3>8
  <2> QED
    BY <2>1, <2>2, <1>4
<1> QED
  BY <1>2, <1>6, <1>7, <1>8, <1>9

-----------------------------------------------------------------------------
(* The requests and the clock *)

\* What a request may become: any record of its type, which waits for a script as late
\* and as far ahead as assumed, or does not wait.
Fair(q) ==
  /\ q \in [kind : {"probe", "general", "credential"}, asks : Buckets,
            now : 0..MaxTime + Skew, by : 0..MaxTime + Late,
            step : {"new", "asked", "served", "limited"}]
  /\ q.step = "asked" => q.now <= clock + Skew /\ clock <= q.by /\ q.by <= q.now + Late

LEMMA ReqKeeps ==
  ASSUME IInv, UNCHANGED clock, NEW r \in Reqs, NEW q, Fair(q), req' = [req EXCEPT ![r] = q]
  PROVE  /\ req' \in [Reqs -> [kind : {"probe", "general", "credential"}, asks : Buckets,
                               now : 0..MaxTime + Skew, by : 0..MaxTime + Late,
                               step : {"new", "asked", "served", "limited"}]]
         /\ Waiting'
  BY DEF IInv, TypeOK, Waiting, Fair

LEMMA AskingFair ==
  ASSUME IInv, NEW r \in Reqs, NEW kind \in {"probe", "general", "credential"},
         NEW b \in Buckets, Asking(r, kind, b)
  PROVE  \E q : Fair(q) /\ req' = [req EXCEPT ![r] = q]
<1>1. PICK skew \in 0..Skew :
        req' = [req EXCEPT ![r] = [kind |-> kind, asks |-> b, now |-> clock + skew,
                                   by |-> clock + Late, step |-> "asked"]]
  BY DEF Asking
<1>2. clock \in 0..MaxTime
  BY DEF IInv, TypeOK
<1>3. Fair([kind |-> kind, asks |-> b, now |-> clock + skew, by |-> clock + Late,
            step |-> "asked"])
  BY <1>2, Constants DEF Fair
<1> QED
  BY <1>1, <1>3

\* A request that is told its answer no longer waits.
LEMMA AnsweredFair ==
  ASSUME IInv, NEW r \in Reqs, NEW s \in {"served", "limited"}
  PROVE  Fair([req[r] EXCEPT !.step = s])
  BY DEF IInv, TypeOK, Fair

LEMMA GoOnFair ==
  ASSUME IInv, NEW r \in Reqs, GoOn(r)
  PROVE  \E q : Fair(q) /\ req' = [req EXCEPT ![r] = q]
<1>1. CASE req[r].kind = "credential" /\ req[r].asks = "ip"
  BY <1>1, AskingFair DEF GoOn, Buckets
<1>2. CASE ~(req[r].kind = "credential" /\ req[r].asks = "ip")
  <2>1. req' = [req EXCEPT ![r] = [req[r] EXCEPT !.step = "served"]]
    BY <1>2 DEF GoOn
  <2> QED
    BY <2>1, AnsweredFair
<1> QED
  BY <1>1, <1>2

LEMMA ArriveKeeps ==
  ASSUME IInv, NEW r \in Reqs, NEW kind \in {"probe", "general", "credential"},
         Arrive(r, kind)
  PROVE  IInv'
<1>1. \E q : Fair(q) /\ req' = [req EXCEPT ![r] = q]
  <2>1. CASE kind = "probe"
    <3>1. Fair([NewReq EXCEPT !.step = "served"])
      BY Constants DEF Fair, NewReq, Buckets
    <3> QED
      BY <2>1, <3>1 DEF Arrive
  <2>2. CASE kind # "probe"
    BY <2>2, AskingFair DEF Arrive, Buckets
  <2> QED
    BY <2>1, <2>2
<1>2. UNCHANGED <<clock, bucket, granted, denied>>
  BY DEF Arrive
<1>3. /\ req' \in [Reqs -> [kind : {"probe", "general", "credential"}, asks : Buckets,
                            now : 0..MaxTime + Skew, by : 0..MaxTime + Late,
                            step : {"new", "asked", "served", "limited"}]]
      /\ Waiting'
  BY <1>1, <1>2, ReqKeeps
<1>4. TypeOK'
  BY <1>2, <1>3 DEF IInv, TypeOK, TTL
<1>5. Lives' /\ Balance'
  BY <1>2 DEF IInv, Lives, Balance, Spent, Credit, Runs, TTL
<1> QED
  BY <1>3, <1>4, <1>5 DEF IInv

\* A request that waits for its script: the script runs or not, and it hears of it or not.
LEMMA AskedKeeps ==
  ASSUME IInv, NEW r \in Reqs, req[r].step = "asked", UNCHANGED clock,
         Ran(req[r].asks, req[r].now) \/ UNCHANGED <<bucket, granted, denied>>,
         GoOn(r) \/ TurnAway(r)
  PROVE  IInv'
<1>1. \E q : Fair(q) /\ req' = [req EXCEPT ![r] = q]
  <2>1. CASE GoOn(r)
    BY <2>1, GoOnFair
  <2>2. CASE TurnAway(r)
    <3>1. req' = [req EXCEPT ![r] = [req[r] EXCEPT !.step = "limited"]]
      BY <2>2 DEF TurnAway
    <3> QED
      BY <3>1, AnsweredFair
  <2> QED
    BY <2>1, <2>2
<1>2. /\ req' \in [Reqs -> [kind : {"probe", "general", "credential"}, asks : Buckets,
                            now : 0..MaxTime + Skew, by : 0..MaxTime + Late,
                            step : {"new", "asked", "served", "limited"}]]
      /\ Waiting'
  BY <1>1, ReqKeeps
<1>3. clock \in 0..MaxTime /\ clock' \in 0..MaxTime
  BY DEF IInv, TypeOK
<1>4. CASE UNCHANGED <<bucket, granted, denied>>
  <2>1. TypeOK'
    BY <1>2, <1>3, <1>4 DEF IInv, TypeOK, TTL
  <2>2. Lives' /\ Balance'
    BY <1>4 DEF IInv, Lives, Balance, Spent, Credit, Runs, TTL
  <2> QED
    BY <1>2, <2>1, <2>2 DEF IInv
<1>5. CASE Ran(req[r].asks, req[r].now)
  <2>1. req[r].asks \in Buckets /\ req[r].now \in Nat
    BY Constants DEF IInv, TypeOK
  <2>2. req[r].now <= clock + Skew /\ clock <= req[r].now + Late
    BY <2>1, <1>3, Constants DEF IInv, Waiting, TypeOK
  <2>3. /\ bucket' \in [Buckets -> [tokens : Nat, ts : Nat, life : Nat] \cup {Absent}]
        /\ \A a \in Buckets : bucket'[a] # Absent =>
             bucket'[a] \in [tokens : 0..Burst[a], ts : 0..(clock' + Skew), life : 1..TTL(a)]
        /\ granted' \in [Buckets -> Nat] /\ denied' \in [Buckets -> Nat]
        /\ Lives' /\ Balance'
    BY <1>5, <2>1, <2>2, RanKeeps
  <2>4. TypeOK'
    BY <1>2, <1>3, <2>3 DEF TypeOK, TTL
  <2> QED
    BY <1>2, <2>3, <2>4 DEF IInv
<1> QED
  BY <1>4, <1>5

\* A key that lapses has had the time to refill: nothing is lost or won.
LEMMA TickKeeps ==
  ASSUME IInv, Tick
  PROVE  IInv'
<1>1. /\ clock \in Nat /\ clock' = clock + 1 /\ clock' \in 0..MaxTime
      /\ UNCHANGED <<req, granted, denied>>
      /\ bucket \in [Buckets -> [tokens : Nat, ts : Nat, life : Nat] \cup {Absent}]
  BY Constants DEF IInv, TypeOK, Tick
<1>2. ASSUME NEW b \in Buckets
      PROVE  \/ bucket'[b] = Absent /\ (bucket[b] = Absent \/ bucket[b].life <= 1)
             \/ /\ bucket[b] # Absent /\ bucket[b].life > 1 /\ bucket'[b] # Absent
                /\ bucket'[b] = [bucket[b] EXCEPT !.life = @ - 1]
  <2>1. bucket'[b] = IF bucket[b] = Absent \/ bucket[b].life <= 1 THEN Absent
                     ELSE [bucket[b] EXCEPT !.life = @ - 1]
    BY DEF Tick
  <2>2. CASE bucket[b] = Absent \/ bucket[b].life <= 1
    BY <2>1, <2>2
  <2>3. CASE bucket[b] # Absent /\ ~(bucket[b].life <= 1)
    <3>1. bucket[b] \in [tokens : Nat, ts : Nat, life : Nat]
      BY <2>3, <1>1
    <3>2. bucket[b].life > 1 /\ bucket'[b] = [bucket[b] EXCEPT !.life = @ - 1]
      BY <3>1, <2>1, <2>3
    <3>3. bucket'[b] \in [tokens : Nat, ts : Nat, life : Nat]
      BY <3>1, <3>2
    <3>4. bucket'[b] # Absent
      BY <3>3, BucketAssumption DEF BucketAssumption
    <3> QED
      BY <2>3, <3>2, <3>4
  <2> QED
    BY <2>2, <2>3
<1>3. ASSUME NEW b \in Buckets, bucket'[b] # Absent
      PROVE  /\ bucket[b] # Absent
             /\ bucket'[b] \in [tokens : 0..Burst[b], ts : 0..clock + Skew, life : 1..TTL(b)]
             /\ bucket'[b].tokens = bucket[b].tokens /\ bucket'[b].ts = bucket[b].ts
             /\ bucket'[b].life = bucket[b].life - 1
  <2>1. /\ bucket[b] # Absent /\ bucket[b].life > 1
        /\ bucket'[b] = [bucket[b] EXCEPT !.life = @ - 1]
    BY <1>2, <1>3
  <2>2. bucket[b] \in [tokens : 0..Burst[b], ts : 0..clock + Skew, life : 1..TTL(b)]
    BY <2>1 DEF IInv, TypeOK
  <2>3. TTL(b) \in Nat
    BY Constants
  <2> QED
    BY <2>1, <2>2, <2>3
<1>4. bucket' \in [Buckets -> [tokens : Nat, ts : Nat, life : Nat] \cup {Absent}]
  <2>1. \A b \in Buckets : bucket'[b] \in [tokens : Nat, ts : Nat, life : Nat] \cup {Absent}
    BY <1>1, <1>3, Constants
  <2>2. bucket' = [b \in Buckets |-> IF bucket[b] = Absent \/ bucket[b].life <= 1 THEN Absent
                                     ELSE [bucket[b] EXCEPT !.life = @ - 1]]
    BY DEF Tick
  <2> QED
    BY <2>1, <2>2
<1>5. TypeOK'
  <2>1. \A b \in Buckets : bucket'[b] # Absent =>
          bucket'[b] \in [tokens : 0..Burst[b], ts : 0..clock' + Skew, life : 1..TTL(b)]
    BY <1>1, <1>3, Constants
  <2>2. UNCHANGED <<req, granted, denied>> /\ clock' \in 0..MaxTime
    BY <1>1
  <2> QED
    BY <2>1, <2>2, <1>4 DEF IInv, TypeOK, TTL
<1>6. Waiting'
  <2>1. \A r \in Reqs : req[r].step = "asked" => clock < req[r].by
    BY DEF Tick
  <2>2. \A r \in Reqs : req[r].now \in Nat /\ req[r].by \in Nat
    BY Constants DEF IInv, TypeOK
  <2> QED
    BY <1>1, <2>1, <2>2, Constants DEF IInv, Waiting
<1>7. Lives'
  <2> SUFFICES ASSUME NEW b \in Buckets, bucket'[b] # Absent
               PROVE  clock' + bucket'[b].life + Skew >= bucket'[b].ts + TTL(b)
    BY DEF Lives, TTL
  <2>1. clock + bucket[b].life + Skew >= bucket[b].ts + TTL(b)
    BY <1>3 DEF IInv, Lives
  <2>2. bucket[b].life \in Nat /\ bucket[b].ts \in Nat
    BY <1>1, <1>3
  <2> QED
    BY <1>1, <1>3, <2>1, <2>2, Constants
<1>8. Balance'
  <2> SUFFICES ASSUME NEW b \in Buckets
               PROVE  IF bucket'[b] = Absent
                      THEN Spent(b) <= clock' + Skew + Credit(b)
                      ELSE Spent(b) + bucket'[b].tokens
                             <= Burst[b] + bucket'[b].ts + Credit(b)
    BY <1>1 DEF Balance, Spent, Credit, Runs
  <2>1. PICK s \in Nat : s = Spent(b)
    BY Constants, OneMore DEF IInv, TypeOK, Spent
  <2>2. PICK c \in Nat : c = Credit(b)
    <3>1. Runs(b) \in Nat /\ Disorder \in Nat
      BY Constants DEF IInv, TypeOK, Runs, Disorder
    <3> QED
      BY <3>1, Product DEF Credit
  <2>3. CASE bucket'[b] # Absent
    BY <2>3, <1>3 DEF IInv, Balance
  <2>4. CASE bucket[b] = Absent /\ bucket'[b] = Absent
    <3>1. s <= clock + Skew + c
      BY <2>1, <2>2, <2>4 DEF IInv, Balance
    <3> QED
      BY <3>1, <2>1, <2>2, <2>4, <1>1, Constants
  <2>5. CASE bucket[b] # Absent /\ bucket'[b] = Absent
    <3>1. s + bucket[b].tokens <= Burst[b] + bucket[b].ts + c
      BY <2>1, <2>2, <2>5 DEF IInv, Balance
    <3>2. bucket[b].life <= 1 /\ clock + bucket[b].life + Skew >= bucket[b].ts + TTL(b)
      BY <2>5, <1>2 DEF IInv, Lives
    <3>3. bucket[b].tokens \in Nat /\ bucket[b].ts \in Nat /\ bucket[b].life \in Nat
      BY <2>5, <1>1
    <3>4. s <= clock + 1 + Skew + c
      BY <3>1, <3>2, <3>3, <1>1, Constants
    <3> QED
      BY <3>4, <2>1, <2>2, <2>5, <1>1
  <2> QED
    BY <2>3, <2>4, <2>5
<1> QED
  BY <1>5, <1>6, <1>7, <1>8 DEF IInv

LEMMA NextIInv == IInv /\ [Next]_vars => IInv'
<1> SUFFICES ASSUME IInv, [Next]_vars PROVE IInv'
  OBVIOUS
<1>1. ASSUME NEW r \in Reqs, NEW kind \in {"probe", "general", "credential"}, Arrive(r, kind)
      PROVE  IInv'
  BY <1>1, ArriveKeeps
<1>2. ASSUME NEW r \in Reqs, RunScript(r) PROVE IInv'
  BY <1>2, AskedKeeps DEF RunScript, Ran
<1>3. ASSUME NEW r \in Reqs, FailOpen(r) PROVE IInv'
  BY <1>3, AskedKeeps DEF FailOpen, Ran
<1>4. CASE Tick
  BY <1>4, TickKeeps
<1>5. CASE UNCHANGED vars
  <2>1. UNCHANGED <<clock, bucket, req, granted, denied>>
    BY <1>5 DEF vars
  <2>2. TypeOK'
    BY <2>1 DEF IInv, TypeOK, TTL
  <2>3. Waiting' /\ Lives' /\ Balance'
    BY <2>1 DEF IInv, Waiting, Lives, Balance, Spent, Credit, Runs, TTL
  <2> QED
    BY <2>2, <2>3 DEF IInv
<1> QED
  BY <1>1, <1>2, <1>3, <1>4, <1>5 DEF Next, Rest

LEMMA SpecIInv == Spec => []IInv
<1> QED
  BY InitIInv, NextIInv, PTL DEF Spec

-----------------------------------------------------------------------------
(* Theorems *)

\* The variables have their types and a bucket never has more tokens than it holds, in
\* every run of tokenBucketScript.
THEOREM BucketsTyped == Spec => []TypeOK
<1>1. IInv => TypeOK
  BY DEF IInv
<1> QED
  BY <1>1, SpecIInv, PTL

\* However late the scripts are and however the clocks of the replicas disagree, a bucket
\* grants at most its burst, what time gave back, and the disorder of each of its runs.
THEOREM BudgetHolds == Spec => []BudgetUnderDisorder
<1>1. IInv => BudgetUnderDisorder
  <2> SUFFICES ASSUME IInv, NEW b \in Buckets
               PROVE  granted[b] * Cost[b] <= Burst[b] + clock + Skew + Disorder * Runs(b)
    BY DEF BudgetUnderDisorder
  <2>1. PICK s \in Nat : s = granted[b] * Cost[b]
    BY Constants, OneMore DEF IInv, TypeOK
  <2>2. PICK c \in Nat : c = Disorder * Runs(b)
    <3>1. Runs(b) \in Nat /\ Disorder \in Nat
      BY Constants DEF IInv, TypeOK, Runs, Disorder
    <3> QED
      BY <3>1, Product
  <2>3. clock \in Nat
    BY Constants DEF IInv, TypeOK
  <2>4. s <= Burst[b] + clock + Skew + c
    <3>1. CASE bucket[b] = Absent
      <4>1. s <= clock + Skew + c
        BY <3>1, <2>1, <2>2 DEF IInv, Balance, Spent, Credit
      <4> QED
        BY <4>1, <2>1, <2>2, <2>3, Constants
    <3>2. CASE bucket[b] # Absent
      <4>1. s + bucket[b].tokens <= Burst[b] + bucket[b].ts + c
        BY <3>2, <2>1, <2>2 DEF IInv, Balance, Spent, Credit
      <4>2. bucket[b].tokens \in Nat /\ bucket[b].ts \in Nat /\ bucket[b].ts <= clock + Skew
        BY <3>2, <2>3, Constants DEF IInv, TypeOK
      <4> QED
        BY <4>1, <4>2, <2>1, <2>2, <2>3, Constants
    <3> QED
      BY <3>1, <3>2
  <2> QED
    BY <2>1, <2>2, <2>4
<1> QED
  BY <1>1, SpecIInv, PTL

-----------------------------------------------------------------------------
(* Any stretch of time *)

\* Since a moment at which the bucket had granted s0, had a credit of k0, and the clock
\* stood at c0: nothing changed, or the balance holds of what came after.
Since(b, s0, k0, c0) ==
  /\ c0 <= clock
  /\ \/ Spent(b) = s0 /\ Credit(b) = k0
     \/ IF bucket[b] = Absent
        THEN Spent(b) - s0 <= (clock - c0) + Skew + (Credit(b) - k0)
        ELSE Spent(b) - s0 + bucket[b].tokens
               <= Burst[b] + (bucket[b].ts - c0) + (Credit(b) - k0)

LEMMA SpentCredit ==
  ASSUME TypeOK, NEW b \in Buckets
  PROVE  Spent(b) \in Nat /\ Credit(b) \in Nat /\ clock \in Nat
<1>1. granted[b] \in Nat /\ Runs(b) \in Nat /\ Disorder \in Nat /\ clock \in Nat
  BY Constants DEF TypeOK, Runs, Disorder
<1> QED
  BY <1>1, Constants, Product DEF Spent, Credit

\* A run of the script, the first since then or not.
LEMMA RanSince ==
  ASSUME IInv, NEW b \in Buckets, NEW now \in Nat, Ran(b, now), UNCHANGED clock,
         now <= clock + Skew, clock <= now + Late,
         NEW s0 \in Nat, NEW k0 \in Nat, NEW c0 \in Nat, Since(b, s0, k0, c0)
  PROVE  Since(b, s0, k0, c0)'
<1>1. PICK tokens \in 0..Burst[b] :
        /\ bucket' = [bucket EXCEPT ![b] = [tokens |-> tokens, ts |-> now, life |-> TTL(b)]]
        /\ granted'[b] * Cost[b] + tokens = granted[b] * Cost[b] + Refilled(b, now)
        /\ granted'[b] + denied'[b] = granted[b] + denied[b] + 1
  BY RanEffect
<1>2. tokens \in Nat /\ TTL(b) \in Nat /\ Burst[b] \in Nat
  BY Constants
<1>3. bucket'[b] = [tokens |-> tokens, ts |-> now, life |-> TTL(b)] /\ bucket'[b] # Absent
  BY <1>1, <1>2, Present DEF IInv, TypeOK
<1>4. PICK s \in Nat, c \in Nat : s = Spent(b) /\ c = Credit(b)
  BY SpentCredit DEF IInv
<1>5. PICK d \in Nat : d = Late + Skew
  BY Constants
<1>6. PICK n \in Nat : n = granted[b] + denied[b]
  BY DEF IInv, TypeOK
<1>7. Spent(b)' + tokens = s + Refilled(b, now) /\ Credit(b)' = c + d
  <2>1. d * (n + 1) = d * n + d
    BY <1>5, <1>6, OneMore
  <2> QED
    BY <1>1, <1>4, <1>5, <1>6, <2>1 DEF Spent, Credit, Runs, Disorder
<1>8. Spent(b)' \in Nat
  BY <1>1, RanEffect, Constants, Product DEF Spent
<1>9. Refilled(b, now) \in 0..Burst[b] /\ clock \in Nat
  BY RefilledBounds, Constants DEF IInv, TypeOK
<1>10. Spent(b)' - s0 + tokens <= Burst[b] + (now - c0) + (Credit(b)' - k0)
  <2>1. CASE s = s0 /\ c = k0
    BY <1>2, <1>5, <1>7, <1>8, <1>9, <2>1, Constants DEF Since
  <2>2. CASE bucket[b] = Absent /\ s - s0 <= (clock - c0) + Skew + (c - k0)
    BY <1>2, <1>5, <1>7, <1>8, <1>9, <2>2, Constants
  <2>3. CASE /\ bucket[b] # Absent
             /\ s - s0 + bucket[b].tokens <= Burst[b] + (bucket[b].ts - c0) + (c - k0)
    <3>1. /\ bucket[b].tokens \in Nat /\ bucket[b].ts \in Nat
          /\ bucket[b].ts <= clock + Skew
          /\ Refilled(b, now) <= bucket[b].tokens + Most(0, now - bucket[b].ts)
      BY <2>3, <1>9, Constants, RefilledBounds
    <3> QED
      BY <1>2, <1>5, <1>7, <1>8, <1>9, <2>3, <3>1, Constants DEF Most
  <2> QED
    BY <1>4, <2>1, <2>2, <2>3 DEF Since
<1> QED
  BY <1>3, <1>10 DEF Since

\* A tick, which may end the life of the key.
LEMMA TickSince ==
  ASSUME IInv, IInv', Tick, NEW b \in Buckets,
         NEW s0 \in Nat, NEW k0 \in Nat, NEW c0 \in Nat, Since(b, s0, k0, c0)
  PROVE  Since(b, s0, k0, c0)'
<1>1. /\ clock \in Nat /\ clock' = clock + 1
      /\ bucket[b] \in [tokens : Nat, ts : Nat, life : Nat] \cup {Absent}
      /\ bucket'[b] = IF bucket[b] = Absent \/ bucket[b].life <= 1 THEN Absent
                      ELSE [bucket[b] EXCEPT !.life = @ - 1]
  BY DEF IInv, TypeOK, Tick
<1>2. PICK s \in Nat, c \in Nat : s = Spent(b) /\ c = Credit(b)
  BY SpentCredit DEF IInv
<1>3. Spent(b)' = s /\ Credit(b)' = c
  BY <1>2 DEF Tick, Spent, Credit, Runs
<1>4. c0 <= clock'
  BY <1>1 DEF Since
<1>5. CASE s = s0 /\ c = k0
  BY <1>3, <1>4, <1>5 DEF Since
<1>6. CASE bucket[b] = Absent /\ s - s0 <= (clock - c0) + Skew + (c - k0)
  <2>1. bucket'[b] = Absent /\ s - s0 <= (clock' - c0) + Skew + (c - k0)
    BY <1>1, <1>6, Constants
  <2> QED
    BY <1>3, <1>4, <2>1 DEF Since
<1>7. CASE /\ bucket[b] # Absent
           /\ s - s0 + bucket[b].tokens <= Burst[b] + (bucket[b].ts - c0) + (c - k0)
  <2>1. bucket[b] \in [tokens : Nat, ts : Nat, life : Nat]
    BY <1>1, <1>7
  <2>2. CASE bucket[b].life <= 1
    <3>1. clock + bucket[b].life + Skew >= bucket[b].ts + TTL(b)
      BY <1>7 DEF IInv, Lives
    <3>2. bucket'[b] = Absent
      BY <1>1, <2>2
    <3>3. s - s0 <= (clock' - c0) + Skew + (c - k0)
      BY <1>1, <1>7, <2>1, <2>2, <3>1, Constants
    <3> QED
      BY <1>3, <1>4, <3>2, <3>3 DEF Since
  <2>3. CASE ~(bucket[b].life <= 1)
    <3>1. /\ bucket'[b] \in [tokens : Nat, ts : Nat, life : Nat]
          /\ bucket'[b].tokens = bucket[b].tokens /\ bucket'[b].ts = bucket[b].ts
      BY <1>1, <1>7, <2>1, <2>3
    <3>2. bucket'[b] # Absent
      BY <3>1, BucketAssumption DEF BucketAssumption
    <3> QED
      BY <1>3, <1>4, <1>7, <3>1, <3>2 DEF Since
  <2> QED
    BY <2>2, <2>3
<1> QED
  BY <1>2, <1>5, <1>6, <1>7 DEF Since

LEMMA NextSince ==
  ASSUME IInv, IInv', [Next]_vars, NEW b \in Buckets,
         NEW s0 \in Nat, NEW k0 \in Nat, NEW c0 \in Nat, Since(b, s0, k0, c0)
  PROVE  Since(b, s0, k0, c0)'
<1>1. ASSUME UNCHANGED <<clock, bucket, granted, denied>> PROVE Since(b, s0, k0, c0)'
  BY <1>1 DEF Since, Spent, Credit, Runs
<1>2. ASSUME NEW r \in Reqs, req[r].step = "asked", UNCHANGED clock,
             Ran(req[r].asks, req[r].now)
      PROVE  Since(b, s0, k0, c0)'
  <2>1. /\ req[r].asks \in Buckets /\ req[r].now \in Nat /\ req[r].by \in Nat
        /\ clock \in Nat
    BY Constants DEF IInv, TypeOK
  <2>2. req[r].now <= clock + Skew /\ clock <= req[r].now + Late
    BY <1>2, <2>1, Constants DEF IInv, Waiting
  <2>3. CASE req[r].asks = b
    BY <1>2, <2>1, <2>2, <2>3, RanSince
  <2>4. CASE req[r].asks # b
    <3>1. granted'[b] = granted[b] /\ denied'[b] = denied[b] /\ bucket'[b] = bucket[b]
      BY <1>2, <2>1, <2>4, RanEffect DEF IInv, TypeOK
    <3> QED
      BY <1>2, <3>1 DEF Since, Spent, Credit, Runs
  <2> QED
    BY <2>3, <2>4
<1>3. ASSUME NEW r \in Reqs, NEW kind \in {"probe", "general", "credential"}, Arrive(r, kind)
      PROVE  Since(b, s0, k0, c0)'
  BY <1>1, <1>3 DEF Arrive
<1>4. ASSUME NEW r \in Reqs, RunScript(r) PROVE Since(b, s0, k0, c0)'
  BY <1>2, <1>4 DEF RunScript, Ran
<1>5. ASSUME NEW r \in Reqs, FailOpen(r) PROVE Since(b, s0, k0, c0)'
  BY <1>1, <1>2, <1>5 DEF FailOpen, Ran
<1>6. CASE Tick
  BY <1>6, TickSince
<1>7. CASE UNCHANGED vars
  BY <1>1, <1>7 DEF vars
<1> QED
  BY <1>3, <1>4, <1>5, <1>6, <1>7 DEF Next, Rest

\* From any moment on, however much the bucket had granted by then, it grants at most its
\* burst, the time since, and the disorder of each run since: a client that was refused
\* or silent saves up no more than the burst.
THEOREM BudgetFromAnyMoment ==
  ASSUME NEW b \in Buckets, NEW s0, NEW k0, NEW c0
  PROVE  Spec => [](Spent(b) = s0 /\ Credit(b) = k0 /\ clock = c0 =>
                    [](Spent(b) - s0 <= Burst[b] + (clock - c0) + Skew + (Credit(b) - k0)))
<1> DEFINE Start == Spent(b) = s0 /\ Credit(b) = k0 /\ clock = c0
           Inv == /\ s0 \in Nat /\ k0 \in Nat /\ c0 \in Nat
                  /\ Since(b, s0, k0, c0)
           Bound == Spent(b) - s0 <= Burst[b] + (clock - c0) + Skew + (Credit(b) - k0)
<1>1. IInv /\ Start => Inv
  BY SpentCredit DEF IInv, Since
<1>2. IInv /\ IInv' /\ Inv /\ [Next]_vars => Inv'
  BY NextSince
<1>3. IInv /\ Inv => Bound
  <2> SUFFICES ASSUME IInv, Inv PROVE Bound
    OBVIOUS
  <2>1. Spent(b) \in Nat /\ Credit(b) \in Nat /\ clock \in Nat /\ Burst[b] \in Nat /\ Skew \in Nat
    BY SpentCredit, Constants DEF IInv
  <2>2. CASE Spent(b) = s0 /\ Credit(b) = k0
    BY <2>1, <2>2 DEF Since
  <2>3. CASE bucket[b] = Absent /\ Spent(b) - s0 <= (clock - c0) + Skew + (Credit(b) - k0)
    BY <2>1, <2>3
  <2>4. CASE /\ bucket[b] # Absent
             /\ Spent(b) - s0 + bucket[b].tokens
                  <= Burst[b] + (bucket[b].ts - c0) + (Credit(b) - k0)
    <3>1. bucket[b].tokens \in Nat /\ bucket[b].ts \in Nat /\ bucket[b].ts <= clock + Skew
      BY <2>1, <2>4, Constants DEF IInv, TypeOK
    <3> QED
      BY <2>1, <2>4, <3>1
  <2> QED
    BY <2>2, <2>3, <2>4 DEF Since
<1> HIDE DEF Start, Inv, Bound
<1>4. Spec => [](Start => []Bound)
  BY <1>1, <1>2, <1>3, SpecIInv, PTL DEF Spec
<1> QED
  BY <1>4 DEF Start, Bound

-----------------------------------------------------------------------------
(* Ideal buckets *)

\* What the ideal bucket lets happen to a bucket in a step.
Ideally(b) ==
  \/ Level(b)' = Level(b) /\ granted'[b] = granted[b] /\ denied'[b] = denied[b]
  \/ /\ Level(b) < Burst[b] /\ Level(b)' = Level(b) + 1
     /\ granted'[b] = granted[b] /\ denied'[b] = denied[b]
  \/ /\ Level(b) >= Cost[b] /\ Level(b)' = Level(b) - Cost[b]
     /\ granted'[b] = granted[b] + 1 /\ denied'[b] = denied[b]
  \/ /\ Level(b) < Cost[b] /\ Level(b)' = Level(b)
     /\ granted'[b] = granted[b] /\ denied'[b] = denied[b] + 1

\* What the script saved at this time is what the bucket holds at this time.
LEMMA SavedLevel ==
  ASSUME IInv, NEW b \in Buckets, NEW tokens \in 0..Burst[b], UNCHANGED clock,
         bucket' = [bucket EXCEPT ![b] = [tokens |-> tokens, ts |-> clock, life |-> TTL(b)]]
  PROVE  /\ Level(b)' = tokens
         /\ \A a \in Buckets \ {b} : Level(a)' = Level(a)
<1>1. /\ bucket \in [Buckets -> [tokens : Nat, ts : Nat, life : Nat] \cup {Absent}]
      /\ clock \in Nat /\ tokens \in Nat /\ TTL(b) \in Nat /\ Burst[b] \in Nat
  BY Constants DEF IInv, TypeOK
<1>2. /\ bucket'[b] = [tokens |-> tokens, ts |-> clock, life |-> TTL(b)]
      /\ bucket'[b] # Absent
  BY <1>1, Present
<1>3. \A a \in Buckets \ {b} : bucket'[a] = bucket[a]
  BY <1>1
<1>4. Level(b)' = tokens
  BY <1>1, <1>2 DEF Level, Refilled, Least, Most
<1>5. \A a \in Buckets \ {b} : Level(a)' = Level(a)
  BY <1>3 DEF Level, Refilled
<1> QED
  BY <1>4, <1>5

LEMMA RanIdeally ==
  ASSUME IInv, NEW b \in Buckets, Ran(b, clock), UNCHANGED clock, NEW a \in Buckets
  PROVE  Ideally(a)
<1>1. /\ granted \in [Buckets -> Nat] /\ denied \in [Buckets -> Nat] /\ clock \in Nat
      /\ Cost[b] \in Nat /\ Burst[b] \in Nat
  BY Constants DEF IInv, TypeOK
<1>2. Refilled(b, clock) \in 0..Burst[b] /\ Level(b) = Refilled(b, clock)
  BY <1>1, RefilledBounds DEF Level
<1>3. CASE Allowed(b, clock)
  <2>1. /\ Refilled(b, clock) - Cost[b] \in 0..Burst[b]
        /\ bucket' = [bucket EXCEPT ![b] = [tokens |-> Refilled(b, clock) - Cost[b],
                                            ts |-> clock, life |-> TTL(b)]]
        /\ granted' = [granted EXCEPT ![b] = @ + 1] /\ denied' = denied
        /\ Level(b) >= Cost[b]
    BY <1>1, <1>2, <1>3 DEF Allowed, Saved
  <2>2. /\ Level(b)' = Level(b) - Cost[b]
        /\ \A c \in Buckets \ {b} : Level(c)' = Level(c)
    BY <2>1, <1>2, SavedLevel
  <2> QED
    BY <1>1, <2>1, <2>2 DEF Ideally
<1>4. CASE Limited(b, clock)
  <2>1. /\ bucket' = [bucket EXCEPT ![b] = [tokens |-> Refilled(b, clock),
                                            ts |-> clock, life |-> TTL(b)]]
        /\ denied' = [denied EXCEPT ![b] = @ + 1] /\ granted' = granted
        /\ Level(b) < Cost[b]
    BY <1>2, <1>4 DEF Limited, Saved
  <2>2. /\ Level(b)' = Level(b)
        /\ \A c \in Buckets \ {b} : Level(c)' = Level(c)
    BY <2>1, <1>2, SavedLevel
  <2> QED
    BY <1>1, <2>1, <2>2 DEF Ideally
<1> QED
  BY <1>3, <1>4 DEF Ran

\* A tick fills a bucket by one unit; a key that lapses was full, or full but for it.
LEMMA TickIdeally ==
  ASSUME IInv, Skew = 0, Tick, NEW b \in Buckets
  PROVE  Ideally(b)
<1>1. /\ clock \in Nat /\ clock' = clock + 1 /\ granted' = granted /\ denied' = denied
      /\ bucket \in [Buckets -> [tokens : Nat, ts : Nat, life : Nat] \cup {Absent}]
      /\ Burst[b] \in Nat /\ TTL(b) \in Nat /\ TTL(b) >= Burst[b]
  BY Constants DEF IInv, TypeOK, Tick
<1>2. bucket'[b] = IF bucket[b] = Absent \/ bucket[b].life <= 1 THEN Absent
                   ELSE [bucket[b] EXCEPT !.life = @ - 1]
  BY DEF Tick
<1>3. Level(b)' = Level(b) \/ (Level(b) < Burst[b] /\ Level(b)' = Level(b) + 1)
  <2>1. CASE bucket[b] = Absent
    BY <2>1, <1>2 DEF Level, Refilled
  <2>2. CASE bucket[b] # Absent
    <3>1. /\ bucket[b] \in [tokens : Nat, ts : Nat, life : Nat]
          /\ bucket[b].ts <= clock /\ bucket[b].tokens <= Burst[b]
      BY <2>2, <1>1 DEF IInv, TypeOK
    <3>2. clock + bucket[b].life >= bucket[b].ts + TTL(b)
      BY <2>2, <3>1, <1>1 DEF IInv, Lives
    <3>3. Level(b) = Least(Burst[b], bucket[b].tokens + (clock - bucket[b].ts))
      BY <2>2, <3>1, <1>1 DEF Level, Refilled, Most
    <3>4. CASE bucket[b].life <= 1
      <4>1. Level(b)' = Burst[b]
        BY <2>2, <3>4, <1>2 DEF Level, Refilled
      <4>2. clock - bucket[b].ts >= Burst[b] - 1
        BY <3>1, <3>2, <3>4, <1>1
      <4> QED
        BY <4>1, <4>2, <3>1, <3>3, <1>1 DEF Least
    <3>5. CASE ~(bucket[b].life <= 1)
      <4>1. bucket'[b] = [bucket[b] EXCEPT !.life = @ - 1]
        BY <2>2, <3>5, <1>2
      <4>2. /\ bucket'[b] \in [tokens : Nat, ts : Nat, life : Nat]
            /\ bucket'[b].tokens = bucket[b].tokens /\ bucket'[b].ts = bucket[b].ts
        BY <4>1, <3>1, <3>5
      <4>3. bucket'[b] # Absent
        BY <4>2, BucketAssumption DEF BucketAssumption
      <4>4. Level(b)' = Least(Burst[b], bucket[b].tokens + (clock + 1 - bucket[b].ts))
        BY <4>2, <4>3, <3>1, <1>1 DEF Level, Refilled, Most
      <4> QED
        BY <4>4, <3>1, <3>3, <1>1 DEF Least
    <3> QED
      BY <3>4, <3>5
  <2> QED
    BY <2>1, <2>2
<1> QED
  BY <1>1, <1>3 DEF Ideally

LEMMA StepIdeally ==
  ASSUME IInv, Late = 0, Skew = 0, [Next]_vars, NEW b \in Buckets
  PROVE  Ideally(b)
<1>1. ASSUME UNCHANGED <<clock, bucket, granted, denied>> PROVE Ideally(b)
  BY <1>1 DEF Ideally, Level, Refilled
<1>2. ASSUME NEW r \in Reqs, req[r].step = "asked", UNCHANGED clock, Ran(req[r].asks, req[r].now)
      PROVE  Ideally(b)
  <2>1. /\ req[r].asks \in Buckets /\ req[r].now \in Nat /\ req[r].by \in Nat
        /\ clock \in Nat
    BY Constants DEF IInv, TypeOK
  <2>2. /\ req[r].now <= clock + 0 /\ clock <= req[r].by /\ req[r].by <= req[r].now + 0
    BY <1>2 DEF IInv, Waiting
  <2>3. req[r].now = clock
    BY <2>1, <2>2
  <2> QED
    BY <1>2, <2>1, <2>3, RanIdeally
<1>3. ASSUME NEW r \in Reqs, NEW kind \in {"probe", "general", "credential"}, Arrive(r, kind)
      PROVE  Ideally(b)
  BY <1>1, <1>3 DEF Arrive
<1>4. ASSUME NEW r \in Reqs, RunScript(r) PROVE Ideally(b)
  BY <1>2, <1>4 DEF RunScript, Ran
<1>5. ASSUME NEW r \in Reqs, FailOpen(r) PROVE Ideally(b)
  BY <1>1, <1>2, <1>5 DEF FailOpen, Ran
<1>6. CASE Tick
  BY <1>6, TickIdeally
<1>7. CASE UNCHANGED vars
  BY <1>1, <1>7 DEF vars
<1> QED
  BY <1>3, <1>4, <1>5, <1>6, <1>7 DEF Next, Rest

LEMMA InitIdeally == Init => IpBucket!Init /\ AuthBucket!Init
<1> SUFFICES ASSUME Init PROVE IpBucket!Init /\ AuthBucket!Init
  OBVIOUS
<1>1. \A b \in Buckets : Level(b) = Burst[b] /\ granted[b] = 0 /\ denied[b] = 0
  BY DEF Init, Level, Refilled
<1> QED
  BY <1>1 DEF IpBucket!Init, AuthBucket!Init, Buckets

\* When a script runs as soon as it is sent and the clocks agree, the hash with its ts and
\* its time to live, and requests that go on when Redis fails, implement ideal buckets.
THEOREM BucketsAreIdeal ==
  ASSUME Late = 0, Skew = 0
  PROVE  Spec => IdealBuckets
<1>1. IInv /\ [Next]_vars => [IpBucket!Next]_IpBucket!vars
  <2> SUFFICES ASSUME IInv, [Next]_vars PROVE [IpBucket!Next]_IpBucket!vars
    OBVIOUS
  <2>1. Ideally("ip")
    BY StepIdeally DEF Buckets
  <2> QED
    BY <2>1 DEF Ideally, IpBucket!Next, IpBucket!vars, IpBucket!Fill, IpBucket!Grant,
                IpBucket!Deny
<1>2. IInv /\ [Next]_vars => [AuthBucket!Next]_AuthBucket!vars
  <2> SUFFICES ASSUME IInv, [Next]_vars PROVE [AuthBucket!Next]_AuthBucket!vars
    OBVIOUS
  <2>1. Ideally("auth")
    BY StepIdeally DEF Buckets
  <2> QED
    BY <2>1 DEF Ideally, AuthBucket!Next, AuthBucket!vars, AuthBucket!Fill,
                AuthBucket!Grant, AuthBucket!Deny
<1> QED
  BY <1>1, <1>2, InitIdeally, SpecIInv, PTL
     DEF Spec, IdealBuckets, IpBucket!Spec, AuthBucket!Spec

=============================================================================
