------------------------------- MODULE Booking -------------------------------
(***************************************************************************)
(* The seat sale of the Go API: createBooking, payOrder and cancelOrder    *)
(* (api/handlers.go), the expiry worker (api/main.go), the Redis holds and *)
(* the guards of the Postgres schema (db/001_init.sql).                    *)
(*                                                                         *)
(* Every HTTP request is a process that runs one handler once.  Its steps  *)
(* are the calls it makes to Redis and Postgres, in the order of the code; *)
(* any other request, the worker, the clock and a fault may come between   *)
(* two of them.  An order is named by the booking request that inserts it. *)
(*                                                                         *)
(* Abstractions: time is a set of countdowns that Tick decrements; prices  *)
(* are left out, so that a payment records the seats it charged; a         *)
(* transaction whose writes all lie under a row lock it holds (pay,        *)
(* cancel, expiry) writes at its commit, and the one whose uncommitted     *)
(* rows others can run into (booking) inserts them one by one.             *)
(***************************************************************************)
EXTENDS Integers, FiniteSets

CONSTANTS
  Users, Events, Seats,
  Keys,        \* idempotency keys
  Reqs,        \* HTTP requests; a booking request also names its order
  Workers,     \* expiry workers, one in each API process
  EventOf,     \* the event a seat belongs to
  HoldTTL,     \* app.holdTTL, in ticks of the clock
  MaxHeld,     \* app.maxHeldSeats
  SeedSold,    \* seats the seed inserts as SOLD, without an order
  InitEvent,   \* the events' rows when the API starts
  Patches,     \* rows an administrator may turn an event into
  Calls,       \* what each request may ask for
  Faults,      \* the faults that may happen
  None

\* A list of len seat ids that names the seats, some perhaps twice.
BookCall == {c \in [op : {"book"}, user : Users, event : Events,
                    seats : SUBSET Seats, len : 1..20] :
               c.seats # {} /\ Cardinality(c.seats) <= c.len}
PayCall == [op : {"pay"}, user : Users, order : Reqs, key : Keys]
CancelCall == [op : {"cancel"}, user : Users, order : Reqs]
AnyCall == BookCall \cup PayCall \cup CancelCall

EventRow == [status : {"ON_SALE", "CLOSED"}, opensIn : Nat, cap : Nat]
Faultable == {"redis_error", "reply_lost", "redis_loss", "db_error", "crash"}
OrderStatus == {"NONE", "PENDING", "PAID", "EXPIRED", "CANCELLED"}
Label == {"new", "hold", "cap", "begin", "items", "release", "rollback", "lock",
          "confirm", "clear", "cancel", "uncover", "done", "crashed"}

Code == {"created", "event_not_found", "sale_not_open", "seat_count_exceeds_limit",
         "booking_unavailable", "seat_taken", "hold_limit_exceeded", "db_error",
         "paid", "replayed", "already_paid", "order_not_found", "order_expired",
         "seat_no_longer_available", "duplicate_payment", "cancelled", "not_cancellable"}

ASSUME ConstantAssumption ==
  /\ IsFiniteSet(Seats)
  /\ EventOf \in [Seats -> Events]
  /\ HoldTTL \in Nat \ {0}
  /\ MaxHeld \in Nat
  /\ SeedSold \subseteq Seats
  /\ InitEvent \in [Events -> EventRow]
  /\ Patches \subseteq EventRow
  /\ Calls \in [Reqs -> SUBSET AnyCall]
  /\ Faults \subseteq Faultable
  /\ None \notin Reqs \cup Workers \cup Code
  /\ Reqs \cap Workers = {}

VARIABLES
  event,     \* events: status, time to sale_opens_at, max_seats_per_order
  seat,      \* seats.status
  status,    \* orders.status; "NONE" until the order commits
  left,      \* time to orders.expires_at; below zero, it has passed
  items,     \* committed order_items: the seats of each order
  payments,  \* committed payments
  hold,      \* Redis: hold:<event>:<seat>, who set it and the time it has left
  pc,        \* the step each request is at
  call,      \* what each request asks for
  rows,      \* seats a request has read: its candidates or the keys to clear
  claim,     \* order_items a booking transaction inserted and not committed
  lock,      \* who holds the row lock of an order
  resp,      \* the answer a request has decided on
  todo       \* overdue orders a worker's statement has still to lock

database == <<event, seat, status, items, payments>>
locals == <<call, rows>>
vars == <<database, left, hold, pc, locals, claim, lock, resp, todo>>

NoHold == [by |-> None, ttl |-> 0]

Init ==
  /\ event = InitEvent
  /\ seat = [s \in Seats |-> IF s \in SeedSold THEN "SOLD" ELSE "AVAILABLE"]
  /\ status = [o \in Reqs |-> "NONE"]
  /\ left = [o \in Reqs |-> -1]
  /\ items = [o \in Reqs |-> {}]
  /\ payments = {}
  /\ hold = [k \in Events \X Seats |-> NoHold]
  /\ pc = [r \in Reqs |-> "new"]
  /\ call \in {c \in [Reqs -> UNION {Calls[r] : r \in Reqs}] :
                 \A r \in Reqs : c[r] \in Calls[r]}
  /\ rows = [r \in Reqs |-> {}]
  /\ claim = [r \in Reqs |-> {}]
  /\ lock = [o \in Reqs |-> None]
  /\ resp = [r \in Reqs |-> None]
  /\ todo = [w \in Workers |-> {}]

Goto(r, label) == pc' = [pc EXCEPT ![r] = label] /\ UNCHANGED resp
Leave(r, label, code) == pc' = [pc EXCEPT ![r] = label] /\ resp' = [resp EXCEPT ![r] = code]
Answer(r, code) == Leave(r, "done", code)
\* Give the holds back, then answer.
Refuse(r, code) == Leave(r, "release", code)

\* DEL of Redis keys, whoever set them.
Cleared(ks) == [k \in DOMAIN hold |-> IF k \in ks THEN NoHold ELSE hold[k]]
\* A DEL whose error the caller ignores.
Delete(ks) == hold' = Cleared(ks) \/ ("redis_error" \in Faults /\ UNCHANGED hold)
KeysOf(ss) == {<<EventOf[s], s>> : s \in ss}

-----------------------------------------------------------------------------
(* createBooking *)

\* Mutant of OnSale: the sale time is left to the page's countdown.
OnSaleByStatus(e) == event[e].status = "ON_SALE"
OnSale(e) == event[e].status = "ON_SALE" /\ event[e].opensIn = 0

\* The sale gate: one read of the event's row, and the checks on what it read.
BookGate(r) ==
  /\ pc[r] = "new" /\ call[r].op = "book"
  /\ \/ /\ ~OnSale(call[r].event)
        /\ Answer(r, "sale_not_open")
     \/ /\ OnSale(call[r].event)
        /\ call[r].len > event[call[r].event].cap
        /\ Answer(r, "seat_count_exceeds_limit")
     \/ /\ OnSale(call[r].event)
        /\ call[r].len <= event[call[r].event].cap
        /\ Goto(r, "hold")
  /\ UNCHANGED <<database, left, hold, locals, claim, lock, todo>>

\* Any error of the gate's read is answered as an unknown event.
GateError(r) ==
  /\ "db_error" \in Faults
  /\ pc[r] = "new" /\ call[r].op = "book"
  /\ Answer(r, "event_not_found")
  /\ UNCHANGED <<database, left, hold, locals, claim, lock, todo>>

HoldKeys(r) == {<<call[r].event, s>> : s \in call[r].seats}
HoldsFree(r) == \A k \in HoldKeys(r) : hold[k].ttl = 0
Held(r) == [k \in DOMAIN hold |->
              IF k \in HoldKeys(r) THEN [by |-> r, ttl |-> HoldTTL] ELSE hold[k]]

\* holdScript: all the keys or none, atomically.
HoldSeats(r) ==
  /\ pc[r] = "hold"
  /\ HoldsFree(r)
  /\ hold' = Held(r)
  /\ Goto(r, "cap")
  /\ UNCHANGED <<database, left, locals, claim, lock, todo>>

HoldRefused(r) ==
  /\ pc[r] = "hold"
  /\ ~HoldsFree(r)
  /\ Answer(r, "seat_taken")
  /\ UNCHANGED <<database, left, hold, locals, claim, lock, todo>>

\* The script does not run; or it runs, its reply is lost, and the client
\* library gives up or runs it again and meets its own holds.
HoldFailed(r) ==
  /\ pc[r] = "hold"
  /\ \/ /\ "redis_error" \in Faults
        /\ UNCHANGED hold
        /\ Answer(r, "booking_unavailable")
     \/ /\ "reply_lost" \in Faults
        /\ HoldsFree(r)
        /\ hold' = Held(r)
        /\ \E code \in {"booking_unavailable", "seat_taken"} : Answer(r, code)
  /\ UNCHANGED <<database, left, locals, claim, lock, todo>>

\* The seats a user has in unpaid orders whose deadline is still ahead.
Unpaid(u) == LET live == {o \in Reqs : /\ status[o] = "PENDING" /\ left[o] > 0
                                       /\ call[o].user = u}
             IN  {x \in live \X Seats : x[2] \in items[x[1]]}

CheckCap(r) ==
  /\ pc[r] = "cap"
  /\ IF Cardinality(Unpaid(call[r].user)) + call[r].len <= MaxHeld
       THEN Goto(r, "begin")
       ELSE Refuse(r, "hold_limit_exceeded")
  /\ UNCHANGED <<database, left, hold, locals, claim, lock, todo>>

\* Mutant of Candidates: the insert forgets that a seat may be of another event.
CandidatesOfAnyEvent(r) == {s \in Seats : s \in call[r].seats /\ seat[s] = "AVAILABLE"}
Candidates(r) ==
  {s \in Seats : /\ s \in call[r].seats /\ EventOf[s] = call[r].event
                 /\ seat[s] = "AVAILABLE"}

\* Mutant of ExpiresIn: the deadline is after the time the configuration gives.
ExpiresTooLate == HoldTTL + 1
ExpiresIn == HoldTTL

\* expires_at is taken after the holds were set; the order row, uncommitted,
\* is seen by nobody; the INSERT ... SELECT takes its snapshot of the seats.
BeginBooking(r) ==
  /\ pc[r] = "begin"
  /\ left' = [left EXCEPT ![r] = ExpiresIn]
  /\ rows' = [rows EXCEPT ![r] = Candidates(r)]
  /\ Goto(r, "items")
  /\ UNCHANGED <<database, hold, call, claim, lock, todo>>

\* Mutant of IndexAdmits: the schema without idx_one_seat_one_order.
IndexAdmitsAll(s) == s \in Seats
\* The unique index on order_items(seat_id) has no entry for the seat.
IndexAdmits(s) == \A q \in Reqs : s \notin claim[q] /\ s \notin items[q]

\* One row of the INSERT ... SELECT, whose order the statement leaves open.
\* A row that meets an uncommitted entry waits for that transaction to end.
InsertItem(r) ==
  /\ pc[r] = "items"
  /\ \E s \in rows[r] \ claim[r] :
       /\ IndexAdmits(s)
       /\ claim' = [claim EXCEPT ![r] = @ \cup {s}]
  /\ UNCHANGED <<database, left, hold, pc, locals, lock, resp, todo>>

\* 23505: a committed row has the seat.  Postgres aborts the transaction.
UniqueViolation(r) ==
  /\ pc[r] = "items"
  /\ \E s \in rows[r] \ claim[r], o \in Reqs : s \in items[o]
  /\ claim' = [claim EXCEPT ![r] = {}]
  /\ Refuse(r, "seat_taken")
  /\ UNCHANGED <<database, left, hold, locals, lock, todo>>

\* q waits for an index entry that p has not committed.
WaitsFor(q, p) == q # p /\ (rows[q] \ claim[q]) \cap claim[p] # {}
Deadlocked(r) == \E D \in SUBSET {q \in Reqs : pc[q] = "items"} :
                   /\ r \in D
                   /\ \A q \in D : /\ \E p \in D : WaitsFor(q, p)
                                   /\ \E p \in D : WaitsFor(p, q)

\* 40P01: Postgres aborts one transaction of a cycle of waits.
DeadlockVictim(r) ==
  /\ pc[r] = "items"
  /\ Deadlocked(r)
  /\ claim' = [claim EXCEPT ![r] = {}]
  /\ Refuse(r, "db_error")
  /\ UNCHANGED <<database, left, hold, locals, lock, todo>>

\* Mutant of Complete: the check of RowsAffected is lost.
CompleteAnyway(r) == rows[r] \subseteq call[r].seats
Complete(r) == Cardinality(rows[r]) = call[r].len

\* Some seat is SOLD, of another event, or asked for twice.  The holds go
\* first; the deferred Rollback, which frees the claims, runs on return.
RowsMismatch(r) ==
  /\ pc[r] = "items"
  /\ claim[r] = rows[r]
  /\ ~Complete(r)
  /\ Refuse(r, "seat_taken")
  /\ UNCHANGED <<database, left, hold, locals, claim, lock, todo>>

\* The commit; when its reply is lost, the handler takes it for a failure.
CommitBooking(r) ==
  /\ pc[r] = "items"
  /\ claim[r] = rows[r]
  /\ Complete(r)
  /\ status' = [status EXCEPT ![r] = "PENDING"]
  /\ items' = [items EXCEPT ![r] = claim[r]]
  /\ claim' = [claim EXCEPT ![r] = {}]
  /\ \/ Answer(r, "created")
     \/ "reply_lost" \in Faults /\ Refuse(r, "db_error")
  /\ UNCHANGED <<event, seat, payments, left, hold, locals, lock, todo>>

\* A query or the commit fails; Postgres aborts the transaction, if any.
BookingDBError(r) ==
  /\ "db_error" \in Faults
  /\ pc[r] \in {"cap", "begin", "items"}
  /\ claim' = [claim EXCEPT ![r] = {}]
  /\ Refuse(r, "db_error")
  /\ UNCHANGED <<database, left, hold, locals, lock, todo>>

\* releaseHolds deletes the keys, even when another request has set them since.
ReleaseHolds(r) ==
  /\ pc[r] = "release"
  /\ Delete(HoldKeys(r))
  /\ Goto(r, IF claim[r] = {} THEN "done" ELSE "rollback")
  /\ UNCHANGED <<database, left, locals, claim, lock, todo>>

\* Mutant of Freed: the deferred Rollback is missing and the claims stay.
FreedNever(r) == [claim EXCEPT ![r] = @]
Freed(r) == [claim EXCEPT ![r] = {}]

RollbackBooking(r) ==
  /\ pc[r] = "rollback"
  /\ claim' = Freed(r)
  /\ Goto(r, "done")
  /\ UNCHANGED <<database, left, hold, locals, lock, todo>>

CreateBooking(r) ==
  \/ BookGate(r) \/ HoldSeats(r) \/ HoldRefused(r)
  \/ CheckCap(r) \/ BeginBooking(r)
  \/ InsertItem(r) \/ UniqueViolation(r) \/ DeadlockVictim(r)
  \/ RowsMismatch(r) \/ CommitBooking(r)
  \/ ReleaseHolds(r) \/ RollbackBooking(r)

-----------------------------------------------------------------------------
(* payOrder *)

\* Mutant of RowFree: the SELECT loses its FOR UPDATE.
RowAlwaysFree(o) == o \in Reqs
\* SELECT ... FOR UPDATE returns when no other transaction has the row.
RowFree(o) == lock[o] = None
Unlocked(r) == [o \in Reqs |-> IF lock[o] = r THEN None ELSE lock[o]]

\* The order is in the table and belongs to the caller.
Found(r) == status[call[r].order] # "NONE" /\ call[call[r].order].user = call[r].user

\* Mutant of Replays: the lookup asks for the key alone.
ReplaysAnyOrder(r) == \E p \in payments : p.key = call[r].key
Replays(r) == \E p \in payments : p.key = call[r].key /\ p.order = call[r].order

PayLookup(r) ==
  /\ pc[r] = "new" /\ call[r].op = "pay"
  /\ IF Replays(r) THEN Answer(r, "replayed") ELSE Goto(r, "lock")
  /\ UNCHANGED <<database, left, hold, locals, claim, lock, todo>>

\* payOrder and cancelOrder alike.
OrderNotFound(r) ==
  /\ \/ pc[r] = "lock"
     \/ pc[r] = "new" /\ call[r].op = "cancel"
  /\ ~Found(r)
  /\ Answer(r, "order_not_found")
  /\ UNCHANGED <<database, left, hold, locals, claim, lock, todo>>

Payable(o) == status[o] = "PENDING" /\ left[o] >= 0

PayLockOrder(r) ==
  /\ pc[r] = "lock"
  /\ Found(r)
  /\ RowFree(call[r].order)
  /\ \/ /\ status[call[r].order] = "PAID"
        /\ Answer(r, "already_paid")
        /\ UNCHANGED lock
     \/ /\ status[call[r].order] # "PAID" /\ ~Payable(call[r].order)
        /\ Answer(r, "order_expired")
        /\ UNCHANGED lock
     \/ /\ Payable(call[r].order)
        /\ lock' = [lock EXCEPT ![call[r].order] = r]
        /\ Goto(r, "confirm")
  /\ UNCHANGED <<database, left, hold, locals, claim, todo>>

\* Mutant of KeyFree: the schema without idx_payments_idem.
KeyAlwaysFree(k) == k \in Keys
KeyFree(k) == \A p \in payments : p.key # k

\* The order has items, every seat is still AVAILABLE, and the key is new.
Confirmable(r) == /\ items[call[r].order] # {}
                  /\ \A s \in items[call[r].order] : seat[s] = "AVAILABLE"
                  /\ KeyFree(call[r].key)

\* Seats SOLD, payment, order PAID, commit: all under the order's row lock.
PayConfirm(r) ==
  /\ pc[r] = "confirm"
  /\ Confirmable(r)
  /\ LET o == call[r].order IN
       /\ seat' = [s \in Seats |-> IF s \in items[o] THEN "SOLD" ELSE seat[s]]
       /\ payments' = payments \cup {[order |-> o, key |-> call[r].key, seats |-> items[o]]}
       /\ status' = [status EXCEPT ![o] = "PAID"]
  /\ lock' = Unlocked(r)
  /\ \/ Leave(r, "clear", "paid")
     \/ "reply_lost" \in Faults /\ Answer(r, "db_error")
  /\ UNCHANGED <<event, items, left, hold, locals, claim, todo>>

PayRefused(r) ==
  /\ pc[r] = "confirm"
  /\ ~Confirmable(r)
  /\ lock' = Unlocked(r)
  /\ Answer(r, IF items[call[r].order] = {} THEN "db_error"
               ELSE IF \A s \in items[call[r].order] : seat[s] = "AVAILABLE"
                 THEN "duplicate_payment" ELSE "seat_no_longer_available")
  /\ UNCHANGED <<database, left, hold, locals, claim, todo>>

\* clearHoldsForOrder: the keys of the order's seats, read after the commit.
PayClearHolds(r) ==
  /\ pc[r] = "clear"
  /\ \/ Delete(KeysOf(items[call[r].order]))
     \/ "db_error" \in Faults /\ UNCHANGED hold
  /\ Goto(r, "done")
  /\ UNCHANGED <<database, left, locals, claim, lock, todo>>

PayOrder(r) == \/ PayLookup(r) \/ PayLockOrder(r)
               \/ PayConfirm(r) \/ PayRefused(r) \/ PayClearHolds(r)

-----------------------------------------------------------------------------
(* cancelOrder *)

\* Mutant of Cancellable: the status is not looked at.
CancellableAnyway(o) == status[o] # "NONE"
Cancellable(o) == status[o] = "PENDING"

\* The row lock, the check, and the hold keys, collected before the items go.
CancelLockOrder(r) ==
  /\ pc[r] = "new" /\ call[r].op = "cancel"
  /\ Found(r)
  /\ RowFree(call[r].order)
  /\ \/ /\ ~Cancellable(call[r].order)
        /\ Answer(r, "not_cancellable")
        /\ UNCHANGED <<lock, rows>>
     \/ /\ Cancellable(call[r].order)
        /\ lock' = [lock EXCEPT ![call[r].order] = r]
        /\ rows' = [rows EXCEPT ![r] = items[call[r].order]]
        /\ Goto(r, "cancel")
  /\ UNCHANGED <<database, left, hold, call, claim, todo>>

CancelCommit(r) ==
  /\ pc[r] = "cancel"
  /\ status' = [status EXCEPT ![call[r].order] = "CANCELLED"]
  /\ items' = [items EXCEPT ![call[r].order] = {}]
  /\ lock' = Unlocked(r)
  /\ \/ Leave(r, "uncover", "cancelled")
     \/ "reply_lost" \in Faults /\ Answer(r, "db_error")
  /\ UNCHANGED <<event, seat, payments, left, hold, locals, claim, todo>>

\* DEL of the collected keys, whoever holds the seats by now.
CancelClearHolds(r) ==
  /\ pc[r] = "uncover"
  /\ Delete(KeysOf(rows[r]))
  /\ Goto(r, "done")
  /\ UNCHANGED <<database, left, locals, claim, lock, todo>>

\* A query or the commit of payOrder or cancelOrder fails: rollback.  The
\* handler reads an error of its writes as the conflict it expects there.
OrderDBError(r) ==
  /\ "db_error" \in Faults
  /\ \/ pc[r] = "new" /\ call[r].op \in {"pay", "cancel"}
     \/ pc[r] \in {"lock", "confirm", "cancel"}
  /\ lock' = Unlocked(r)
  /\ \/ Answer(r, "db_error")
     \/ /\ pc[r] = "confirm"
        /\ \E code \in {"seat_no_longer_available", "duplicate_payment"} : Answer(r, code)
  /\ UNCHANGED <<database, left, hold, locals, claim, todo>>

CancelOrder(r) == CancelLockOrder(r) \/ CancelCommit(r) \/ CancelClearHolds(r)

Handler(r) == CreateBooking(r) \/ PayOrder(r) \/ CancelOrder(r) \/ OrderNotFound(r)
Failure(r) == GateError(r) \/ HoldFailed(r) \/ BookingDBError(r) \/ OrderDBError(r)

\* The API process dies: Postgres aborts the transaction, the holds stay.
Crash(r) ==
  /\ "crash" \in Faults
  /\ pc[r] \notin {"new", "done", "crashed"}
  /\ Goto(r, "crashed")
  /\ claim' = [claim EXCEPT ![r] = {}]
  /\ lock' = Unlocked(r)
  /\ UNCHANGED <<database, left, hold, locals, todo>>

-----------------------------------------------------------------------------
(* expireOverdueOrders: one statement, whose UPDATE locks the orders of its *)
(* snapshot one by one and looks again at a row it had to wait for.         *)

\* Mutant of Overdue: the worker expires every unpaid order.
OverdueAtOnce(o) == status[o] = "PENDING"
Overdue(o) == status[o] = "PENDING" /\ left[o] < 0

ExpireScan(w) ==
  /\ todo[w] = {} /\ \A o \in Reqs : lock[o] # w
  /\ \E o \in Reqs : Overdue(o)
  /\ todo' = [todo EXCEPT ![w] = {o \in Reqs : Overdue(o)}]
  /\ UNCHANGED <<database, left, hold, pc, locals, claim, lock, resp>>

\* Mutants of StillOverdue: a row that was awaited is not looked at again; the
\* comparison of the deadline is turned round.
StillOverdueAnyway(o) == left[o] < 0
StillOverdueTurned(o) == status[o] = "PENDING" /\ left[o] > 0
StillOverdue(o) == Overdue(o)

ExpireLock(w) ==
  /\ \E o \in todo[w] :
       /\ RowFree(o)
       /\ todo' = [todo EXCEPT ![w] = @ \ {o}]
       /\ lock' = IF StillOverdue(o) THEN [lock EXCEPT ![o] = w] ELSE lock
  /\ UNCHANGED <<database, left, hold, pc, locals, claim, resp>>

Expiring(w) == {o \in Reqs : lock[o] = w}

ExpireCommit(w) ==
  /\ todo[w] = {} /\ Expiring(w) # {}
  /\ status' = [o \in Reqs |-> IF o \in Expiring(w) THEN "EXPIRED" ELSE status[o]]
  /\ items' = [o \in Reqs |-> IF o \in Expiring(w) THEN {} ELSE items[o]]
  /\ lock' = Unlocked(w)
  /\ UNCHANGED <<event, seat, payments, left, hold, pc, locals, claim, resp, todo>>

Awaits(v, w) == v # w /\ todo[v] \cap Expiring(w) # {}
Stuck(w) == \E D \in SUBSET Workers :
              /\ w \in D
              /\ \A v \in D : (\E x \in D : Awaits(v, x)) /\ (\E x \in D : Awaits(x, v))

\* The statement fails, its process dies, or it is the victim of a cycle of
\* waits between workers: nothing of it remains.
ExpireFail(w) ==
  /\ \/ /\ Faults \cap {"db_error", "crash"} # {}
        /\ todo[w] # {} \/ Expiring(w) # {}
     \/ Stuck(w)
  /\ todo' = [todo EXCEPT ![w] = {}]
  /\ lock' = Unlocked(w)
  /\ UNCHANGED <<database, left, hold, pc, locals, claim, resp>>

Worker(w) == ExpireScan(w) \/ ExpireLock(w) \/ ExpireCommit(w)

-----------------------------------------------------------------------------
(* The clock, Redis and the administrator *)

\* Mutant of Aged: SET without EX, a hold that never lapses.
AgedNever(h) == h
Aged(h) == IF h.ttl <= 1 THEN NoHold ELSE [h EXCEPT !.ttl = @ - 1]

\* Nobody reads the deadline of an order that is PAID, EXPIRED or CANCELLED.
Running(o) == status[o] \in {"NONE", "PENDING"} /\ left[o] >= 0

Tick ==
  /\ hold' = [k \in DOMAIN hold |-> Aged(hold[k])]
  /\ left' = [o \in Reqs |-> IF Running(o) THEN left[o] - 1 ELSE left[o]]
  /\ event' = [e \in Events |-> IF event[e].opensIn = 0 THEN event[e]
                                ELSE [event[e] EXCEPT !.opensIn = @ - 1]]
  /\ <<hold, left, event>>' # <<hold, left, event>>
  /\ UNCHANGED <<seat, status, items, payments, pc, locals, claim, lock, resp, todo>>

\* A hold is evicted, or Redis restarts without it.
LoseHold ==
  /\ "redis_loss" \in Faults
  /\ \E k \in DOMAIN hold : hold[k].ttl > 0 /\ hold' = Cleared({k})
  /\ UNCHANGED <<database, left, pc, locals, claim, lock, resp, todo>>

\* patchAdminEvent, with no regard for bookings under way.
PatchEvent(e) ==
  /\ \E row \in Patches : row # event[e] /\ event' = [event EXCEPT ![e] = row]
  /\ UNCHANGED <<seat, status, items, payments, left, hold, pc, locals, claim,
                 lock, resp, todo>>

Finished(r) == pc[r] \in {"done", "crashed"}

\* Nothing is left to happen.
Quiet ==
  /\ \A r \in Reqs : Finished(r)
  /\ \A w \in Workers : todo[w] = {} /\ Expiring(w) = {}
  /\ \A o \in Reqs : status[o] # "PENDING"
  /\ UNCHANGED vars

Next ==
  \/ \E r \in Reqs : Handler(r) \/ Failure(r) \/ Crash(r)
  \/ \E w \in Workers : Worker(w) \/ ExpireFail(w)
  \/ Tick
  \/ LoseHold
  \/ \E e \in Events : PatchEvent(e)
  \/ Quiet

Spec == Init /\ [][Next]_vars

\* A handler that has started goes on, a lock that is asked for is granted in
\* turn, time passes, and the worker's statement does not fail for ever.  No
\* progress comes from a failure, and none is needed from a new request.
Fairness ==
  /\ \A r \in Reqs : SF_vars(pc[r] # "new" /\ Handler(r))
  /\ \A w \in Workers : /\ WF_vars(ExpireScan(w))
                        /\ SF_vars(ExpireLock(w))
                        /\ SF_vars(ExpireCommit(w))
                        /\ WF_vars(Stuck(w) /\ ExpireFail(w))
  /\ WF_vars(Tick)

FairSpec == Spec /\ Fairness

-----------------------------------------------------------------------------
(* What the sale promises *)

TypeOK ==
  /\ event \in [Events -> EventRow]
  /\ seat \in [Seats -> {"AVAILABLE", "SOLD"}]
  /\ status \in [Reqs -> OrderStatus]
  /\ left \in [Reqs -> -1..HoldTTL]
  /\ items \in [Reqs -> SUBSET Seats]
  /\ payments \subseteq [order : Reqs, key : Keys, seats : SUBSET Seats]
  /\ hold \in [Events \X Seats -> [by : Reqs \cup {None}, ttl : 0..HoldTTL]]
  /\ pc \in [Reqs -> Label]
  /\ call \in [Reqs -> AnyCall]
  /\ rows \in [Reqs -> SUBSET Seats]
  /\ claim \in [Reqs -> SUBSET Seats]
  /\ lock \in [Reqs -> Reqs \cup Workers \cup {None}]
  /\ resp \in [Reqs -> Code \cup {None}]
  /\ todo \in [Workers -> SUBSET Reqs]

Orders == {o \in Reqs : status[o] # "NONE"}
Pending == {o \in Reqs : status[o] = "PENDING"}
Paid == {o \in Reqs : status[o] = "PAID"}

\* No seat is in two orders, committed or about to be, though holds lapse and
\* are deleted under bookings still running (the guard of 001_init.sql:94-96).
OneOrderPerSeat ==
  \A s \in Seats, o, q \in Reqs :
    s \in items[o] \cup claim[o] /\ s \in items[q] \cup claim[q] => o = q

\* A seat is SOLD exactly when the seed sold it or a PAID order has it: neither
\* a cancellation nor the worker, however late, frees a seat that was paid.
SoldIffPaid ==
  \A s \in Seats : seat[s] = "SOLD" <=>
    s \in SeedSold \/ \E o \in Paid : s \in items[o]

\* The seats of an unpaid order can all be confirmed when it is paid: the
\* snapshot of its insert may be stale, and no seat is sold under it.
PendingSeatsAvailable ==
  \A o \in Pending : items[o] # {} /\ \A s \in items[o] : seat[s] = "AVAILABLE"

\* Every PAID order was charged once, for the seats it has, and no key charged
\* twice, whatever was retried, repeated or sent for another order.
ChargedOnce ==
  /\ \A p, q \in payments : p.order = q.order \/ p.key = q.key => p = q
  /\ \A p \in payments : status[p.order] = "PAID" /\ p.seats = items[p.order]
  /\ \A o \in Paid : \E p \in payments : p.order = o

\* An order has all the seats that were asked for, each once, or none.
AllOrNothing ==
  \A o \in Reqs :
    IF status[o] \in {"PENDING", "PAID"}
      THEN items[o] = call[o].seats /\ Cardinality(items[o]) = call[o].len
      ELSE items[o] = {}

\* Who is told that the order has expired or was cancelled is never charged.
RefusedNeverCharged ==
  \A r \in Reqs : resp[r] \in {"order_expired", "cancelled"} =>
    \A p \in payments : p.order # call[r].order

\* Who is told that the order is paid has a PAID order and a payment of it.
SuccessIsCharged ==
  \A r \in Reqs : resp[r] \in {"paid", "replayed", "already_paid"} =>
    \E p \in payments : p.order = call[r].order /\ call[r].order \in Paid

\* The worker clears no holds and has none to clear: when it expires an order,
\* the holds of the booking that made it have lapsed.
ExpiredLeavesNoHold ==
  \A o \in Reqs : status[o] = "EXPIRED" =>
    \A k \in DOMAIN hold : hold[k].by # o

\* No order exists for an event before its sale opens.  (Not so for Patches that move
\* the opening of a sale under way: a booking may be past the gate.)
NoEarlyOrder == \A o \in Orders : event[call[o].event].opensIn = 0

\* A PAID order stays paid, with its seats.
PaidIsForever ==
  [][\A o \in Paid : status'[o] = "PAID" /\ items'[o] = items[o]]_vars

\* An order is born PENDING, ends once, and expires only after its deadline.
OrderLifecycle ==
  [][\A o \in Reqs : status'[o] # status[o] =>
       \/ status[o] = "NONE" /\ status'[o] = "PENDING"
       \/ status[o] = "PENDING" /\ status'[o] \in {"PAID", "CANCELLED"}
       \/ status[o] = "PENDING" /\ status'[o] = "EXPIRED" /\ left[o] < 0]_vars

\* An order that nobody pays or cancels gives its seats back.
PendingEnds == \A o \in Reqs : status[o] = "PENDING" ~> status[o] # "PENDING"

\* A request that has started is answered, or its process has died.
RequestsEnd == \A r \in Reqs : pc[r] # "new" ~> Finished(r)

\* A seat does not stay held for ever, also when its booking died.
HoldsLapse == \A k \in Events \X Seats : hold[k].ttl > 0 ~> hold[k].ttl = 0

-----------------------------------------------------------------------------
(* What the repository says and the code does not do *)

\* api/handlers.go:213-214: two overlapping orders can never deadlock.
NoDeadlock == \A r \in Reqs : ~Deadlocked(r)

=============================================================================
