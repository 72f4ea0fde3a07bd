-------------------------- MODULE BookingInvariants --------------------------
(* The inductive invariant behind the safety properties of Booking: how far  *)
(* a request is tells what it has in the database, and the row locks tell    *)
(* who may still change an order.                                            *)
EXTENDS Booking

StepsOf(op) == CASE op = "book" -> {"new", "hold", "cap", "begin", "items", "release",
                                    "rollback", "done", "crashed"}
                 [] op = "pay" -> {"new", "lock", "confirm", "clear", "done", "crashed"}
                 [] op = "cancel" -> {"new", "cancel", "uncover", "done", "crashed"}

\* A request takes only the steps of the handler it called.
StepsMatch == \A r \in Reqs : pc[r] \in StepsOf(call[r].op)

\* An order is a booking's, and exists only when that has left its transaction.
Born == \A r \in Reqs : status[r] # "NONE" =>
          /\ call[r].op = "book"
          /\ pc[r] \in {"release", "rollback", "done", "crashed"}

\* Only PENDING and PAID orders have items.
Dropped == \A o \in Reqs : status[o] \notin {"PENDING", "PAID"} => items[o] = {}

SeedStaysSold == \A s \in SeedSold : seat[s] = "SOLD"

\* What a booking has inserted and not committed is what it was asked for and
\* read as AVAILABLE, and it has something only inside its transaction.
Claims ==
  \A r \in Reqs :
    /\ claim[r] # {} => pc[r] \in {"items", "release", "rollback"}
    /\ pc[r] = "items" => /\ claim[r] \subseteq rows[r]
                          /\ rows[r] \subseteq call[r].seats
                          /\ rows[r] \cap SeedSold = {}

Stages == Born /\ Dropped /\ SeedStaysSold /\ Claims

\* Only PENDING orders are locked.
LockedPending == \A o \in Reqs : lock[o] # None => status[o] = "PENDING"

\* A worker locks an order only after its deadline.
LockedLate == \A o \in Reqs : lock[o] \in Workers => left[o] < 0

\* A payment or a cancellation about to commit has the lock.
LockHeld == \A r \in Reqs : pc[r] \in {"confirm", "cancel"} => lock[call[r].order] = r

Locks == LockedPending /\ LockedLate /\ LockHeld

\* The deadline of an order does not fall before its holds lapse, and an order
\* has expired only when they have.
HoldsEnd ==
  \A o \in Reqs, k \in DOMAIN hold : hold[k].by = o =>
    /\ pc[o] # "new" /\ pc[o] # "hold"
    /\ pc[o] = "items" \/ status[o] = "PENDING" => hold[k].ttl <= left[o]
    /\ hold[k].ttl > 0
    /\ status[o] # "EXPIRED"

\* Nobody can pay the order any more: it has ended unpaid, or its deadline has
\* passed and no payment of it is about to commit.
Unpayable(o) ==
  \/ status[o] \in {"EXPIRED", "CANCELLED"}
  \/ /\ status[o] = "PENDING" /\ left[o] < 0
     /\ \A q \in Reqs : pc[q] = "confirm" => call[q].order # o

Refusals == {"order_expired", "cancelled"}
Successes == {"paid", "replayed", "already_paid"}

\* A payment or a cancellation that was refused left an order that nobody can
\* pay; one that was told of success left a PAID order.
Answers ==
  \A r \in Reqs :
    /\ resp[r] \in Refusals \cup Successes => call[r].op # "book"
    /\ resp[r] \in Refusals => Unpayable(call[r].order)
    /\ resp[r] \in Successes => call[r].order \in Paid

\* A PENDING or PAID order has all that was asked for.
Whole == \A o \in Reqs : status[o] \in {"PENDING", "PAID"} =>
           /\ items[o] = call[o].seats /\ Cardinality(items[o]) = call[o].len
           /\ items[o] \cap SeedSold = {}

IInv == /\ TypeOK /\ StepsMatch /\ Stages /\ Locks
        /\ OneOrderPerSeat /\ Whole /\ SoldIffPaid /\ ChargedOnce
        /\ HoldsEnd /\ Answers
=============================================================================
