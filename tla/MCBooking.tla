------------------------------ MODULE MCBooking ------------------------------
(* Small instances of Booking: the calls of each run, and its constants. *)
EXTENDS SalesRefinement, BookingInvariants, TLC

CONSTANTS u1, u2, e1, e2, s1, s2, k1, k2, r1, r2, r3, r4, w1, w2

Book(u, e, ss, n) == [op |-> "book", user |-> u, event |-> e, seats |-> ss, len |-> n]
Settle(u, o, k) == [op |-> "pay", user |-> u, order |-> o, key |-> k]
Undo(u, o) == [op |-> "cancel", user |-> u, order |-> o]

OneEvent == [s \in {s1, s2} |-> e1]
Row(st, wait, max) == [status |-> st, opensIn |-> wait, cap |-> max]
OpenNow == [e \in Events |-> Row("ON_SALE", 0, 4)]
OpenSoon == [e \in Events |-> Row("ON_SALE", 1, 2)]
Close == {Row("CLOSED", 0, 2)}

\* Two bookings that may overlap, one of them perhaps of a seat named twice or of
\* more seats than the event allows; a payment or a cancellation, and a payment of
\* the other order with the same key or of the same order with another.
RaceCalls ==
  r1 :> {Book(u1, e1, {s1, s2}, 2), Book(u1, e1, {s1}, 1)} @@
  r2 :> {Book(u2, e1, {s1, s2}, 2), Book(u2, e1, {s2}, 1), Book(u2, e1, {s2}, 2),
         Book(u2, e1, {s2}, 5)} @@
  r3 :> {Settle(u1, r1, k1), Undo(u1, r1)} @@
  r4 :> {Settle(u2, r2, k1), Settle(u1, r1, k2)}

\* A booking that fails on a SOLD seat, another for its free seat by the same
\* user, and a payment or a cancellation.
LiveCalls ==
  r1 :> {Book(u1, e1, {s1, s2}, 2)} @@
  r2 :> {Book(u1, e1, {s1}, 1)} @@
  r3 :> {Settle(u1, r2, k1), Undo(u1, r2)}

\* Two users and the same two seats.
OverlapCalls ==
  r1 :> {Book(u1, e1, {s1, s2}, 2)} @@ r2 :> {Book(u2, e1, {s1, s2}, 2)}

AlikeWorkers == Permutations({w1, w2})
=============================================================================
