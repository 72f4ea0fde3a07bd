----------------------------- MODULE MCCheckout -----------------------------
(* Instances of Checkout: a customer of two events, and another customer. *)
EXTENDS Checkout, TLC

CONSTANTS u1, u2, e1, e2, s1, s2, k1, k2, k3, r1, r2, r3, r4, w1

Booking1(u, e, ss, n) == [op |-> "book", user |-> u, event |-> e, seats |-> ss, len |-> n]
PayWith(u, o, k) == [op |-> "pay", user |-> u, order |-> o, key |-> k]
Undo(u, o) == [op |-> "cancel", user |-> u, order |-> o]

OneEventHasSeats == [s \in Seats |-> e1]
Row(st, wait, max) == [status |-> st, opensIn |-> wait, cap |-> max]
OpenNow == [e \in Events |-> Row("ON_SALE", 0, 4)]
OrderKeys == (r1 :> k1) @@ (r2 :> k2) @@ (r3 :> k3)

\* A booking, of a seat of the event or of the map of another one, a payment of it, and
\* a second payment, a cancellation, or the booking pressed once more.
PageCalls ==
  r1 :> {Booking1(u1, e1, {s1}, 1), Booking1(u1, e2, {s1}, 1)} @@
  r2 :> {PayWith(u1, r1, k1)} @@
  r3 :> {PayWith(u1, r1, k1), Undo(u1, r1), Booking1(u1, e1, {s1}, 1)}
=============================================================================
