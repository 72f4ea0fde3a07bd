------------------------------ MODULE SeatSales ------------------------------
(***************************************************************************)
(* What the seat sale promises, without Redis, transactions, locks, clocks *)
(* or requests: a seat has at most one holder; an order takes all its      *)
(* seats in one step, and either pays for exactly these, once, or gives    *)
(* them all back.                                                          *)
(***************************************************************************)
CONSTANTS Seats, Orders, SeedSold, None

VARIABLES
  holder,   \* the order that has a seat
  state,    \* the state of each order
  sold,     \* the seats that are sold
  charges   \* what was charged: an order and its seats

vars == <<holder, state, sold, charges>>

Init ==
  /\ holder = [s \in Seats |-> None]
  /\ state = [o \in Orders |-> "NONE"]
  /\ sold = SeedSold
  /\ charges = {}

SeatsOf(o) == {s \in Seats : holder[s] = o}

\* A booking: every seat it names is free.
Reserve(o) ==
  /\ state[o] = "NONE"
  /\ \E S \in (SUBSET Seats) \ {{}} :
       /\ \A s \in S : holder[s] = None /\ s \notin sold
       /\ holder' = [s \in Seats |-> IF s \in S THEN o ELSE holder[s]]
  /\ state' = [state EXCEPT ![o] = "PENDING"]
  /\ UNCHANGED <<sold, charges>>

\* A payment: the order's seats are sold and charged.
Pay(o) ==
  /\ state[o] = "PENDING"
  /\ state' = [state EXCEPT ![o] = "PAID"]
  /\ sold' = sold \cup SeatsOf(o)
  /\ charges' = charges \cup {[order |-> o, seats |-> SeatsOf(o)]}
  /\ UNCHANGED holder

\* Unpaid orders end, one by a cancellation, several by the worker at once.
End(O, outcome) ==
  /\ \A o \in O : state[o] = "PENDING"
  /\ state' = [o \in Orders |-> IF o \in O THEN outcome ELSE state[o]]
  /\ holder' = [s \in Seats |-> IF holder[s] \in O THEN None ELSE holder[s]]
  /\ UNCHANGED <<sold, charges>>

Next ==
  \/ \E o \in Orders : Reserve(o) \/ Pay(o) \/ End({o}, "CANCELLED")
  \/ \E O \in SUBSET Orders : End(O, "EXPIRED")

Spec == Init /\ [][Next]_vars

\* What it amounts to: who is charged is charged once, for the seats the order holds, all
\* of them sold and none before; and nothing is sold but what somebody was charged for.
Promise ==
  /\ \A c \in charges : /\ state[c.order] = "PAID"
                        /\ c.seats = SeatsOf(c.order)
                        /\ c.seats # {} /\ c.seats \subseteq sold \ SeedSold
  /\ \A o \in Orders : state[o] = "PAID" =>
       \E c \in charges : c.order = o /\ \A d \in charges : d.order = o => d = c
  /\ \A c, d \in charges : c # d => c.seats \cap d.seats = {}
  /\ \A s \in sold \ SeedSold : \E c \in charges : s \in c.seats
=============================================================================
