--------------------------- MODULE SalesRefinement ---------------------------
(* Booking implements SeatSales: the tables, as a customer may see them. *)
EXTENDS Booking

\* The order whose committed order_items name the seat.
HolderOf(s) == IF \E o \in Reqs : s \in items[o]
               THEN CHOOSE o \in Reqs : s \in items[o] ELSE None

Sales == INSTANCE SeatSales WITH
           Orders <- Reqs,
           holder <- [s \in Seats |-> HolderOf(s)],
           state <- status,
           sold <- {s \in Seats : seat[s] = "SOLD"},
           charges <- {[order |-> p.order, seats |-> p.seats] : p \in payments}

\* Every step of every request, of the worker, of the clock and of the faults
\* is one step of the abstract sale or none: what the handlers spread over
\* holds, inserts, locks and retries is to an observer one atomic sale.
SalesSpec == Sales!Spec
=============================================================================
