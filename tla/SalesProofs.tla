----------------------------- MODULE SalesProofs -----------------------------
(* Booking implements SeatSales, for every value of the constants. *)
EXTENDS SalesRefinement, BookingProofs

USE ConstantAssumption

\* No seat is in two orders, so an order has the seats whose holder it is.
LEMMA HolderHas ==
  ASSUME TypeOK, OneOrderPerSeat, NEW s \in Seats
  PROVE  /\ \A o \in Reqs : HolderOf(s) = o <=> s \in items[o]
         /\ HolderOf(s) = None <=> \A o \in Reqs : s \notin items[o]
<1>1. CASE \E o \in Reqs : s \in items[o]
  <2>1. PICK o \in Reqs : s \in items[o]
    BY <1>1
  <2>2. \A q \in Reqs : s \in items[q] => q = o
    BY <2>1 DEF OneOrderPerSeat
  <2>3. HolderOf(s) = o
    BY <1>1, <2>1, <2>2 DEF HolderOf
  <2> QED
    BY <2>1, <2>2, <2>3
<1>2. CASE ~\E o \in Reqs : s \in items[o]
  BY <1>2 DEF HolderOf
<1> QED
  BY <1>1, <1>2

\* The abstract seats of an order are its items.
LEMMA SeatsOfOrder ==
  ASSUME TypeOK, OneOrderPerSeat, NEW o \in Reqs PROVE Sales!SeatsOf(o) = items[o]
  BY HolderHas DEF Sales!SeatsOf, TypeOK

\* A step that leaves the tables alone, an uncommitted insert included.
LEMMA SalesStutter ==
  ASSUME UNCHANGED <<seat, status, items, payments>> PROVE UNCHANGED Sales!vars
<1>1. \A s \in Seats : HolderOf(s)' = HolderOf(s)
  BY DEF HolderOf
<1> QED
  BY <1>1 DEF Sales!vars

\* The commit of a booking is the abstract reservation of all its seats.
LEMMA CommitReserves ==
  ASSUME IInv, IInv', NEW r \in Reqs, CommitBooking(r) PROVE Sales!Reserve(r)
<1> USE DEF IInv
<1>1. /\ status[r] = "NONE" /\ items[r] = {} /\ pc[r] = "items"
      /\ claim[r] = call[r].seats /\ claim[r] \cap SeedSold = {}
  BY CompleteIsAll DEF CommitBooking, Stages, Born, Dropped
<1>2. claim[r] \in (SUBSET Seats) \ {{}}
  <2>1. call[r] \in BookCall
    BY <1>1, CallFields DEF StepsMatch, StepsOf
  <2>2. call[r].seats \in SUBSET Seats /\ call[r].seats # {}
    BY <2>1 DEF BookCall
  <2> QED
    BY <1>1, <2>2
<1>3. /\ items' = [items EXCEPT ![r] = claim[r]] /\ UNCHANGED <<seat, payments>>
      /\ status' = [status EXCEPT ![r] = "PENDING"]
  BY DEF CommitBooking
<1>4. ASSUME NEW s \in claim[r] PROVE HolderOf(s) = None /\ seat[s] # "SOLD"
  <2>1. s \in Seats /\ \A o \in Reqs : s \notin items[o]
    BY <1>1, <1>2 DEF OneOrderPerSeat
  <2> QED
    BY <1>1, <2>1, HolderHas DEF SoldIffPaid, Paid
<1>5. ASSUME NEW s \in Seats
      PROVE  HolderOf(s)' = IF s \in claim[r] THEN r ELSE HolderOf(s)
  <2>1. CASE s \in claim[r]
    <3>1. s \in items'[r]
      BY <1>3, <2>1 DEF TypeOK
    <3>2. \A o \in Reqs : s \in items'[o] => o = r
      BY <3>1 DEF OneOrderPerSeat
    <3> QED
      BY <2>1, <3>1, <3>2 DEF HolderOf
  <2>2. CASE s \notin claim[r]
    <3>1. \A o \in Reqs : s \in items'[o] <=> s \in items[o]
      BY <1>1, <1>3, <2>2 DEF TypeOK
    <3> QED
      BY <2>2, <3>1 DEF HolderOf
  <2> QED
    BY <2>1, <2>2
<1> DEFINE S == claim[r]
           Holder == [s \in Seats |-> HolderOf(s)]
<1>6. Holder' = [s \in Seats |-> IF s \in S THEN r ELSE Holder[s]]
  BY <1>5
<1>7. \A s \in S : Holder[s] = None /\ s \notin {x \in Seats : seat[x] = "SOLD"}
  BY <1>2, <1>4
<1>8. UNCHANGED <<{x \in Seats : seat[x] = "SOLD"},
                  {[order |-> p.order, seats |-> p.seats] : p \in payments}>>
  BY <1>3
<1>9. status[r] = "NONE" /\ S \in (SUBSET Seats) \ {{}}
      /\ status' = [status EXCEPT ![r] = "PENDING"]
  BY <1>1, <1>2, <1>3
<1> HIDE DEF S, Holder
<1> QED
  BY <1>6, <1>7, <1>8, <1>9 DEF Sales!Reserve, Holder

\* The commit of a payment is the abstract payment.
LEMMA ConfirmPays ==
  ASSUME IInv, NEW r \in Reqs, PayConfirm(r), NEW o \in Reqs, o = call[r].order
  PROVE  Sales!Pay(o)
<1> USE DEF IInv
<1>1. status[o] = "PENDING"
  BY OrderToCommit DEF PayConfirm
<1>2. /\ seat' = [s \in Seats |-> IF s \in items[o] THEN "SOLD" ELSE seat[s]]
      /\ payments' = payments \cup {[order |-> o, key |-> call[r].key, seats |-> items[o]]}
      /\ status' = [status EXCEPT ![o] = "PAID"] /\ UNCHANGED items
  BY DEF PayConfirm
<1>3. \A s \in Seats : HolderOf(s)' = HolderOf(s)
  BY <1>2 DEF HolderOf
<1>4. Sales!SeatsOf(o) = items[o] /\ items[o] \subseteq Seats
  BY <1>1, SeatsOfOrder DEF TypeOK
<1>5. {s \in Seats : seat'[s] = "SOLD"} = {s \in Seats : seat[s] = "SOLD"} \cup items[o]
  BY <1>2, <1>4
<1>6. {[order |-> p.order, seats |-> p.seats] : p \in payments'}
        = {[order |-> p.order, seats |-> p.seats] : p \in payments}
          \cup {[order |-> o, seats |-> items[o]]}
  <2> DEFINE new == [order |-> o, key |-> call[r].key, seats |-> items[o]]
             Charge(p) == [order |-> p.order, seats |-> p.seats]
  <2>1. payments' = payments \cup {new}
    BY <1>2
  <2>2. Charge(new) = [order |-> o, seats |-> items[o]]
    OBVIOUS
  <2> HIDE DEF new, Charge
  <2>3. {Charge(p) : p \in payments'} = {Charge(p) : p \in payments} \cup {Charge(new)}
    BY <2>1
  <2> QED
    BY <2>2, <2>3 DEF Charge
<1> QED
  BY <1>1, <1>2, <1>3, <1>4, <1>5, <1>6 DEF Sales!Pay

\* A cancellation or the worker's statement ends the orders it has locked.
LEMMA OrdersEnd ==
  ASSUME IInv, IInv', NEW O \in SUBSET Reqs, NEW outcome,
         \A o \in O : status[o] = "PENDING",
         status' = [o \in Reqs |-> IF o \in O THEN outcome ELSE status[o]],
         items' = [o \in Reqs |-> IF o \in O THEN {} ELSE items[o]],
         UNCHANGED <<seat, payments>>
  PROVE  Sales!End(O, outcome)
<1> USE DEF IInv
<1>1. ASSUME NEW s \in Seats
      PROVE  HolderOf(s)' = IF HolderOf(s) \in O THEN None ELSE HolderOf(s)
  <2>1. CASE HolderOf(s) \in O
    <3>1. \A o \in Reqs : s \in items[o] => o \in O
      BY <2>1, HolderHas
    <3> QED
      BY <2>1, <3>1 DEF HolderOf
  <2>2. CASE HolderOf(s) \notin O
    <3>1. \A o \in Reqs : s \in items'[o] <=> s \in items[o]
      BY <2>2, HolderHas
    <3> QED
      BY <2>2, <3>1 DEF HolderOf
  <2> QED
    BY <2>1, <2>2
<1> QED
  BY <1>1 DEF Sales!End

\* The initial tables are those of an abstract sale that has not begun.
LEMMA SalesInit == Init => Sales!Init
<1> SUFFICES ASSUME Init PROVE Sales!Init
  OBVIOUS
<1>1. \A s \in Seats : HolderOf(s) = None
  BY DEF Init, HolderOf
<1>2. {s \in Seats : seat[s] = "SOLD"} = SeedSold
  BY DEF Init
<1>3. {[order |-> p.order, seats |-> p.seats] : p \in payments} = {}
  BY DEF Init
<1>4. status = [o \in Reqs |-> "NONE"]
  BY DEF Init
<1> QED
  BY <1>1, <1>2, <1>3, <1>4 DEF Sales!Init

\* A step is an abstract reservation, payment or end, or it is not seen at all.
LEMMA SalesStep == IInv /\ IInv' /\ [Next]_vars => [Sales!Next]_Sales!vars
<1> SUFFICES ASSUME IInv, IInv', [Next]_vars PROVE [Sales!Next]_Sales!vars
  OBVIOUS
<1> USE DEF IInv
<1>1. CASE UNCHANGED <<seat, status, items, payments>>
  BY <1>1, SalesStutter
<1>2. ASSUME NEW r \in Reqs, InsertItem(r) PROVE UNCHANGED <<seat, status, items, payments>>
  BY <1>2 DEF InsertItem, database
<1>3. ASSUME NEW r \in Reqs, CommitBooking(r) PROVE Sales!Next
  BY <1>3, CommitReserves DEF Sales!Next
<1>4. ASSUME NEW r \in Reqs, PayConfirm(r) PROVE Sales!Next
  <2>1. PICK o \in Reqs : o = call[r].order
    BY <1>4, OrderToCommit DEF PayConfirm
  <2>2. Sales!Pay(o)
    BY <1>4, <2>1, ConfirmPays
  <2> QED
    BY <2>2 DEF Sales!Next
<1>5. ASSUME NEW r \in Reqs, CancelCommit(r) PROVE Sales!Next
  <2>1. PICK o \in Reqs : o = call[r].order /\ status[o] = "PENDING"
    BY <1>5, OrderToCommit DEF CancelCommit
  <2>2. /\ status' = [x \in Reqs |-> IF x \in {o} THEN "CANCELLED" ELSE status[x]]
        /\ items' = [x \in Reqs |-> IF x \in {o} THEN {} ELSE items[x]]
        /\ UNCHANGED <<seat, payments>>
    BY <1>5, <2>1 DEF CancelCommit, TypeOK
  <2>3. Sales!End({o}, "CANCELLED")
    BY <2>1, <2>2, OrdersEnd
  <2> QED
    BY <2>3 DEF Sales!Next
<1>6. ASSUME NEW w \in Workers, ExpireCommit(w) PROVE Sales!Next
  <2>1. PICK O \in SUBSET Reqs : O = Expiring(w)
    BY DEF Expiring
  <2>2. \A o \in O : status[o] = "PENDING"
    BY <2>1 DEF Expiring, Locks, LockedPending
  <2>3. /\ status' = [o \in Reqs |-> IF o \in O THEN "EXPIRED" ELSE status[o]]
        /\ items' = [o \in Reqs |-> IF o \in O THEN {} ELSE items[o]]
        /\ UNCHANGED <<seat, payments>>
    BY <1>6, <2>1 DEF ExpireCommit
  <2>4. Sales!End(O, "EXPIRED")
    BY <2>2, <2>3, OrdersEnd
  <2> QED
    BY <2>4 DEF Sales!Next
<1> QED
  BY <1>1, <1>2, <1>3, <1>4, <1>5, <1>6, StoreMoves

\* Holds, row locks, retries, crashes and the worker's statement amount to an
\* atomic sale: every behaviour of the API is one of SeatSales.
THEOREM ImplementsSales == Spec => SalesSpec
<1>1. Init => Sales!Init
  BY SalesInit
<1>2. IInv /\ IInv' /\ [Next]_vars => [Sales!Next]_Sales!vars
  BY SalesStep
<1> QED
  BY <1>1, <1>2, Inductive, PTL DEF Spec, SalesSpec, Sales!Spec

-----------------------------------------------------------------------------
(* What the abstract sale promises, from its own steps alone *)

SoldSeats == {s \in Seats : seat[s] = "SOLD"}
Charges == {[order |-> p.order, seats |-> p.seats] : p \in payments}
ChargeOf(o) == [order |-> o, seats |-> Sales!SeatsOf(o)]
PaidOrders == {o \in Reqs : status[o] = "PAID"}

\* Charges are of paid orders, whose seats and no others are sold; an order has seats while
\* it is pending or paid.
SaleInv ==
  /\ status \in [Reqs -> {"NONE", "PENDING", "PAID", "CANCELLED", "EXPIRED"}]
  /\ Charges = {ChargeOf(o) : o \in PaidOrders}
  /\ SoldSeats = SeedSold \cup {s \in Seats : HolderOf(s) \in PaidOrders}
  /\ \A o \in Reqs : status[o] \in {"PENDING", "PAID"} <=> Sales!SeatsOf(o) # {}
  /\ \A s \in Seats : /\ HolderOf(s) \in Reqs \cup {None}
                      /\ s \in SeedSold => HolderOf(s) = None

LEMMA SaleInvInit == Sales!Init => SaleInv
<1> SUFFICES ASSUME Sales!Init PROVE SaleInv
  OBVIOUS
<1>1. /\ \A s \in Seats : HolderOf(s) = None
      /\ status = [o \in Reqs |-> "NONE"] /\ SoldSeats = SeedSold /\ Charges = {}
  BY DEF Sales!Init, SoldSeats, Charges
<1>2. PaidOrders = {} /\ \A o \in Reqs : Sales!SeatsOf(o) = {}
  BY <1>1 DEF PaidOrders, Sales!SeatsOf
<1> QED
  BY <1>1, <1>2 DEF SaleInv

\* An order's seats after a step that moves no seat of it.
LEMMA SeatsStayWith ==
  ASSUME NEW o \in Reqs, \A s \in Seats : HolderOf(s)' = o <=> HolderOf(s) = o
  PROVE  Sales!SeatsOf(o)' = Sales!SeatsOf(o)
  BY DEF Sales!SeatsOf

LEMMA ReserveSafe ==
  ASSUME SaleInv, NEW o \in Reqs, Sales!Reserve(o) PROVE SaleInv'
<1> USE DEF SaleInv
<1>0. PICK S \in (SUBSET Seats) \ {{}} :
        /\ \A s \in S : [x \in Seats |-> HolderOf(x)][s] = None /\ s \notin SoldSeats
        /\ [s \in Seats |-> HolderOf(s)]' =
             [s \in Seats |-> IF s \in S THEN o ELSE [x \in Seats |-> HolderOf(x)][s]]
  <2> HIDE DEF SaleInv
  <2> QED
    BY ZenonT(30) DEF Sales!Reserve, SoldSeats
<1>1. /\ \A s \in S : HolderOf(s) = None /\ s \notin SoldSeats
      /\ \A s \in Seats : HolderOf(s)' = IF s \in S THEN o ELSE HolderOf(s)
  <2>1. \A s \in S : HolderOf(s) = None /\ s \notin SoldSeats
    BY <1>0
  <2>2. \A s \in Seats : [x \in Seats |-> HolderOf(x)]'[s] = IF s \in S THEN o ELSE HolderOf(s)
    BY <1>0
  <2> QED
    BY <2>1, <2>2
<1>2. /\ status[o] = "NONE" /\ status' = [status EXCEPT ![o] = "PENDING"]
      /\ SoldSeats' = SoldSeats /\ Charges' = Charges
  BY DEF Sales!Reserve, SoldSeats, Charges
<1>3. PaidOrders' = PaidOrders /\ o \notin PaidOrders
  BY <1>2 DEF PaidOrders
<1>4. \A q \in Reqs : q # o => Sales!SeatsOf(q)' = Sales!SeatsOf(q)
  BY <1>1, SeatsStayWith
<1>5. Sales!SeatsOf(o)' # {}
  BY <1>1 DEF Sales!SeatsOf
<1>6. {ChargeOf(q) : q \in PaidOrders}' = {ChargeOf(q) : q \in PaidOrders}
  BY <1>3, <1>4 DEF ChargeOf, PaidOrders
<1>7. \A s \in Seats : HolderOf(s)' \in PaidOrders <=> HolderOf(s) \in PaidOrders
  BY <1>1, <1>3 DEF PaidOrders
<1> QED
  BY <1>1, <1>2, <1>3, <1>4, <1>5, <1>6, <1>7

LEMMA PaySafe ==
  ASSUME SaleInv, NEW o \in Reqs, Sales!Pay(o) PROVE SaleInv'
<1> USE DEF SaleInv
<1>1. /\ status[o] = "PENDING" /\ status' = [status EXCEPT ![o] = "PAID"]
      /\ SoldSeats' = SoldSeats \cup Sales!SeatsOf(o)
      /\ Charges' = Charges \cup {ChargeOf(o)}
      /\ \A s \in Seats : HolderOf(s)' = HolderOf(s)
  BY DEF Sales!Pay, SoldSeats, Charges, ChargeOf
<1>2. PaidOrders' = PaidOrders \cup {o}
  BY <1>1 DEF PaidOrders
<1>3. \A q \in Reqs : Sales!SeatsOf(q)' = Sales!SeatsOf(q)
  BY <1>1, SeatsStayWith
<1>4. {ChargeOf(q) : q \in PaidOrders}' = {ChargeOf(q) : q \in PaidOrders} \cup {ChargeOf(o)}
  BY <1>2, <1>3 DEF ChargeOf, PaidOrders
<1>5. SoldSeats' = SeedSold \cup {s \in Seats : HolderOf(s)' \in PaidOrders'}
  BY <1>1, <1>2 DEF Sales!SeatsOf
<1> QED
  BY <1>1, <1>2, <1>3, <1>4, <1>5

LEMMA EndSafe ==
  ASSUME SaleInv, NEW O \in SUBSET Reqs, NEW outcome \in {"CANCELLED", "EXPIRED"},
         Sales!End(O, outcome)
  PROVE  SaleInv'
<1> USE DEF SaleInv
<1>1. /\ \A o \in O : status[o] = "PENDING"
      /\ status' = [o \in Reqs |-> IF o \in O THEN outcome ELSE status[o]]
      /\ SoldSeats' = SoldSeats /\ Charges' = Charges
      /\ \A s \in Seats : HolderOf(s)' = IF HolderOf(s) \in O THEN None ELSE HolderOf(s)
  BY DEF Sales!End, SoldSeats, Charges
<1>2. PaidOrders' = PaidOrders /\ O \cap PaidOrders = {}
  BY <1>1 DEF PaidOrders
<1>3. \A q \in Reqs : q \notin O => Sales!SeatsOf(q)' = Sales!SeatsOf(q)
  BY <1>1, SeatsStayWith
<1>4. \A q \in O : Sales!SeatsOf(q)' = {}
  BY <1>1 DEF Sales!SeatsOf
<1>5. {ChargeOf(q) : q \in PaidOrders}' = {ChargeOf(q) : q \in PaidOrders}
  BY <1>2, <1>3 DEF ChargeOf, PaidOrders
<1>6. \A s \in Seats : HolderOf(s)' \in PaidOrders <=> HolderOf(s) \in PaidOrders
  BY <1>1, <1>2 DEF PaidOrders
<1> QED
  BY <1>1, <1>2, <1>3, <1>4, <1>5, <1>6

LEMMA SaleInvKeeps ==
  ASSUME SaleInv, [Sales!Next]_Sales!vars PROVE SaleInv'
<1>1. CASE UNCHANGED Sales!vars
  <2>1. /\ SoldSeats' = SoldSeats /\ Charges' = Charges /\ status' = status
        /\ \A s \in Seats : HolderOf(s)' = HolderOf(s)
    BY <1>1 DEF Sales!vars, SoldSeats, Charges
  <2>2. PaidOrders' = PaidOrders /\ \A o \in Reqs : Sales!SeatsOf(o)' = Sales!SeatsOf(o)
    BY <2>1, SeatsStayWith DEF PaidOrders
  <2>3. {ChargeOf(q) : q \in PaidOrders}' = {ChargeOf(q) : q \in PaidOrders}
    BY <2>2 DEF ChargeOf, PaidOrders
  <2> QED
    BY <2>1, <2>2, <2>3 DEF SaleInv
<1>2. ASSUME NEW o \in Reqs, Sales!End({o}, "CANCELLED") PROVE SaleInv'
  BY <1>2, EndSafe
<1> QED
  BY <1>1, <1>2, ReserveSafe, PaySafe, EndSafe DEF Sales!Next

\* Who is charged is charged once, for exactly the seats of the order, which nobody else
\* has or had; and what is sold is paid for.  It follows from the abstract sale alone, so
\* it says that SeatSales is worth implementing.
THEOREM SalePromise == SalesSpec => []Sales!Promise
<1>1. SaleInv => Sales!Promise
  <2> SUFFICES ASSUME SaleInv PROVE Sales!Promise
    OBVIOUS
  <2>1. \A c \in Charges : \E o \in PaidOrders : c = ChargeOf(o)
    BY DEF SaleInv
  <2>2. ASSUME NEW o \in PaidOrders
        PROVE  /\ o \in Reqs /\ status[o] = "PAID" /\ ChargeOf(o) \in Charges
               /\ ChargeOf(o).order = o /\ ChargeOf(o).seats = Sales!SeatsOf(o)
               /\ Sales!SeatsOf(o) # {} /\ Sales!SeatsOf(o) \subseteq SoldSeats \ SeedSold
    BY <2>2 DEF SaleInv, PaidOrders, ChargeOf, Sales!SeatsOf
  <2>3. \A c \in Charges : /\ status[c.order] = "PAID" /\ c.seats = Sales!SeatsOf(c.order)
                           /\ c.seats # {} /\ c.seats \subseteq SoldSeats \ SeedSold
                           /\ c = ChargeOf(c.order) /\ c.order \in Reqs
    BY <2>1, <2>2
  <2>4. \A o \in Reqs : status[o] = "PAID" =>
          \E c \in Charges : c.order = o /\ \A d \in Charges : d.order = o => d = c
    BY <2>2, <2>3 DEF PaidOrders
  <2>5. \A c, d \in Charges : c # d => c.seats \cap d.seats = {}
    BY <2>3 DEF Sales!SeatsOf
  <2>6. \A s \in SoldSeats \ SeedSold : \E c \in Charges : s \in c.seats
    <3> SUFFICES ASSUME NEW s \in SoldSeats \ SeedSold PROVE \E c \in Charges : s \in c.seats
      OBVIOUS
    <3>1. s \in Seats /\ HolderOf(s) \in PaidOrders
      BY DEF SaleInv
    <3>2. s \in Sales!SeatsOf(HolderOf(s))
      BY <3>1 DEF Sales!SeatsOf
    <3> QED
      BY <2>2, <3>1, <3>2
  <2> QED
    BY <2>3, <2>4, <2>5, <2>6 DEF Sales!Promise, SoldSeats, Charges
<1> QED
  BY <1>1, SaleInvInit, SaleInvKeeps, PTL DEF SalesSpec, Sales!Spec

\* So the API keeps that promise, whatever fails and however requests overlap.
THEOREM PromiseKept == Spec => []Sales!Promise
  BY SalePromise, ImplementsSales, PTL
=============================================================================
