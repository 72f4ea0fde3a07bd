------------------------------ MODULE Checkout ------------------------------
(***************************************************************************)
(* The booking page (src/web/app/page.jsx) and the seat map it polls       *)
(* (listSeats, src/api/handlers.go), over Booking: one customer in one tab.*)
(*                                                                         *)
(* A click sends one of PageReqs, whose call is what the page asks for, and*)
(* the handler of that request runs from then on.  The customer does not   *)
(* wait: other clicks, the countdown and answers to older requests come in *)
(* between, and an answer may never come.  Requests outside PageReqs are   *)
(* other customers'.                                                       *)
(*                                                                         *)
(* Abstractions: the map is the set of seats it offers as free; how many   *)
(* seats may be selected is left to the server's gate; a poll's answer     *)
(* arrives with its read of the holds; messages about failures are silent. *)
(***************************************************************************)
EXTENDS Booking

CONSTANTS
  Customer,
  PageReqs,  \* the requests the page may send
  KeyOf,     \* the idemKey made for each order, crypto.randomUUID()
  MaxPolls   \* bound: polls of the seat map under way

ASSUME CheckoutAssumption ==
  /\ Customer \in Users
  /\ PageReqs \subseteq Reqs
  /\ KeyOf \in [PageReqs -> Keys]
  /\ \A o, q \in PageReqs : KeyOf[o] = KeyOf[q] => o = q
  /\ None \notin Events \cup {"paid", "released", "lapsed"}
  /\ MaxPolls \in Nat

VARIABLES
  shown,     \* eventId: the event whose seats the page shows, or None
  map,       \* seats: those the page offers as AVAILABLE
  selected,  \* selected
  order,     \* order
  dialog,    \* confirmState: what is to be confirmed, for which order
  told,      \* msg
  fate,      \* how far a request of the page is, for the page
  polls      \* polls of the seat map that have read Postgres

pageVars == <<shown, map, selected, order, dialog, told, fate, polls>>
checkoutVars == <<vars, pageVars>>

NoDialog == [op |-> None, order |-> None]
Silent == [said |-> None, of |-> None]
Fates == {"unsent", "sent", "answered", "lost"}

PageInit ==
  /\ shown = None /\ map = {} /\ selected = {} /\ order = None
  /\ dialog = NoDialog /\ told = Silent
  /\ fate = [r \in PageReqs |-> "unsent"]
  /\ polls = {}

-----------------------------------------------------------------------------
(* The customer's clicks; an open dialog covers the page. *)

\* setEventId, and logout: the effect on eventId drops selection and order, the
\* old map stays until a poll replaces it.
Show(e) ==
  /\ dialog = NoDialog /\ e # shown
  /\ shown' = e
  /\ selected' = {} /\ order' = None
  /\ UNCHANGED <<map, dialog, told, fate, polls>>

ToggleSeat(s) ==
  /\ dialog = NoDialog /\ shown # None /\ order = None
  /\ s \in map
  /\ selected' = IF s \in selected THEN selected \ {s} ELSE selected \cup {s}
  /\ UNCHANGED <<shown, map, order, dialog, told, fate, polls>>

\* authFetch of a request that asks for c.
Send(r, c) ==
  /\ fate[r] = "unsent" /\ call[r] = c
  /\ fate' = [fate EXCEPT ![r] = "sent"]

\* book: the button stays enabled while a booking is under way.
Book(r) ==
  /\ dialog = NoDialog /\ shown # None /\ order = None /\ selected # {}
  /\ Send(r, [op |-> "book", user |-> Customer, event |-> shown,
              seats |-> selected, len |-> Cardinality(selected)])
  /\ told' = Silent
  /\ UNCHANGED <<shown, map, selected, order, dialog, polls>>

\* askConfirm keeps the pay or the cancel of this rendering, hence its order.
Ask(op) ==
  /\ dialog = NoDialog /\ shown # None /\ order # None
  /\ dialog' = [op |-> op, order |-> order]
  /\ UNCHANGED <<shown, map, selected, order, told, fate, polls>>

ConfirmPay(r) ==
  /\ dialog.op = "pay"
  /\ Send(r, [op |-> "pay", user |-> Customer, order |-> dialog.order,
              key |-> KeyOf[dialog.order]])
  /\ dialog' = NoDialog /\ told' = Silent
  /\ UNCHANGED <<shown, map, selected, order, polls>>

ConfirmCancel(r) ==
  /\ dialog.op = "cancel"
  /\ Send(r, [op |-> "cancel", user |-> Customer, order |-> dialog.order])
  /\ dialog' = NoDialog
  /\ UNCHANGED <<shown, map, selected, order, told, polls>>

Dismiss ==
  /\ dialog # NoDialog
  /\ dialog' = NoDialog
  /\ UNCHANGED <<shown, map, selected, order, told, fate, polls>>

-----------------------------------------------------------------------------
(* What arrives *)

\* The handler has answered, or the middleware turned the request away (401, 429).
Answered(r) == fate[r] = "sent" /\ pc[r] \in {"done", "new"}
Says(said, o) == told' = [said |-> said, of |-> o]
Drop == order' = None /\ selected' = {}

\* Mutant of Created: the page takes any answer of the handler for an order.
CreatedWhatever(r) == pc[r] = "done"
\* Status 201.
Created(r) == resp[r] = "created"

\* The order is set whichever event is shown by now; a 409 clears the selection.
BookAnswered(r) ==
  /\ Answered(r) /\ call[r].op = "book"
  /\ order' = IF Created(r) THEN r ELSE order
  /\ selected' = IF resp[r] = "seat_taken" THEN {} ELSE selected
  /\ told' = IF Created(r) THEN told ELSE Silent

\* Mutants of Succeeded: the status of the answer is not looked at; an order
\* that was paid before is an error.
SucceededWhatever(r) == pc[r] = "done"
SucceededNow(r) == resp[r] = "paid"
\* payment_status SUCCEEDED: of this payment, its replay, or an order that is PAID.
Succeeded(r) == resp[r] \in {"paid", "replayed", "already_paid"}

PayAnswered(r) ==
  /\ Answered(r) /\ call[r].op = "pay"
  /\ IF Succeeded(r)
       THEN Says("paid", call[r].order) /\ Drop
       ELSE told' = Silent /\ UNCHANGED <<order, selected>>

\* cancel: any answer will do.
CancelAnswered(r) ==
  /\ Answered(r) /\ call[r].op = "cancel"
  /\ Says("released", call[r].order) /\ Drop

Receive(r) ==
  /\ BookAnswered(r) \/ PayAnswered(r) \/ CancelAnswered(r)
  /\ fate' = [fate EXCEPT ![r] = "answered"]
  /\ UNCHANGED <<shown, map, dialog, polls>>

\* fetch rejects, and nothing is set: the request or its answer is lost, the
\* API has died, or the page was loaded again.
Lose(r) ==
  /\ fate[r] = "sent"
  /\ fate' = [fate EXCEPT ![r] = "lost"]
  /\ UNCHANGED <<shown, map, selected, order, dialog, told, polls>>

\* The interval that looks at expiresAt; a settled order has one as well.
Countdown ==
  /\ order # None
  /\ Running(order) => left[order] <= 0
  /\ Drop /\ Says("lapsed", order)
  /\ UNCHANGED <<shown, map, dialog, fate, polls>>

\* listSeats reads the rows of an event that was opened some time before.
PollRead(e) ==
  /\ Cardinality(polls) < MaxPolls
  /\ polls' = polls \cup {[event |-> e,
                           free |-> {s \in Seats : EventOf[s] = e /\ seat[s] = "AVAILABLE"}]}
  /\ UNCHANGED <<shown, map, selected, order, dialog, told, fate>>

\* Then the holds, unless Redis fails; the answer replaces the map, whichever
\* event is shown by now, and an error, which has no seats, empties it.
PollShow(p) ==
  /\ polls' = polls \ {p}
  /\ \/ map' = {s \in p.free : hold[<<p.event, s>>].ttl = 0}
     \/ "redis_error" \in Faults /\ map' = p.free
     \/ map' = {}
  /\ UNCHANGED <<shown, selected, order, dialog, told, fate>>

Page ==
  \/ \E e \in Events \cup {None} : Show(e)
  \/ \E s \in Seats : ToggleSeat(s)
  \/ \E r \in PageReqs : Book(r) \/ ConfirmPay(r) \/ ConfirmCancel(r)
  \/ \E op \in {"pay", "cancel"} : Ask(op)
  \/ Dismiss
  \/ \E r \in PageReqs : Receive(r) \/ Lose(r)
  \/ Countdown
  \/ \E e \in Events : PollRead(e)
  \/ \E p \in polls : PollShow(p)

-----------------------------------------------------------------------------

\* No handler begins on a request of the page that is not on its way.
OnlySent == \A r \in PageReqs :
              pc[r] = "new" /\ fate[r] \notin {"sent", "lost"} => pc'[r] = "new"

CheckoutInit == Init /\ PageInit
CheckoutNext ==
  \/ Page /\ UNCHANGED vars
  \/ Next /\ OnlySent /\ UNCHANGED pageVars

CheckoutSpec == CheckoutInit /\ [][CheckoutNext]_checkoutVars

-----------------------------------------------------------------------------
(* Properties *)

\* Every variable has its type, and the page offers to pay only an order of the
\* customer that is in the table.
CheckoutTypeOK ==
  /\ shown \in Events \cup {None}
  /\ map \subseteq Seats /\ selected \subseteq Seats
  /\ order # None => order \in PageReqs \cap Orders /\ call[order].user = Customer
  /\ dialog \in [op : {"pay", "cancel"}, order : PageReqs] \cup {NoDialog}
  /\ told \in [said : {"paid", "released", "lapsed"}, of : PageReqs] \cup {Silent}
  /\ fate \in [PageReqs -> Fates]
  /\ polls \subseteq [event : Events, free : SUBSET Seats]

\* What the page says is paid was charged, for the seats of the order, however
\* late the answer came and whatever was pressed, repeated or lost meanwhile
\* (src/web/app/page.jsx:191-196).
ToldPaidIsPaid ==
  told.said = "paid" =>
    /\ told.of \in Paid
    /\ \E p \in payments : p.order = told.of /\ p.seats = items[told.of]

\* An order the page still offers to be paid is PAID only if no payment of it
\* was answered as a success: the customer who was not told may pay again, and
\* the next answer tells (src/api/handlers.go:424-427 and 446-448).
OfferedIsUnsettled ==
  order # None => \A r \in PageReqs :
    fate[r] = "answered" /\ call[r].op = "pay" /\ call[r].order = order =>
      resp[r] \notin {"paid", "replayed", "already_paid"}

\* The seats of an order are of its event, though the page may send seats of the map of
\* another one, which it shows until a poll replaces it (src/web/app/page.jsx:129-133).
OrdersStayInEvent == \A o \in Orders : \A s \in items[o] : EventOf[s] = call[o].event

\* src/web/app/page.jsx:206 and 409: the order is cancelled and its seats have
\* been released.
ToldReleased ==
  told.said = "released" => status[told.of] \in {"CANCELLED", "EXPIRED"}

=============================================================================
