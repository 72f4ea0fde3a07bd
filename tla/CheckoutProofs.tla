---------------------------- MODULE CheckoutProofs ----------------------------
(* Theorems of Checkout: whatever is pressed, repeated and lost on the page, the *)
(* sale below it is Booking's, and the page says of it what is true.             *)
EXTENDS Checkout, BookingProofs

USE ConstantAssumption, CheckoutAssumption

-----------------------------------------------------------------------------
(* The page over the sale *)

\* A step of the page leaves the sale alone, and one of the sale the page.
LEMMA PageOrSale ==
  ASSUME [CheckoutNext]_checkoutVars
  PROVE  /\ [Next]_vars
         /\ \/ Page /\ UNCHANGED vars
            \/ UNCHANGED pageVars
         /\ OnlySent
<1>1. CASE Page /\ UNCHANGED vars
  BY <1>1 DEF OnlySent, vars
<1>2. CASE Next /\ OnlySent /\ UNCHANGED pageVars
  BY <1>2
<1>3. CASE UNCHANGED checkoutVars
  BY <1>3 DEF OnlySent, vars, checkoutVars
<1> QED
  BY <1>1, <1>2, <1>3 DEF CheckoutNext

\* Under every page the API is Booking: what is proved of that holds here as well.
THEOREM CheckoutIsBooking == CheckoutSpec => Spec
<1>1. CheckoutInit => Init
  BY DEF CheckoutInit
<1>2. [CheckoutNext]_checkoutVars => [Next]_vars
  BY PageOrSale
<1> QED
  BY <1>1, <1>2, PTL DEF CheckoutSpec, Spec

-----------------------------------------------------------------------------
(* The inductive invariant *)

\* An order has been created by the time its booking is told so.
CreatedExists == \A r \in Reqs : resp[r] = "created" => status[r] # "NONE"

\* The page asks in the customer's name, and for orders whose creation it was told.
Asks ==
  /\ \A r \in PageReqs : fate[r] # "unsent" =>
       /\ call[r].user = Customer
       /\ call[r].op # "book" =>
            call[r].order \in PageReqs /\ fate[call[r].order] = "answered"
  /\ \A r \in PageReqs : fate[r] = "answered" => pc[r] \in {"done", "new"}
  /\ dialog # NoDialog => fate[dialog.order] = "answered"
  /\ order # None => fate[order] = "answered"

ToldIsPaid == told.said = "paid" => told.of \in Paid

PageInv == /\ CheckoutTypeOK /\ CreatedExists /\ RowsInEvent
           /\ Asks /\ ToldIsPaid /\ OfferedIsUnsettled

\* It holds when the page is opened.
LEMMA PageInvInit == CheckoutInit => PageInv
<1> SUFFICES ASSUME CheckoutInit PROVE PageInv
  OBVIOUS
<1> USE DEF CheckoutInit, Init, PageInit, NoDialog, Silent
<1>1. CheckoutTypeOK
  BY DEF CheckoutTypeOK, Fates
<1>2. CreatedExists
  BY DEF CreatedExists, Code
<1>3. RowsInEvent
  BY DEF RowsInEvent, Orders
<1>4. Asks /\ ToldIsPaid /\ OfferedIsUnsettled
  BY DEF Asks, ToldIsPaid, OfferedIsUnsettled, Code
<1> QED
  BY <1>1, <1>2, <1>3, <1>4 DEF PageInv

-----------------------------------------------------------------------------
(* Steps of the sale *)

\* What the page has been told stays true of the sale.
LEMMA SaleStep ==
  ASSUME IInv, PageInv, [Next]_vars, OnlySent, UNCHANGED pageVars PROVE PageInv'
<1> USE DEF IInv, PageInv, pageVars
<1>a. UNCHANGED call
  BY StoreMoves
<1>1. CheckoutTypeOK'
  BY <1>a, OrderBorn DEF CheckoutTypeOK, Orders
<1>2. CreatedExists'
  <2> SUFFICES ASSUME NEW r \in Reqs, resp'[r] = "created" PROVE status'[r] # "NONE"
    BY DEF CreatedExists
  <2>1. resp[r] = "created" \/ CommitBooking(r)
    BY RequestMoves
  <2>2. CommitBooking(r) => status'[r] = "PENDING"
    BY DEF CommitBooking, TypeOK
  <2> QED
    BY <2>1, <2>2, OrderBorn DEF CreatedExists
<1>3. RowsInEvent'
  BY RowsStep
<1>4. Asks'
  <2>1. ASSUME NEW r \in PageReqs, fate[r] = "answered" PROVE pc'[r] \in {"done", "new"}
    BY <2>1, RequestMoves DEF Asks, OnlySent
  <2> QED
    BY <1>a, <2>1 DEF Asks
<1>5. ToldIsPaid'
  <2>1. told.of \in Paid => told.of \in Paid'
    BY SettledStays DEF Paid
  <2> QED
    BY <2>1 DEF ToldIsPaid
<1>6. OfferedIsUnsettled'
  <2> SUFFICES ASSUME order # None, NEW r \in PageReqs, fate[r] = "answered",
                      call[r].op = "pay", call[r].order = order
               PROVE  resp'[r] \notin {"paid", "replayed", "already_paid"}
    BY <1>a DEF OfferedIsUnsettled
  <2>1. pc[r] = "done" \/ pc'[r] = "new"
    BY DEF Asks, OnlySent
  <2>2. resp'[r] = resp[r]
    BY <2>1, RequestMoves
  <2> QED
    BY <2>2 DEF OfferedIsUnsettled
<1> QED
  BY <1>1, <1>2, <1>3, <1>4, <1>5, <1>6

-----------------------------------------------------------------------------
(* Steps of the page *)

\* A step of the page that is told of no payment and offers no other order.
LEMMA PageKeeps ==
  ASSUME PageInv, UNCHANGED vars, CheckoutTypeOK', Asks',
         told' = told \/ told'.said # "paid",
         order' = order \/ order' = None, UNCHANGED fate
  PROVE  PageInv'
<1> USE DEF PageInv, vars, database, locals
<1>1. CreatedExists' /\ RowsInEvent'
  BY DEF CreatedExists, RowsInEvent, Orders
<1>2. ToldIsPaid'
  BY DEF ToldIsPaid, Paid
<1>3. OfferedIsUnsettled'
  BY DEF OfferedIsUnsettled
<1> QED
  BY <1>1, <1>2, <1>3

\* Clicks that send nothing, the countdown and the polls.
LEMMA ClicksAndPolls ==
  ASSUME PageInv, UNCHANGED vars,
         \/ \E e \in Events \cup {None} : Show(e)
         \/ \E s \in Seats : ToggleSeat(s)
         \/ \E op \in {"pay", "cancel"} : Ask(op)
         \/ Dismiss \/ Countdown
         \/ \E e \in Events : PollRead(e)
         \/ \E p \in polls : PollShow(p)
  PROVE  PageInv'
<1> USE DEF PageInv, vars, database, locals, CheckoutTypeOK, Orders
<1>1. ASSUME NEW e \in Events \cup {None}, Show(e) PROVE CheckoutTypeOK' /\ Asks'
  BY <1>1 DEF Show, Asks
<1>2. ASSUME NEW s \in Seats, ToggleSeat(s) PROVE CheckoutTypeOK' /\ Asks'
  BY <1>2 DEF ToggleSeat, Asks
<1>3. ASSUME NEW op \in {"pay", "cancel"}, Ask(op) PROVE CheckoutTypeOK' /\ Asks'
  BY <1>3 DEF Ask, Asks
<1>4. ASSUME Dismiss PROVE CheckoutTypeOK' /\ Asks'
  BY <1>4 DEF Dismiss, Asks
<1>5. ASSUME Countdown PROVE CheckoutTypeOK' /\ Asks' /\ told'.said # "paid"
  BY <1>5 DEF Countdown, Drop, Says, Asks
<1>6. ASSUME NEW e \in Events, PollRead(e) PROVE CheckoutTypeOK' /\ Asks'
  BY <1>6 DEF PollRead, Asks
<1>7. ASSUME NEW p \in polls, PollShow(p) PROVE CheckoutTypeOK' /\ Asks'
  BY <1>7 DEF PollShow, Asks
<1>8. ASSUME NEW op \in {"pay", "cancel"}, Ask(op) \/ Dismiss PROVE UNCHANGED <<told, order, fate>>
  BY <1>8 DEF Ask, Dismiss
<1>9. ASSUME NEW e \in Events \cup {None}, NEW s \in Seats, NEW p \in polls,
             \/ Show(e) \/ ToggleSeat(s) \/ PollShow(p)
      PROVE  UNCHANGED <<told, fate>> /\ (order' = order \/ order' = None)
  BY <1>9 DEF Show, ToggleSeat, PollShow
<1> QED
  BY <1>1, <1>2, <1>3, <1>4, <1>5, <1>6, <1>7, <1>8, <1>9, PageKeeps
  DEF Show, ToggleSeat, PollShow, PollRead, Countdown, Drop

\* A request is sent: in the customer's name, for an order the page was told of.
LEMMA Sends ==
  ASSUME IInv, PageInv, UNCHANGED vars, NEW r \in PageReqs,
         Book(r) \/ ConfirmPay(r) \/ ConfirmCancel(r)
  PROVE  PageInv'
<1> USE DEF PageInv, vars, database, locals
<1>1. fate[r] = "unsent" /\ fate' = [fate EXCEPT ![r] = "sent"]
  BY DEF Book, ConfirmPay, ConfirmCancel, Send
<1>2. UNCHANGED <<shown, map, selected, order, polls>>
  BY DEF Book, ConfirmPay, ConfirmCancel
<1>3. told' = told \/ told' = Silent
  BY DEF Book, ConfirmPay, ConfirmCancel
<1>4. dialog' = dialog \/ dialog' = NoDialog
  BY DEF Book, ConfirmPay, ConfirmCancel
<1>5. CheckoutTypeOK'
  BY <1>1, <1>2, <1>3, <1>4 DEF CheckoutTypeOK, Fates, Orders
<1>6. /\ call[r].user = Customer
      /\ call[r].op # "book" => /\ call[r].order \in PageReqs
                                /\ fate[call[r].order] = "answered"
  <2>1. CASE Book(r)
    BY <2>1 DEF Book, Send
  <2>2. CASE ConfirmPay(r) \/ ConfirmCancel(r)
    <3>1. /\ call[r].user = Customer /\ call[r].order = dialog.order
          /\ call[r].order \in Reqs
      <4>1. /\ call[r].user = Customer /\ call[r].order = dialog.order
            /\ call[r].op \in {"pay", "cancel"}
        BY <2>2 DEF ConfirmPay, ConfirmCancel, Send
      <4> QED
        BY <4>1, CallFields DEF IInv, PayCall, CancelCall
    <3> QED
      BY <3>1 DEF Asks, CheckoutTypeOK, NoDialog
  <2> QED
    BY <2>1, <2>2
<1>7. Asks'
  BY <1>1, <1>2, <1>4, <1>6 DEF Asks, CheckoutTypeOK
<1>8. CreatedExists' /\ RowsInEvent'
  BY DEF CreatedExists, RowsInEvent, Orders
<1>9. ToldIsPaid'
  BY <1>3 DEF ToldIsPaid, Paid, Silent, Code
<1>10. OfferedIsUnsettled'
  BY <1>1, <1>2 DEF OfferedIsUnsettled, CheckoutTypeOK
<1> QED
  BY <1>5, <1>7, <1>8, <1>9, <1>10

\* An answer arrives: an order is offered only from its creation on, and "paid" is said
\* only of an order that is PAID.
LEMMA Answering ==
  ASSUME IInv, PageInv, UNCHANGED vars, NEW r \in PageReqs, Receive(r)
  PROVE  PageInv'
<1> USE DEF PageInv, vars, database, locals
<1>1. /\ fate[r] = "sent" /\ pc[r] \in {"done", "new"}
      /\ fate' = [fate EXCEPT ![r] = "answered"]
      /\ UNCHANGED <<shown, map, dialog, polls>>
  BY DEF Receive, BookAnswered, PayAnswered, CancelAnswered, Answered
<1>2. /\ call[r].user = Customer
      /\ call[r].op # "book" => /\ call[r].order \in PageReqs
                                /\ fate[call[r].order] = "answered"
  BY <1>1 DEF Asks
<1>3. CreatedExists' /\ RowsInEvent'
  BY DEF CreatedExists, RowsInEvent, Orders
<1>4. ASSUME NEW q \in PageReqs
      PROVE  /\ fate'[q] = "answered" <=> fate[q] = "answered" \/ q = r
             /\ fate'[q] # "unsent" <=> fate[q] # "unsent"
  BY <1>1 DEF CheckoutTypeOK
<1>5. CASE BookAnswered(r)
  <2>1. /\ call[r].op = "book"
        /\ order' = order \/ (order' = r /\ resp[r] = "created")
        /\ selected' = selected \/ selected' = {}
        /\ told' = told \/ told' = Silent
    BY <1>5 DEF BookAnswered, Created
  <2>2. CheckoutTypeOK'
    BY <1>1, <1>2, <2>1 DEF CheckoutTypeOK, Fates, Orders, CreatedExists
  <2>3. Asks'
    BY <1>1, <1>4, <2>1 DEF Asks, CheckoutTypeOK
  <2>4. ToldIsPaid'
    BY <2>1 DEF ToldIsPaid, Paid, Silent, Code
  <2>5. OfferedIsUnsettled'
    BY <1>1, <1>4, <2>1 DEF OfferedIsUnsettled, Asks
  <2> QED
    BY <1>3, <2>2, <2>3, <2>4, <2>5
<1>6. CASE PayAnswered(r)
  <2>1. call[r].op = "pay" /\ call[r].order \in PageReqs
    BY <1>2, <1>6 DEF PayAnswered
  <2>2. \/ /\ resp[r] \in Successes /\ order' = None /\ selected' = {}
           /\ told' = [said |-> "paid", of |-> call[r].order]
        \/ /\ resp[r] \notin Successes /\ told' = Silent
           /\ UNCHANGED <<order, selected>>
    BY <1>6 DEF PayAnswered, Succeeded, Says, Drop, Successes
  <2>3. CheckoutTypeOK'
    BY <1>1, <2>1, <2>2 DEF CheckoutTypeOK, Fates, Orders
  <2>4. Asks'
    BY <1>1, <1>4, <2>2 DEF Asks, CheckoutTypeOK
  <2>5. ToldIsPaid'
    BY <2>2 DEF ToldIsPaid, Paid, Silent, Code, IInv, Answers
  <2>6. OfferedIsUnsettled'
    BY <1>4, <2>2 DEF OfferedIsUnsettled, Successes
  <2> QED
    BY <1>3, <2>3, <2>4, <2>5, <2>6
<1>7. CASE CancelAnswered(r)
  <2>1. /\ call[r].order \in PageReqs /\ order' = None /\ selected' = {}
        /\ told' = [said |-> "released", of |-> call[r].order]
    BY <1>2, <1>7 DEF CancelAnswered, Says, Drop
  <2>2. CheckoutTypeOK'
    BY <1>1, <2>1 DEF CheckoutTypeOK, Fates
  <2>3. Asks'
    BY <1>1, <1>4, <2>1 DEF Asks, CheckoutTypeOK
  <2> QED
    BY <1>3, <2>1, <2>2, <2>3 DEF ToldIsPaid, OfferedIsUnsettled
<1> QED
  BY <1>5, <1>6, <1>7 DEF Receive

\* An answer that never arrives changes nothing.
LEMMA Losing ==
  ASSUME PageInv, UNCHANGED vars, NEW r \in PageReqs, Lose(r) PROVE PageInv'
<1> USE DEF PageInv, Lose, vars, database, locals
<1>1. CheckoutTypeOK'
  BY DEF CheckoutTypeOK, Fates, Orders
<1>2. CreatedExists' /\ RowsInEvent'
  BY DEF CreatedExists, RowsInEvent, Orders
<1>3. Asks'
  BY DEF Asks, CheckoutTypeOK
<1>4. ToldIsPaid' /\ OfferedIsUnsettled'
  BY DEF ToldIsPaid, Paid, OfferedIsUnsettled, CheckoutTypeOK
<1> QED
  BY <1>1, <1>2, <1>3, <1>4

-----------------------------------------------------------------------------
(* The theorems *)

\* Every step of the page and of the sale preserves the invariant.
LEMMA PageInvStep ==
  ASSUME IInv, PageInv, [CheckoutNext]_checkoutVars PROVE PageInv'
<1>1. CASE UNCHANGED pageVars
  BY <1>1, PageOrSale, SaleStep
<1>2. CASE Page /\ UNCHANGED vars
  BY <1>2, ClicksAndPolls, Sends, Answering, Losing DEF Page
<1> QED
  BY <1>1, <1>2, PageOrSale

\* The invariant of the page and of the sale under it.
THEOREM PageInductive == CheckoutSpec => [](IInv /\ PageInv)
<1>1. CheckoutInit => PageInv
  BY PageInvInit
<1>2. IInv /\ PageInv /\ [CheckoutNext]_checkoutVars => PageInv'
  BY PageInvStep
<1> QED
  BY <1>1, <1>2, CheckoutIsBooking, Inductive, PTL DEF CheckoutSpec

\* Every variable of the page has its type, and it offers to pay an order of its own.
THEOREM PageTyped == CheckoutSpec => []CheckoutTypeOK
<1>1. PageInv => CheckoutTypeOK
  BY DEF PageInv
<1> QED
  BY <1>1, PageInductive, PTL

\* What the page says is paid is charged, however late it was told
\* (web/app/page.jsx:191-196).
THEOREM PaidIsTrue == CheckoutSpec => []ToldPaidIsPaid
<1>1. IInv /\ PageInv => ToldPaidIsPaid
  BY DEF IInv, PageInv, ToldIsPaid, ToldPaidIsPaid, ChargedOnce
<1> QED
  BY <1>1, PageInductive, PTL

\* Once the page has said that an order is paid, the order is paid and charged for the
\* seats it has from then on: nothing the page, another tab, another customer or the
\* worker does later takes a seat of it (web/app/page.jsx:191-196).
THEOREM ToldIsForEver ==
  ASSUME NEW o, NEW S
  PROVE  CheckoutSpec => [](told.said = "paid" /\ told.of = o /\ items[o] = S
                              => []Charged(o, S))
<1>1. IInv /\ PageInv /\ told.said = "paid" /\ told.of = o /\ items[o] = S => Charged(o, S)
  BY PaidIsCharged DEF PageInv, ToldIsPaid
<1>2. CheckoutSpec => [](Charged(o, S) => []Charged(o, S))
  BY CheckoutIsBooking, ChargeStands, PTL
<1> QED
  BY <1>1, <1>2, PageInductive, PTL

\* The page never offers an order of whose payment it was told: a success drops it, and
\* a booking is told of only once (web/app/page.jsx:171 and 193).
THEOREM OfferIsOpen == CheckoutSpec => []OfferedIsUnsettled
<1>1. PageInv => OfferedIsUnsettled
  BY DEF PageInv
<1> QED
  BY <1>1, PageInductive, PTL

\* The event_id of the insert keeps the seats of another event out of an order
\* (src/api/handlers.go:311-316), whatever map the page shows.
THEOREM EventsStayApart == CheckoutSpec => []OrdersStayInEvent
<1>1. PageInv => OrdersStayInEvent
  BY DEF PageInv, RowsInEvent, OrdersStayInEvent
<1> QED
  BY <1>1, PageInductive, PTL

-----------------------------------------------------------------------------
(* What "released" is worth *)

\* The page says "released" of an order whose cancellation was answered, and that answer is
\* what the order has come to, unless it was an error: of the database, or of the middleware.
ReleasedAsAnswered ==
  told.said = "released" =>
    \E r \in PageReqs :
      /\ fate[r] = "answered" /\ call[r].op = "cancel" /\ call[r].order = told.of
      /\ \/ resp[r] = "cancelled" /\ status[told.of] = "CANCELLED"
         \/ resp[r] = "not_cancellable" /\ status[told.of] \in Ended
         \/ resp[r] \in {"db_error", None}

\* The customer's own order, which is in the table.
Own(o) == status[o] # "NONE" /\ call[o].user = Customer

\* The page asks to settle its own orders, and its requests do not begin before they are sent.
AsksForOwn ==
  /\ dialog # NoDialog => Own(dialog.order)
  /\ \A r \in PageReqs : /\ fate[r] = "unsent" => pc[r] = "new"
                         /\ fate[r] # "unsent" /\ call[r].op # "book" => Own(call[r].order)
                         /\ call[r].op = "cancel" => resp[r] # "order_not_found"

\* "released" is said when the answer to a cancellation of that order arrives.
ReleasedOnAnswer ==
  told.said = "released" =>
    \E r \in PageReqs : fate[r] = "answered" /\ call[r].op = "cancel" /\ call[r].order = told.of

\* A request for an order of the customer finds it.
LEMMA AsksSaleStep ==
  ASSUME IInv, PageInv, AsksForOwn, [Next]_vars, OnlySent, UNCHANGED pageVars
  PROVE  AsksForOwn'
<1> USE DEF IInv, pageVars
<1>a. UNCHANGED call
  BY StoreMoves
<1>1. \A o \in Reqs : Own(o) => Own(o)'
  BY <1>a, OrderBorn DEF Own
<1>2. dialog # NoDialog => dialog.order \in Reqs
  BY CheckoutAssumption DEF PageInv, CheckoutTypeOK
<1>3. ASSUME NEW r \in PageReqs, call[r].op # "book" PROVE call[r].order \in Reqs
  BY <1>3, CallFields DEF PayCall, CancelCall
<1>4. ASSUME NEW r \in PageReqs, call[r].op = "cancel" PROVE resp'[r] # "order_not_found"
  <2>1. ~OrderNotFound(r)
    <3> SUFFICES ASSUME OrderNotFound(r) PROVE FALSE
      OBVIOUS
    <3>1. pc[r] \in {"lock", "new"} /\ pc'[r] = "done" /\ ~Found(r)
      BY DEF OrderNotFound, Answer, Leave, TypeOK
    <3>2. fate[r] # "unsent"
      BY <3>1 DEF OnlySent, AsksForOwn
    <3>3. Own(call[r].order) /\ call[r].user = Customer
      BY <1>4, <3>2 DEF AsksForOwn, PageInv, Asks
    <3> QED
      BY <3>1, <3>3 DEF Found, Own
  <2> QED
    BY <1>4, <2>1, CancelMoves DEF AsksForOwn
<1>5. ASSUME NEW r \in PageReqs, fate[r] = "unsent" PROVE pc'[r] = "new"
  BY <1>5 DEF OnlySent, AsksForOwn
<1> QED
  BY <1>a, <1>1, <1>2, <1>3, <1>4, <1>5 DEF AsksForOwn

\* A dialog is opened for the order the page offers, and sends a request for that.
LEMMA AsksPageStep ==
  ASSUME IInv, PageInv, AsksForOwn, ReleasedOnAnswer, Page, UNCHANGED vars
  PROVE  AsksForOwn' /\ ReleasedOnAnswer'
<1> USE DEF IInv, PageInv, vars, database, locals, CheckoutTypeOK
<1>0. \A o : Own(o)' = Own(o)
  BY DEF Own
<1>1. ASSUME UNCHANGED <<dialog, fate>>, told' = told \/ told'.said # "released"
      PROVE  AsksForOwn' /\ ReleasedOnAnswer'
  BY <1>0, <1>1 DEF AsksForOwn, ReleasedOnAnswer
<1>2. CASE \/ \E e \in Events \cup {None} : Show(e)
           \/ \E s \in Seats : ToggleSeat(s)
           \/ Countdown
           \/ \E e \in Events : PollRead(e)
           \/ \E p \in polls : PollShow(p)
  <2>1. UNCHANGED <<dialog, fate>> /\ (told' = told \/ told'.said # "released")
    BY <1>2 DEF Show, ToggleSeat, Countdown, Says, PollRead, PollShow
  <2> QED
    BY <1>1, <2>1
<1>3. ASSUME NEW op \in {"pay", "cancel"}, Ask(op) PROVE AsksForOwn' /\ ReleasedOnAnswer'
  <2>1. /\ order # None /\ dialog' = [op |-> op, order |-> order] /\ UNCHANGED <<told, fate>>
    BY <1>3 DEF Ask
  <2>2. Own(dialog'.order)
    BY <2>1 DEF Own, Orders
  <2> QED
    BY <1>0, <2>1, <2>2 DEF AsksForOwn, ReleasedOnAnswer
<1>4. CASE Dismiss
  BY <1>0, <1>4 DEF Dismiss, AsksForOwn, ReleasedOnAnswer
<1>5. ASSUME NEW r \in PageReqs, Book(r) \/ ConfirmPay(r) \/ ConfirmCancel(r)
      PROVE  AsksForOwn' /\ ReleasedOnAnswer'
  <2>1. /\ fate[r] = "unsent" /\ fate' = [fate EXCEPT ![r] = "sent"]
        /\ dialog' = dialog \/ dialog' = NoDialog
        /\ told' = told \/ told' = Silent
    BY <1>5 DEF Book, ConfirmPay, ConfirmCancel, Send
  <2>2. call[r].op # "book" => Own(call[r].order)
    <3>1. CASE Book(r)
      BY <3>1 DEF Book, Send
    <3>2. CASE ConfirmPay(r) \/ ConfirmCancel(r)
      <4>1. call[r].order = dialog.order /\ call[r].op \in {"pay", "cancel"}
        BY <3>2 DEF ConfirmPay, ConfirmCancel, Send
      <4>2. dialog # NoDialog
        BY <4>1, CallFields DEF PayCall, CancelCall, NoDialog
      <4> QED
        BY <4>1, <4>2 DEF AsksForOwn
    <3> QED
      BY <1>5, <3>1, <3>2
  <2>3. AsksForOwn'
    BY <1>0, <2>1, <2>2 DEF AsksForOwn
  <2>4. ReleasedOnAnswer'
    BY <2>1 DEF ReleasedOnAnswer, Silent
  <2> QED
    BY <2>3, <2>4
<1>6. ASSUME NEW r \in PageReqs, Receive(r) PROVE AsksForOwn' /\ ReleasedOnAnswer'
  <2>1. /\ fate[r] = "sent" /\ fate' = [fate EXCEPT ![r] = "answered"] /\ UNCHANGED dialog
    BY <1>6 DEF Receive, BookAnswered, PayAnswered, CancelAnswered, Answered
  <2>2. AsksForOwn'
    BY <1>0, <2>1 DEF AsksForOwn
  <2>3. \/ told' = told \/ told'.said # "released"
        \/ call[r].op = "cancel" /\ told'.of = call[r].order
    BY <1>6 DEF Receive, BookAnswered, PayAnswered, CancelAnswered, Says, Silent
  <2>4. ReleasedOnAnswer'
    BY <2>1, <2>3 DEF ReleasedOnAnswer
  <2> QED
    BY <2>2, <2>4
<1>7. ASSUME NEW r \in PageReqs, Lose(r) PROVE AsksForOwn' /\ ReleasedOnAnswer'
  BY <1>0, <1>7 DEF Lose, AsksForOwn, ReleasedOnAnswer
<1> QED
  BY <1>2, <1>3, <1>4, <1>5, <1>6, <1>7 DEF Page

\* "Your order was cancelled and its seats released" (web/app/page.jsx:206 and 409) is false
\* of an unpaid order only when the page has taken an error for the answer; after an answer of
\* cancelOrder itself the order has ended, and may have been PAID in another tab.
THEOREM ReleasedIsOver == CheckoutSpec => []ReleasedAsAnswered
<1>1. CheckoutInit => AsksForOwn /\ ReleasedOnAnswer
  <2> SUFFICES ASSUME CheckoutInit PROVE AsksForOwn /\ ReleasedOnAnswer
    OBVIOUS
  <2>1. /\ dialog = NoDialog /\ told.said = None
        /\ \A r \in PageReqs : pc[r] = "new" /\ fate[r] = "unsent" /\ resp[r] = None
    BY DEF CheckoutInit, Init, PageInit, Silent
  <2>2. None # "order_not_found" /\ None # "released"
    BY DEF Code
  <2> QED
    BY <2>1, <2>2 DEF AsksForOwn, ReleasedOnAnswer
<1>2. IInv /\ PageInv /\ AsksForOwn /\ ReleasedOnAnswer /\ [CheckoutNext]_checkoutVars
        => AsksForOwn' /\ ReleasedOnAnswer'
  <2> SUFFICES ASSUME IInv, PageInv, AsksForOwn, ReleasedOnAnswer,
                      [CheckoutNext]_checkoutVars
               PROVE  AsksForOwn' /\ ReleasedOnAnswer'
    OBVIOUS
  <2>1. CASE UNCHANGED pageVars
    <3>1. AsksForOwn' /\ UNCHANGED call
      BY <2>1, PageOrSale, AsksSaleStep, StoreMoves DEF IInv
    <3> QED
      BY <2>1, <3>1 DEF pageVars, ReleasedOnAnswer
  <2>2. CASE Page /\ UNCHANGED vars
    BY <2>2, AsksPageStep
  <2> QED
    BY <2>1, <2>2, PageOrSale
<1>3. IInv /\ PageInv /\ AsksForOwn /\ ReleasedOnAnswer /\ NotYetTold /\ CancelTold
        => ReleasedAsAnswered
  <2> SUFFICES ASSUME IInv, PageInv, AsksForOwn, ReleasedOnAnswer, NotYetTold, CancelTold,
                      told.said = "released"
               PROVE  ReleasedAsAnswered
    BY DEF ReleasedAsAnswered
  <2>1. PICK r \in PageReqs : /\ fate[r] = "answered" /\ call[r].op = "cancel"
                              /\ call[r].order = told.of
    BY DEF ReleasedOnAnswer
  <2>2. pc[r] \in {"done", "new"} /\ resp[r] # "order_not_found"
    BY <2>1 DEF PageInv, Asks, AsksForOwn
  <2>3. resp[r] \in {"cancelled", "not_cancellable", "db_error", None}
    BY <2>1, <2>2, CheckoutAssumption DEF NotYetTold, CancelTold
  <2> QED
    BY <2>1, <2>3, CheckoutAssumption DEF ReleasedAsAnswered, CancelTold
<1> QED
  BY <1>1, <1>2, <1>3, PageInductive, CheckoutIsBooking, CancelsTold, PTL DEF CheckoutSpec
=============================================================================
