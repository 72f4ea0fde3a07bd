---------------------------- MODULE BookingProofs ----------------------------
(* Theorems of Booking, for every value of its constants. *)
EXTENDS BookingInvariants, TLAPS, FiniteSetTheorems

USE ConstantAssumption

-----------------------------------------------------------------------------
(* Types, and the handler that a request's step belongs to *)

\* An operation tells which fields a call has.
LEMMA CallFields ==
  ASSUME TypeOK, NEW r \in Reqs
  PROVE  /\ call[r].op = "book" => call[r] \in BookCall
         /\ call[r].op = "pay" => call[r] \in PayCall
         /\ call[r].op = "cancel" => call[r] \in CancelCall
         /\ call[r].op \in {"book", "pay", "cancel"}
  BY DEF TypeOK, AnyCall, BookCall, PayCall, CancelCall

\* Every variable starts with its type and every request at its first step.
LEMMA TypeInit == Init => TypeOK /\ StepsMatch
<1> SUFFICES ASSUME Init PROVE TypeOK /\ StepsMatch
  OBVIOUS
<1>1. TypeOK
  BY DEF Init, TypeOK, NoHold, OrderStatus, Label
<1>2. StepsMatch
  BY <1>1, CallFields DEF Init, StepsMatch, StepsOf
<1> QED
  BY <1>1, <1>2

\* Deleting keys leaves each hold as it was or gone.
LEMMA DeleteTyped ==
  ASSUME TypeOK, NEW ks, Delete(ks) \/ UNCHANGED hold
  PROVE  hold' \in [Events \X Seats -> [by : Reqs \cup {None}, ttl : 0..HoldTTL]]
<1>1. NoHold \in [by : Reqs \cup {None}, ttl : 0..HoldTTL]
  BY DEF NoHold
<1> QED
  BY <1>1 DEF TypeOK, Delete, Cleared

\* A step that only moves a request and answers keeps the types.
LEMMA MoveTyped ==
  ASSUME TypeOK, NEW r \in Reqs, NEW label \in Label, NEW code \in Code,
         Goto(r, label) \/ Leave(r, label, code),
         hold' \in [Events \X Seats -> [by : Reqs \cup {None}, ttl : 0..HoldTTL]],
         UNCHANGED <<database, left, locals, claim, lock, todo>>
  PROVE  TypeOK'
<1>t. pc \in [Reqs -> Label] /\ resp \in [Reqs -> Code \cup {None}]
  BY DEF TypeOK
<1>1. pc' \in [Reqs -> Label] /\ resp' \in [Reqs -> Code \cup {None}]
  <2>1. CASE Goto(r, label)
    BY <1>t, <2>1 DEF Goto
  <2>2. CASE Leave(r, label, code)
    BY <1>t, <2>2 DEF Leave
  <2> QED
    BY <2>1, <2>2
<1> QED
  BY <1>1 DEF TypeOK, database, locals

\* Every step keeps the types, and takes a request to a step of its handler.
LEMMA TypeStep == TypeOK /\ StepsMatch /\ [Next]_vars => TypeOK' /\ StepsMatch'
<1> SUFFICES ASSUME TypeOK, StepsMatch, [Next]_vars PROVE TypeOK' /\ StepsMatch'
  OBVIOUS
<1>a. \A r \in Reqs : call[r].op \in {"book", "pay", "cancel"}
  BY CallFields
<1>b. pc \in [Reqs -> Label]
  BY DEF TypeOK
<1>1. ASSUME NEW r \in Reqs, BookGate(r) PROVE TypeOK' /\ StepsMatch'
  <2>1. TypeOK'
    BY <1>1 DEF BookGate, TypeOK, database, locals, Goto, Leave, Answer, Refuse, Label, Code, OrderStatus, Unlocked
  <2>2. StepsMatch'
    BY <1>1, <1>a, <1>b DEF BookGate, StepsMatch, StepsOf, locals, Goto, Leave, Answer, Refuse
  <2> QED BY <2>1, <2>2
<1>2. ASSUME NEW r \in Reqs, GateError(r) PROVE TypeOK' /\ StepsMatch'
  <2>1. TypeOK'
    BY <1>2 DEF GateError, TypeOK, database, locals, Goto, Leave, Answer, Refuse, Label, Code, OrderStatus, Unlocked
  <2>2. StepsMatch'
    BY <1>2, <1>a, <1>b DEF GateError, StepsMatch, StepsOf, locals, Goto, Leave, Answer, Refuse
  <2> QED BY <2>1, <2>2
<1>3. ASSUME NEW r \in Reqs, HoldSeats(r) PROVE TypeOK' /\ StepsMatch'
  <2>1. TypeOK'
    BY <1>3 DEF HoldSeats, TypeOK, database, locals, Goto, Leave, Answer, Refuse, Label, Code, OrderStatus, Unlocked, Held
  <2>2. StepsMatch'
    BY <1>3, <1>a, <1>b DEF HoldSeats, StepsMatch, StepsOf, locals, Goto, Leave, Answer, Refuse
  <2> QED BY <2>1, <2>2
<1>4. ASSUME NEW r \in Reqs, HoldRefused(r) PROVE TypeOK' /\ StepsMatch'
  <2>1. TypeOK'
    BY <1>4 DEF HoldRefused, TypeOK, database, locals, Goto, Leave, Answer, Refuse, Label, Code, OrderStatus, Unlocked
  <2>2. StepsMatch'
    BY <1>4, <1>a, <1>b DEF HoldRefused, StepsMatch, StepsOf, locals, Goto, Leave, Answer, Refuse
  <2> QED BY <2>1, <2>2
<1>5. ASSUME NEW r \in Reqs, HoldFailed(r) PROVE TypeOK' /\ StepsMatch'
  <2>1. TypeOK'
    <3>1. hold' \in [Events \X Seats -> [by : Reqs \cup {None}, ttl : 0..HoldTTL]]
      BY <1>5 DEF HoldFailed, TypeOK, Held
    <3>2. \E code \in Code : Answer(r, code)
      BY <1>5 DEF HoldFailed, Code
    <3>3. pc' \in [Reqs -> Label] /\ resp' \in [Reqs -> Code \cup {None}]
      BY <3>2 DEF TypeOK, Leave, Answer, Label
    <3> QED
      BY <1>5, <3>1, <3>3 DEF HoldFailed, TypeOK, database, locals
  <2>2. StepsMatch'
    BY <1>5, <1>a, <1>b DEF HoldFailed, StepsMatch, StepsOf, locals, Goto, Leave, Answer, Refuse
  <2> QED BY <2>1, <2>2
<1>6. ASSUME NEW r \in Reqs, CheckCap(r) PROVE TypeOK' /\ StepsMatch'
  <2>1. TypeOK'
    <3>1. Goto(r, "begin") \/ Leave(r, "release", "hold_limit_exceeded")
      BY <1>6 DEF CheckCap, Refuse
    <3>2. UNCHANGED hold /\ UNCHANGED <<database, left, locals, claim, lock, todo>>
      BY <1>6 DEF CheckCap
    <3>3. "begin" \in Label /\ "release" \in Label /\ "hold_limit_exceeded" \in Code
      BY DEF Label, Code
    <3> QED
      BY <3>1, <3>2, <3>3, DeleteTyped, MoveTyped
  <2>2. StepsMatch'
    BY <1>6, <1>a, <1>b DEF CheckCap, StepsMatch, StepsOf, locals, Goto, Leave, Answer, Refuse
  <2> QED BY <2>1, <2>2
<1>7. ASSUME NEW r \in Reqs, BeginBooking(r) PROVE TypeOK' /\ StepsMatch'
  <2>1. TypeOK'
    BY <1>7 DEF BeginBooking, TypeOK, database, locals, Goto, Leave, Answer, Refuse, Label, Code, OrderStatus, Unlocked, ExpiresIn, Candidates
  <2>2. StepsMatch'
    BY <1>7, <1>a, <1>b DEF BeginBooking, StepsMatch, StepsOf, locals, Goto, Leave, Answer, Refuse
  <2> QED BY <2>1, <2>2
<1>8. ASSUME NEW r \in Reqs, InsertItem(r) PROVE TypeOK' /\ StepsMatch'
  <2>1. TypeOK'
    BY <1>8 DEF InsertItem, TypeOK, database, locals, Goto, Leave, Answer, Refuse, Label, Code, OrderStatus, Unlocked
  <2>2. StepsMatch'
    BY <1>8, <1>a, <1>b DEF InsertItem, StepsMatch, StepsOf, locals, Goto, Leave, Answer, Refuse
  <2> QED BY <2>1, <2>2
<1>9. ASSUME NEW r \in Reqs, UniqueViolation(r) PROVE TypeOK' /\ StepsMatch'
  <2>1. TypeOK'
    BY <1>9 DEF UniqueViolation, TypeOK, database, locals, Goto, Leave, Answer, Refuse, Label, Code, OrderStatus, Unlocked
  <2>2. StepsMatch'
    BY <1>9, <1>a, <1>b DEF UniqueViolation, StepsMatch, StepsOf, locals, Goto, Leave, Answer, Refuse
  <2> QED BY <2>1, <2>2
<1>10. ASSUME NEW r \in Reqs, DeadlockVictim(r) PROVE TypeOK' /\ StepsMatch'
  <2>1. TypeOK'
    BY <1>10 DEF DeadlockVictim, TypeOK, database, locals, Goto, Leave, Answer, Refuse, Label, Code, OrderStatus, Unlocked
  <2>2. StepsMatch'
    BY <1>10, <1>a, <1>b DEF DeadlockVictim, StepsMatch, StepsOf, locals, Goto, Leave, Answer, Refuse
  <2> QED BY <2>1, <2>2
<1>11. ASSUME NEW r \in Reqs, RowsMismatch(r) PROVE TypeOK' /\ StepsMatch'
  <2>1. TypeOK'
    BY <1>11 DEF RowsMismatch, TypeOK, database, locals, Goto, Leave, Answer, Refuse, Label, Code, OrderStatus, Unlocked
  <2>2. StepsMatch'
    BY <1>11, <1>a, <1>b DEF RowsMismatch, StepsMatch, StepsOf, locals, Goto, Leave, Answer, Refuse
  <2> QED BY <2>1, <2>2
<1>12. ASSUME NEW r \in Reqs, CommitBooking(r) PROVE TypeOK' /\ StepsMatch'
  <2>1. TypeOK'
    <3>1. pc' \in [Reqs -> Label] /\ resp' \in [Reqs -> Code \cup {None}]
      BY <1>12 DEF CommitBooking, TypeOK, Leave, Answer, Refuse, Label, Code
    <3>2. /\ status' \in [Reqs -> OrderStatus]
          /\ items' \in [Reqs -> SUBSET Seats]
          /\ claim' \in [Reqs -> SUBSET Seats]
      BY <1>12 DEF CommitBooking, TypeOK, OrderStatus
    <3> QED
      BY <1>12, <3>1, <3>2 DEF CommitBooking, TypeOK, locals
  <2>2. StepsMatch'
    BY <1>12, <1>a, <1>b DEF CommitBooking, StepsMatch, StepsOf, locals, Goto, Leave, Answer, Refuse
  <2> QED BY <2>1, <2>2
<1>13. ASSUME NEW r \in Reqs, BookingDBError(r) PROVE TypeOK' /\ StepsMatch'
  <2>1. TypeOK'
    BY <1>13 DEF BookingDBError, TypeOK, database, locals, Goto, Leave, Answer, Refuse, Label, Code, OrderStatus, Unlocked
  <2>2. StepsMatch'
    BY <1>13, <1>a, <1>b DEF BookingDBError, StepsMatch, StepsOf, locals, Goto, Leave, Answer, Refuse
  <2> QED BY <2>1, <2>2
<1>14. ASSUME NEW r \in Reqs, ReleaseHolds(r) PROVE TypeOK' /\ StepsMatch'
  <2>1. TypeOK'
    <3>1. \E label \in {"done", "rollback"} : Goto(r, label)
      BY <1>14 DEF ReleaseHolds
    <3>2. UNCHANGED <<database, left, locals, claim, lock, todo>> /\ Delete(HoldKeys(r))
      BY <1>14 DEF ReleaseHolds
    <3> QED
      BY <3>1, <3>2, DeleteTyped, MoveTyped DEF Label, Code
  <2>2. StepsMatch'
    BY <1>14, <1>a, <1>b DEF ReleaseHolds, StepsMatch, StepsOf, locals, Goto, Leave, Answer, Refuse
  <2> QED BY <2>1, <2>2
<1>15. ASSUME NEW r \in Reqs, RollbackBooking(r) PROVE TypeOK' /\ StepsMatch'
  <2>1. TypeOK'
    BY <1>15 DEF RollbackBooking, TypeOK, database, locals, Goto, Leave, Answer, Refuse, Label, Code, OrderStatus, Unlocked, Freed
  <2>2. StepsMatch'
    BY <1>15, <1>a, <1>b DEF RollbackBooking, StepsMatch, StepsOf, locals, Goto, Leave, Answer, Refuse
  <2> QED BY <2>1, <2>2
<1>16. ASSUME NEW r \in Reqs, PayLookup(r) PROVE TypeOK' /\ StepsMatch'
  <2>1. TypeOK'
    <3>1. Goto(r, "lock") \/ Leave(r, "done", "replayed")
      BY <1>16 DEF PayLookup, Answer
    <3>2. UNCHANGED hold /\ UNCHANGED <<database, left, locals, claim, lock, todo>>
      BY <1>16 DEF PayLookup
    <3>3. "lock" \in Label /\ "done" \in Label /\ "replayed" \in Code
      BY DEF Label, Code
    <3> QED
      BY <3>1, <3>2, <3>3, DeleteTyped, MoveTyped
  <2>2. StepsMatch'
    <3>1. pc' = [pc EXCEPT ![r] = "done"] \/ pc' = [pc EXCEPT ![r] = "lock"]
      BY <1>16 DEF PayLookup, Goto, Leave, Answer
    <3>2. UNCHANGED call /\ call[r].op = "pay"
      BY <1>16 DEF PayLookup, locals
    <3>3. {"done", "lock"} \subseteq StepsOf(call[r].op)
      BY <3>2 DEF StepsOf
    <3>4. \A q \in Reqs : pc'[q] = pc[q] \/ (q = r /\ pc'[q] \in {"done", "lock"})
      BY <1>b, <3>1
    <3> QED
      BY <3>2, <3>3, <3>4 DEF StepsMatch
  <2> QED BY <2>1, <2>2
<1>17. ASSUME NEW r \in Reqs, OrderNotFound(r) PROVE TypeOK' /\ StepsMatch'
  <2>1. TypeOK'
    BY <1>17 DEF OrderNotFound, TypeOK, database, locals, Goto, Leave, Answer, Refuse, Label, Code, OrderStatus, Unlocked
  <2>2. StepsMatch'
    BY <1>17, <1>a, <1>b DEF OrderNotFound, StepsMatch, StepsOf, locals, Goto, Leave, Answer, Refuse
  <2> QED BY <2>1, <2>2
<1>18. ASSUME NEW r \in Reqs, PayLockOrder(r) PROVE TypeOK' /\ StepsMatch'
  <2>1. TypeOK'
    <3>1. lock' \in [Reqs -> Reqs \cup Workers \cup {None}]
      BY <1>18 DEF PayLockOrder, TypeOK
    <3>2. pc' \in [Reqs -> Label] /\ resp' \in [Reqs -> Code \cup {None}]
      BY <1>18 DEF PayLockOrder, TypeOK, Goto, Leave, Answer, Label, Code
    <3> QED
      BY <1>18, <3>1, <3>2 DEF PayLockOrder, TypeOK, database, locals
  <2>2. StepsMatch'
    BY <1>18, <1>a, <1>b DEF PayLockOrder, StepsMatch, StepsOf, locals, Goto, Leave, Answer, Refuse
  <2> QED BY <2>1, <2>2
<1>19. ASSUME NEW r \in Reqs, PayConfirm(r) PROVE TypeOK' /\ StepsMatch'
  <2>0. call[r] \in PayCall
    BY <1>19, <1>a, CallFields DEF PayConfirm, StepsMatch, StepsOf
  <2>1. TypeOK'
    <3>1. lock' \in [Reqs -> Reqs \cup Workers \cup {None}]
      BY <1>19 DEF PayConfirm, TypeOK, Unlocked
    <3>2. pc' \in [Reqs -> Label] /\ resp' \in [Reqs -> Code \cup {None}]
      BY <1>19 DEF PayConfirm, TypeOK, Leave, Answer, Label, Code
    <3>3. payments' \subseteq [order : Reqs, key : Keys, seats : SUBSET Seats]
      BY <1>19, <2>0 DEF PayConfirm, PayCall, TypeOK
    <3>4. seat' \in [Seats -> {"AVAILABLE", "SOLD"}] /\ status' \in [Reqs -> OrderStatus]
      BY <1>19 DEF PayConfirm, TypeOK, OrderStatus
    <3> QED
      BY <1>19, <3>1, <3>2, <3>3, <3>4 DEF PayConfirm, TypeOK, locals
  <2>2. StepsMatch'
    BY <1>19, <1>a, <1>b DEF PayConfirm, StepsMatch, StepsOf, locals, Goto, Leave, Answer, Refuse
  <2> QED BY <2>1, <2>2
<1>20. ASSUME NEW r \in Reqs, PayRefused(r) PROVE TypeOK' /\ StepsMatch'
  <2>1. TypeOK'
    BY <1>20 DEF PayRefused, TypeOK, database, locals, Goto, Leave, Answer, Refuse, Label, Code, OrderStatus, Unlocked
  <2>2. StepsMatch'
    BY <1>20, <1>a, <1>b DEF PayRefused, StepsMatch, StepsOf, locals, Goto, Leave, Answer, Refuse
  <2> QED BY <2>1, <2>2
<1>21. ASSUME NEW r \in Reqs, PayClearHolds(r) PROVE TypeOK' /\ StepsMatch'
  <2>1. TypeOK'
    <3>1. /\ Delete(KeysOf(items[call[r].order])) \/ UNCHANGED hold
          /\ Goto(r, "done") /\ UNCHANGED <<database, left, locals, claim, lock, todo>>
      BY <1>21 DEF PayClearHolds
    <3> QED
      BY <3>1, DeleteTyped, MoveTyped DEF Label, Code
  <2>2. StepsMatch'
    BY <1>21, <1>a, <1>b DEF PayClearHolds, StepsMatch, StepsOf, locals, Goto, Leave, Answer, Refuse
  <2> QED BY <2>1, <2>2
<1>22. ASSUME NEW r \in Reqs, CancelLockOrder(r) PROVE TypeOK' /\ StepsMatch'
  <2>1. TypeOK'
    <3>0. call[r].order \in Reqs
      BY <1>22, CallFields DEF CancelLockOrder, CancelCall
    <3>1. lock' \in [Reqs -> Reqs \cup Workers \cup {None}]
      BY <1>22 DEF CancelLockOrder, TypeOK
    <3>a. items[call[r].order] \subseteq Seats
      BY <3>0 DEF TypeOK
    <3>b. rows' \in [Reqs -> SUBSET Seats]
      BY <1>22, <3>a DEF CancelLockOrder, TypeOK
    <3>2. pc' \in [Reqs -> Label] /\ resp' \in [Reqs -> Code \cup {None}]
      BY <1>22 DEF CancelLockOrder, TypeOK, Goto, Leave, Answer, Label, Code
    <3> QED
      BY <1>22, <3>1, <3>b, <3>2 DEF CancelLockOrder, TypeOK, database
  <2>2. StepsMatch'
    BY <1>22, <1>a, <1>b DEF CancelLockOrder, StepsMatch, StepsOf, locals, Goto, Leave, Answer, Refuse
  <2> QED BY <2>1, <2>2
<1>23. ASSUME NEW r \in Reqs, CancelCommit(r) PROVE TypeOK' /\ StepsMatch'
  <2>1. TypeOK'
    <3>1. pc' \in [Reqs -> Label] /\ resp' \in [Reqs -> Code \cup {None}]
      BY <1>23 DEF CancelCommit, TypeOK, Leave, Answer, Label, Code
    <3>2. /\ status' \in [Reqs -> OrderStatus]
          /\ items' \in [Reqs -> SUBSET Seats]
          /\ lock' \in [Reqs -> Reqs \cup Workers \cup {None}]
      BY <1>23 DEF CancelCommit, TypeOK, OrderStatus, Unlocked
    <3> QED
      BY <1>23, <3>1, <3>2 DEF CancelCommit, TypeOK, locals
  <2>2. StepsMatch'
    BY <1>23, <1>a, <1>b DEF CancelCommit, StepsMatch, StepsOf, locals, Goto, Leave, Answer, Refuse
  <2> QED BY <2>1, <2>2
<1>24. ASSUME NEW r \in Reqs, CancelClearHolds(r) PROVE TypeOK' /\ StepsMatch'
  <2>1. TypeOK'
    <3>1. /\ Delete(KeysOf(rows[r])) /\ Goto(r, "done")
          /\ UNCHANGED <<database, left, locals, claim, lock, todo>>
      BY <1>24 DEF CancelClearHolds
    <3> QED
      BY <3>1, DeleteTyped, MoveTyped DEF Label, Code
  <2>2. StepsMatch'
    BY <1>24, <1>a, <1>b DEF CancelClearHolds, StepsMatch, StepsOf, locals, Goto, Leave, Answer, Refuse
  <2> QED BY <2>1, <2>2
<1>25. ASSUME NEW r \in Reqs, OrderDBError(r) PROVE TypeOK' /\ StepsMatch'
  <2>1. TypeOK'
    <3>1. lock' \in [Reqs -> Reqs \cup Workers \cup {None}]
      BY <1>25 DEF OrderDBError, TypeOK, Unlocked
    <3>2. \E code \in Code : Answer(r, code)
      BY <1>25 DEF OrderDBError, Code
    <3>3. pc' \in [Reqs -> Label] /\ resp' \in [Reqs -> Code \cup {None}]
      BY <3>2 DEF TypeOK, Leave, Answer, Label
    <3> QED
      BY <1>25, <3>1, <3>3 DEF OrderDBError, TypeOK, database, locals
  <2>2. StepsMatch'
    BY <1>25, <1>a, <1>b DEF OrderDBError, StepsMatch, StepsOf, locals, Goto, Leave, Answer, Refuse
  <2> QED BY <2>1, <2>2
<1>26. ASSUME NEW r \in Reqs, Crash(r) PROVE TypeOK' /\ StepsMatch'
  <2>1. TypeOK'
    BY <1>26 DEF Crash, TypeOK, database, locals, Goto, Leave, Answer, Refuse, Label, Code, OrderStatus, Unlocked
  <2>2. StepsMatch'
    BY <1>26, <1>a, <1>b DEF Crash, StepsMatch, StepsOf, locals, Goto, Leave, Answer, Refuse
  <2> QED BY <2>1, <2>2
<1>27. ASSUME NEW w \in Workers, ExpireScan(w) PROVE TypeOK' /\ StepsMatch'
  BY <1>27 DEF ExpireScan, Unlocked, OrderStatus, TypeOK, StepsMatch, StepsOf, database, locals
<1>28. ASSUME NEW w \in Workers, ExpireLock(w) PROVE TypeOK' /\ StepsMatch'
  <2>1. lock' \in [Reqs -> Reqs \cup Workers \cup {None}] /\ todo' \in [Workers -> SUBSET Reqs]
    BY <1>28 DEF ExpireLock, TypeOK
  <2> QED
    BY <1>28, <2>1 DEF ExpireLock, TypeOK, StepsMatch, StepsOf, database, locals
<1>29. ASSUME NEW w \in Workers, ExpireCommit(w) PROVE TypeOK' /\ StepsMatch'
  BY <1>29 DEF ExpireCommit, Unlocked, OrderStatus, TypeOK, StepsMatch, StepsOf, database, locals
<1>30. ASSUME NEW w \in Workers, ExpireFail(w) PROVE TypeOK' /\ StepsMatch'
  BY <1>30 DEF ExpireFail, Unlocked, OrderStatus, TypeOK, StepsMatch, StepsOf, database, locals
<1>31. CASE Tick
  <2>1. hold' \in [Events \X Seats -> [by : Reqs \cup {None}, ttl : 0..HoldTTL]]
    <3>1. \A h \in [by : Reqs \cup {None}, ttl : 0..HoldTTL] :
            Aged(h) \in [by : Reqs \cup {None}, ttl : 0..HoldTTL]
      BY DEF Aged, NoHold
    <3> QED
      BY <1>31, <3>1 DEF Tick, TypeOK
  <2>2. left' \in [Reqs -> -1..HoldTTL]
    BY <1>31 DEF Tick, Running, TypeOK
  <2>3. event' \in [Events -> EventRow]
    <3>1. \A e \in Events : event[e].opensIn # 0 =>
            [event[e] EXCEPT !.opensIn = @ - 1] \in EventRow
      <4>1. \A row \in EventRow : row.opensIn # 0 => row.opensIn - 1 \in Nat
        BY DEF EventRow
      <4>2. \A row \in EventRow, n \in Nat : [row EXCEPT !.opensIn = n] \in EventRow
        BY DEF EventRow
      <4> QED
        BY <4>1, <4>2 DEF TypeOK
    <3> QED
      BY <1>31, <3>1 DEF Tick, TypeOK
  <2> QED
    BY <1>31, <2>1, <2>2, <2>3 DEF Tick, TypeOK, StepsMatch, StepsOf, locals
<1>32. CASE LoseHold
  <2>1. hold' \in [Events \X Seats -> [by : Reqs \cup {None}, ttl : 0..HoldTTL]]
    BY <1>32 DEF LoseHold, TypeOK, Cleared, NoHold
  <2> QED
    BY <1>32, <2>1 DEF LoseHold, TypeOK, StepsMatch, StepsOf, database, locals
<1>33. ASSUME NEW e \in Events, PatchEvent(e) PROVE TypeOK' /\ StepsMatch'
  BY <1>33 DEF PatchEvent, TypeOK, StepsMatch, StepsOf, locals
<1>34. CASE UNCHANGED vars
  BY <1>34 DEF TypeOK, StepsMatch, StepsOf, vars, database, locals
<1> QED
  BY <1>1, <1>2, <1>3, <1>4, <1>5, <1>6, <1>7, <1>8, <1>9, <1>10, <1>11, <1>12, <1>13, <1>14, <1>15, <1>16, <1>17, <1>18, <1>19, <1>20, <1>21, <1>22, <1>23, <1>24, <1>25, <1>26, <1>27, <1>28, <1>29, <1>30, <1>31, <1>32, <1>33, <1>34 DEF Next, Handler, CreateBooking, PayOrder, CancelOrder, Failure, Worker, Quiet

\* Every variable keeps its type, and every request takes only the steps of
\* the handler it called.
THEOREM TypeCorrect == Spec => [](TypeOK /\ StepsMatch)
  BY TypeInit, TypeStep, PTL DEF Spec

-----------------------------------------------------------------------------
(* The row locks *)

\* Who is about to commit a payment or a cancellation names an order.
LEMMA OrderOfHolder ==
  ASSUME TypeOK, StepsMatch, NEW r \in Reqs, pc[r] \notin StepsOf("book")
  PROVE  call[r].order \in Reqs
  BY CallFields DEF StepsMatch, PayCall, CancelCall

\* A step that leaves the locks alone.
LEMMA LocksAlone ==
  ASSUME TypeOK, TypeOK', Locks, UNCHANGED <<lock, call>>,
         \A o \in Reqs : lock[o] # None => status'[o] = status[o] /\ left'[o] <= left[o],
         \A q \in Reqs : pc'[q] \in {"confirm", "cancel"} => pc[q] = pc'[q]
  PROVE  Locks'
<1>1. LockedPending'
  BY DEF Locks, LockedPending
<1>2. ASSUME NEW o \in Reqs, lock'[o] \in Workers PROVE left'[o] < 0
  <2>1. lock[o] # None /\ left[o] < 0
    BY <1>2 DEF Locks, LockedLate
  <2>2. left[o] \in Int /\ left'[o] \in Int /\ left'[o] <= left[o]
    BY <2>1 DEF TypeOK
  <2> QED
    BY <2>1, <2>2
<1>3. LockHeld'
  BY DEF Locks, LockHeld
<1> QED
  BY <1>1, <1>2, <1>3 DEF Locks, LockedLate

\* A step that locks the order o for x.
LEMMA LockTaken ==
  ASSUME TypeOK, StepsMatch, TypeOK', Locks, NEW o \in Reqs, NEW x \in Reqs \cup Workers,
         lock' = [lock EXCEPT ![o] = x], lock[o] = None, status[o] = "PENDING",
         UNCHANGED <<status, left, call>>, x \in Workers => left[o] < 0,
         \A q \in Reqs : pc'[q] \in {"confirm", "cancel"} =>
           pc'[q] = pc[q] \/ (q = x /\ call[q].order = o)
  PROVE  Locks'
<1>1. LockedPending'
  BY DEF Locks, LockedPending, TypeOK
<1>2. LockedLate'
  BY DEF Locks, LockedLate, TypeOK
<1>3. ASSUME NEW q \in Reqs, pc'[q] \in {"confirm", "cancel"}
      PROVE  lock'[call'[q].order] = q
  <2>1. CASE pc'[q] = pc[q]
    <3>1. lock[call[q].order] = q
      BY <1>3, <2>1 DEF Locks, LockHeld
    <3>2. call[q].order \in Reqs
      BY <1>3, <2>1, OrderOfHolder DEF StepsOf
    <3> QED
      BY <3>1, <3>2 DEF TypeOK
  <2>2. CASE q = x /\ call[q].order = o
    BY <2>2 DEF TypeOK
  <2> QED
    BY <1>3, <2>1, <2>2
<1> QED
  BY <1>1, <1>2, <1>3 DEF Locks, LockHeld

\* A step that ends the transaction of x; only orders x has locked change.
LEMMA LocksFreed ==
  ASSUME TypeOK, StepsMatch, TypeOK', Locks, NEW x \in Reqs \cup Workers,
         lock' = Unlocked(x), UNCHANGED <<left, call>>,
         \A o \in Reqs : lock[o] # x => status'[o] = status[o],
         \A q \in Reqs : pc'[q] \in {"confirm", "cancel"} => pc'[q] = pc[q] /\ q # x
  PROVE  Locks'
<1>u. \A o \in Reqs : lock'[o] = IF lock[o] = x THEN None ELSE lock[o]
  BY DEF Unlocked
<1>1. LockedPending'
  BY <1>u DEF Locks, LockedPending
<1>2. LockedLate'
  BY <1>u DEF Locks, LockedLate
<1>3. ASSUME NEW q \in Reqs, pc'[q] \in {"confirm", "cancel"}
      PROVE  lock'[call'[q].order] = q
  <2>1. lock[call[q].order] = q
    BY <1>3 DEF Locks, LockHeld
  <2>2. call[q].order \in Reqs
    BY <1>3, OrderOfHolder DEF StepsOf
  <2> QED
    BY <1>3, <1>u, <2>1, <2>2
<1> QED
  BY <1>1, <1>2, <1>3 DEF Locks, LockHeld

\* Whoever is about to commit keeps its lock: only the holder changes a locked
\* order, and only a PENDING order, for a worker an overdue one, is ever locked.
LEMMA LocksStep ==
  ASSUME TypeOK, StepsMatch, TypeOK', Born, Locks, [Next]_vars PROVE Locks'
<1> USE DEF database, locals
<1>1. ASSUME NEW r \in Reqs, BookGate(r) PROVE Locks'
  BY <1>1, LocksAlone DEF BookGate, Goto, Leave, Answer, Refuse, TypeOK
<1>2. ASSUME NEW r \in Reqs, GateError(r) PROVE Locks'
  BY <1>2, LocksAlone DEF GateError, Goto, Leave, Answer, Refuse, TypeOK
<1>3. ASSUME NEW r \in Reqs, HoldSeats(r) PROVE Locks'
  BY <1>3, LocksAlone DEF HoldSeats, Goto, Leave, Answer, Refuse, TypeOK
<1>4. ASSUME NEW r \in Reqs, HoldRefused(r) PROVE Locks'
  BY <1>4, LocksAlone DEF HoldRefused, Goto, Leave, Answer, Refuse, TypeOK
<1>5. ASSUME NEW r \in Reqs, HoldFailed(r) PROVE Locks'
  BY <1>5, LocksAlone DEF HoldFailed, Goto, Leave, Answer, Refuse, TypeOK
<1>6. ASSUME NEW r \in Reqs, CheckCap(r) PROVE Locks'
  <2>1. UNCHANGED <<lock, call, status, left>>
    BY <1>6 DEF CheckCap
  <2>2. \E label \in {"begin", "release"} : pc' = [pc EXCEPT ![r] = label]
    BY <1>6 DEF CheckCap, Goto, Leave, Refuse
  <2>3. \A q \in Reqs : pc'[q] \in {"confirm", "cancel"} => pc[q] = pc'[q]
    BY <2>2 DEF TypeOK
  <2>4. \A o \in Reqs : status'[o] = status[o] /\ left'[o] <= left[o]
    BY <2>1 DEF TypeOK
  <2> QED
    BY <2>1, <2>3, <2>4, LocksAlone
<1>7. ASSUME NEW r \in Reqs, BeginBooking(r) PROVE Locks'
  <2>1. UNCHANGED <<lock, call, status>> /\ pc[r] = "begin" /\ left' = [left EXCEPT ![r] = ExpiresIn]
    BY <1>7 DEF BeginBooking
  <2>2. \A q \in Reqs : pc'[q] \in {"confirm", "cancel"} => pc[q] = pc'[q]
    BY <1>7 DEF BeginBooking, Goto, TypeOK
  <2>3. lock[r] = None
    BY <2>1 DEF Born, Locks, LockedPending
  <2>4. \A o \in Reqs : lock[o] # None => status'[o] = status[o] /\ left'[o] <= left[o]
    BY <2>1, <2>3 DEF TypeOK
  <2> QED
    BY <2>1, <2>2, <2>4, LocksAlone
<1>8. ASSUME NEW r \in Reqs, InsertItem(r) PROVE Locks'
  BY <1>8, LocksAlone DEF InsertItem, Goto, Leave, Answer, Refuse, TypeOK
<1>9. ASSUME NEW r \in Reqs, UniqueViolation(r) PROVE Locks'
  BY <1>9, LocksAlone DEF UniqueViolation, Goto, Leave, Answer, Refuse, TypeOK
<1>10. ASSUME NEW r \in Reqs, DeadlockVictim(r) PROVE Locks'
  BY <1>10, LocksAlone DEF DeadlockVictim, Goto, Leave, Answer, Refuse, TypeOK
<1>11. ASSUME NEW r \in Reqs, RowsMismatch(r) PROVE Locks'
  BY <1>11, LocksAlone DEF RowsMismatch, Goto, Leave, Answer, Refuse, TypeOK
<1>12. ASSUME NEW r \in Reqs, CommitBooking(r) PROVE Locks'
  BY <1>12, LocksAlone DEF CommitBooking, Goto, Leave, Answer, Refuse, TypeOK, Born, Locks, LockedPending
<1>13. ASSUME NEW r \in Reqs, BookingDBError(r) PROVE Locks'
  BY <1>13, LocksAlone DEF BookingDBError, Goto, Leave, Answer, Refuse, TypeOK
<1>14. ASSUME NEW r \in Reqs, ReleaseHolds(r) PROVE Locks'
  BY <1>14, LocksAlone DEF ReleaseHolds, Goto, Leave, Answer, Refuse, TypeOK
<1>15. ASSUME NEW r \in Reqs, RollbackBooking(r) PROVE Locks'
  BY <1>15, LocksAlone DEF RollbackBooking, Goto, Leave, Answer, Refuse, TypeOK
<1>16. ASSUME NEW r \in Reqs, PayLookup(r) PROVE Locks'
  BY <1>16, LocksAlone DEF PayLookup, Goto, Leave, Answer, Refuse, TypeOK
<1>17. ASSUME NEW r \in Reqs, OrderNotFound(r) PROVE Locks'
  BY <1>17, LocksAlone DEF OrderNotFound, Goto, Leave, Answer, Refuse, TypeOK
<1>18. ASSUME NEW r \in Reqs, PayLockOrder(r) PROVE Locks'
  <2>0. call[r].order \in Reqs
    BY <1>18, CallFields, OrderOfHolder DEF PayLockOrder, StepsOf, CancelCall
  <2>1. CASE UNCHANGED lock
    <3>1. pc' = [pc EXCEPT ![r] = "done"]
      BY <1>18, <2>1, <2>0 DEF PayLockOrder, RowFree, Answer, Leave, TypeOK
    <3> QED
      BY <1>18, <2>1, <3>1, LocksAlone DEF PayLockOrder, TypeOK
  <2>2. CASE Payable(call[r].order) /\ lock' = [lock EXCEPT ![call[r].order] = r] /\ Goto(r, "confirm")
    <3>1. /\ lock[call[r].order] = None /\ status[call[r].order] = "PENDING"
          /\ UNCHANGED <<status, left, call>> /\ r \notin Workers
      BY <1>18, <2>2 DEF PayLockOrder, RowFree, Payable
    <3>2. \A q \in Reqs : pc'[q] = pc[q] \/ q = r
      BY <2>2 DEF Goto, TypeOK
    <3>3. \A q \in Reqs : pc'[q] \in {"confirm", "cancel"} =>
            pc'[q] = pc[q] \/ (q = r /\ call[q].order = call[r].order)
      BY <3>2
    <3>4. r \in Reqs \cup Workers /\ (r \in Workers => left[call[r].order] < 0)
      BY <3>1
    <3> QED
      BY <2>0, <2>2, <3>1, <3>3, <3>4, LockTaken
  <2> QED
    BY <1>18, <2>1, <2>2 DEF PayLockOrder
<1>19. ASSUME NEW r \in Reqs, PayConfirm(r) PROVE Locks'
  <2>1. lock[call[r].order] = r /\ call[r].order \in Reqs
    BY <1>19, OrderOfHolder DEF PayConfirm, StepsOf, Locks, LockHeld
  <2>2. /\ lock' = Unlocked(r) /\ UNCHANGED <<left, call>>
        /\ status' = [status EXCEPT ![call[r].order] = "PAID"]
        /\ \A q \in Reqs : pc'[q] = pc[q] \/ (q = r /\ pc'[q] \in {"clear", "done"})
    BY <1>19 DEF PayConfirm, Leave, Answer, TypeOK
  <2>3. \A q \in Reqs : pc'[q] \in {"confirm", "cancel"} => pc'[q] = pc[q] /\ q # r
    BY <1>19, <2>2 DEF PayConfirm, Leave, Answer, TypeOK
  <2>4. \A o \in Reqs : lock[o] # r => status'[o] = status[o]
    BY <2>1, <2>2 DEF TypeOK
  <2> QED
    BY <2>2, <2>3, <2>4, LocksFreed
<1>20. ASSUME NEW r \in Reqs, PayRefused(r) PROVE Locks'
  BY <1>20, LocksFreed DEF PayRefused, Goto, Leave, Answer, Refuse, TypeOK
<1>21. ASSUME NEW r \in Reqs, PayClearHolds(r) PROVE Locks'
  BY <1>21, LocksAlone DEF PayClearHolds, Goto, Leave, Answer, Refuse, TypeOK
<1>22. ASSUME NEW r \in Reqs, CancelLockOrder(r) PROVE Locks'
  <2>0. call[r].order \in Reqs
    BY <1>22, CallFields, OrderOfHolder DEF CancelLockOrder, StepsOf, CancelCall
  <2>1. CASE UNCHANGED lock
    <3>1. pc' = [pc EXCEPT ![r] = "done"]
      BY <1>22, <2>1, <2>0 DEF CancelLockOrder, RowFree, Answer, Leave, TypeOK
    <3> QED
      BY <1>22, <2>1, <3>1, LocksAlone DEF CancelLockOrder, TypeOK
  <2>2. CASE Cancellable(call[r].order) /\ lock' = [lock EXCEPT ![call[r].order] = r] /\ Goto(r, "cancel")
    <3>1. /\ lock[call[r].order] = None /\ status[call[r].order] = "PENDING"
          /\ UNCHANGED <<status, left, call>> /\ r \notin Workers
      BY <1>22, <2>2 DEF CancelLockOrder, RowFree, Cancellable
    <3>2. \A q \in Reqs : pc'[q] = pc[q] \/ q = r
      BY <2>2 DEF Goto, TypeOK
    <3>3. \A q \in Reqs : pc'[q] \in {"confirm", "cancel"} =>
            pc'[q] = pc[q] \/ (q = r /\ call[q].order = call[r].order)
      BY <3>2
    <3>4. r \in Reqs \cup Workers /\ (r \in Workers => left[call[r].order] < 0)
      BY <3>1
    <3> QED
      BY <2>0, <2>2, <3>1, <3>3, <3>4, LockTaken
  <2> QED
    BY <1>22, <2>1, <2>2 DEF CancelLockOrder
<1>23. ASSUME NEW r \in Reqs, CancelCommit(r) PROVE Locks'
  <2>1. lock[call[r].order] = r /\ call[r].order \in Reqs
    BY <1>23, OrderOfHolder DEF CancelCommit, StepsOf, Locks, LockHeld
  <2>2. /\ UNCHANGED <<left, call>> /\ lock' = Unlocked(r)
        /\ status' = [status EXCEPT ![call[r].order] = "CANCELLED"]
    BY <1>23 DEF CancelCommit
  <2>3. \A q \in Reqs : pc'[q] \in {"confirm", "cancel"} => pc'[q] = pc[q] /\ q # r
    BY <1>23 DEF CancelCommit, Answer, Leave, TypeOK
  <2>4. \A o \in Reqs : lock[o] # r => status'[o] = status[o]
    BY <2>1, <2>2 DEF TypeOK
  <2> QED
    BY <2>2, <2>3, <2>4, LocksFreed
<1>24. ASSUME NEW r \in Reqs, CancelClearHolds(r) PROVE Locks'
  BY <1>24, LocksAlone DEF CancelClearHolds, Goto, Leave, Answer, Refuse, TypeOK
<1>25. ASSUME NEW r \in Reqs, OrderDBError(r) PROVE Locks'
  <2>1. \A q \in Reqs : pc'[q] \in {"confirm", "cancel"} => pc'[q] = pc[q] /\ q # r
    <3>1. \E code \in Code : Answer(r, code)
      BY <1>25 DEF OrderDBError, Code
    <3> QED
      BY <3>1 DEF Answer, Leave, TypeOK
  <2> QED
    BY <1>25, <2>1, LocksFreed DEF OrderDBError
<1>26. ASSUME NEW r \in Reqs, Crash(r) PROVE Locks'
  BY <1>26, LocksFreed DEF Crash, Goto, Leave, Answer, Refuse, TypeOK
<1>27. ASSUME NEW w \in Workers, ExpireScan(w) PROVE Locks'
  BY <1>27, LocksAlone DEF ExpireScan, Goto, Leave, Answer, Refuse, TypeOK
<1>28. ASSUME NEW w \in Workers, ExpireLock(w) PROVE Locks'
  <2>1. PICK o \in todo[w] : /\ RowFree(o)
                               /\ lock' = IF StillOverdue(o) THEN [lock EXCEPT ![o] = w] ELSE lock
    BY <1>28 DEF ExpireLock
  <2>2. o \in Reqs
    BY DEF TypeOK
  <2>3. CASE StillOverdue(o)
    BY <1>28, <2>1, <2>2, <2>3, LockTaken DEF ExpireLock, RowFree, StillOverdue, Overdue
  <2>4. CASE ~StillOverdue(o)
    BY <1>28, <2>1, <2>4, LocksAlone DEF ExpireLock, TypeOK
  <2> QED
    BY <2>3, <2>4
<1>29. ASSUME NEW w \in Workers, ExpireCommit(w) PROVE Locks'
  BY <1>29, LocksFreed DEF ExpireCommit, Expiring, StepsMatch, StepsOf
<1>30. ASSUME NEW w \in Workers, ExpireFail(w) PROVE Locks'
  BY <1>30, LocksFreed DEF ExpireFail
<1>31. CASE Tick
  BY <1>31, LocksAlone DEF Tick, Running, TypeOK
<1>32. CASE LoseHold
  <2>1. UNCHANGED <<status, left, lock, call, pc>>
    BY <1>32 DEF LoseHold
  <2> QED
    BY <2>1, LocksAlone DEF TypeOK
<1>33. ASSUME NEW e \in Events, PatchEvent(e) PROVE Locks'
  BY <1>33, LocksAlone DEF PatchEvent, TypeOK
<1>34. CASE UNCHANGED vars
  BY <1>34, LocksAlone DEF vars, TypeOK
<1> QED
  BY <1>1, <1>2, <1>3, <1>4, <1>5, <1>6, <1>7, <1>8, <1>9, <1>10, <1>11, <1>12, <1>13, <1>14, <1>15, <1>16, <1>17, <1>18, <1>19, <1>20, <1>21, <1>22, <1>23, <1>24, <1>25, <1>26, <1>27, <1>28, <1>29, <1>30, <1>31, <1>32, <1>33, <1>34 DEF Next, Handler, CreateBooking, PayOrder, CancelOrder, Failure, Worker, Quiet

-----------------------------------------------------------------------------
(* How far a request is, and what it has *)

\* Every step leaves a request with what its stage allows it to have.
LEMMA StagesStep ==
  ASSUME TypeOK, StepsMatch, TypeOK', Stages, Locks, [Next]_vars PROVE Stages'
<1> USE DEF Stages, TypeOK, database, locals
<1>1. ASSUME NEW r \in Reqs, BookGate(r) PROVE Stages'
  <2>1. Born' /\ Dropped' /\ SeedStaysSold'
    BY <1>1 DEF BookGate, Born, Dropped, SeedStaysSold, Goto, Leave, Answer, Refuse
  <2>2. Claims'
    BY <1>1 DEF BookGate, Claims, Goto, Leave, Answer, Refuse
  <2> QED
    BY <2>1, <2>2
<1>2. ASSUME NEW r \in Reqs, GateError(r) PROVE Stages'
  <2>1. Born' /\ Dropped' /\ SeedStaysSold'
    BY <1>2 DEF GateError, Born, Dropped, SeedStaysSold, Goto, Leave, Answer, Refuse
  <2>2. Claims'
    BY <1>2 DEF GateError, Claims, Goto, Leave, Answer, Refuse
  <2> QED
    BY <2>1, <2>2
<1>3. ASSUME NEW r \in Reqs, HoldSeats(r) PROVE Stages'
  <2>1. Born' /\ Dropped' /\ SeedStaysSold'
    BY <1>3 DEF HoldSeats, Born, Dropped, SeedStaysSold, Goto, Leave, Answer, Refuse
  <2>2. Claims'
    BY <1>3 DEF HoldSeats, Claims, Goto, Leave, Answer, Refuse
  <2> QED
    BY <2>1, <2>2
<1>4. ASSUME NEW r \in Reqs, HoldRefused(r) PROVE Stages'
  <2>1. Born' /\ Dropped' /\ SeedStaysSold'
    BY <1>4 DEF HoldRefused, Born, Dropped, SeedStaysSold, Goto, Leave, Answer, Refuse
  <2>2. Claims'
    BY <1>4 DEF HoldRefused, Claims, Goto, Leave, Answer, Refuse
  <2> QED
    BY <2>1, <2>2
<1>5. ASSUME NEW r \in Reqs, HoldFailed(r) PROVE Stages'
  <2>1. Born' /\ Dropped' /\ SeedStaysSold'
    BY <1>5 DEF HoldFailed, Born, Dropped, SeedStaysSold, Goto, Leave, Answer, Refuse
  <2>2. Claims'
    BY <1>5 DEF HoldFailed, Claims, Goto, Leave, Answer, Refuse
  <2> QED
    BY <2>1, <2>2
<1>6. ASSUME NEW r \in Reqs, CheckCap(r) PROVE Stages'
  <2>0. \E label \in {"begin", "release"} : pc' = [pc EXCEPT ![r] = label]
    BY <1>6 DEF CheckCap, Goto, Leave, Refuse
  <2>1. Born' /\ Dropped' /\ SeedStaysSold'
    BY <1>6, <2>0 DEF CheckCap, Born, Dropped, SeedStaysSold
  <2>2. Claims'
    BY <1>6 DEF CheckCap, Claims, Goto, Leave, Answer, Refuse
  <2> QED
    BY <2>1, <2>2
<1>7. ASSUME NEW r \in Reqs, BeginBooking(r) PROVE Stages'
  <2>1. Born' /\ Dropped' /\ SeedStaysSold'
    BY <1>7 DEF BeginBooking, Born, Dropped, SeedStaysSold, Goto, Leave, Answer, Refuse
  <2>2. Claims'
    <3>1. Candidates(r) \subseteq call[r].seats /\ Candidates(r) \cap SeedSold = {}
      BY DEF Candidates, SeedStaysSold
    <3>2. claim[r] = {}
      BY <1>7 DEF BeginBooking, Claims
    <3>3. \A q \in Reqs : q # r => rows'[q] = rows[q] /\ pc'[q] = pc[q]
      BY <1>7 DEF BeginBooking, Goto
    <3>4. rows'[r] = Candidates(r) /\ UNCHANGED <<claim, call>> /\ pc'[r] = "items"
      BY <1>7 DEF BeginBooking, Goto
    <3>5. ASSUME NEW q \in Reqs
          PROVE  /\ claim'[q] # {} => pc'[q] \in {"items", "release", "rollback"}
                 /\ pc'[q] = "items" => /\ claim'[q] \subseteq rows'[q]
                                        /\ rows'[q] \subseteq call'[q].seats
                                        /\ rows'[q] \cap SeedSold = {}
      <4>1. CASE q = r
        BY <3>1, <3>2, <3>4, <4>1
      <4>2. CASE q # r
        BY <3>3, <3>4, <4>2 DEF Claims
      <4> QED
        BY <4>1, <4>2
    <3> QED
      BY <3>5 DEF Claims
  <2> QED
    BY <2>1, <2>2
<1>8. ASSUME NEW r \in Reqs, InsertItem(r) PROVE Stages'
  <2>1. Born' /\ Dropped' /\ SeedStaysSold'
    BY <1>8 DEF InsertItem, Born, Dropped, SeedStaysSold, Goto, Leave, Answer, Refuse
  <2>2. Claims'
    BY <1>8 DEF InsertItem, Claims, Goto, Leave, Answer, Refuse
  <2> QED
    BY <2>1, <2>2
<1>9. ASSUME NEW r \in Reqs, UniqueViolation(r) PROVE Stages'
  <2>1. Born' /\ Dropped' /\ SeedStaysSold'
    BY <1>9 DEF UniqueViolation, Born, Dropped, SeedStaysSold, Goto, Leave, Answer, Refuse
  <2>2. Claims'
    BY <1>9 DEF UniqueViolation, Claims, Goto, Leave, Answer, Refuse
  <2> QED
    BY <2>1, <2>2
<1>10. ASSUME NEW r \in Reqs, DeadlockVictim(r) PROVE Stages'
  <2>1. Born' /\ Dropped' /\ SeedStaysSold'
    BY <1>10 DEF DeadlockVictim, Born, Dropped, SeedStaysSold, Goto, Leave, Answer, Refuse
  <2>2. Claims'
    BY <1>10 DEF DeadlockVictim, Claims, Goto, Leave, Answer, Refuse
  <2> QED
    BY <2>1, <2>2
<1>11. ASSUME NEW r \in Reqs, RowsMismatch(r) PROVE Stages'
  <2>1. Born' /\ Dropped' /\ SeedStaysSold'
    BY <1>11 DEF RowsMismatch, Born, Dropped, SeedStaysSold, Goto, Leave, Answer, Refuse
  <2>2. Claims'
    BY <1>11 DEF RowsMismatch, Claims, Goto, Leave, Answer, Refuse
  <2> QED
    BY <2>1, <2>2
<1>12. ASSUME NEW r \in Reqs, CommitBooking(r) PROVE Stages'
  <2>0. /\ call[r].op = "book"
        /\ \E label \in {"done", "release"} : pc' = [pc EXCEPT ![r] = label]
    <3>1. pc[r] = "items"
      BY <1>12 DEF CommitBooking
    <3> QED
      BY <1>12, <3>1, CallFields DEF CommitBooking, Leave, Answer, Refuse, StepsMatch, StepsOf
  <2>1. Born' /\ Dropped' /\ SeedStaysSold'
    BY <1>12, <2>0 DEF CommitBooking, Born, Dropped, SeedStaysSold
  <2>2. Claims'
    BY <1>12 DEF CommitBooking, Claims, Goto, Leave, Answer, Refuse
  <2> QED
    BY <2>1, <2>2
<1>13. ASSUME NEW r \in Reqs, BookingDBError(r) PROVE Stages'
  <2>1. Born' /\ Dropped' /\ SeedStaysSold'
    BY <1>13 DEF BookingDBError, Born, Dropped, SeedStaysSold, Goto, Leave, Answer, Refuse
  <2>2. Claims'
    BY <1>13 DEF BookingDBError, Claims, Goto, Leave, Answer, Refuse
  <2> QED
    BY <2>1, <2>2
<1>14. ASSUME NEW r \in Reqs, ReleaseHolds(r) PROVE Stages'
  <2>1. Born' /\ Dropped' /\ SeedStaysSold'
    BY <1>14 DEF ReleaseHolds, Born, Dropped, SeedStaysSold, Goto, Leave, Answer, Refuse
  <2>2. Claims'
    BY <1>14 DEF ReleaseHolds, Claims, Goto, Leave, Answer, Refuse
  <2> QED
    BY <2>1, <2>2
<1>15. ASSUME NEW r \in Reqs, RollbackBooking(r) PROVE Stages'
  <2>1. Born' /\ Dropped' /\ SeedStaysSold'
    BY <1>15 DEF RollbackBooking, Born, Dropped, SeedStaysSold, Goto, Leave, Answer, Refuse
  <2>2. Claims'
    BY <1>15 DEF RollbackBooking, Claims, Goto, Leave, Answer, Refuse, Freed
  <2> QED
    BY <2>1, <2>2
<1>16. ASSUME NEW r \in Reqs, PayLookup(r) PROVE Stages'
  <2>0. \E label \in {"done", "lock"} : pc' = [pc EXCEPT ![r] = label]
    BY <1>16 DEF PayLookup, Goto, Leave, Answer
  <2>1. Born' /\ Dropped' /\ SeedStaysSold'
    BY <1>16, <2>0 DEF PayLookup, Born, Dropped, SeedStaysSold
  <2>2. Claims'
    BY <1>16 DEF PayLookup, Claims, Goto, Leave, Answer, Refuse
  <2> QED
    BY <2>1, <2>2
<1>17. ASSUME NEW r \in Reqs, OrderNotFound(r) PROVE Stages'
  <2>1. Born' /\ Dropped' /\ SeedStaysSold'
    BY <1>17 DEF OrderNotFound, Born, Dropped, SeedStaysSold, Goto, Leave, Answer, Refuse
  <2>2. Claims'
    BY <1>17 DEF OrderNotFound, Claims, Goto, Leave, Answer, Refuse
  <2> QED
    BY <2>1, <2>2
<1>18. ASSUME NEW r \in Reqs, PayLockOrder(r) PROVE Stages'
  <2>1. Born' /\ Dropped' /\ SeedStaysSold'
    BY <1>18 DEF PayLockOrder, Born, Dropped, SeedStaysSold, Goto, Leave, Answer, Refuse
  <2>2. Claims'
    BY <1>18 DEF PayLockOrder, Claims, Goto, Leave, Answer, Refuse
  <2> QED
    BY <2>1, <2>2
<1>19. ASSUME NEW r \in Reqs, PayConfirm(r) PROVE Stages'
  <2>0. call[r].order \in Reqs /\ status[call[r].order] = "PENDING"
    BY <1>19, OrderOfHolder DEF PayConfirm, StepsOf, Locks, LockHeld, LockedPending
  <2>1. Born'
    BY <1>19, <2>0 DEF PayConfirm, Born, Goto, Leave, Answer, Refuse
  <2>2. Dropped'
    BY <1>19, <2>0 DEF PayConfirm, Dropped, Goto, Leave, Answer, Refuse
  <2>3. SeedStaysSold'
    BY <1>19, <2>0 DEF PayConfirm, SeedStaysSold, Goto, Leave, Answer, Refuse
  <2>4. Claims'
    BY <1>19, <2>0 DEF PayConfirm, Claims, Goto, Leave, Answer, Refuse
  <2> QED
    BY <2>1, <2>2, <2>3, <2>4
<1>20. ASSUME NEW r \in Reqs, PayRefused(r) PROVE Stages'
  <2>1. Born' /\ Dropped' /\ SeedStaysSold'
    BY <1>20 DEF PayRefused, Born, Dropped, SeedStaysSold, Goto, Leave, Answer, Refuse
  <2>2. Claims'
    BY <1>20 DEF PayRefused, Claims, Goto, Leave, Answer, Refuse
  <2> QED
    BY <2>1, <2>2
<1>21. ASSUME NEW r \in Reqs, PayClearHolds(r) PROVE Stages'
  <2>1. Born' /\ Dropped' /\ SeedStaysSold'
    BY <1>21 DEF PayClearHolds, Born, Dropped, SeedStaysSold, Goto, Leave, Answer, Refuse
  <2>2. Claims'
    BY <1>21 DEF PayClearHolds, Claims, Goto, Leave, Answer, Refuse
  <2> QED
    BY <2>1, <2>2
<1>22. ASSUME NEW r \in Reqs, CancelLockOrder(r) PROVE Stages'
  <2>1. Born' /\ Dropped' /\ SeedStaysSold'
    BY <1>22 DEF CancelLockOrder, Born, Dropped, SeedStaysSold, Goto, Leave, Answer, Refuse
  <2>2. Claims'
    BY <1>22 DEF CancelLockOrder, Claims, Goto, Leave, Answer, Refuse
  <2> QED
    BY <2>1, <2>2
<1>23. ASSUME NEW r \in Reqs, CancelCommit(r) PROVE Stages'
  <2>0. call[r].order \in Reqs /\ status[call[r].order] = "PENDING"
    BY <1>23, OrderOfHolder DEF CancelCommit, StepsOf, Locks, LockHeld, LockedPending
  <2>1. Born'
    BY <1>23, <2>0 DEF CancelCommit, Born, Goto, Leave, Answer, Refuse
  <2>2. Dropped'
    BY <1>23, <2>0 DEF CancelCommit, Dropped, Goto, Leave, Answer, Refuse
  <2>3. SeedStaysSold'
    BY <1>23, <2>0 DEF CancelCommit, SeedStaysSold, Goto, Leave, Answer, Refuse
  <2>4. Claims'
    <3>1. UNCHANGED <<call, rows, claim>> /\ claim[r] = {}
      BY <1>23 DEF CancelCommit, Claims
    <3>2. \A q \in Reqs : pc'[q] = pc[q] \/ (q = r /\ pc'[q] \in {"uncover", "done"})
      BY <1>23 DEF CancelCommit, Leave, Answer
    <3> QED
      BY <3>1, <3>2 DEF Claims
  <2> QED
    BY <2>1, <2>2, <2>3, <2>4
<1>24. ASSUME NEW r \in Reqs, CancelClearHolds(r) PROVE Stages'
  <2>1. Born' /\ Dropped' /\ SeedStaysSold'
    BY <1>24 DEF CancelClearHolds, Born, Dropped, SeedStaysSold, Goto, Leave, Answer, Refuse
  <2>2. Claims'
    BY <1>24 DEF CancelClearHolds, Claims, Goto, Leave, Answer, Refuse
  <2> QED
    BY <2>1, <2>2
<1>25. ASSUME NEW r \in Reqs, OrderDBError(r) PROVE Stages'
  <2>0. pc' = [pc EXCEPT ![r] = "done"]
    BY <1>25 DEF OrderDBError, Answer, Leave
  <2>1. Born' /\ Dropped' /\ SeedStaysSold'
    BY <1>25, <2>0 DEF OrderDBError, Born, Dropped, SeedStaysSold
  <2>2. Claims'
    BY <1>25 DEF OrderDBError, Claims, Goto, Leave, Answer, Refuse
  <2> QED
    BY <2>1, <2>2
<1>26. ASSUME NEW r \in Reqs, Crash(r) PROVE Stages'
  <2>1. Born' /\ Dropped' /\ SeedStaysSold'
    BY <1>26 DEF Crash, Born, Dropped, SeedStaysSold, Goto, Leave, Answer, Refuse
  <2>2. Claims'
    BY <1>26 DEF Crash, Claims, Goto, Leave, Answer, Refuse
  <2> QED
    BY <2>1, <2>2
<1>27. ASSUME NEW w \in Workers, ExpireScan(w) PROVE Stages'
  <2>1. Born' /\ Dropped' /\ SeedStaysSold'
    BY <1>27 DEF ExpireScan, Born, Dropped, SeedStaysSold, Goto, Leave, Answer, Refuse
  <2>2. Claims'
    BY <1>27 DEF ExpireScan, Claims, Goto, Leave, Answer, Refuse
  <2> QED
    BY <2>1, <2>2
<1>28. ASSUME NEW w \in Workers, ExpireLock(w) PROVE Stages'
  <2>1. Born' /\ Dropped' /\ SeedStaysSold'
    BY <1>28 DEF ExpireLock, Born, Dropped, SeedStaysSold, Goto, Leave, Answer, Refuse
  <2>2. Claims'
    BY <1>28 DEF ExpireLock, Claims, Goto, Leave, Answer, Refuse
  <2> QED
    BY <2>1, <2>2
<1>29. ASSUME NEW w \in Workers, ExpireCommit(w) PROVE Stages'
  <2>0. \A o \in Expiring(w) : o \in Reqs /\ status[o] = "PENDING"
    BY DEF Expiring, Locks, LockedPending
  <2>1. Born'
    BY <1>29, <2>0 DEF ExpireCommit, Born, Goto, Leave, Answer, Refuse
  <2>2. Dropped'
    BY <1>29, <2>0 DEF ExpireCommit, Dropped, Goto, Leave, Answer, Refuse
  <2>3. SeedStaysSold'
    BY <1>29, <2>0 DEF ExpireCommit, SeedStaysSold, Goto, Leave, Answer, Refuse
  <2>4. Claims'
    BY <1>29, <2>0 DEF ExpireCommit, Claims, Goto, Leave, Answer, Refuse
  <2> QED
    BY <2>1, <2>2, <2>3, <2>4
<1>30. ASSUME NEW w \in Workers, ExpireFail(w) PROVE Stages'
  <2>1. Born' /\ Dropped' /\ SeedStaysSold'
    BY <1>30 DEF ExpireFail, Born, Dropped, SeedStaysSold, Goto, Leave, Answer, Refuse
  <2>2. Claims'
    BY <1>30 DEF ExpireFail, Claims, Goto, Leave, Answer, Refuse
  <2> QED
    BY <2>1, <2>2
<1>31. CASE Tick
  BY <1>31 DEF Tick, Born, Dropped, SeedStaysSold, Claims
<1>32. CASE LoseHold
  BY <1>32 DEF LoseHold, Born, Dropped, SeedStaysSold, Claims
<1>33. ASSUME NEW e \in Events, PatchEvent(e) PROVE Stages'
  BY <1>33 DEF PatchEvent, Born, Dropped, SeedStaysSold, Claims
<1>34. CASE UNCHANGED vars
  BY <1>34 DEF vars, Born, Dropped, SeedStaysSold, Claims
<1> QED
  BY <1>1, <1>2, <1>3, <1>4, <1>5, <1>6, <1>7, <1>8, <1>9, <1>10, <1>11, <1>12, <1>13, <1>14, <1>15, <1>16, <1>17, <1>18, <1>19, <1>20, <1>21, <1>22, <1>23, <1>24, <1>25, <1>26, <1>27, <1>28, <1>29, <1>30, <1>31, <1>32, <1>33, <1>34 DEF Next, Handler, CreateBooking, PayOrder, CancelOrder, Failure, Worker, Quiet

-----------------------------------------------------------------------------
(* Seats, orders and payments *)

\* What a step can do to the tables: insert a row, commit, or drop claims.
LEMMA StoreMoves ==
  ASSUME TypeOK, [Next]_vars
  PROVE  /\ UNCHANGED call
         /\ \/ UNCHANGED <<seat, status, items, payments, claim>>
            \/ \E r \in Reqs : /\ claim' = [claim EXCEPT ![r] = {}]
                               /\ UNCHANGED <<seat, status, items, payments>>
            \/ \E r \in Reqs : InsertItem(r) \/ CommitBooking(r) \/ PayConfirm(r)
                               \/ CancelCommit(r)
            \/ \E w \in Workers : ExpireCommit(w)
<1> USE DEF database, locals
<1>1. ASSUME NEW r \in Reqs, CreateBooking(r)
      PROVE  /\ UNCHANGED call
             /\ \/ UNCHANGED <<seat, status, items, payments, claim>>
                \/ InsertItem(r) \/ CommitBooking(r)
                \/ /\ claim' = [claim EXCEPT ![r] = {}]
                   /\ UNCHANGED <<seat, status, items, payments>>
  BY <1>1 DEF CreateBooking, BookGate, HoldSeats, HoldRefused, CheckCap, BeginBooking,
              InsertItem, UniqueViolation, DeadlockVictim, RowsMismatch, CommitBooking,
              ReleaseHolds, RollbackBooking, Freed
<1>2. ASSUME NEW r \in Reqs, PayOrder(r) \/ CancelOrder(r) \/ OrderNotFound(r)
      PROVE  /\ UNCHANGED call
             /\ \/ UNCHANGED <<seat, status, items, payments, claim>>
                \/ PayConfirm(r) \/ CancelCommit(r)
  BY <1>2 DEF PayOrder, PayLookup, PayLockOrder, PayConfirm, PayRefused, PayClearHolds,
              CancelOrder, CancelLockOrder, CancelCommit, CancelClearHolds, OrderNotFound
<1>3. ASSUME NEW r \in Reqs, Failure(r) \/ Crash(r)
      PROVE  /\ UNCHANGED <<call, seat, status, items, payments>>
             /\ claim' = claim \/ claim' = [claim EXCEPT ![r] = {}]
  BY <1>3 DEF Failure, GateError, HoldFailed, BookingDBError, OrderDBError, Crash
<1>4. ASSUME NEW w \in Workers, Worker(w) \/ ExpireFail(w)
      PROVE  /\ UNCHANGED call
             /\ UNCHANGED <<seat, status, items, payments, claim>> \/ ExpireCommit(w)
  BY <1>4 DEF Worker, ExpireScan, ExpireLock, ExpireCommit, ExpireFail
<1>5. CASE Tick \/ LoseHold \/ Quiet \/ UNCHANGED vars \/ \E e \in Events : PatchEvent(e)
  BY <1>5 DEF Tick, LoseHold, Quiet, vars, PatchEvent
<1> QED
  BY <1>1, <1>2, <1>3, <1>4, <1>5 DEF Next, Handler

\* The index admits a seat only when no order and no transaction has it; a
\* commit only moves what was inserted.
LEMMA OneOrderStep ==
  ASSUME TypeOK, OneOrderPerSeat, [Next]_vars PROVE OneOrderPerSeat'
<1> USE DEF TypeOK, OneOrderPerSeat
<1>1. CASE UNCHANGED <<seat, status, items, payments, claim>>
  BY <1>1
<1>2. ASSUME NEW r \in Reqs, claim' = [claim EXCEPT ![r] = {}], UNCHANGED items
      PROVE  OneOrderPerSeat'
  BY <1>2
<1>3. ASSUME NEW r \in Reqs, InsertItem(r) PROVE OneOrderPerSeat'
  BY <1>3 DEF InsertItem, IndexAdmits, database
<1>4. ASSUME NEW r \in Reqs, CommitBooking(r) PROVE OneOrderPerSeat'
  BY <1>4 DEF CommitBooking
<1>5. ASSUME NEW r \in Reqs, PayConfirm(r) PROVE OneOrderPerSeat'
  BY <1>5 DEF PayConfirm
<1>6. ASSUME NEW r \in Reqs, CancelCommit(r) PROVE OneOrderPerSeat'
  BY <1>6 DEF CancelCommit
<1>7. ASSUME NEW w \in Workers, ExpireCommit(w) PROVE OneOrderPerSeat'
  BY <1>7 DEF ExpireCommit
<1> QED
  BY <1>1, <1>2, <1>3, <1>4, <1>5, <1>6, <1>7, StoreMoves

\* A booking that is complete has inserted every seat it was asked for.
LEMMA CompleteIsAll ==
  ASSUME TypeOK, StepsMatch, Claims, NEW r \in Reqs, pc[r] = "items",
         claim[r] = rows[r], Complete(r)
  PROVE  /\ claim[r] = call[r].seats /\ Cardinality(claim[r]) = call[r].len
         /\ claim[r] \cap SeedSold = {}
<1>1. call[r] \in BookCall
  BY CallFields DEF StepsMatch, StepsOf
<1>2. IsFiniteSet(call[r].seats)
  BY <1>1, FS_Subset DEF BookCall
<1>3. rows[r] \subseteq call[r].seats /\ rows[r] \cap SeedSold = {}
  BY DEF Claims
<1>4. Cardinality(rows[r]) = call[r].len /\ Cardinality(call[r].seats) <= call[r].len
  BY <1>1 DEF Complete, BookCall
<1>5. Cardinality(rows[r]) \in Nat /\ Cardinality(call[r].seats) \in Nat
      /\ Cardinality(rows[r]) <= Cardinality(call[r].seats)
  BY <1>2, <1>3, FS_Subset, FS_CardinalityType
<1>6. Cardinality(rows[r]) = Cardinality(call[r].seats)
  BY <1>4, <1>5
<1>7. rows[r] = call[r].seats
  BY <1>2, <1>3, <1>6, FS_Subset
<1> QED
  BY <1>3, <1>4, <1>7

\* A commit follows the check of RowsAffected; a payment keeps the items.
LEMMA WholeStep ==
  ASSUME TypeOK, StepsMatch, Stages, Locks, Whole, [Next]_vars PROVE Whole'
<1> USE DEF TypeOK, Whole
<1>1. CASE UNCHANGED <<seat, status, items, payments, claim>>
  BY <1>1, StoreMoves
<1>2. ASSUME NEW r \in Reqs, UNCHANGED <<status, items>> PROVE Whole'
  BY <1>2, StoreMoves
<1>3. ASSUME NEW r \in Reqs, InsertItem(r) PROVE Whole'
  BY <1>3 DEF InsertItem, database, locals
<1>4. ASSUME NEW r \in Reqs, CommitBooking(r) PROVE Whole'
  <2>1. /\ claim[r] = call[r].seats /\ Cardinality(claim[r]) = call[r].len
        /\ claim[r] \cap SeedSold = {}
    BY <1>4, CompleteIsAll DEF CommitBooking, Stages
  <2> QED
    BY <1>4, <2>1 DEF CommitBooking, locals
<1>5. ASSUME NEW r \in Reqs, PayConfirm(r) PROVE Whole'
  <2>1. call[r].order \in Reqs /\ status[call[r].order] = "PENDING"
    BY <1>5, OrderOfHolder DEF PayConfirm, StepsOf, Locks, LockHeld, LockedPending
  <2> QED
    BY <1>5, <2>1 DEF PayConfirm, locals
<1>6. ASSUME NEW r \in Reqs, CancelCommit(r) PROVE Whole'
  BY <1>6 DEF CancelCommit, locals
<1>7. ASSUME NEW w \in Workers, ExpireCommit(w) PROVE Whole'
  BY <1>7 DEF ExpireCommit, locals
<1> QED
  BY <1>1, <1>2, <1>3, <1>4, <1>5, <1>6, <1>7, StoreMoves

\* The order that a payment or a cancellation is about to commit.
LEMMA OrderToCommit ==
  ASSUME TypeOK, StepsMatch, Locks, NEW r \in Reqs, pc[r] \in {"confirm", "cancel"}
  PROVE  call[r].order \in Reqs /\ status[call[r].order] = "PENDING"
  BY OrderOfHolder DEF StepsOf, Locks, LockHeld, LockedPending

\* Seats become SOLD with their order PAID, and only PENDING orders lose items.
LEMMA SoldStep ==
  ASSUME TypeOK, StepsMatch, Stages, Locks, SoldIffPaid, [Next]_vars PROVE SoldIffPaid'
<1> USE DEF TypeOK, SoldIffPaid, Paid
<1>1. CASE UNCHANGED <<seat, status, items>>
  BY <1>1
<1>2. ASSUME NEW r \in Reqs, InsertItem(r) PROVE SoldIffPaid'
  BY <1>2 DEF InsertItem, database
<1>3. ASSUME NEW r \in Reqs, CommitBooking(r) PROVE SoldIffPaid'
  <2>1. status[r] = "NONE"
    BY <1>3 DEF CommitBooking, Stages, Born
  <2> QED
    BY <1>3, <2>1 DEF CommitBooking
<1>4. ASSUME NEW r \in Reqs, PayConfirm(r) PROVE SoldIffPaid'
  <2> DEFINE o == call[r].order
  <2>1. o \in Reqs /\ status[o] = "PENDING"
    BY <1>4, OrderToCommit DEF PayConfirm
  <2>2. /\ seat' = [s \in Seats |-> IF s \in items[o] THEN "SOLD" ELSE seat[s]]
        /\ status' = [status EXCEPT ![o] = "PAID"] /\ UNCHANGED items
    BY <1>4 DEF PayConfirm
  <2>3. Paid' = Paid \cup {o}
    BY <2>1, <2>2
  <2> HIDE DEF o
  <2> QED
    BY <2>1, <2>2, <2>3
<1>5. ASSUME NEW r \in Reqs, CancelCommit(r) PROVE SoldIffPaid'
  <2>1. call[r].order \in Reqs /\ status[call[r].order] = "PENDING"
    BY <1>5, OrderToCommit DEF CancelCommit
  <2> QED
    BY <1>5, <2>1 DEF CancelCommit
<1>6. ASSUME NEW w \in Workers, ExpireCommit(w) PROVE SoldIffPaid'
  <2>1. \A o \in Expiring(w) : status[o] = "PENDING"
    BY DEF Expiring, Locks, LockedPending
  <2> QED
    BY <1>6, <2>1 DEF ExpireCommit
<1> QED
  BY <1>1, <1>2, <1>3, <1>4, <1>5, <1>6, StoreMoves

\* A payment is made for a PENDING order, so its first, and with a new key.
LEMMA ChargedStep ==
  ASSUME TypeOK, StepsMatch, Stages, Locks, ChargedOnce, [Next]_vars PROVE ChargedOnce'
<1> USE DEF TypeOK, ChargedOnce, Paid
<1>1. CASE UNCHANGED <<status, items, payments>>
  BY <1>1
<1>2. ASSUME NEW r \in Reqs, InsertItem(r) PROVE ChargedOnce'
  BY <1>2 DEF InsertItem, database
<1>3. ASSUME NEW r \in Reqs, CommitBooking(r) PROVE ChargedOnce'
  <2>1. status[r] = "NONE"
    BY <1>3 DEF CommitBooking, Stages, Born
  <2> QED
    BY <1>3, <2>1 DEF CommitBooking
<1>4. ASSUME NEW r \in Reqs, PayConfirm(r) PROVE ChargedOnce'
  <2> DEFINE o == call[r].order
             new == [order |-> o, key |-> call[r].key, seats |-> items[o]]
  <2>1. o \in Reqs /\ status[o] = "PENDING"
    BY <1>4, OrderToCommit DEF PayConfirm
  <2>2. /\ payments' = payments \cup {new} /\ UNCHANGED items
        /\ status' = [status EXCEPT ![o] = "PAID"]
        /\ \A p \in payments : p.key # call[r].key
    BY <1>4 DEF PayConfirm, Confirmable, KeyFree
  <2>3. \A p \in payments : p.order \in Reqs /\ p.order # o
    BY <2>1
  <2>4. new.order = o /\ new.key = call[r].key /\ new.seats = items[o]
    OBVIOUS
  <2> HIDE DEF o, new
  <2>5. \A p \in payments' : status'[p.order] = "PAID" /\ p.seats = items'[p.order]
    BY <2>1, <2>2, <2>3, <2>4
  <2>6. \A p, q \in payments' : p.order = q.order \/ p.key = q.key => p = q
    BY <2>2, <2>3, <2>4
  <2>7. \A x \in Paid' : \E p \in payments' : p.order = x
    BY <2>1, <2>2, <2>4
  <2> QED
    BY <2>5, <2>6, <2>7
<1>5. ASSUME NEW r \in Reqs, CancelCommit(r) PROVE ChargedOnce'
  <2>1. call[r].order \in Reqs /\ status[call[r].order] = "PENDING"
    BY <1>5, OrderToCommit DEF CancelCommit
  <2> QED
    BY <1>5, <2>1 DEF CancelCommit
<1>6. ASSUME NEW w \in Workers, ExpireCommit(w) PROVE ChargedOnce'
  <2>1. \A o \in Expiring(w) : status[o] = "PENDING"
    BY DEF Expiring, Locks, LockedPending
  <2>2. \A p \in payments : p.order \in Reqs /\ p.order \notin Expiring(w)
    BY <2>1
  <2>3. UNCHANGED payments /\ \A o \in Reqs : o \notin Expiring(w) =>
                                 status'[o] = status[o] /\ items'[o] = items[o]
    BY <1>6 DEF ExpireCommit
  <2>4. \A o \in Reqs : status'[o] = "PAID" => status[o] = "PAID"
    BY <1>6 DEF ExpireCommit
  <2> QED
    BY <2>2, <2>3, <2>4
<1> QED
  BY <1>1, <1>2, <1>3, <1>4, <1>5, <1>6, StoreMoves

\* The invariants of the tables hold of empty tables.
LEMMA InitHolds ==
  Init => Stages /\ Locks /\ OneOrderPerSeat /\ Whole /\ SoldIffPaid /\ ChargedOnce
<1> SUFFICES ASSUME Init
    PROVE Stages /\ Locks /\ OneOrderPerSeat /\ Whole /\ SoldIffPaid /\ ChargedOnce
  OBVIOUS
<1>1. Stages /\ Locks
  BY DEF Init, Stages, Born, Dropped, SeedStaysSold, Claims,
         Locks, LockedPending, LockedLate, LockHeld
<1>2. OneOrderPerSeat /\ Whole /\ SoldIffPaid /\ ChargedOnce
  BY DEF Init, OneOrderPerSeat, Whole, SoldIffPaid, ChargedOnce, Paid
<1> QED
  BY <1>1, <1>2

-----------------------------------------------------------------------------
(* Holds and deadlines *)

\* A step that sets no hold and no deadline, and makes no order.
Steady ==
  /\ UNCHANGED left
  /\ \A k \in Events \X Seats : hold'[k] \in {hold[k], NoHold}
  /\ \A o \in Reqs : /\ pc'[o] = "items" => pc[o] = "items"
                     /\ pc'[o] \in {"new", "hold"} => pc[o] \in {"new", "hold"}
                     /\ status'[o] \in {"PENDING", "EXPIRED"} => status'[o] = status[o]

\* The steps that set holds or deadlines or make orders; the others are steady.
LEMMA HoldMoves ==
  ASSUME TypeOK, [Next]_vars
  PROVE  \/ Steady
         \/ \E r \in Reqs : HoldSeats(r) \/ HoldFailed(r) \/ BeginBooking(r) \/ CommitBooking(r)
         \/ \E w \in Workers : ExpireCommit(w)
         \/ Tick
<1> USE DEF TypeOK, Steady, database, locals
<1>1. ASSUME NEW r \in Reqs, CreateBooking(r)
      PROVE  Steady \/ HoldSeats(r) \/ BeginBooking(r) \/ CommitBooking(r)
  <2>1. CASE BookGate(r) \/ HoldRefused(r) \/ CheckCap(r) \/ InsertItem(r)
    BY <2>1 DEF BookGate, HoldRefused, CheckCap, InsertItem, Goto, Leave, Answer, Refuse
  <2>2. CASE UniqueViolation(r) \/ DeadlockVictim(r) \/ RowsMismatch(r) \/ RollbackBooking(r)
    BY <2>2 DEF UniqueViolation, DeadlockVictim, RowsMismatch, RollbackBooking,
                Goto, Leave, Answer, Refuse
  <2>3. CASE ReleaseHolds(r)
    BY <2>3 DEF ReleaseHolds, Goto, Delete, Cleared
  <2> QED
    BY <1>1, <2>1, <2>2, <2>3 DEF CreateBooking
<1>2. ASSUME NEW r \in Reqs, PayOrder(r) \/ OrderNotFound(r) PROVE Steady
  <2>1. CASE PayLookup(r) \/ OrderNotFound(r)
    BY <2>1 DEF PayLookup, OrderNotFound, Goto, Leave, Answer
  <2>2. CASE PayLockOrder(r) \/ PayRefused(r)
    BY <2>2 DEF PayLockOrder, PayRefused, Goto, Leave, Answer
  <2>3. CASE PayConfirm(r)
    BY <2>3 DEF PayConfirm, Leave, Answer
  <2>4. CASE PayClearHolds(r)
    BY <2>4 DEF PayClearHolds, Goto, Delete, Cleared
  <2> QED
    BY <1>2, <2>1, <2>2, <2>3, <2>4 DEF PayOrder
<1>3. ASSUME NEW r \in Reqs, CancelOrder(r) PROVE Steady
  <2>1. CASE CancelLockOrder(r)
    BY <2>1 DEF CancelLockOrder, Goto, Leave, Answer
  <2>2. CASE CancelCommit(r)
    BY <2>2 DEF CancelCommit, Leave, Answer
  <2>3. CASE CancelClearHolds(r)
    BY <2>3 DEF CancelClearHolds, Goto, Delete, Cleared
  <2> QED
    BY <1>3, <2>1, <2>2, <2>3 DEF CancelOrder
<1>4. ASSUME NEW r \in Reqs, Failure(r) \/ Crash(r) PROVE Steady \/ HoldFailed(r)
  BY <1>4 DEF Failure, GateError, BookingDBError, OrderDBError, Crash,
              Goto, Leave, Answer, Refuse
<1>5. ASSUME NEW w \in Workers, Worker(w) \/ ExpireFail(w) PROVE Steady \/ ExpireCommit(w)
  BY <1>5 DEF Worker, ExpireScan, ExpireLock, ExpireFail
<1>6. CASE LoseHold
  BY <1>6 DEF LoseHold, Cleared
<1>7. CASE Quiet \/ UNCHANGED vars \/ \E e \in Events : PatchEvent(e)
  BY <1>7 DEF Quiet, vars, PatchEvent
<1> QED
  BY <1>1, <1>2, <1>3, <1>4, <1>5, <1>6, <1>7 DEF Next, Handler

\* A deadline is set after the holds it must outlive, and both run down together.
LEMMA HoldsStep ==
  ASSUME TypeOK, TypeOK', StepsMatch, Stages, Locks, HoldsEnd, [Next]_vars PROVE HoldsEnd'
<1> SUFFICES ASSUME NEW o \in Reqs, NEW k \in Events \X Seats, hold'[k].by = o
    PROVE  /\ pc'[o] # "new" /\ pc'[o] # "hold"
           /\ pc'[o] = "items" \/ status'[o] = "PENDING" => hold'[k].ttl <= left'[o]
           /\ hold'[k].ttl > 0
           /\ status'[o] # "EXPIRED"
  BY DEF HoldsEnd, TypeOK
<1> USE DEF TypeOK
<1>a. ASSUME hold'[k] = hold[k]
      PROVE  /\ pc[o] # "new" /\ pc[o] # "hold"
             /\ pc[o] = "items" \/ status[o] = "PENDING" => hold[k].ttl <= left[o]
             /\ hold[k].ttl > 0
             /\ status[o] # "EXPIRED"
  BY <1>a DEF HoldsEnd
<1>b. hold'[k] # NoHold
  BY DEF NoHold
<1>1. CASE Steady
  BY <1>1, <1>a, <1>b DEF Steady
<1>2. ASSUME NEW r \in Reqs, HoldSeats(r) \/ HoldFailed(r),
             hold' = Held(r) \/ UNCHANGED hold
      PROVE  /\ pc'[o] # "new" /\ pc'[o] # "hold"
             /\ pc'[o] = "items" \/ status'[o] = "PENDING" => hold'[k].ttl <= left'[o]
             /\ hold'[k].ttl > 0
             /\ status'[o] # "EXPIRED"
  <2>1. /\ pc[r] = "hold" /\ UNCHANGED <<status, left>>
        /\ \E label \in {"cap", "done"} : pc' = [pc EXCEPT ![r] = label]
    BY <1>2 DEF HoldSeats, HoldFailed, Goto, Leave, Answer, database
  <2>2. CASE hold'[k] = hold[k]
    BY <2>1, <2>2, <1>a
  <2>3. CASE hold'[k] = [by |-> r, ttl |-> HoldTTL]
    <3>1. o = r
      BY <2>3
    <3>2. status[r] = "NONE"
      BY <2>1 DEF Stages, Born
    <3>3. hold'[k].ttl = HoldTTL
      BY <2>3
    <3>4. pc'[r] \in {"cap", "done"} /\ status'[r] = "NONE"
      BY <2>1, <3>2
    <3> QED
      BY <3>1, <3>3, <3>4
  <2> QED
    BY <1>2, <2>2, <2>3 DEF Held
<1>3. ASSUME NEW r \in Reqs, BeginBooking(r)
      PROVE  /\ pc'[o] # "new" /\ pc'[o] # "hold"
             /\ pc'[o] = "items" \/ status'[o] = "PENDING" => hold'[k].ttl <= left'[o]
             /\ hold'[k].ttl > 0
             /\ status'[o] # "EXPIRED"
  <2>1. /\ UNCHANGED <<hold, status>> /\ pc' = [pc EXCEPT ![r] = "items"]
        /\ left' = [left EXCEPT ![r] = HoldTTL]
    BY <1>3 DEF BeginBooking, Goto, database, ExpiresIn
  <2>2. hold[k].ttl <= HoldTTL
    OBVIOUS
  <2> QED
    BY <2>1, <2>2, <1>a
<1>4. ASSUME NEW r \in Reqs, CommitBooking(r)
      PROVE  /\ pc'[o] # "new" /\ pc'[o] # "hold"
             /\ pc'[o] = "items" \/ status'[o] = "PENDING" => hold'[k].ttl <= left'[o]
             /\ hold'[k].ttl > 0
             /\ status'[o] # "EXPIRED"
  BY <1>4, <1>a DEF CommitBooking, Leave, Answer, Refuse
<1>5. ASSUME NEW w \in Workers, ExpireCommit(w)
      PROVE  /\ pc'[o] # "new" /\ pc'[o] # "hold"
             /\ pc'[o] = "items" \/ status'[o] = "PENDING" => hold'[k].ttl <= left'[o]
             /\ hold'[k].ttl > 0
             /\ status'[o] # "EXPIRED"
  <2>1. UNCHANGED <<hold, pc, left>>
    BY <1>5 DEF ExpireCommit
  <2>2. o \notin Expiring(w)
    BY <2>1, <1>a DEF Expiring, Locks, LockedPending, LockedLate
  <2> QED
    BY <1>5, <2>1, <2>2, <1>a DEF ExpireCommit
<1>6. CASE Tick
  <2>1. /\ hold'[k] = Aged(hold[k]) /\ UNCHANGED <<pc, status>>
        /\ left'[o] = IF Running(o) THEN left[o] - 1 ELSE left[o]
    BY <1>6 DEF Tick
  <2>2. /\ hold[k].ttl > 1 /\ hold[k].by = o
        /\ hold'[k].ttl = hold[k].ttl - 1
    BY <2>1, <1>b DEF Aged
  <2>3. /\ pc[o] # "new" /\ pc[o] # "hold"
        /\ pc[o] = "items" \/ status[o] = "PENDING" => hold[k].ttl <= left[o]
        /\ status[o] # "EXPIRED"
    BY <2>2 DEF HoldsEnd
  <2>4. left'[o] >= left[o] - 1
    BY <2>1
  <2> QED
    BY <2>1, <2>2, <2>3, <2>4
<1> QED
  BY <1>1, <1>2, <1>3, <1>4, <1>5, <1>6, HoldMoves DEF HoldSeats, HoldFailed

-----------------------------------------------------------------------------
(* Answers *)

\* A committed order's deadline never moves away, and a payment gets to its
\* commit only from an order that can be paid.
LEMMA ConfirmMoves ==
  ASSUME TypeOK, Stages, [Next]_vars
  PROVE  /\ \A o \in Reqs : status[o] # "NONE" => left'[o] <= left[o]
         /\ \A q \in Reqs : pc'[q] = "confirm" => pc[q] = "confirm" \/ Payable(call[q].order)
<1> USE DEF TypeOK, database, locals
<1> DEFINE Goal == /\ \A o \in Reqs : status[o] # "NONE" => left'[o] <= left[o]
                   /\ \A q \in Reqs : pc'[q] = "confirm" =>
                        pc[q] = "confirm" \/ Payable(call[q].order)
<1>1. ASSUME NEW r \in Reqs, CreateBooking(r) PROVE Goal
  <2>1. CASE BookGate(r) \/ HoldSeats(r) \/ HoldRefused(r) \/ CheckCap(r)
    BY <2>1 DEF BookGate, HoldSeats, HoldRefused, CheckCap, Goto, Leave, Answer, Refuse
  <2>2. CASE BeginBooking(r)
    BY <2>2 DEF BeginBooking, Goto, Stages, Born
  <2>3. CASE InsertItem(r) \/ UniqueViolation(r) \/ DeadlockVictim(r) \/ RowsMismatch(r)
    BY <2>3 DEF InsertItem, UniqueViolation, DeadlockVictim, RowsMismatch, Leave, Refuse
  <2>4. CASE CommitBooking(r) \/ ReleaseHolds(r) \/ RollbackBooking(r)
    BY <2>4 DEF CommitBooking, ReleaseHolds, RollbackBooking, Goto, Leave, Answer, Refuse
  <2> QED
    BY <1>1, <2>1, <2>2, <2>3, <2>4 DEF CreateBooking
<1>2. ASSUME NEW r \in Reqs, PayOrder(r) \/ CancelOrder(r) \/ OrderNotFound(r) PROVE Goal
  <2>1. CASE PayLookup(r) \/ OrderNotFound(r)
    BY <2>1 DEF PayLookup, OrderNotFound, Goto, Leave, Answer
  <2>2. CASE PayLockOrder(r)
    BY <2>2 DEF PayLockOrder, Goto, Leave, Answer
  <2>3. CASE PayConfirm(r) \/ PayRefused(r) \/ PayClearHolds(r)
    BY <2>3 DEF PayConfirm, PayRefused, PayClearHolds, Goto, Leave, Answer
  <2>4. CASE CancelLockOrder(r) \/ CancelCommit(r) \/ CancelClearHolds(r)
    BY <2>4 DEF CancelLockOrder, CancelCommit, CancelClearHolds, Goto, Leave, Answer
  <2> QED
    BY <1>2, <2>1, <2>2, <2>3, <2>4 DEF PayOrder, CancelOrder
<1>3. ASSUME NEW r \in Reqs, Failure(r) \/ Crash(r) PROVE Goal
  BY <1>3 DEF Failure, GateError, HoldFailed, BookingDBError, OrderDBError, Crash,
              Goto, Leave, Answer, Refuse
<1>4. ASSUME NEW w \in Workers, Worker(w) \/ ExpireFail(w) PROVE Goal
  BY <1>4 DEF Worker, ExpireScan, ExpireLock, ExpireCommit, ExpireFail
<1>5. CASE Tick
  BY <1>5 DEF Tick
<1>6. CASE LoseHold \/ Quiet \/ UNCHANGED vars \/ \E e \in Events : PatchEvent(e)
  BY <1>6 DEF LoseHold, Quiet, vars, PatchEvent
<1> QED
  BY <1>1, <1>2, <1>3, <1>4, <1>5, <1>6 DEF Next, Handler

\* What is settled stays settled: a PAID order is never anything else, and an
\* order that nobody can pay is never paid.
LEMMA SettledStays ==
  ASSUME TypeOK, StepsMatch, Stages, Locks, [Next]_vars, NEW o \in Reqs
  PROVE  /\ o \in Paid => o \in Paid' /\ items'[o] = items[o]
         /\ Unpayable(o) => Unpayable(o)'
<1> USE DEF TypeOK, Paid, Unpayable
<1> DEFINE Goal == /\ o \in Paid => o \in Paid' /\ items'[o] = items[o]
                   /\ Unpayable(o) => Unpayable(o)'
<1>a. UNCHANGED call
  BY StoreMoves
<1>b. ASSUME status[o] = "PENDING", left[o] < 0,
             \A q \in Reqs : pc[q] = "confirm" => call[q].order # o
      PROVE  left'[o] < 0 /\ \A q \in Reqs : pc'[q] = "confirm" => call'[q].order # o
  <2>1. left'[o] <= left[o]
    BY <1>b, ConfirmMoves
  <2>2. left'[o] < 0
    BY <1>b, <2>1, TypeStep
  <2>3. ~Payable(o)
    BY <1>b DEF Payable
  <2> QED
    BY <1>a, <1>b, <2>2, <2>3, ConfirmMoves
<1>1. CASE status'[o] = status[o] /\ items'[o] = items[o]
  BY <1>1, <1>b
<1>2. ASSUME NEW r \in Reqs, CommitBooking(r) PROVE Goal
  <2>1. status[r] = "NONE"
    BY <1>2 DEF CommitBooking, Stages, Born
  <2>2. CASE o = r
    BY <2>1, <2>2
  <2>3. CASE o # r
    BY <1>1, <1>2, <2>3 DEF CommitBooking
  <2> QED
    BY <2>2, <2>3
<1>3. ASSUME NEW r \in Reqs, PayConfirm(r) PROVE Goal
  <2>1. call[r].order \in Reqs /\ status[call[r].order] = "PENDING" /\ pc[r] = "confirm"
    BY <1>3, OrderToCommit DEF PayConfirm
  <2>2. CASE o = call[r].order
    BY <2>1, <2>2
  <2>3. CASE o # call[r].order
    BY <1>1, <1>3, <2>3 DEF PayConfirm
  <2> QED
    BY <2>2, <2>3
<1>4. ASSUME NEW r \in Reqs, CancelCommit(r) PROVE Goal
  <2>1. call[r].order \in Reqs /\ status[call[r].order] = "PENDING"
    BY <1>4, OrderToCommit DEF CancelCommit
  <2>2. CASE o = call[r].order
    BY <1>4, <2>1, <2>2 DEF CancelCommit
  <2>3. CASE o # call[r].order
    BY <1>1, <1>4, <2>3 DEF CancelCommit
  <2> QED
    BY <2>2, <2>3
<1>5. ASSUME NEW w \in Workers, ExpireCommit(w) PROVE Goal
  <2>1. CASE o \in Expiring(w)
    BY <1>5, <2>1 DEF ExpireCommit, Expiring, Locks, LockedPending
  <2>2. CASE o \notin Expiring(w)
    BY <1>1, <1>5, <2>2 DEF ExpireCommit
  <2> QED
    BY <2>1, <2>2
<1>6. ASSUME NEW r \in Reqs, InsertItem(r) PROVE Goal
  BY <1>1, <1>6 DEF InsertItem, database
<1> QED
  BY <1>1, <1>2, <1>3, <1>4, <1>5, <1>6, StoreMoves

\* A step answers at most its own request; a booking is never answered with
\* the code of a payment.
LEMMA NewAnswers ==
  ASSUME TypeOK, StepsMatch, Locks, ChargedOnce, [Next]_vars, NEW r \in Reqs,
         resp'[r] # resp[r], resp'[r] \in Refusals \cup Successes
  PROVE  /\ call[r].op # "book"
         /\ resp'[r] \in Refusals => Unpayable(call[r].order)'
         /\ resp'[r] \in Successes => call[r].order \in Paid'
<1> USE DEF TypeOK, Refusals, Successes
<1> DEFINE Goal == /\ call[r].op # "book"
                   /\ resp'[r] \in Refusals => Unpayable(call[r].order)'
                   /\ resp'[r] \in Successes => call[r].order \in Paid'
<1>a. UNCHANGED call
  BY StoreMoves
<1>1. ASSUME NEW q \in Reqs, CreateBooking(q) PROVE FALSE
  <2>1. CASE BookGate(q) \/ HoldSeats(q) \/ HoldRefused(q) \/ CheckCap(q)
    BY <2>1 DEF BookGate, HoldSeats, HoldRefused, CheckCap, Goto, Leave, Answer, Refuse
  <2>2. CASE BeginBooking(q) \/ InsertItem(q) \/ UniqueViolation(q) \/ DeadlockVictim(q)
    BY <2>2 DEF BeginBooking, InsertItem, UniqueViolation, DeadlockVictim, Goto, Leave, Refuse
  <2>3. CASE RowsMismatch(q) \/ CommitBooking(q) \/ ReleaseHolds(q) \/ RollbackBooking(q)
    BY <2>3 DEF RowsMismatch, CommitBooking, ReleaseHolds, RollbackBooking,
                Goto, Leave, Answer, Refuse
  <2> QED
    BY <1>1, <2>1, <2>2, <2>3 DEF CreateBooking
<1>2. ASSUME NEW q \in Reqs, PayLookup(q) PROVE Goal
  <2>1. q = r /\ resp'[r] = "replayed" /\ Replays(r) /\ call[r].op = "pay"
        /\ UNCHANGED status
    BY <1>2 DEF PayLookup, Goto, Leave, Answer, database
  <2>2. call[r].order \in Paid
    <3>1. PICK p \in payments : p.order = call[r].order
      BY <2>1 DEF Replays
    <3> QED
      BY <3>1 DEF ChargedOnce, Paid
  <2> QED
    BY <2>1, <2>2 DEF Paid
<1>3. ASSUME NEW q \in Reqs, PayLockOrder(q) PROVE Goal
  <2>0. q = r /\ pc[r] = "lock" /\ pc'[r] # "confirm" /\ UNCHANGED <<status, left>>
        /\ Found(r) /\ RowFree(call[r].order)
    BY <1>3 DEF PayLockOrder, Goto, Leave, Answer, database
  <2>1. call[r] \in PayCall
    BY <2>0, CallFields DEF StepsMatch, StepsOf
  <2>2. call[r].order \in Reqs /\ call[r].op = "pay"
    BY <2>1 DEF PayCall
  <2>3. CASE resp'[r] = "already_paid" /\ status[call[r].order] = "PAID"
    BY <2>0, <2>2, <2>3 DEF Paid
  <2>4. CASE /\ resp'[r] = "order_expired" /\ status[call[r].order] # "PAID"
             /\ ~Payable(call[r].order)
    <3>1. \/ status[call[r].order] \in {"EXPIRED", "CANCELLED"}
          \/ status[call[r].order] = "PENDING" /\ left[call[r].order] < 0
      BY <2>0, <2>2, <2>4 DEF Found, Payable, OrderStatus
    <3>2. \A x \in Reqs : pc[x] = "confirm" => call[x].order # call[r].order
      BY <2>0 DEF RowFree, Locks, LockHeld
    <3>3. \A x \in Reqs : pc'[x] = "confirm" => pc[x] = "confirm"
      BY <1>3, <2>0 DEF PayLockOrder, Goto, Leave, Answer
    <3> QED
      BY <1>a, <2>0, <2>2, <2>4, <3>1, <3>2, <3>3 DEF Unpayable
  <2> QED
    BY <1>3, <2>0, <2>3, <2>4 DEF PayLockOrder, Goto, Leave, Answer
<1>4. ASSUME NEW q \in Reqs, PayConfirm(q) PROVE Goal
  <2>1. q = r /\ pc[r] = "confirm" /\ resp'[r] = "paid"
        /\ status' = [status EXCEPT ![call[r].order] = "PAID"]
    BY <1>4 DEF PayConfirm, Leave, Answer
  <2>2. call[r].order \in Reqs /\ call[r].op # "book"
    BY <2>1, OrderOfHolder DEF StepsMatch, StepsOf
  <2> QED
    BY <2>1, <2>2 DEF Paid
<1>5. ASSUME NEW q \in Reqs, CancelCommit(q) PROVE Goal
  <2>1. q = r /\ pc[r] = "cancel" /\ resp'[r] = "cancelled"
        /\ status' = [status EXCEPT ![call[r].order] = "CANCELLED"]
    BY <1>5 DEF CancelCommit, Leave, Answer
  <2>2. call[r].order \in Reqs /\ call[r].op # "book"
    BY <2>1, OrderOfHolder DEF StepsMatch, StepsOf
  <2> QED
    BY <1>a, <2>1, <2>2 DEF Unpayable
<1>6. ASSUME NEW q \in Reqs,
             PayRefused(q) \/ PayClearHolds(q) \/ OrderNotFound(q)
             \/ CancelLockOrder(q) \/ CancelClearHolds(q)
      PROVE  FALSE
  BY <1>6 DEF PayRefused, PayClearHolds, OrderNotFound, CancelLockOrder, CancelClearHolds,
              Goto, Leave, Answer
<1>7. ASSUME NEW q \in Reqs, Failure(q) \/ Crash(q) PROVE FALSE
  BY <1>7 DEF Failure, GateError, HoldFailed, BookingDBError, OrderDBError, Crash,
              Goto, Leave, Answer, Refuse
<1>8. ASSUME NEW w \in Workers, Worker(w) \/ ExpireFail(w) PROVE FALSE
  BY <1>8 DEF Worker, ExpireScan, ExpireLock, ExpireCommit, ExpireFail
<1>9. CASE Tick \/ LoseHold \/ Quiet \/ UNCHANGED vars \/ \E e \in Events : PatchEvent(e)
  BY <1>9 DEF Tick, LoseHold, Quiet, vars, PatchEvent
<1> QED
  BY <1>1, <1>2, <1>3, <1>4, <1>5, <1>6, <1>7, <1>8, <1>9
  DEF Next, Handler, PayOrder, CancelOrder

\* What a payment or a cancellation was told remains true.
LEMMA AnswersStep ==
  ASSUME TypeOK, StepsMatch, Stages, Locks, ChargedOnce, Answers, [Next]_vars PROVE Answers'
<1>a. UNCHANGED call
  BY StoreMoves
<1> SUFFICES ASSUME NEW r \in Reqs, resp'[r] \in Refusals \cup Successes
    PROVE  /\ call[r].op # "book"
           /\ resp'[r] \in Refusals => Unpayable(call[r].order)'
           /\ resp'[r] \in Successes => call[r].order \in Paid'
  BY <1>a DEF Answers, Refusals, Successes
<1>1. CASE resp'[r] # resp[r]
  BY <1>1, NewAnswers
<1>2. CASE resp'[r] = resp[r]
  <2>1. call[r].op # "book"
    BY <1>2 DEF Answers
  <2>2. PICK o \in Reqs : o = call[r].order
    BY <2>1, CallFields DEF PayCall, CancelCall
  <2>3. /\ resp[r] \in Refusals => Unpayable(o)
        /\ resp[r] \in Successes => o \in Paid
    BY <1>2, <2>2 DEF Answers
  <2>4. /\ resp'[r] \in Refusals => Unpayable(o)'
        /\ resp'[r] \in Successes => o \in Paid'
    BY <1>2, <2>3, SettledStays
  <2>5. Unpayable(o)' => Unpayable(call[r].order)'
    BY <1>a, <2>2
  <2> QED
    BY <2>1, <2>2, <2>4, <2>5
<1> QED
  BY <1>1, <1>2

-----------------------------------------------------------------------------
(* The inductive invariant *)

\* No answer is given and no hold set before the first request.
LEMMA InitLast == Init => HoldsEnd /\ Answers
<1> SUFFICES ASSUME Init PROVE HoldsEnd /\ Answers
  OBVIOUS
<1>1. HoldsEnd
  BY DEF Init, HoldsEnd, NoHold
<1>2. Answers
  <2>1. \A r \in Reqs : resp[r] = None /\ None \notin Refusals \cup Successes
    BY DEF Init, Refusals, Successes, Code
  <2> QED
    BY <2>1 DEF Answers
<1> QED
  BY <1>1, <1>2

\* The inductive invariant holds initially.
LEMMA InvInit == Init => IInv
  BY TypeInit, InitHolds, InitLast DEF IInv

\* The inductive invariant is preserved by every step.
LEMMA InvStep == IInv /\ [Next]_vars => IInv'
<1> SUFFICES ASSUME IInv, [Next]_vars PROVE IInv'
  OBVIOUS
<1> USE DEF IInv
<1>1. TypeOK' /\ StepsMatch'
  BY TypeStep
<1>2. Stages' /\ Locks'
  BY <1>1, StagesStep, LocksStep DEF Stages
<1>3. OneOrderPerSeat' /\ Whole' /\ SoldIffPaid' /\ ChargedOnce'
  BY OneOrderStep, WholeStep, SoldStep, ChargedStep
<1>4. HoldsEnd' /\ Answers'
  BY <1>1, HoldsStep, AnswersStep
<1> QED
  BY <1>1, <1>2, <1>3, <1>4

\* The inductive invariant holds in every state that the API, the worker, the
\* administrator, the clock and the faults can reach.
THEOREM Inductive == Spec => []IInv
  BY InvInit, InvStep, PTL DEF Spec

-----------------------------------------------------------------------------
(* The way of one request *)

PastGate == {"hold", "cap", "begin", "items"}

\* How a request goes on: an answered one does not move, one gets past the sale gate and
\* into the insert by those steps only, and "created" is the answer of a commit.
LEMMA RequestMoves ==
  ASSUME TypeOK, [Next]_vars, NEW r \in Reqs
  PROVE  /\ resp'[r] # resp[r] => pc[r] # "done" /\ pc'[r] # "new"
         /\ pc'[r] = "new" => pc[r] = "new"
         /\ pc[r] = "done" => pc'[r] = "done"
         /\ resp'[r] = "created" => resp[r] = "created" \/ CommitBooking(r)
         /\ pc'[r] \in PastGate => pc[r] \in PastGate \/ BookGate(r)
         /\ pc'[r] = "items" => BeginBooking(r) \/ (pc[r] = "items" /\ rows'[r] = rows[r])
         /\ pc'[r] = "begin" => pc[r] = "begin" \/ CheckCap(r)
<1> USE DEF TypeOK, PastGate, database, locals
<1> DEFINE Goal ==
      /\ resp'[r] # resp[r] => pc[r] # "done" /\ pc'[r] # "new"
      /\ pc'[r] = "new" => pc[r] = "new"
      /\ pc[r] = "done" => pc'[r] = "done"
      /\ resp'[r] = "created" => resp[r] = "created" \/ CommitBooking(r)
      /\ pc'[r] \in PastGate => pc[r] \in PastGate \/ BookGate(r)
      /\ pc'[r] = "items" => BeginBooking(r) \/ (pc[r] = "items" /\ rows'[r] = rows[r])
      /\ pc'[r] = "begin" => pc[r] = "begin" \/ CheckCap(r)
<1>1. ASSUME NEW q \in Reqs, CreateBooking(q) PROVE Goal
  <2>1. CASE BookGate(q) \/ HoldSeats(q) \/ HoldRefused(q) \/ CheckCap(q)
    BY <2>1 DEF BookGate, HoldSeats, HoldRefused, CheckCap, Goto, Leave, Answer, Refuse
  <2>2. CASE BeginBooking(q)
    <3>1. /\ pc[q] = "begin" /\ pc' = [pc EXCEPT ![q] = "items"] /\ UNCHANGED resp
          /\ rows' = [rows EXCEPT ![q] = Candidates(q)]
      BY <2>2 DEF BeginBooking, Goto
    <3> QED
      BY <2>2, <3>1
  <2>3. CASE InsertItem(q) \/ UniqueViolation(q) \/ DeadlockVictim(q) \/ RowsMismatch(q)
    BY <2>3 DEF InsertItem, UniqueViolation, DeadlockVictim, RowsMismatch, Leave, Refuse
  <2>4. CASE CommitBooking(q)
    <3>1. /\ pc[q] = "items" /\ UNCHANGED rows
          /\ \E label \in {"done", "release"} : pc' = [pc EXCEPT ![q] = label]
          /\ \E code \in {"created", "db_error"} : resp' = [resp EXCEPT ![q] = code]
      BY <2>4 DEF CommitBooking, Leave, Answer, Refuse
    <3>2. CASE r = q
      BY <2>4, <3>1, <3>2
    <3>3. CASE r # q
      BY <3>1, <3>3
    <3> QED
      BY <3>2, <3>3
  <2>5. CASE ReleaseHolds(q) \/ RollbackBooking(q)
    BY <2>5 DEF ReleaseHolds, RollbackBooking, Goto
  <2> QED
    BY <1>1, <2>1, <2>2, <2>3, <2>4, <2>5 DEF CreateBooking
<1>2. ASSUME NEW q \in Reqs, PayOrder(q) \/ OrderNotFound(q) PROVE Goal
  BY <1>2 DEF PayOrder, PayLookup, PayLockOrder, PayConfirm, PayRefused, PayClearHolds,
              OrderNotFound, Goto, Leave, Answer
<1>3. ASSUME NEW q \in Reqs, CancelOrder(q) PROVE Goal
  BY <1>3 DEF CancelOrder, CancelLockOrder, CancelCommit, CancelClearHolds,
              Goto, Leave, Answer
<1>4. ASSUME NEW q \in Reqs, Failure(q) \/ Crash(q) PROVE Goal
  BY <1>4 DEF Failure, GateError, HoldFailed, BookingDBError, OrderDBError, Crash,
              Goto, Leave, Answer, Refuse
<1>5. ASSUME NEW w \in Workers, Worker(w) \/ ExpireFail(w) PROVE Goal
  BY <1>5 DEF Worker, ExpireScan, ExpireLock, ExpireCommit, ExpireFail
<1>6. CASE Tick \/ LoseHold \/ Quiet \/ UNCHANGED vars \/ \E e \in Events : PatchEvent(e)
  BY <1>6 DEF Tick, LoseHold, Quiet, vars, PatchEvent
<1> QED
  BY <1>1, <1>2, <1>3, <1>4, <1>5, <1>6 DEF Next, Handler

\* An order enters the table by the commit of its booking, and never leaves it.
LEMMA OrderBorn ==
  ASSUME TypeOK, StepsMatch, Locks, [Next]_vars, NEW o \in Reqs
  PROVE  /\ status[o] # "NONE" => status'[o] # "NONE"
         /\ status'[o] # "NONE" => status[o] # "NONE" \/ CommitBooking(o)
<1> USE DEF TypeOK
<1>1. ASSUME NEW r \in Reqs, InsertItem(r) PROVE UNCHANGED status
  BY <1>1 DEF InsertItem, database
<1>2. ASSUME NEW r \in Reqs, CommitBooking(r)
      PROVE  status' = [status EXCEPT ![r] = "PENDING"]
  BY <1>2 DEF CommitBooking
<1>3. ASSUME NEW r \in Reqs, PayConfirm(r) \/ CancelCommit(r)
      PROVE  /\ call[r].order \in Reqs /\ status[call[r].order] = "PENDING"
             /\ \/ status' = [status EXCEPT ![call[r].order] = "PAID"]
                \/ status' = [status EXCEPT ![call[r].order] = "CANCELLED"]
  BY <1>3, OrderToCommit DEF PayConfirm, CancelCommit
<1>4. ASSUME NEW w \in Workers, ExpireCommit(w)
      PROVE  \A x \in Reqs : \/ status'[x] = status[x]
                             \/ status[x] = "PENDING" /\ status'[x] = "EXPIRED"
  BY <1>4 DEF ExpireCommit, Expiring, Locks, LockedPending
<1> QED
  BY <1>1, <1>2, <1>3, <1>4, StoreMoves

-----------------------------------------------------------------------------
(* The theorems *)

\* However holds lapse and requests interleave, no seat is in two orders: the
\* unique index and the commit of api/handlers.go:287-347 see to it.
THEOREM NeverTwoOrders == Spec => []OneOrderPerSeat
<1>1. IInv => OneOrderPerSeat
  BY DEF IInv
<1> QED
  BY <1>1, Inductive, PTL

\* A seat is SOLD if and only if it was seeded so or a PAID order has it.
THEOREM SoldMeansPaid == Spec => []SoldIffPaid
<1>1. IInv => SoldIffPaid
  BY DEF IInv
<1> QED
  BY <1>1, Inductive, PTL

\* Whatever is retried, an order is charged once and a key charges once.
THEOREM NeverChargedTwice == Spec => []ChargedOnce
<1>1. IInv => ChargedOnce
  BY DEF IInv
<1> QED
  BY <1>1, Inductive, PTL

\* An order is all that was asked for or nothing, when its call asks for a seat.
LEMMA WholeIsAll == IInv => AllOrNothing
  BY DEF IInv, Stages, Dropped, Whole, AllOrNothing

\* createBooking never sells a part of what it was asked for.
THEOREM NeverInPart == Spec => []AllOrNothing
  BY WholeIsAll, Inductive, PTL

\* The seats of a PENDING order are AVAILABLE: none was seeded as SOLD, and
\* none is in a PAID order, which would be a second order of the seat.
LEMMA PendingIsAvailable == IInv => PendingSeatsAvailable
<1> SUFFICES ASSUME IInv, NEW o \in Pending
    PROVE  items[o] # {} /\ \A s \in items[o] : seat[s] = "AVAILABLE"
  BY DEF PendingSeatsAvailable
<1> USE DEF IInv, Pending
<1>1. items[o] # {}
  <2>1. call[o].op = "book"
    BY DEF Stages, Born
  <2>2. call[o] \in BookCall
    BY <2>1, CallFields
  <2> QED
    BY <2>2 DEF Whole, BookCall
<1>2. ASSUME NEW s \in items[o] PROVE seat[s] = "AVAILABLE"
  <2>1. s \in Seats /\ s \notin SeedSold
    BY DEF TypeOK, Whole
  <2>2. \A q \in Paid : s \notin items[q]
    BY <2>1 DEF OneOrderPerSeat, Paid
  <2>3. seat[s] # "SOLD"
    BY <2>1, <2>2 DEF SoldIffPaid
  <2> QED
    BY <2>1, <2>3 DEF TypeOK
<1> QED
  BY <1>1, <1>2

\* The seats of an unpaid order can be confirmed for as long as it is unpaid.
THEOREM PendingCanBePaid == Spec => []PendingSeatsAvailable
  BY PendingIsAvailable, Inductive, PTL

\* An order with a payment is PAID, so neither expired nor cancelled nor unpaid.
LEMMA RefusedIsUnpaid == IInv => RefusedNeverCharged
<1> SUFFICES ASSUME IInv, NEW r \in Reqs, resp[r] \in Refusals,
                    NEW p \in payments, p.order = call[r].order
    PROVE  FALSE
  BY DEF RefusedNeverCharged, Refusals
<1> USE DEF IInv
<1>1. status[call[r].order] = "PAID"
  BY DEF ChargedOnce
<1>2. Unpayable(call[r].order)
  BY DEF Answers
<1> QED
  BY <1>1, <1>2 DEF Unpayable

\* Who is told that the order has expired or was cancelled is never charged for
\* it, although another request may be paying it at that moment.
THEOREM RefusalIsFinal == Spec => []RefusedNeverCharged
  BY RefusedIsUnpaid, Inductive, PTL

\* A PAID order has a payment.
LEMMA SuccessIsPaid == IInv => SuccessIsCharged
<1> SUFFICES ASSUME IInv, NEW r \in Reqs, resp[r] \in Successes
    PROVE  \E p \in payments : p.order = call[r].order /\ call[r].order \in Paid
  BY DEF SuccessIsCharged, Successes
<1>1. call[r].order \in Paid
  BY DEF IInv, Answers
<1> QED
  BY <1>1 DEF IInv, ChargedOnce

\* Who is told that the order is paid was charged for it, once.
THEOREM SuccessIsTrue == Spec => []SuccessIsCharged
  BY SuccessIsPaid, Inductive, PTL

\* When the worker expires an order the holds of its booking have lapsed, so
\* expireOverdueOrders (api/main.go:174-190) has no keys to delete.
THEOREM ExpiryLeavesNoHold == Spec => []ExpiredLeavesNoHold
<1>1. IInv => ExpiredLeavesNoHold
  BY DEF IInv, HoldsEnd, ExpiredLeavesNoHold
<1> QED
  BY <1>1, Inductive, PTL

\* A PAID order stays paid and keeps its seats, whatever the worker, a second
\* payment or a cancellation does.
THEOREM PaidStaysPaid == Spec => PaidIsForever
<1>1. ASSUME IInv, [Next]_vars
      PROVE  \A o \in Paid : status'[o] = "PAID" /\ items'[o] = items[o]
  BY <1>1, SettledStays DEF IInv, Paid
<1> QED
  BY <1>1, Inductive, PTL DEF Spec, PaidIsForever

\* The order has been charged for these seats, which it has.
Charged(o, S) ==
  /\ o \in Paid /\ items[o] = S
  /\ \E p \in payments : p.order = o /\ p.seats = S

\* A PAID order has been charged for what it has.
LEMMA PaidIsCharged ==
  ASSUME IInv, NEW o, o \in Paid PROVE Charged(o, items[o])
<1>1. PICK p \in payments : p.order = o
  BY DEF IInv, ChargedOnce
<1> QED
  BY <1>1 DEF IInv, ChargedOnce, Charged

\* A charge is for ever, and so are the seats it was for: no later payment, expiry,
\* cancellation or change of the event takes them back (api/handlers.go:437-500).
THEOREM ChargeStands ==
  ASSUME NEW o, NEW S PROVE Spec => [](Charged(o, S) => []Charged(o, S))
<1>1. ASSUME IInv, IInv', [Next]_vars, Charged(o, S) PROVE Charged(o, S)'
  <2>1. o \in Paid' /\ items'[o] = S
    BY <1>1, SettledStays DEF IInv, Charged, Paid
  <2>2. PICK p \in payments' : p.order = o
    BY <1>1, <2>1 DEF IInv, ChargedOnce
  <2>3. p.seats = items'[o]
    BY <1>1, <2>2 DEF IInv, ChargedOnce
  <2> QED
    BY <2>1, <2>2, <2>3 DEF Charged
<1> QED
  BY <1>1, Inductive, PTL DEF Spec

\* Charges for one seat are one charge: two customers never pay for it, and nobody
\* pays for it in two orders or twice in one (api/handlers.go:454-470).
SeatChargedOnce == \A p, q \in payments : p.seats \cap q.seats # {} => p = q

\* The seats of a payment are those of its order, and no seat is in two orders.
THEOREM NoSeatChargedTwice == Spec => []SeatChargedOnce
<1>1. IInv => SeatChargedOnce
  <2> SUFFICES ASSUME IInv, NEW p \in payments, NEW q \in payments,
                      NEW s \in p.seats \cap q.seats
               PROVE  p = q
    BY DEF SeatChargedOnce
  <2>1. p.order \in Reqs /\ q.order \in Reqs
    BY DEF IInv, TypeOK
  <2>2. s \in items[p.order] /\ s \in items[q.order]
    BY DEF IInv, ChargedOnce
  <2>3. s \in Seats
    BY <2>1, <2>2 DEF IInv, TypeOK
  <2>4. p.order = q.order
    BY <2>1, <2>2, <2>3 DEF IInv, OneOrderPerSeat
  <2> QED
    BY <2>4 DEF IInv, ChargedOnce
<1> QED
  BY <1>1, Inductive, PTL

\* An order that has a row moves only from PENDING to an end, a row at a time under its lock.
LEMMA OrderMoves ==
  ASSUME IInv, [Next]_vars, NEW o \in Reqs, status'[o] # status[o]
  PROVE  \/ status[o] = "NONE" /\ status'[o] = "PENDING"
         \/ status[o] = "PENDING" /\ status'[o] \in {"PAID", "CANCELLED"}
         \/ status[o] = "PENDING" /\ status'[o] = "EXPIRED" /\ left[o] < 0
<1> USE DEF IInv, TypeOK
<1> DEFINE Move == \/ status[o] = "NONE" /\ status'[o] = "PENDING"
                   \/ status[o] = "PENDING" /\ status'[o] \in {"PAID", "CANCELLED"}
                   \/ status[o] = "PENDING" /\ status'[o] = "EXPIRED" /\ left[o] < 0
<1>1. ASSUME NEW r \in Reqs, InsertItem(r) PROVE UNCHANGED status
  BY <1>1 DEF InsertItem, database
<1>2. ASSUME NEW r \in Reqs, CommitBooking(r) PROVE Move
  BY <1>2 DEF CommitBooking, Stages, Born
<1>3. ASSUME NEW r \in Reqs, PayConfirm(r) PROVE Move
  BY <1>3, OrderToCommit DEF PayConfirm
<1>4. ASSUME NEW r \in Reqs, CancelCommit(r) PROVE Move
  BY <1>4, OrderToCommit DEF CancelCommit
<1>5. ASSUME NEW w \in Workers, ExpireCommit(w) PROVE Move
  BY <1>5 DEF ExpireCommit, Expiring, Locks, LockedPending, LockedLate
<1> QED
  BY <1>1, <1>2, <1>3, <1>4, <1>5, StoreMoves

\* The row lock gives each order one end: PAID, CANCELLED or, after its
\* deadline, EXPIRED.
THEOREM OneEnd == Spec => OrderLifecycle
<1>1. ASSUME IInv, [Next]_vars
      PROVE  \A o \in Reqs : status'[o] # status[o] =>
               \/ status[o] = "NONE" /\ status'[o] = "PENDING"
               \/ status[o] = "PENDING" /\ status'[o] \in {"PAID", "CANCELLED"}
               \/ status[o] = "PENDING" /\ status'[o] = "EXPIRED" /\ left[o] < 0
  BY <1>1, OrderMoves
<1> QED
  BY <1>1, Inductive, PTL DEF Spec, OrderLifecycle

-----------------------------------------------------------------------------
(* The sale gate *)

\* A booking past the gate, and every order, is of an event whose sale has opened.
OnTime == \A r \in Reqs :
            (call[r].op = "book" /\ pc[r] \in PastGate) \/ status[r] # "NONE" =>
              event[call[r].event].opensIn = 0

\* An open sale is not postponed: no row of Patches has its opening ahead.
NoPostponing == \A row \in Patches : row.opensIn = 0

\* An event that has opened stays so, unless its opening is moved.
LEMMA StaysOpen ==
  ASSUME TypeOK, NoPostponing, [Next]_vars, NEW e \in Events, event[e].opensIn = 0
  PROVE  event'[e].opensIn = 0
<1> USE DEF TypeOK, database
<1>1. ASSUME NEW r \in Reqs, CreateBooking(r) PROVE UNCHANGED event
  BY <1>1 DEF CreateBooking, BookGate, HoldSeats, HoldRefused, CheckCap, BeginBooking,
              InsertItem, UniqueViolation, DeadlockVictim, RowsMismatch, CommitBooking,
              ReleaseHolds, RollbackBooking
<1>2. ASSUME NEW r \in Reqs, PayOrder(r) \/ CancelOrder(r) \/ OrderNotFound(r)
      PROVE  UNCHANGED event
  BY <1>2 DEF PayOrder, PayLookup, PayLockOrder, PayConfirm, PayRefused, PayClearHolds,
              CancelOrder, CancelLockOrder, CancelCommit, CancelClearHolds, OrderNotFound
<1>3. ASSUME NEW r \in Reqs, Failure(r) \/ Crash(r) PROVE UNCHANGED event
  BY <1>3 DEF Failure, GateError, HoldFailed, BookingDBError, OrderDBError, Crash
<1>4. ASSUME NEW w \in Workers, Worker(w) \/ ExpireFail(w) PROVE UNCHANGED event
  BY <1>4 DEF Worker, ExpireScan, ExpireLock, ExpireCommit, ExpireFail
<1>5. CASE Tick
  BY <1>5 DEF Tick
<1>6. ASSUME NEW f \in Events, PatchEvent(f) PROVE event'[e].opensIn = 0
  BY <1>6 DEF PatchEvent, NoPostponing
<1>7. CASE LoseHold \/ Quiet \/ UNCHANGED vars
  BY <1>7 DEF LoseHold, Quiet, vars
<1> QED
  BY <1>1, <1>2, <1>3, <1>4, <1>5, <1>6, <1>7 DEF Next, Handler

\* The gate is passed only by an event that has opened, and an order is of a booking
\* that has passed it.
LEMMA OnTimeStep ==
  ASSUME IInv, IInv', NoPostponing, OnTime, [Next]_vars PROVE OnTime'
<1> USE DEF IInv
<1>a. UNCHANGED call
  BY StoreMoves
<1> SUFFICES ASSUME NEW r \in Reqs,
                    (call[r].op = "book" /\ pc'[r] \in PastGate) \/ status'[r] # "NONE"
             PROVE  event'[call[r].event].opensIn = 0
  BY <1>a DEF OnTime
<1>1. call[r].op = "book"
  BY <1>a DEF Stages, Born
<1>2. call[r].event \in Events
  BY <1>1, CallFields DEF BookCall
<1>3. pc[r] \in PastGate \/ status[r] # "NONE" \/ (BookGate(r) /\ pc'[r] = "hold")
  <2>1. CASE status'[r] # "NONE"
    <3>1. status[r] # "NONE" \/ CommitBooking(r)
      BY <2>1, OrderBorn
    <3> QED
      BY <3>1 DEF CommitBooking, PastGate
  <2>2. CASE pc'[r] \in PastGate
    <3>1. pc[r] \in PastGate \/ BookGate(r)
      BY <2>2, RequestMoves
    <3>2. BookGate(r) => pc'[r] \in {"done", "hold"}
      BY DEF BookGate, Goto, Leave, Answer, TypeOK
    <3> QED
      BY <2>2, <3>1, <3>2 DEF PastGate
  <2> QED
    BY <2>1, <2>2
<1>4. event[call[r].event].opensIn = 0
  BY <1>1, <1>3 DEF OnTime, BookGate, OnSale, Answer, Leave, TypeOK
<1> QED
  BY <1>2, <1>4, StaysOpen

\* Unless the opening of a sale under way is moved, no order is made before it, whatever
\* came between the gate and the commit of its booking (api/handlers.go:219-224).
THEOREM NeverEarly == ASSUME NoPostponing PROVE Spec => []NoEarlyOrder
<1>1. Init => OnTime
  BY DEF Init, OnTime, PastGate
<1>2. IInv /\ IInv' /\ OnTime /\ [Next]_vars => OnTime'
  BY OnTimeStep
<1>3. OnTime => NoEarlyOrder
  BY DEF OnTime, NoEarlyOrder, Orders
<1> QED
  BY <1>1, <1>2, <1>3, Inductive, PTL DEF Spec
-----------------------------------------------------------------------------
(* The cap on a user's unpaid seats *)

\* The user's bookings between the count of what is unpaid and the end of the insert.
Counted(u) == {r \in Reqs : call[r].op = "book" /\ call[r].user = u
                            /\ pc[r] \in {"begin", "items"}}

\* No two of them are there at once.
OneAtATime(u) == \A q, r \in Counted(u) : q = r

\* The cap is kept, with what was counted for a booking under way.
CapKept(u) ==
  /\ IsFiniteSet(Unpaid(u)) /\ Cardinality(Unpaid(u)) <= MaxHeld
  /\ \A r \in Counted(u) : Cardinality(Unpaid(u)) + call[r].len <= MaxHeld

\* A seat becomes a user's unpaid one only by the commit of a booking that asked for it:
\* no deadline is put off and no order that has ended comes back.
LEMMA UnpaidGrows ==
  ASSUME IInv, IInv', [Next]_vars, NEW u, NEW o \in Reqs, NEW s \in Seats,
         <<o, s>> \in Unpaid(u)', <<o, s>> \notin Unpaid(u)
  PROVE  CommitBooking(o) /\ call[o].user = u /\ s \in call[o].seats
<1> USE DEF IInv
<1>1. UNCHANGED call
  BY StoreMoves
<1>2. /\ status'[o] = "PENDING" /\ left'[o] > 0 /\ call[o].user = u /\ s \in items'[o]
  BY <1>1 DEF Unpaid
<1>3. s \in call[o].seats
  BY <1>1, <1>2 DEF Whole
<1>4. SUFFICES ASSUME ~CommitBooking(o) PROVE FALSE
  BY <1>2, <1>3
<1>5. status[o] # "NONE"
  BY <1>2, <1>4, OrderBorn
<1>6. status[o] = "PENDING"
  <2>1. status[o] # "PAID"
    BY <1>2, SettledStays DEF Paid
  <2>2. status[o] \notin {"EXPIRED", "CANCELLED"}
    <3>1. SUFFICES ASSUME Unpayable(o) PROVE FALSE
      BY DEF Unpayable
    <3>2. Unpayable(o)'
      BY <3>1, SettledStays
    <3>3. left'[o] \in Int
      BY DEF TypeOK
    <3> QED
      BY <1>2, <3>2, <3>3 DEF Unpayable
  <2> QED
    BY <1>5, <2>1, <2>2 DEF TypeOK, OrderStatus
<1>7. left[o] > 0
  <2>1. left'[o] <= left[o]
    BY <1>5, ConfirmMoves
  <2> QED
    BY <1>2, <2>1 DEF TypeOK
<1>8. s \in items[o]
  BY <1>3, <1>6 DEF Whole
<1> QED
  BY <1>2, <1>6, <1>7, <1>8 DEF Unpaid

\* A commit adds no more than its booking was counted for, and leaves none under way.
LEMMA CapAtCommit ==
  ASSUME IInv, IInv', NEW u, OneAtATime(u), CapKept(u), [Next]_vars,
         NEW r \in Reqs, CommitBooking(r), call[r].user = u
  PROVE  CapKept(u)'
<1> USE DEF IInv
<1>1. UNCHANGED call /\ pc[r] = "items"
  BY StoreMoves DEF CommitBooking
<1>2. call[r].op = "book" /\ call[r] \in BookCall
  BY <1>1, CallFields DEF StepsMatch, StepsOf
<1>3. r \in Counted(u)
  BY <1>1, <1>2 DEF Counted
<1>4. \A o \in Reqs : o # r => ~CommitBooking(o)
  BY DEF CommitBooking, Answer, Refuse, Leave, TypeOK
<1>5. Unpaid(u)' \subseteq Unpaid(u) \cup ({r} \X call[r].seats)
  <2>1. ASSUME NEW x \in Unpaid(u)' PROVE x \in Unpaid(u) \cup ({r} \X call[r].seats)
    <3>1. PICK o \in Reqs, s \in Seats : x = <<o, s>>
      BY <2>1 DEF Unpaid
    <3>2. CASE x \in Unpaid(u)
      BY <3>2
    <3>3. CASE x \notin Unpaid(u)
      <4>1. CommitBooking(o) /\ s \in call[o].seats
        BY <2>1, <3>1, <3>3, UnpaidGrows
      <4>2. o = r
        BY <1>4, <4>1
      <4> QED
        BY <3>1, <4>1, <4>2
    <3> QED
      BY <3>2, <3>3
  <2> QED
    BY <2>1
<1>6. /\ IsFiniteSet({r} \X call[r].seats)
      /\ Cardinality({r} \X call[r].seats) = Cardinality(call[r].seats)
  <2>1. IsFiniteSet(call[r].seats)
    BY <1>2, FS_Subset DEF BookCall
  <2>2. IsFiniteSet({r}) /\ Cardinality({r}) = 1
    BY FS_Singleton
  <2>3. Cardinality(call[r].seats) \in Nat
    BY <2>1, FS_CardinalityType
  <2>4. /\ IsFiniteSet({r} \X call[r].seats)
        /\ Cardinality({r} \X call[r].seats) = Cardinality({r}) * Cardinality(call[r].seats)
    BY <2>1, <2>2, FS_Product
  <2>5. 1 * Cardinality(call[r].seats) = Cardinality(call[r].seats)
    BY <2>3
  <2> QED
    BY <2>2, <2>4, <2>5
<1>7. IsFiniteSet(Unpaid(u)') /\ Cardinality(Unpaid(u)') <= MaxHeld
  <2> DEFINE U == Unpaid(u)  A == {r} \X call[r].seats  V == Unpaid(u)'
  <2>1. /\ IsFiniteSet(U) /\ IsFiniteSet(A) /\ V \subseteq U \cup A
        /\ Cardinality(A) <= call[r].len /\ Cardinality(U) + call[r].len <= MaxHeld
        /\ call[r].len \in Nat
    BY <1>2, <1>3, <1>5, <1>6 DEF CapKept, BookCall
  <2> HIDE DEF U, A, V
  <2>2. IsFiniteSet(U \cup A) /\ IsFiniteSet(U \cap A)
        /\ Cardinality(U \cup A) = Cardinality(U) + Cardinality(A) - Cardinality(U \cap A)
    BY <2>1, FS_Union, FS_Intersection
  <2>3. IsFiniteSet(V) /\ Cardinality(V) <= Cardinality(U \cup A)
    BY <2>1, <2>2, FS_Subset
  <2>4. /\ Cardinality(U) \in Nat /\ Cardinality(A) \in Nat /\ Cardinality(U \cap A) \in Nat
        /\ Cardinality(V) \in Nat
    BY <2>1, <2>2, <2>3, FS_CardinalityType
  <2>5. Cardinality(V) <= MaxHeld
    BY <2>1, <2>2, <2>3, <2>4
  <2> QED
    BY <2>3, <2>5 DEF V
<1>8. Counted(u)' = {}
  <2> SUFFICES ASSUME NEW q \in Counted(u)' PROVE FALSE
    OBVIOUS
  <2>1. q # r /\ pc'[q] = pc[q]
    BY DEF Counted, CommitBooking, Answer, Refuse, Leave, TypeOK
  <2>2. q \in Counted(u)
    BY <1>1, <2>1 DEF Counted
  <2> QED
    BY <1>3, <2>1, <2>2 DEF OneAtATime
<1> QED
  BY <1>7, <1>8 DEF CapKept

\* Any other step adds no seat, and a booking goes on only when the count admits it.
LEMMA CapElsewhere ==
  ASSUME IInv, IInv', NEW u, CapKept(u), [Next]_vars,
         \A r \in Reqs : call[r].user = u => ~CommitBooking(r)
  PROVE  CapKept(u)'
<1> USE DEF IInv
<1>1. UNCHANGED call
  BY StoreMoves
<1>2. Unpaid(u)' \subseteq Unpaid(u)
  <2> SUFFICES ASSUME NEW x \in Unpaid(u)' PROVE x \in Unpaid(u)
    OBVIOUS
  <2>1. PICK o \in Reqs, s \in Seats : x = <<o, s>>
    BY DEF Unpaid
  <2> QED
    BY <2>1, UnpaidGrows
<1>3. /\ IsFiniteSet(Unpaid(u)') /\ Cardinality(Unpaid(u)') <= Cardinality(Unpaid(u))
      /\ Cardinality(Unpaid(u)) \in Nat /\ Cardinality(Unpaid(u)') \in Nat
  BY <1>2, FS_Subset, FS_CardinalityType DEF CapKept
<1>4. ASSUME NEW r \in Counted(u)' PROVE Cardinality(Unpaid(u)) + call[r].len <= MaxHeld
  <2>1. call[r].op = "book" /\ call[r].user = u /\ r \in Reqs /\ pc'[r] \in {"begin", "items"}
    BY <1>1 DEF Counted
  <2>2. pc[r] \in {"begin", "items"} \/ (CheckCap(r) /\ pc'[r] = "begin")
    BY <2>1, RequestMoves DEF BeginBooking
  <2>3. CASE pc[r] \in {"begin", "items"}
    BY <2>1, <2>3 DEF CapKept, Counted
  <2>4. CASE CheckCap(r) /\ pc'[r] = "begin"
    BY <2>1, <2>4 DEF CheckCap, Refuse, Leave, TypeOK
  <2> QED
    BY <2>2, <2>3, <2>4
<1>5. \A r \in Counted(u)' : call[r].len \in Int
  BY <1>1, CallFields DEF Counted, BookCall
<1> QED
  BY <1>1, <1>3, <1>4, <1>5 DEF CapKept

\* As long as a user's bookings do not overlap between the count and the commit, the
\* user never has more unpaid seats than the cap, whatever else goes on: the race that
\* api/handlers.go:266-269 accepts is the only way past it.
THEOREM CapHolds ==
  ASSUME NEW u
  PROVE  Spec /\ []OneAtATime(u) => [](Cardinality(Unpaid(u)) <= MaxHeld)
<1>1. Init => CapKept(u)
  <2> SUFFICES ASSUME Init PROVE CapKept(u)
    OBVIOUS
  <2>1. Unpaid(u) = {} /\ Counted(u) = {}
    BY DEF Init, Unpaid, Counted
  <2>2. IsFiniteSet(Unpaid(u)) /\ Cardinality(Unpaid(u)) = 0
    BY <2>1, FS_EmptySet
  <2> QED
    BY <2>1, <2>2 DEF CapKept
<1>2. IInv /\ IInv' /\ OneAtATime(u) /\ CapKept(u) /\ [Next]_vars => CapKept(u)'
  <2> SUFFICES ASSUME IInv, IInv', OneAtATime(u), CapKept(u), [Next]_vars
               PROVE  CapKept(u)'
    OBVIOUS
  <2>1. CASE \E r \in Reqs : CommitBooking(r) /\ call[r].user = u
    BY <2>1, CapAtCommit
  <2>2. CASE ~\E r \in Reqs : CommitBooking(r) /\ call[r].user = u
    BY <2>2, CapElsewhere
  <2> QED
    BY <2>1, <2>2
<1>3. CapKept(u) => Cardinality(Unpaid(u)) <= MaxHeld
  BY DEF CapKept
<1> QED
  BY <1>1, <1>2, <1>3, Inductive, PTL DEF Spec

-----------------------------------------------------------------------------
(* Bookings that would wait for each other *)

\* The rows a booking inserts are seats of its event, and so are an order's.
RowsInEvent ==
  /\ \A r \in Reqs : pc[r] = "items" => \A s \in rows[r] : EventOf[s] = call[r].event
  /\ \A o \in Orders : \A s \in items[o] : EventOf[s] = call[o].event

\* An order's seats are what its booking inserted, and that was read for its event.
LEMMA RowsStep ==
  ASSUME IInv, RowsInEvent, [Next]_vars PROVE RowsInEvent'
<1> USE DEF IInv
<1>a. UNCHANGED call
  BY StoreMoves
<1>1. ASSUME NEW r \in Reqs, pc'[r] = "items", NEW s \in rows'[r]
      PROVE  EventOf[s] = call[r].event
  <2>1. CASE BeginBooking(r)
    BY <2>1, <1>1 DEF BeginBooking, Candidates, TypeOK
  <2>2. CASE pc[r] = "items" /\ rows'[r] = rows[r]
    BY <2>2, <1>1 DEF RowsInEvent
  <2> QED
    BY <1>1, <2>1, <2>2, RequestMoves
<1>2. ASSUME NEW o \in Orders', NEW s \in items'[o] PROVE EventOf[s] = call[o].event
  <2>o. o \in Reqs
    BY <1>2 DEF Orders
  <2>k. s \in items[o] => EventOf[s] = call[o].event
    BY <2>o DEF RowsInEvent, Orders, Stages, Dropped
  <2>1. CASE UNCHANGED items
    BY <1>2, <2>k, <2>1
  <2>2. ASSUME NEW r \in Reqs, InsertItem(r) PROVE UNCHANGED items
    BY <2>2 DEF InsertItem, database
  <2>3. ASSUME NEW r \in Reqs, CommitBooking(r) PROVE EventOf[s] = call[o].event
    <3>1. pc[r] = "items" /\ claim[r] = rows[r] /\ items' = [items EXCEPT ![r] = claim[r]]
      BY <2>3 DEF CommitBooking
    <3> QED
      BY <1>2, <2>o, <2>k, <3>1 DEF RowsInEvent, TypeOK
  <2>4. ASSUME NEW r \in Reqs, PayConfirm(r) PROVE UNCHANGED items
    BY <2>4 DEF PayConfirm
  <2>5. ASSUME NEW r \in Reqs, CancelCommit(r) PROVE EventOf[s] = call[o].event
    <3>1. items' = [items EXCEPT ![call[r].order] = {}]
      BY <2>5 DEF CancelCommit
    <3> QED
      BY <1>2, <2>o, <2>k, <3>1 DEF TypeOK
  <2>6. ASSUME NEW w \in Workers, ExpireCommit(w) PROVE EventOf[s] = call[o].event
    <3>1. items' = [x \in Reqs |-> IF x \in Expiring(w) THEN {} ELSE items[x]]
      BY <2>6 DEF ExpireCommit
    <3> QED
      BY <1>2, <2>o, <2>k, <3>1
  <2> QED
    BY <2>1, <2>2, <2>3, <2>4, <2>5, <2>6, StoreMoves
<1> QED
  BY <1>a, <1>1, <1>2 DEF RowsInEvent

\* No row is read and no order made before the first request.
LEMMA RowsInit == Init => RowsInEvent
  BY DEF Init, RowsInEvent, Orders

\* Every booking inside its insert still has the hold of every seat it asked for.
HoldsOutlast == \A r \in Reqs : pc[r] = "items" => \A k \in HoldKeys(r) : hold[k].by = r

\* A booking that waits for a row of another has asked for a seat that the other has asked
\* for, and one key holds it for both.
LEMMA WaitersOverlap ==
  ASSUME IInv, RowsInEvent, NEW q \in Reqs, NEW p \in Reqs,
         pc[q] = "items", pc[p] = "items", WaitsFor(q, p)
  PROVE  p # q /\ HoldKeys(q) \cap HoldKeys(p) # {}
<1> USE DEF IInv
<1>1. PICK s : s \in rows[q] /\ s \in claim[p]
  BY DEF WaitsFor
<1>2. s \in rows[p] /\ s \in call[p].seats /\ s \in call[q].seats
  BY <1>1 DEF Stages, Claims
<1>3. call[q].event = call[p].event
  BY <1>1, <1>2 DEF RowsInEvent
<1>4. <<call[q].event, s>> \in HoldKeys(q) /\ <<call[p].event, s>> \in HoldKeys(p)
  BY <1>2 DEF HoldKeys
<1> QED
  BY <1>3, <1>4 DEF WaitsFor

\* "Two overlapping orders can never deadlock" (api/handlers.go:213-214) is true of
\* bookings whose holds outlast them, for the holds let one of two that overlap in: only a
\* booking whose hold has lapsed, was lost or deleted can be in a cycle of waits.
THEOREM DeadlockNeedsLostHold == Spec => [](HoldsOutlast => NoDeadlock)
<1>1. IInv /\ RowsInEvent /\ HoldsOutlast => NoDeadlock
  <2> SUFFICES ASSUME IInv, RowsInEvent, HoldsOutlast, NEW r \in Reqs, Deadlocked(r)
               PROVE  FALSE
    BY DEF NoDeadlock
  <2>1. PICK p \in Reqs : pc[p] = "items" /\ pc[r] = "items" /\ WaitsFor(r, p)
    BY DEF Deadlocked
  <2>2. PICK k : k \in HoldKeys(r) /\ k \in HoldKeys(p) /\ p # r
    BY <2>1, WaitersOverlap
  <2> QED
    BY <2>1, <2>2 DEF HoldsOutlast
<1>2. IInv /\ RowsInEvent /\ [Next]_vars => RowsInEvent'
  BY RowsStep
<1> QED
  BY <1>1, <1>2, RowsInit, Inductive, PTL DEF Spec

-----------------------------------------------------------------------------
(* What a booking is told *)

Underway == {"new", "hold", "cap", "begin", "items"}

\* A booking is told that its order was created only when it was; an order stands behind no
\* other answer but db_error, and behind that only if the reply to a commit was lost.
BookingTold ==
  \A r \in Reqs : call[r].op = "book" =>
    /\ resp[r] = "created" => status[r] # "NONE"
    /\ status[r] # "NONE" => resp[r] \in {"created", "db_error"}
    /\ status[r] # "NONE" /\ "reply_lost" \notin Faults => resp[r] = "created"

\* A booking under way has decided on no answer.
Undecided == \A r \in Reqs : call[r].op = "book" /\ pc[r] \in Underway => resp[r] = None

\* A request decides on its answer as it leaves the work it has begun.
LEMMA DecidedOnce ==
  ASSUME IInv, [Next]_vars, NEW r \in Reqs, call[r].op = "book"
  PROVE  /\ resp'[r] # resp[r] => pc[r] \in Underway
         /\ pc'[r] \in Underway => pc[r] \in Underway /\ resp'[r] = resp[r]
<1> USE DEF IInv, TypeOK, Underway, database, locals
<1> DEFINE Goal == /\ resp'[r] # resp[r] => pc[r] \in Underway
                   /\ pc'[r] \in Underway => pc[r] \in Underway /\ resp'[r] = resp[r]
<1>1. ASSUME NEW q \in Reqs, CreateBooking(q) PROVE Goal
  <2>1. CASE BookGate(q) \/ HoldSeats(q) \/ HoldRefused(q) \/ CheckCap(q)
    BY <2>1 DEF BookGate, HoldSeats, HoldRefused, CheckCap, Goto, Leave, Answer, Refuse
  <2>2. CASE BeginBooking(q) \/ InsertItem(q)
    BY <2>2 DEF BeginBooking, InsertItem, Goto
  <2>3. CASE UniqueViolation(q) \/ DeadlockVictim(q) \/ RowsMismatch(q)
    BY <2>3 DEF UniqueViolation, DeadlockVictim, RowsMismatch, Leave, Refuse
  <2>4. CASE CommitBooking(q)
    BY <2>4 DEF CommitBooking, Leave, Answer, Refuse
  <2>5. CASE ReleaseHolds(q) \/ RollbackBooking(q)
    BY <2>5 DEF ReleaseHolds, RollbackBooking, Goto
  <2> QED
    BY <1>1, <2>1, <2>2, <2>3, <2>4, <2>5 DEF CreateBooking
<1>2. ASSUME NEW q \in Reqs, PayOrder(q) \/ CancelOrder(q) \/ OrderNotFound(q) PROVE Goal
  <2>1. pc[q] \in {"lock", "confirm", "clear", "cancel", "uncover"} \/ call[q].op \in {"pay", "cancel"}
    BY <1>2 DEF PayOrder, PayLookup, PayLockOrder, PayConfirm, PayRefused, PayClearHolds,
                CancelOrder, CancelLockOrder, CancelCommit, CancelClearHolds, OrderNotFound
  <2>2. q # r
    BY <2>1 DEF StepsMatch, StepsOf
  <2> QED
    BY <1>2, <2>2 DEF PayOrder, PayLookup, PayLockOrder, PayConfirm, PayRefused,
              PayClearHolds, CancelOrder, CancelLockOrder, CancelCommit, CancelClearHolds,
              OrderNotFound, Goto, Leave, Answer
<1>3. ASSUME NEW q \in Reqs, GateError(q) \/ HoldFailed(q) \/ BookingDBError(q) \/ Crash(q)
      PROVE  Goal
  BY <1>3 DEF GateError, HoldFailed, BookingDBError, Crash, Goto, Leave, Answer, Refuse
<1>4. ASSUME NEW q \in Reqs, OrderDBError(q) PROVE Goal
  <2>1. q # r
    BY <1>4 DEF OrderDBError, StepsMatch, StepsOf
  <2> QED
    BY <1>4, <2>1 DEF OrderDBError, Leave, Answer
<1>5. ASSUME NEW w \in Workers, Worker(w) \/ ExpireFail(w) PROVE Goal
  BY <1>5 DEF Worker, ExpireScan, ExpireLock, ExpireCommit, ExpireFail
<1>6. CASE Tick \/ LoseHold \/ Quiet \/ UNCHANGED vars \/ \E e \in Events : PatchEvent(e)
  BY <1>6 DEF Tick, LoseHold, Quiet, vars, PatchEvent
<1> QED
  BY <1>1, <1>2, <1>3, <1>4, <1>5, <1>6 DEF Next, Handler, Failure

\* The answer of a booking stays true of its order, which only its commit makes.
LEMMA ToldStep ==
  ASSUME IInv, BookingTold, Undecided, [Next]_vars PROVE BookingTold' /\ Undecided'
<1> USE DEF IInv
<1>a. UNCHANGED call
  BY StoreMoves
<1>1. Undecided'
  BY <1>a, DecidedOnce DEF Undecided
<1> SUFFICES ASSUME NEW r \in Reqs, call[r].op = "book"
             PROVE  /\ resp'[r] = "created" => status'[r] # "NONE"
                    /\ status'[r] # "NONE" => resp'[r] \in {"created", "db_error"}
                    /\ status'[r] # "NONE" /\ "reply_lost" \notin Faults => resp'[r] = "created"
  BY <1>a, <1>1 DEF BookingTold
<1>2. CASE CommitBooking(r)
  BY <1>2 DEF CommitBooking, Answer, Refuse, Leave, TypeOK
<1>3. CASE ~CommitBooking(r)
  <2>1. resp'[r] = "created" => resp[r] = "created"
    BY <1>3, RequestMoves
  <2>2. status'[r] # "NONE" <=> status[r] # "NONE"
    BY <1>3, OrderBorn
  <2>3. status[r] # "NONE" => resp'[r] = resp[r]
    BY DecidedOnce DEF Stages, Born, Underway
  <2> QED
    BY <2>1, <2>2, <2>3 DEF BookingTold
<1> QED
  BY <1>2, <1>3

\* A booking that is refused, whatever came between its steps, leaves no order; only a
\* db_error may hide one, whose commit was not acknowledged (api/handlers.go:345-349).
THEOREM BookingAnswers == Spec => []BookingTold
<1>1. Init => BookingTold /\ Undecided
  BY DEF Init, BookingTold, Undecided, Code
<1>2. IInv /\ BookingTold /\ Undecided /\ [Next]_vars => BookingTold' /\ Undecided'
  BY ToldStep
<1> QED
  BY <1>1, <1>2, Inductive, PTL DEF Spec

-----------------------------------------------------------------------------
(* What a cancellation is told *)

Ended == {"PAID", "CANCELLED", "EXPIRED"}

\* Who is told that the order is cancelled has a CANCELLED order, and who is told that it
\* cannot be cancelled has one that has ended: neither changes any more.
CancelTold ==
  \A r \in Reqs : call[r].op = "cancel" =>
    /\ resp[r] = "cancelled" => status[call[r].order] = "CANCELLED"
    /\ resp[r] = "not_cancellable" => status[call[r].order] \in Ended
    /\ pc[r] = "done" => resp[r] \in {"cancelled", "not_cancellable", "order_not_found", "db_error"}

\* A request has no answer before its handler begins, and a cancellation that has committed
\* has it.
NotYetTold ==
  \A r \in Reqs : /\ pc[r] = "new" => resp[r] = None
                  /\ pc[r] = "uncover" => resp[r] = "cancelled"

\* How a cancellation comes to its answer.
LEMMA CancelMoves ==
  ASSUME IInv, [Next]_vars, NEW r \in Reqs, call[r].op = "cancel"
  PROVE  \/ pc'[r] = pc[r] /\ resp'[r] = resp[r]
         \/ pc'[r] \in {"cancel", "crashed"} /\ resp'[r] = resp[r]
         \/ CancelClearHolds(r) /\ pc[r] = "uncover" /\ pc'[r] = "done" /\ resp'[r] = resp[r]
         \/ CancelCommit(r) /\ pc'[r] = "uncover" /\ resp'[r] = "cancelled"
         \/ OrderNotFound(r) /\ pc'[r] = "done" /\ resp'[r] = "order_not_found"
         \/ pc'[r] = "done" /\ resp'[r] = "db_error"
         \/ /\ pc'[r] = "done" /\ resp'[r] = "not_cancellable"
            /\ UNCHANGED status /\ call[r].order \in Reqs
            /\ status[call[r].order] \in Ended
<1> USE DEF IInv, TypeOK
<1>o. call[r].order \in Reqs
  BY CallFields DEF CancelCall
<1> DEFINE Goal ==
      \/ pc'[r] = pc[r] /\ resp'[r] = resp[r]
      \/ pc'[r] \in {"cancel", "crashed"} /\ resp'[r] = resp[r]
      \/ CancelClearHolds(r) /\ pc[r] = "uncover" /\ pc'[r] = "done" /\ resp'[r] = resp[r]
      \/ CancelCommit(r) /\ pc'[r] = "uncover" /\ resp'[r] = "cancelled"
      \/ OrderNotFound(r) /\ pc'[r] = "done" /\ resp'[r] = "order_not_found"
      \/ pc'[r] = "done" /\ resp'[r] = "db_error"
      \/ /\ pc'[r] = "done" /\ resp'[r] = "not_cancellable"
         /\ UNCHANGED status /\ call[r].order \in Reqs
         /\ status[call[r].order] \in Ended
<1>s. pc[r] \in {"new", "cancel", "uncover", "done", "crashed"}
  BY DEF StepsMatch, StepsOf
<1>1. ASSUME NEW q \in Reqs, CreateBooking(q) PROVE Goal
  <2>1. q # r
    BY <1>1, <1>s DEF CreateBooking, BookGate, HoldSeats, HoldRefused, CheckCap, BeginBooking,
              InsertItem, UniqueViolation, DeadlockVictim, RowsMismatch, CommitBooking,
              ReleaseHolds, RollbackBooking
  <2>2. CASE BookGate(q) \/ HoldSeats(q) \/ HoldRefused(q) \/ CheckCap(q)
    BY <2>1, <2>2 DEF BookGate, HoldSeats, HoldRefused, CheckCap, Goto, Leave, Answer, Refuse
  <2>3. CASE BeginBooking(q) \/ InsertItem(q) \/ CommitBooking(q)
    BY <2>1, <2>3 DEF BeginBooking, InsertItem, CommitBooking, Goto, Leave, Answer, Refuse
  <2>4. CASE UniqueViolation(q) \/ DeadlockVictim(q) \/ RowsMismatch(q)
    BY <2>1, <2>4 DEF UniqueViolation, DeadlockVictim, RowsMismatch, Leave, Refuse
  <2>5. CASE ReleaseHolds(q) \/ RollbackBooking(q)
    BY <2>1, <2>5 DEF ReleaseHolds, RollbackBooking, Goto
  <2> QED
    BY <1>1, <2>2, <2>3, <2>4, <2>5 DEF CreateBooking
<1>2. ASSUME NEW q \in Reqs, PayOrder(q) PROVE Goal
  <2>1. q # r
    BY <1>2, <1>s DEF PayOrder, PayLookup, PayLockOrder, PayConfirm, PayRefused, PayClearHolds
  <2> QED
    BY <1>2, <2>1 DEF PayOrder, PayLookup, PayLockOrder, PayConfirm, PayRefused,
              PayClearHolds, Goto, Leave, Answer
<1>3. ASSUME NEW q \in Reqs, CancelOrder(q) \/ OrderNotFound(q), q # r PROVE Goal
  BY <1>3 DEF CancelOrder, CancelLockOrder, CancelCommit, CancelClearHolds, OrderNotFound,
              Goto, Leave, Answer
<1>4. CASE CancelLockOrder(r)
  <2>1. CASE Answer(r, "not_cancellable") /\ ~Cancellable(call[r].order)
    <3>1. status[call[r].order] \in Ended
      BY <1>4, <1>o, <2>1 DEF CancelLockOrder, Found, Cancellable, Ended, OrderStatus
    <3> QED
      BY <1>4, <1>o, <2>1, <3>1 DEF CancelLockOrder, Answer, Leave, database
  <2>2. CASE Goto(r, "cancel")
    BY <2>2 DEF Goto
  <2> QED
    BY <1>4, <2>1, <2>2 DEF CancelLockOrder
<1>5. CASE CancelCommit(r)
  <2>1. \/ pc' = [pc EXCEPT ![r] = "uncover"] /\ resp' = [resp EXCEPT ![r] = "cancelled"]
        \/ pc' = [pc EXCEPT ![r] = "done"] /\ resp' = [resp EXCEPT ![r] = "db_error"]
    BY <1>5 DEF CancelCommit, Answer, Leave
  <2> QED
    BY <1>5, <2>1
<1>6. CASE CancelClearHolds(r)
  <2>1. pc[r] = "uncover" /\ pc' = [pc EXCEPT ![r] = "done"] /\ UNCHANGED resp
    BY <1>6 DEF CancelClearHolds, Goto
  <2> QED
    BY <1>6, <2>1
<1>7. CASE OrderNotFound(r)
  <2>1. pc' = [pc EXCEPT ![r] = "done"] /\ resp' = [resp EXCEPT ![r] = "order_not_found"]
    BY <1>7 DEF OrderNotFound, Answer, Leave
  <2> QED
    BY <1>7, <2>1
<1>8. ASSUME NEW q \in Reqs, Failure(q) PROVE Goal
  <2>1. CASE q # r
    BY <1>8, <2>1 DEF Failure, GateError, HoldFailed, BookingDBError, OrderDBError,
                Goto, Leave, Answer, Refuse
  <2>2. CASE q = r
    <3>1. OrderDBError(r)
      BY <1>8, <1>s, <2>2 DEF Failure, GateError, HoldFailed, BookingDBError
    <3>2. Answer(r, "db_error")
      BY <3>1, <1>s DEF OrderDBError
    <3> QED
      BY <3>2 DEF Answer, Leave
  <2> QED
    BY <2>1, <2>2
<1>9. ASSUME NEW q \in Reqs, Crash(q) PROVE Goal
  BY <1>9 DEF Crash, Goto
<1>10. ASSUME NEW w \in Workers, Worker(w) \/ ExpireFail(w) PROVE Goal
  BY <1>10 DEF Worker, ExpireScan, ExpireLock, ExpireCommit, ExpireFail
<1>11. CASE Tick \/ LoseHold \/ Quiet \/ UNCHANGED vars \/ \E e \in Events : PatchEvent(e)
  BY <1>11 DEF Tick, LoseHold, Quiet, vars, PatchEvent
<1> QED
  BY <1>1, <1>2, <1>3, <1>4, <1>5, <1>6, <1>7, <1>8, <1>9, <1>10, <1>11
  DEF Next, Handler, CancelOrder

\* No answer is decided on for a handler that has not begun, and only the commit of a
\* cancellation leads to its last step.
LEMMA NotYetToldStep ==
  ASSUME IInv, NotYetTold, [Next]_vars PROVE NotYetTold'
<1> USE DEF IInv
<1> SUFFICES ASSUME NEW r \in Reqs
             PROVE  /\ pc'[r] = "new" => resp'[r] = None
                    /\ pc'[r] = "uncover" => resp'[r] = "cancelled"
  BY DEF NotYetTold
<1>1. pc'[r] = "new" => pc[r] = "new" /\ resp'[r] = resp[r]
  BY RequestMoves
<1>2. pc'[r] = "uncover" => call[r].op = "cancel"
  <2>1. UNCHANGED call /\ StepsMatch'
    BY StoreMoves, TypeStep
  <2> QED
    BY <2>1, CallFields DEF StepsMatch, StepsOf
<1>3. pc'[r] = "uncover" => resp'[r] = "cancelled"
  BY <1>2, CancelMoves DEF NotYetTold
<1> QED
  BY <1>1, <1>3 DEF NotYetTold

\* The answer of a cancellation stays true of its order, which ends only once.
LEMMA CancelToldStep ==
  ASSUME IInv, NotYetTold, CancelTold, [Next]_vars PROVE CancelTold'
<1> USE DEF IInv
<1>a. UNCHANGED call
  BY StoreMoves
<1> SUFFICES ASSUME NEW r \in Reqs, call[r].op = "cancel"
             PROVE  /\ resp'[r] = "cancelled" => status'[call[r].order] = "CANCELLED"
                    /\ resp'[r] = "not_cancellable" => status'[call[r].order] \in Ended
                    /\ pc'[r] = "done" => resp'[r] \in {"cancelled", "not_cancellable",
                                                        "order_not_found", "db_error"}
  BY <1>a DEF CancelTold
<1>o. call[r].order \in Reqs
  BY CallFields DEF CancelCall
<1>1. status[call[r].order] \in Ended => status'[call[r].order] = status[call[r].order]
  BY <1>o, OrderMoves DEF Ended
<1>2. CASE resp'[r] = resp[r]
  <2>1. pc'[r] = "done" => \/ pc[r] \in {"done", "uncover"}
                           \/ resp'[r] \in {"not_cancellable", "order_not_found", "db_error"}
    BY <1>2, CancelMoves
  <2> QED
    BY <1>1, <1>2, <2>1 DEF CancelTold, NotYetTold, Ended
<1>3. CASE CancelCommit(r)
  BY <1>o, <1>3, CancelMoves DEF CancelCommit, TypeOK, Answer, Leave
<1>4. CASE resp'[r] # resp[r] /\ ~CancelCommit(r)
  BY <1>4, CancelMoves
<1> QED
  BY <1>2, <1>3, <1>4

\* What cancellations have been told, in every state.
LEMMA CancelsTold == Spec => [](NotYetTold /\ CancelTold)
<1>1. Init => NotYetTold /\ CancelTold
  BY DEF Init, NotYetTold, CancelTold, Code
<1>2. IInv /\ NotYetTold /\ [Next]_vars => NotYetTold'
  BY NotYetToldStep
<1>3. IInv /\ NotYetTold /\ CancelTold /\ [Next]_vars => CancelTold'
  BY CancelToldStep
<1> QED
  BY <1>1, <1>2, <1>3, Inductive, PTL DEF Spec

\* Whatever comes between its steps, a cancellation is answered by what its order is from
\* then on: CANCELLED, or an end it already had (api/handlers.go:522-573).
THEOREM CancelAnswers == Spec => []CancelTold
  BY CancelsTold, PTL

-----------------------------------------------------------------------------
(* Holds and their reasons *)

Holding == {"cap", "begin", "items", "release"}

\* The order is unpaid, or about to be, or a payment or a cancellation of it is about to
\* delete its holds.
Reason(o) ==
  \/ pc[o] \in Holding
  \/ status[o] = "PENDING"
  \/ \E q \in Reqs : pc[q] \in {"clear", "uncover"} /\ call[q].order = o

\* No hold outlives what it was set for: none keeps a seat from sale for a booking that
\* was refused, or an order that has ended.
HoldsHaveReason == \A o \in Reqs, k \in DOMAIN hold : hold[k].by = o => Reason(o)

\* A booking sets the holds of what it asks for, and only those.
HoldsOwn == \A o \in Reqs, k \in DOMAIN hold :
              hold[k].by = o => call[o].op = "book" /\ k \in HoldKeys(o)

\* Who is about to delete the holds of an order deletes all of them.
Collected ==
  \A q \in Reqs :
    /\ pc[q] = "cancel" => rows[q] = items[call[q].order]
    /\ pc[q] = "uncover" => KeysOf(rows[q]) = HoldKeys(call[q].order)
    /\ pc[q] = "clear" => call[q].order \in Paid

\* The seats of an order that stands are those whose holds its booking set.
LEMMA OrderKeys ==
  ASSUME IInv, RowsInEvent, NEW o \in Reqs, status[o] \in {"PENDING", "PAID"}
  PROVE  KeysOf(items[o]) = HoldKeys(o)
<1>1. items[o] = call[o].seats
  BY DEF IInv, Whole
<1>2. \A s \in items[o] : EventOf[s] = call[o].event
  BY DEF RowsInEvent, Orders
<1> QED
  BY <1>1, <1>2 DEF KeysOf, HoldKeys

\* How requests come to their last steps and leave them.
LEMMA LastMoves ==
  ASSUME TypeOK, [Next]_vars, NEW r \in Reqs
  PROVE  /\ pc'[r] = "cancel" => (pc[r] = "cancel" /\ rows'[r] = rows[r]) \/ CancelLockOrder(r)
         /\ pc'[r] = "uncover" => (pc[r] = "uncover" /\ rows'[r] = rows[r]) \/ CancelCommit(r)
         /\ pc'[r] = "clear" => pc[r] = "clear" \/ PayConfirm(r)
         /\ pc[r] = "clear" => pc'[r] = "clear" \/ PayClearHolds(r) \/ Crash(r)
         /\ pc[r] = "uncover" => pc'[r] = "uncover" \/ CancelClearHolds(r) \/ Crash(r)
         /\ pc[r] \in Holding =>
              pc'[r] \in Holding \/ CommitBooking(r) \/ ReleaseHolds(r) \/ Crash(r)
<1> USE DEF TypeOK, Holding, database, locals
<1> DEFINE Goal ==
      /\ pc'[r] = "cancel" => (pc[r] = "cancel" /\ rows'[r] = rows[r]) \/ CancelLockOrder(r)
      /\ pc'[r] = "uncover" => (pc[r] = "uncover" /\ rows'[r] = rows[r]) \/ CancelCommit(r)
      /\ pc'[r] = "clear" => pc[r] = "clear" \/ PayConfirm(r)
      /\ pc[r] = "clear" => pc'[r] = "clear" \/ PayClearHolds(r) \/ Crash(r)
      /\ pc[r] = "uncover" => pc'[r] = "uncover" \/ CancelClearHolds(r) \/ Crash(r)
      /\ pc[r] \in Holding =>
           pc'[r] \in Holding \/ CommitBooking(r) \/ ReleaseHolds(r) \/ Crash(r)
<1>0. ASSUME NEW q \in Reqs, q # r, pc'[r] = pc[r], rows'[r] = rows[r] PROVE Goal
  BY <1>0
<1>1. ASSUME NEW q \in Reqs, CreateBooking(q) PROVE Goal
  <2>1. CASE BookGate(q) \/ HoldSeats(q) \/ HoldRefused(q) \/ CheckCap(q)
    BY <2>1 DEF BookGate, HoldSeats, HoldRefused, CheckCap, Goto, Leave, Answer, Refuse
  <2>2. CASE BeginBooking(q) \/ InsertItem(q)
    BY <2>2 DEF BeginBooking, InsertItem, Goto
  <2>3. CASE UniqueViolation(q) \/ DeadlockVictim(q) \/ RowsMismatch(q)
    BY <2>3 DEF UniqueViolation, DeadlockVictim, RowsMismatch, Leave, Refuse
  <2>4. CASE CommitBooking(q)
    <3>1. /\ pc[q] = "items" /\ UNCHANGED rows
          /\ \E label \in {"done", "release"} : pc' = [pc EXCEPT ![q] = label]
      BY <2>4 DEF CommitBooking, Leave, Answer, Refuse
    <3>2. CASE r = q
      BY <2>4, <3>1, <3>2
    <3>3. CASE r # q
      BY <3>1, <3>3
    <3> QED
      BY <3>2, <3>3
  <2>5. CASE ReleaseHolds(q)
    <3>1. /\ pc[q] = "release" /\ UNCHANGED rows
          /\ \E label \in {"done", "rollback"} : pc' = [pc EXCEPT ![q] = label]
      BY <2>5 DEF ReleaseHolds, Goto
    <3>2. CASE r = q
      BY <2>5, <3>1, <3>2
    <3>3. CASE r # q
      BY <3>1, <3>3
    <3> QED
      BY <3>2, <3>3
  <2>6. CASE RollbackBooking(q)
    BY <2>6 DEF RollbackBooking, Goto
  <2> QED
    BY <1>1, <2>1, <2>2, <2>3, <2>4, <2>5, <2>6 DEF CreateBooking
<1>2. ASSUME NEW q \in Reqs, PayOrder(q) \/ OrderNotFound(q) PROVE Goal
  <2>1. CASE PayLookup(q) \/ OrderNotFound(q)
    BY <2>1 DEF PayLookup, OrderNotFound, Goto, Leave, Answer
  <2>2. CASE PayLockOrder(q) \/ PayRefused(q)
    BY <2>2 DEF PayLockOrder, PayRefused, Goto, Leave, Answer
  <2>3. CASE PayConfirm(q)
    <3>1. /\ pc[q] = "confirm" /\ UNCHANGED rows
          /\ \E label \in {"clear", "done"} : pc' = [pc EXCEPT ![q] = label]
      BY <2>3 DEF PayConfirm, Leave, Answer
    <3>2. CASE r = q
      BY <2>3, <3>1, <3>2
    <3>3. CASE r # q
      BY <3>1, <3>3
    <3> QED
      BY <3>2, <3>3
  <2>4. CASE PayClearHolds(q)
    <3>1. pc[q] = "clear" /\ UNCHANGED rows /\ pc' = [pc EXCEPT ![q] = "done"]
      BY <2>4 DEF PayClearHolds, Goto
    <3> QED
      BY <2>4, <3>1
  <2> QED
    BY <1>2, <2>1, <2>2, <2>3, <2>4 DEF PayOrder
<1>3. ASSUME NEW q \in Reqs, CancelOrder(q) PROVE Goal
  <2>1. CASE CancelLockOrder(q)
    <3>1. /\ pc[q] = "new"
          /\ \/ pc' = [pc EXCEPT ![q] = "done"] /\ UNCHANGED rows
             \/ pc' = [pc EXCEPT ![q] = "cancel"] /\ \E S : rows' = [rows EXCEPT ![q] = S]
      BY <2>1 DEF CancelLockOrder, Goto, Leave, Answer
    <3>2. CASE r = q
      BY <2>1, <3>1, <3>2
    <3>3. CASE r # q
      BY <3>1, <3>3
    <3> QED
      BY <3>2, <3>3
  <2>2. CASE CancelCommit(q)
    <3>1. /\ pc[q] = "cancel" /\ UNCHANGED rows
          /\ \E label \in {"uncover", "done"} : pc' = [pc EXCEPT ![q] = label]
      BY <2>2 DEF CancelCommit, Leave, Answer
    <3>2. CASE r = q
      BY <2>2, <3>1, <3>2
    <3>3. CASE r # q
      BY <3>1, <3>3
    <3> QED
      BY <3>2, <3>3
  <2>3. CASE CancelClearHolds(q)
    <3>1. pc[q] = "uncover" /\ UNCHANGED rows /\ pc' = [pc EXCEPT ![q] = "done"]
      BY <2>3 DEF CancelClearHolds, Goto
    <3> QED
      BY <2>3, <3>1
  <2> QED
    BY <1>3, <2>1, <2>2, <2>3 DEF CancelOrder
<1>4. ASSUME NEW q \in Reqs, Failure(q) PROVE Goal
  BY <1>4 DEF Failure, GateError, HoldFailed, BookingDBError, OrderDBError,
              Goto, Leave, Answer, Refuse
<1>5. ASSUME NEW q \in Reqs, Crash(q) PROVE Goal
  <2>1. UNCHANGED rows /\ pc' = [pc EXCEPT ![q] = "crashed"]
    BY <1>5 DEF Crash, Goto
  <2> QED
    BY <1>5, <2>1
<1>6. ASSUME NEW w \in Workers, Worker(w) \/ ExpireFail(w) PROVE Goal
  BY <1>6 DEF Worker, ExpireScan, ExpireLock, ExpireCommit, ExpireFail
<1>7. CASE Tick \/ LoseHold \/ Quiet \/ UNCHANGED vars \/ \E e \in Events : PatchEvent(e)
  BY <1>7 DEF Tick, LoseHold, Quiet, vars, PatchEvent
<1> QED
  BY <1>1, <1>2, <1>3, <1>4, <1>5, <1>6, <1>7 DEF Next, Handler

\* A hold is what it was, a bit older, or was set by its booking in this step.
LEMMA HoldStays ==
  ASSUME TypeOK, [Next]_vars, NEW o \in Reqs, NEW k \in DOMAIN hold, hold'[k].by = o
  PROVE  hold[k].by = o \/ ((HoldSeats(o) \/ HoldFailed(o)) /\ k \in HoldKeys(o))
<1> USE DEF TypeOK
<1>0. k \in Events \X Seats /\ o # NoHold.by
  BY DEF NoHold
<1>1. CASE Steady
  BY <1>0, <1>1 DEF Steady
<1>2. ASSUME NEW r \in Reqs, HoldSeats(r) \/ HoldFailed(r)
      PROVE  hold[k].by = o \/ (o = r /\ k \in HoldKeys(r))
  <2>1. UNCHANGED hold \/ hold' = Held(r)
    BY <1>2 DEF HoldSeats, HoldFailed
  <2> QED
    BY <1>0, <2>1 DEF Held
<1>3. ASSUME NEW r \in Reqs, BeginBooking(r) \/ CommitBooking(r) PROVE UNCHANGED hold
  BY <1>3 DEF BeginBooking, CommitBooking
<1>4. ASSUME NEW w \in Workers, ExpireCommit(w) PROVE UNCHANGED hold
  BY <1>4 DEF ExpireCommit
<1>5. CASE Tick
  BY <1>0, <1>5 DEF Tick, Aged
<1> QED
  BY <1>1, <1>2, <1>3, <1>4, <1>5, HoldMoves

\* The items of an order under a row lock change only by what has the lock.
LEMMA LockedItems ==
  ASSUME IInv, [Next]_vars, NEW q \in Reqs, pc[q] = "cancel", ~CancelCommit(q)
  PROVE  items'[call[q].order] = items[call[q].order]
<1> USE DEF IInv, TypeOK
<1> DEFINE o == call[q].order
<1>1. o \in Reqs /\ status[o] = "PENDING" /\ lock[o] = q
  BY OrderToCommit DEF Locks, LockHeld
<1> HIDE DEF o
<1>2. ASSUME NEW r \in Reqs, InsertItem(r) \/ PayConfirm(r) PROVE UNCHANGED items
  BY <1>2 DEF InsertItem, PayConfirm, database
<1>3. ASSUME NEW r \in Reqs, CommitBooking(r) PROVE items'[o] = items[o]
  BY <1>1, <1>3 DEF CommitBooking, Stages, Born
<1>4. ASSUME NEW r \in Reqs, CancelCommit(r) PROVE items'[o] = items[o]
  BY <1>1, <1>4 DEF CancelCommit, Locks, LockHeld
<1>5. ASSUME NEW w \in Workers, ExpireCommit(w) PROVE items'[o] = items[o]
  BY <1>1, <1>5 DEF ExpireCommit, Expiring
<1> QED
  BY <1>2, <1>3, <1>4, <1>5, StoreMoves DEF o

\* The seats whose holds a cancellation deletes are those its order had, and a payment
\* deletes the holds of an order that stays PAID.
LEMMA CollectedStep ==
  ASSUME IInv, IInv', RowsInEvent, Collected, [Next]_vars PROVE Collected'
<1> USE DEF IInv
<1>a. UNCHANGED call
  BY StoreMoves
<1>1. ASSUME NEW q \in Reqs, pc'[q] = "cancel" PROVE rows'[q] = items'[call[q].order]
  <2>1. CASE CancelLockOrder(q)
    BY <1>1, <2>1 DEF CancelLockOrder, Answer, Leave, TypeOK, database
  <2>2. CASE pc[q] = "cancel" /\ rows'[q] = rows[q]
    <3>1. ~CancelCommit(q)
      BY <1>1 DEF CancelCommit, Answer, Leave, TypeOK
    <3> QED
      BY <2>2, <3>1, LockedItems DEF Collected
  <2> QED
    BY <1>1, <2>1, <2>2, LastMoves
<1>2. ASSUME NEW q \in Reqs, pc'[q] = "uncover"
      PROVE  KeysOf(rows'[q]) = HoldKeys(call[q].order)
  <2>1. CASE CancelCommit(q)
    <3>1. pc[q] = "cancel" /\ UNCHANGED rows
      BY <2>1 DEF CancelCommit, locals
    <3>2. call[q].order \in Reqs /\ status[call[q].order] = "PENDING"
      BY <3>1, OrderToCommit
    <3> QED
      BY <3>1, <3>2, OrderKeys DEF Collected
  <2> QED
    BY <1>2, <2>1, LastMoves DEF Collected
<1>3. ASSUME NEW q \in Reqs, pc'[q] = "clear" PROVE call[q].order \in Paid'
  <2>1. CASE PayConfirm(q)
    <3>1. call[q].order \in Reqs /\ status' = [status EXCEPT ![call[q].order] = "PAID"]
      BY <2>1, OrderToCommit DEF PayConfirm
    <3> QED
      BY <3>1 DEF Paid, TypeOK
  <2>2. CASE pc[q] = "clear"
    BY <2>2, SettledStays DEF Collected, Paid
  <2> QED
    BY <1>3, <2>1, <2>2, LastMoves
<1>4. \A q \in Reqs : KeysOf(rows[q])' = KeysOf(rows'[q])
  BY DEF KeysOf
<1>5. \A q : HoldKeys(q)' = HoldKeys(q)
  BY <1>a DEF HoldKeys
<1> QED
  BY <1>a, <1>1, <1>2, <1>3, <1>4, <1>5 DEF Collected

\* Redis loses holds, and nothing else goes wrong.
OnlyRedisLoses == Faults \subseteq {"redis_loss"}

\* A hold goes with its reason: the step that ends the one deletes the other, or leads to
\* the step that does.
LEMMA ReasonStep ==
  ASSUME OnlyRedisLoses, IInv, IInv', RowsInEvent, Collected, HoldsOwn, HoldsHaveReason,
         [Next]_vars
  PROVE  HoldsOwn' /\ HoldsHaveReason'
<1> USE DEF IInv
<1>a. UNCHANGED call /\ DOMAIN hold' = DOMAIN hold
  BY StoreMoves DEF TypeOK
<1>b. \A q : HoldKeys(q)' = HoldKeys(q)
  BY <1>a DEF HoldKeys
<1>f. \A q \in Reqs : ~HoldFailed(q) /\ ~Crash(q)
  BY DEF OnlyRedisLoses, HoldFailed, Crash
<1> SUFFICES ASSUME NEW o \in Reqs, NEW k \in DOMAIN hold, hold'[k].by = o
             PROVE  call[o].op = "book" /\ k \in HoldKeys(o) /\ Reason(o)'
  BY <1>a, <1>b DEF HoldsOwn, HoldsHaveReason
<1>r. pc'[o] \in Holding \/ status'[o] = "PENDING" => Reason(o)'
  BY DEF Reason
<1>1. CASE HoldSeats(o) /\ k \in HoldKeys(o)
  <2>1. pc[o] = "hold" /\ pc'[o] = "cap"
    BY <1>1 DEF HoldSeats, Goto, TypeOK
  <2> QED
    BY <1>1, <2>1, CallFields DEF Reason, Holding, StepsMatch, StepsOf
<1>2. CASE hold[k].by = o
  <2>1. call[o].op = "book" /\ k \in HoldKeys(o) /\ Reason(o)
    BY <1>2 DEF HoldsOwn, HoldsHaveReason
  <2> SUFFICES Reason(o)'
    BY <2>1
  <2>d. ASSUME NEW ks, Delete(ks) PROVE k \notin ks
    <3>1. hold' = Cleared(ks)
      BY <2>d DEF Delete, OnlyRedisLoses
    <3> QED
      BY <3>1 DEF Cleared, NoHold
  <2>2. CASE pc[o] \in Holding
    <3>1. CASE CommitBooking(o)
      BY <1>r, <3>1 DEF CommitBooking, TypeOK
    <3>2. ~ReleaseHolds(o)
      BY <2>1, <2>d DEF ReleaseHolds
    <3> QED
      BY <2>2, <3>1, <3>2, <1>f, <1>r, LastMoves
  <2>3. CASE status[o] = "PENDING"
    <3>1. CASE UNCHANGED status
      BY <2>3, <3>1, <1>r
    <3>2. ASSUME NEW r \in Reqs, InsertItem(r) PROVE Reason(o)'
      BY <2>3, <3>2, <1>r DEF InsertItem, database
    <3>3. ASSUME NEW r \in Reqs, CommitBooking(r) PROVE Reason(o)'
      BY <2>3, <3>3 DEF CommitBooking, Reason, TypeOK
    <3>4. ASSUME NEW r \in Reqs, PayConfirm(r) PROVE Reason(o)'
      <4>1. /\ pc'[r] = "clear"
            /\ status' = [status EXCEPT ![call[r].order] = "PAID"]
        BY <3>4 DEF PayConfirm, Leave, TypeOK, OnlyRedisLoses
      <4> QED
        BY <1>a, <2>3, <4>1 DEF Reason, TypeOK
    <3>5. ASSUME NEW r \in Reqs, CancelCommit(r) PROVE Reason(o)'
      <4>1. /\ pc'[r] = "uncover"
            /\ status' = [status EXCEPT ![call[r].order] = "CANCELLED"]
        BY <3>5 DEF CancelCommit, Leave, TypeOK, OnlyRedisLoses
      <4> QED
        BY <1>a, <2>3, <4>1 DEF Reason, TypeOK
    <3>6. ASSUME NEW w \in Workers, ExpireCommit(w) PROVE Reason(o)'
      <4>1. status'[o] # "EXPIRED"
        BY <1>a DEF HoldsEnd
      <4> QED
        BY <2>3, <3>6, <4>1 DEF ExpireCommit, Reason
    <3> QED
      BY <3>1, <3>2, <3>3, <3>4, <3>5, <3>6, StoreMoves
  <2>4. ASSUME NEW q \in Reqs, pc[q] \in {"clear", "uncover"}, call[q].order = o
        PROVE  Reason(o)'
    <3>1. ~PayClearHolds(q)
      <4> SUFFICES ASSUME PayClearHolds(q) PROVE FALSE
        OBVIOUS
      <4>1. pc[q] = "clear" /\ Delete(KeysOf(items[o]))
        BY <2>4 DEF PayClearHolds, OnlyRedisLoses
      <4>2. KeysOf(items[o]) = HoldKeys(o)
        BY <2>4, <4>1, OrderKeys DEF Collected, Paid
      <4> QED
        BY <2>1, <2>d, <4>1, <4>2
    <3>2. ~CancelClearHolds(q)
      <4> SUFFICES ASSUME CancelClearHolds(q) PROVE FALSE
        OBVIOUS
      <4>1. pc[q] = "uncover" /\ Delete(KeysOf(rows[q]))
        BY DEF CancelClearHolds
      <4>2. KeysOf(rows[q]) = HoldKeys(o)
        BY <2>4, <4>1 DEF Collected
      <4> QED
        BY <2>1, <2>d, <4>1, <4>2
    <3>3. pc'[q] = pc[q]
      BY <2>4, <3>1, <3>2, <1>f, LastMoves
    <3> QED
      BY <1>a, <2>4, <3>3 DEF Reason
  <2> QED
    BY <2>1, <2>2, <2>3, <2>4 DEF Reason
<1> QED
  BY <1>1, <1>2, <1>f, HoldStays

\* A seat whose booking failed or whose order has ended is kept from sale by no hold of it:
\* every way out of createBooking, payOrder and cancelOrder deletes the holds, and the worker
\* finds none (api/handlers.go:264-337, 498 and 571, main.go:174-190).
THEOREM NoOrphanHolds == ASSUME OnlyRedisLoses PROVE Spec => []HoldsHaveReason
<1>1. Init => Collected /\ HoldsOwn /\ HoldsHaveReason
  BY DEF Init, Collected, HoldsOwn, HoldsHaveReason, NoHold
<1>2. IInv /\ IInv' /\ RowsInEvent /\ Collected /\ [Next]_vars => Collected'
  BY CollectedStep
<1>3. IInv /\ IInv' /\ RowsInEvent /\ Collected /\ HoldsOwn /\ HoldsHaveReason /\ [Next]_vars
        => HoldsOwn' /\ HoldsHaveReason'
  BY ReasonStep
<1>4. IInv /\ RowsInEvent /\ [Next]_vars => RowsInEvent'
  BY RowsStep
<1> QED
  BY <1>1, <1>2, <1>3, <1>4, RowsInit, Inductive, PTL DEF Spec
=============================================================================
