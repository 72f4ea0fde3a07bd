----------------------------- MODULE DemandProofs -----------------------------
(* Theorems of DemandLog, for every value of its constants. *)
EXTENDS DemandLog, SequenceTheorems, FiniteSetTheorems, TLAPS

-----------------------------------------------------------------------------
(* Sequences *)

\* What a sequence holds after Append.
LEMMA HeldByAppend ==
  ASSUME NEW S, NEW s \in Seq(S), NEW e \in S
  PROVE  ToSet(Append(s, e)) = ToSet(s) \cup {e}
<1>1. Append(s, e)[Len(s) + 1] = e /\ Len(s) + 1 \in DOMAIN Append(s, e)
  OBVIOUS
<1>2. \A i \in DOMAIN s : i \in DOMAIN Append(s, e) /\ Append(s, e)[i] = s[i]
  OBVIOUS
<1>3. \A i \in DOMAIN Append(s, e) : i \in DOMAIN s \/ i = Len(s) + 1
  OBVIOUS
<1> QED
  BY <1>1, <1>2, <1>3 DEF ToSet

\* A sequence holds its first element and what its rest holds.
LEMMA HeldByTail ==
  ASSUME NEW S, NEW s \in Seq(S), s # <<>>
  PROVE  ToSet(s) = {Head(s)} \cup ToSet(Tail(s))
<1>1. 1 \in DOMAIN s /\ Head(s) = s[1]
  OBVIOUS
<1>2. \A i \in DOMAIN Tail(s) : i + 1 \in DOMAIN s /\ Tail(s)[i] = s[i + 1]
  OBVIOUS
<1>3. \A i \in DOMAIN s : i = 1 \/ (i - 1 \in DOMAIN Tail(s) /\ Tail(s)[i - 1] = s[i])
  OBVIOUS
<1>4. ToSet(Tail(s)) \subseteq ToSet(s)
  BY <1>2 DEF ToSet
<1>5. Head(s) \in ToSet(s)
  BY <1>1 DEF ToSet
<1>6. ASSUME NEW i \in DOMAIN s PROVE s[i] \in {Head(s)} \cup ToSet(Tail(s))
  <2>1. CASE i = 1
    BY <1>1, <2>1
  <2>2. CASE i - 1 \in DOMAIN Tail(s) /\ Tail(s)[i - 1] = s[i]
    <3>1. Tail(s)[i - 1] \in ToSet(Tail(s))
      BY <2>2, Zenon DEF ToSet
    <3> QED
      BY <2>2, <3>1
  <2> QED
    BY <1>3, <2>1, <2>2
<1>7. ToSet(s) \subseteq {Head(s)} \cup ToSet(Tail(s))
  BY <1>6, Zenon DEF ToSet
<1> QED
  BY <1>4, <1>5, <1>7

\* Two sequences in a row hold what either holds.
LEMMA HeldByBoth ==
  ASSUME NEW S, NEW s \in Seq(S), NEW t \in Seq(S)
  PROVE  ToSet(s \o t) = ToSet(s) \cup ToSet(t)
<1>1. \A i \in DOMAIN s : i \in DOMAIN (s \o t) /\ (s \o t)[i] = s[i]
  OBVIOUS
<1>2. \A i \in DOMAIN t : Len(s) + i \in DOMAIN (s \o t) /\ (s \o t)[Len(s) + i] = t[i]
  OBVIOUS
<1>3. \A i \in DOMAIN (s \o t) :
        \/ i \in DOMAIN s
        \/ i - Len(s) \in DOMAIN t /\ (s \o t)[i] = t[i - Len(s)]
  OBVIOUS
<1>4. ToSet(s) \subseteq ToSet(s \o t)
  BY <1>1 DEF ToSet
<1>5. ToSet(t) \subseteq ToSet(s \o t)
  BY <1>2 DEF ToSet
<1>6. ToSet(s \o t) \subseteq ToSet(s) \cup ToSet(t)
  BY <1>3 DEF ToSet
<1> QED
  BY <1>4, <1>5, <1>6

\* Moving the first element of u to the end of t leaves the row as it is.
LEMMA MovedOver ==
  ASSUME NEW s \in Seq(Attempts), NEW t \in Seq(Attempts), NEW u \in Seq(Attempts), u # <<>>
  PROVE  s \o Append(t, Head(u)) \o Tail(u) = s \o t \o u
<1> DEFINE x == s \o Append(t, Head(u)) \o Tail(u)
           y == s \o t \o u
<1>1. x \in Seq(Attempts) /\ y \in Seq(Attempts) /\ Len(x) = Len(y)
  OBVIOUS
<1>2. ASSUME NEW i \in 1..Len(y) PROVE x[i] = y[i]
  OBVIOUS
<1>3. x = y
  <2> HIDE DEF x, y
  <2> QED
    BY <1>1, <1>2, SeqEqual
<1> QED
  BY <1>3

\* What stands in a row of three after the middle is taken out.
LEMMA MiddleOut ==
  ASSUME NEW s \in Seq(Attempts), NEW t \in Seq(Attempts), NEW u \in Seq(Attempts)
  PROVE  \E f \in [DOMAIN (s \o u) -> DOMAIN (s \o t \o u)] :
           /\ \A i, j \in DOMAIN (s \o u) : i < j => f[i] < f[j]
           /\ \A i \in DOMAIN (s \o u) : (s \o u)[i] = (s \o t \o u)[f[i]]
<1> DEFINE f == [i \in DOMAIN (s \o u) |-> IF i <= Len(s) THEN i ELSE i + Len(t)]
<1>1. f \in [DOMAIN (s \o u) -> DOMAIN (s \o t \o u)]
  OBVIOUS
<1>2. \A i, j \in DOMAIN (s \o u) : i < j => f[i] < f[j]
  OBVIOUS
<1>3. \A i \in DOMAIN (s \o u) : (s \o u)[i] = (s \o t \o u)[f[i]]
  OBVIOUS
<1> QED
  BY <1>1, <1>2, <1>3

-----------------------------------------------------------------------------
(* The inductive invariant *)

\* Between two attempts the request of the first was queued before.
Before(a, b) == \E k, l \in DOMAIN sent : k < l /\ sent[k] = a /\ sent[l] = b

Ordered(s) == \A i, j \in DOMAIN s : i < j => Before(s[i], s[j])

\* The attempts on their way, from the table back to the channel.
Line == written \o buf \o queue

\* A writer at its select has room for one more.
BufHasRoom == writer = "select" => Len(buf) < MaxBatch

\* An attempt is queued once, by its request.
SentOnce ==
  /\ \A k \in DOMAIN sent : step[sent[k]] = "queued"
  /\ \A k, l \in DOMAIN sent : sent[k] = sent[l] => k = l

InLine == Ordered(Line) /\ ToSet(Line) \subseteq ToSet(sent)

LogInv == TypeOK /\ BufHasRoom /\ SentOnce /\ InLine /\ NoSilentLoss

\* The limits are positive.
LEMMA Limits == ChanCap \in Nat /\ MaxBatch \in Nat /\ 0 < ChanCap /\ 0 < MaxBatch
  BY DemandAssumption DEF DemandAssumption

\* It holds before the first request.
LEMMA LogInit == Init => LogInv
<1> SUFFICES ASSUME Init PROVE LogInv
  OBVIOUS
<1> USE DEF Init
<1>1. TypeOK /\ BufHasRoom
  <2>1. <<>> \in Seq(Attempts) /\ Len(<<>>) = 0
    BY EmptySeq
  <2>2. /\ Len(queue) <= ChanCap /\ Len(buf) <= MaxBatch
        /\ writer = "select" => Len(buf) < MaxBatch
    BY <2>1, Limits
  <2>3. /\ queue \in Seq(Attempts) /\ buf \in Seq(Attempts)
        /\ written \in Seq(Attempts) /\ sent \in Seq(Attempts)
    BY <2>1
  <2> QED
    BY <2>2, <2>3 DEF TypeOK, BufHasRoom
<1>2. SentOnce
  BY DEF SentOnce
<1>3. Line = <<>>
  BY DEF Line
<1>4. InLine
  BY <1>3 DEF InLine, Ordered, ToSet
<1>5. NoSilentLoss
  BY DEF NoSilentLoss
<1> QED
  BY <1>1, <1>2, <1>4, <1>5 DEF LogInv

-----------------------------------------------------------------------------
(* The steps *)

\* Every step keeps the types, the limit of the channel and that of the batch.
LEMMA TypedStep ==
  ASSUME TypeOK, BufHasRoom, [Next]_vars PROVE TypeOK' /\ BufHasRoom'
<1> USE DEF TypeOK, BufHasRoom
<1>1. ASSUME NEW a \in Attempts, Accept(a) PROVE TypeOK' /\ BufHasRoom'
  BY <1>1 DEF Accept
<1>2. ASSUME NEW a \in Attempts, LogAttempt(a) PROVE TypeOK' /\ BufHasRoom'
  <2>1. Len(Append(queue, a)) = Len(queue) + 1 /\ Append(queue, a) \in Seq(Attempts)
    BY AppendProperties
  <2>2. Append(sent, a) \in Seq(Attempts)
    BY AppendProperties
  <2>3. /\ queue' \in Seq(Attempts) /\ sent' \in Seq(Attempts)
        /\ Len(queue') <= ChanCap
    <3>1. CASE Room /\ queue' = Append(queue, a) /\ sent' = Append(sent, a)
      <4>1. Len(queue) \in Nat /\ Len(queue) < ChanCap
        BY <3>1, LenProperties DEF Room
      <4> QED
        BY <2>1, <2>2, <3>1, <4>1, Limits
    <3> QED
      BY <1>2, <3>1 DEF LogAttempt
  <2>4. step' \in [Attempts -> {"none", "handling", "queued", "dropped"}]
    BY <1>2 DEF LogAttempt
  <2> QED
    BY <1>2, <2>3, <2>4 DEF LogAttempt
<1>3. CASE Receive
  <2>1. /\ Head(queue) \in Attempts /\ queue' \in Seq(Attempts)
        /\ Len(queue') = Len(queue) - 1
    BY <1>3, HeadTailProperties DEF Receive
  <2>2. Len(queue') <= ChanCap
    BY <2>1, Limits, LenProperties
  <2>3. /\ buf' \in Seq(Attempts) /\ buf' # <<>>
        /\ Len(buf') = Len(buf) + 1
    BY <1>3, <2>1, AppendProperties DEF Receive
  <2>4. Len(buf') <= MaxBatch
    BY <1>3, <2>3, Limits, LenProperties DEF Receive
  <2>5. /\ writer' \in {"select", "flush"} /\ leaving' \in BOOLEAN
        /\ writer' = "select" => ~(Len(buf') >= MaxBatch)
    BY <1>3, <2>3 DEF Receive, Flush, Full
  <2>6. writer' = "select" => Len(buf') < MaxBatch
    BY <2>3, <2>5, Limits, LenProperties
  <2> QED
    BY <1>3, <2>1, <2>2, <2>3, <2>4, <2>5, <2>6 DEF Receive
<1>4. CASE TickerFlush \/ ContextDone
  <2>1. buf' = buf /\ (writer' = "select" => Len(buf) < MaxBatch)
    BY <1>4 DEF TickerFlush, ContextDone
  <2>2. writer' \in {"select", "flush", "stopped"} /\ leaving' \in BOOLEAN
    BY <1>4 DEF TickerFlush, ContextDone, Flush
  <2> QED
    BY <1>4, <2>1, <2>2 DEF TickerFlush, ContextDone
<1>5. CASE Acquire
  BY <1>5 DEF Acquire
<1>6. CASE BatchWritten \/ BatchFails
  <2>1. written \o buf \in Seq(Attempts)
    BY ConcatProperties
  <2>2. failed \cup ToSet(buf) \subseteq Attempts
    BY DEF ToSet
  <2>3. <<>> \in Seq(Attempts) /\ Len(<<>>) < MaxBatch
    BY EmptySeq, Limits
  <2>4. /\ written' \in Seq(Attempts) /\ failed' \subseteq Attempts
    BY <1>6, <2>1, <2>2 DEF BatchWritten, BatchFails
  <2>5. /\ buf' = <<>> /\ writer' \in {"stopped", "select"}
        /\ UNCHANGED <<step, queue, leaving, main, sent>>
    BY <1>6 DEF BatchWritten, BatchFails, Flushed
  <2>6. buf' \in Seq(Attempts) /\ Len(buf') <= MaxBatch /\ Len(buf') < MaxBatch
    BY <2>3, <2>5, Limits
  <2> QED
    BY <2>4, <2>5, <2>6
<1>7. CASE StopWorker \/ Shutdown \/ ShutdownReturns \/ Exit \/ Crash \/ UNCHANGED vars
  BY <1>7 DEF StopWorker, Shutdown, ShutdownReturns, Exit, Crash, vars
<1> QED
  BY <1>1, <1>2, <1>3, <1>4, <1>5, <1>6, <1>7 DEF Next, Exited

\* An attempt is queued by its request alone, which then leaves its handler.
LEMMA SentStep ==
  ASSUME TypeOK, SentOnce, [Next]_vars PROVE SentOnce'
<1> USE DEF TypeOK, SentOnce
<1>1. ASSUME NEW a \in Attempts, Accept(a) PROVE SentOnce'
  BY <1>1 DEF Accept
<1>2. ASSUME NEW a \in Attempts, LogAttempt(a) PROVE SentOnce'
  <2>1. CASE UNCHANGED sent /\ step' = [step EXCEPT ![a] = "dropped"]
    BY <1>2, <2>1 DEF LogAttempt
  <2>2. CASE sent' = Append(sent, a) /\ step' = [step EXCEPT ![a] = "queued"]
    <3>1. \A k \in DOMAIN sent' : \/ k \in DOMAIN sent /\ sent'[k] = sent[k]
                                  \/ k = Len(sent) + 1 /\ sent'[k] = a
      BY <2>2
    <3>2. \A k \in DOMAIN sent : sent[k] # a
      BY <1>2 DEF LogAttempt
    <3>3. \A k \in DOMAIN sent : sent[k] \in Attempts
      OBVIOUS
    <3> QED
      BY <2>2, <3>1, <3>2, <3>3
  <2> QED
    BY <1>2, <2>1, <2>2 DEF LogAttempt
<1>3. CASE UNCHANGED <<sent, step>>
  BY <1>3
<1> QED
  BY <1>1, <1>2, <1>3
  DEF Next, Receive, TickerFlush, ContextDone, Acquire, BatchWritten, BatchFails,
      StopWorker, Shutdown, ShutdownReturns, Exit, Crash, Exited, vars

\* A row that is part of an ordered one, in its order, is ordered.
LEMMA PartOrdered ==
  ASSUME NEW s, NEW t, Ordered(t), NEW f \in [DOMAIN s -> DOMAIN t],
         \A i, j \in DOMAIN s : i < j => f[i] < f[j],
         \A i \in DOMAIN s : s[i] = t[f[i]]
  PROVE  Ordered(s) /\ ToSet(s) \subseteq ToSet(t)
  BY DEF Ordered, ToSet

\* What is queued now was queued after everything on its way.
LEMMA QueuedLast ==
  ASSUME TypeOK, InLine, NEW a \in Attempts,
         queue' = Append(queue, a), sent' = Append(sent, a), UNCHANGED <<buf, written>>
  PROVE  InLine'
<1> USE DEF TypeOK
<1>1. Line \in Seq(Attempts)
  BY DEF Line
<1>2. Line' = Append(Line, a)
  BY DEF Line
<1>3. \A k \in DOMAIN sent : /\ k \in DOMAIN sent' /\ sent'[k] = sent[k]
                             /\ k < Len(sent) + 1
  OBVIOUS
<1>4. Len(sent) + 1 \in DOMAIN sent' /\ sent'[Len(sent) + 1] = a
  OBVIOUS
<1>5. ASSUME NEW x, NEW y, Before(x, y)
      PROVE  \E k, l \in DOMAIN sent' : k < l /\ sent'[k] = x /\ sent'[l] = y
  BY <1>3, <1>5 DEF Before
<1>6. ASSUME NEW x \in ToSet(sent)
      PROVE  \E k, l \in DOMAIN sent' : k < l /\ sent'[k] = x /\ sent'[l] = a
  BY <1>3, <1>4 DEF ToSet
<1>7. ASSUME NEW i \in DOMAIN Line', NEW j \in DOMAIN Line', i < j
      PROVE  \E k, l \in DOMAIN sent' : k < l /\ sent'[k] = Line'[i] /\ sent'[l] = Line'[j]
  <2>1. i \in DOMAIN Line /\ Line'[i] = Line[i]
    BY <1>1, <1>2, <1>7
  <2>2. CASE j \in DOMAIN Line
    <3>1. Line'[j] = Line[j]
      BY <1>1, <1>2, <2>2
    <3>2. Before(Line[i], Line[j])
      BY <1>7, <2>1, <2>2 DEF InLine, Ordered
    <3> QED
      BY <1>5, <2>1, <3>1, <3>2
  <2>3. CASE j = Len(Line) + 1
    <3>1. Line'[j] = a
      BY <1>1, <1>2, <2>3
    <3>2. Line[i] \in ToSet(sent)
      BY <2>1 DEF InLine, ToSet
    <3> QED
      BY <1>6, <2>1, <3>1, <3>2
  <2>4. j \in DOMAIN Line \/ j = Len(Line) + 1
    BY <1>1, <1>2
  <2> QED
    BY <2>2, <2>3, <2>4
<1>8. ToSet(Line') \subseteq ToSet(sent')
  BY <1>1, <1>2, HeldByAppend DEF InLine
<1> QED
  BY <1>7, <1>8 DEF InLine, Ordered, Before

\* The row keeps the order in which its attempts were queued, whatever is received,
\* written or given up.
LEMMA LineStep ==
  ASSUME TypeOK, InLine, [Next]_vars PROVE InLine'
<1> USE DEF TypeOK
<1>1. ASSUME Line' = Line, UNCHANGED sent PROVE InLine'
  BY <1>1 DEF InLine, Ordered, Before
<1>2. ASSUME NEW a \in Attempts, Accept(a) \/ LogAttempt(a) PROVE InLine'
  <2>1. CASE UNCHANGED <<queue, sent, buf, written>>
    BY <1>1, <2>1 DEF Line
  <2>2. CASE queue' = Append(queue, a) /\ sent' = Append(sent, a) /\ UNCHANGED <<buf, written>>
    BY <2>2, QueuedLast
  <2> QED
    BY <1>2, <2>1, <2>2 DEF Accept, LogAttempt
<1>3. CASE Receive
  <2>1. written \o Append(buf, Head(queue)) \o Tail(queue) = written \o buf \o queue
    <3>1. /\ written \in Seq(Attempts) /\ buf \in Seq(Attempts)
          /\ queue \in Seq(Attempts) /\ queue # <<>>
      BY <1>3 DEF Receive
    <3> HIDE DEF TypeOK
    <3> QED
      BY <3>1, MovedOver
  <2> QED
    BY <1>1, <1>3, <2>1 DEF Receive, Line
<1>4. CASE UNCHANGED <<queue, sent>> /\ written' = written \o buf /\ buf' = <<>>
  <2>1. Line' = Line
    BY <1>4 DEF Line
  <2> QED
    BY <1>1, <1>4, <2>1
<1>5. CASE UNCHANGED <<queue, sent, written>> /\ buf' = <<>>
  <2>1. Line' = written \o queue
    BY <1>5 DEF Line
  <2>2. Ordered(written \o queue) /\ ToSet(written \o queue) \subseteq ToSet(Line)
    <3>1. PICK f \in [DOMAIN (written \o queue) -> DOMAIN Line] :
             /\ \A i, j \in DOMAIN (written \o queue) : i < j => f[i] < f[j]
             /\ \A i \in DOMAIN (written \o queue) : (written \o queue)[i] = Line[f[i]]
      <4>1. /\ written \in Seq(Attempts) /\ buf \in Seq(Attempts)
            /\ queue \in Seq(Attempts)
        OBVIOUS
      <4> HIDE DEF TypeOK
      <4> QED
        BY <4>1, MiddleOut DEF Line
    <3> QED
      BY <3>1, PartOrdered DEF InLine
  <2>3. \A i, j \in DOMAIN Line' : i < j =>
          \E k, l \in DOMAIN sent' : k < l /\ sent'[k] = Line'[i] /\ sent'[l] = Line'[j]
    <3>1. sent' = sent
      BY <1>5
    <3>2. \A i, j \in DOMAIN (written \o queue) : i < j =>
            \E k, l \in DOMAIN sent : k < l /\ sent[k] = (written \o queue)[i]
                                            /\ sent[l] = (written \o queue)[j]
      BY <2>2, Zenon DEF Ordered, Before
    <3> DEFINE w == written \o queue
    <3>3. Line' = w
      BY <2>1
    <3> HIDE DEF w, TypeOK
    <3> QED
      BY <3>1, <3>2, <3>3 DEF w
  <2>4. ToSet(Line') \subseteq ToSet(sent')
    BY <1>5, <2>1, <2>2 DEF InLine
  <2> QED
    BY <2>3, <2>4 DEF InLine, Ordered, Before
<1>6. CASE UNCHANGED <<queue, sent, buf, written>>
  BY <1>1, <1>6 DEF Line
<1> QED
  BY <1>2, <1>3, <1>4, <1>5, <1>6
  DEF Next, TickerFlush, ContextDone, Acquire, BatchWritten, BatchFails, Flushed,
      StopWorker, Shutdown, ShutdownReturns, Exit, Crash, Exited, vars

\* What leaves the channel is received, and what leaves the writer is written or
\* reported.
LEMMA LossStep ==
  ASSUME TypeOK, NoSilentLoss, [Next]_vars PROVE NoSilentLoss'
<1> SUFFICES ASSUME Running'
             PROVE  /\ \A a \in Attempts : step'[a] = "queued" => a \in
                         ToSet(queue') \cup ToSet(buf') \cup ToSet(written') \cup failed'
                    /\ writer' = "stopped" => buf' = <<>>
  BY DEF NoSilentLoss
<1> DEFINE Kept == ToSet(queue) \cup ToSet(buf) \cup ToSet(written) \cup failed
           Goal == /\ \A a \in Attempts : step'[a] = "queued" => a \in Kept'
                   /\ writer' = "stopped" => buf' = <<>>
<1> USE DEF TypeOK
<1>1. Running
  BY DEF Next, Accept, LogAttempt, Receive, TickerFlush, ContextDone, Acquire,
         BatchWritten, BatchFails, StopWorker, Shutdown, ShutdownReturns, Exit, Crash,
         Exited, vars, Running
<1>2. /\ \A a \in Attempts : step[a] = "queued" => a \in Kept
      /\ writer = "stopped" => buf = <<>>
  BY <1>1 DEF NoSilentLoss
<1>3. ASSUME NEW a \in Attempts, Accept(a) PROVE Goal
  BY <1>2, <1>3 DEF Accept
<1>4. ASSUME NEW a \in Attempts, LogAttempt(a) PROVE Goal
  <2>1. ToSet(Append(queue, a)) = ToSet(queue) \cup {a}
    BY HeldByAppend
  <2> QED
    BY <1>2, <1>4, <2>1 DEF LogAttempt
<1>5. CASE Receive
  <2>1. Head(queue) \in Attempts
    BY <1>5 DEF Receive
  <2>2. ToSet(buf') = ToSet(buf) \cup {Head(queue)}
    BY <1>5, <2>1, HeldByAppend DEF Receive
  <2>3. ToSet(queue) = {Head(queue)} \cup ToSet(queue')
    BY <1>5, HeldByTail DEF Receive
  <2>4. Kept' = Kept
    BY <1>5, <2>2, <2>3 DEF Receive
  <2>5. writer' # "stopped"
    BY <1>5 DEF Receive, Flush
  <2> QED
    BY <1>2, <1>5, <2>4, <2>5 DEF Receive
<1>6. CASE TickerFlush \/ ContextDone
  BY <1>2, <1>6 DEF TickerFlush, ContextDone, Flush
<1>7. CASE BatchWritten \/ BatchFails
  <2>1. ToSet(written \o buf) = ToSet(written) \cup ToSet(buf)
    BY HeldByBoth
  <2>2. Kept \subseteq Kept'
    BY <1>7, <2>1 DEF BatchWritten, BatchFails
  <2> QED
    BY <1>2, <1>7, <2>2 DEF BatchWritten, BatchFails, Flushed
<1>8. CASE Acquire \/ StopWorker \/ Shutdown \/ ShutdownReturns \/ Exit \/ Crash
           \/ UNCHANGED vars
  BY <1>2, <1>8 DEF Acquire, StopWorker, Shutdown, ShutdownReturns, Exit, Crash, vars
<1> QED
  BY <1>3, <1>4, <1>5, <1>6, <1>7, <1>8 DEF Next, Exited

-----------------------------------------------------------------------------
(* Theorems *)

\* The inductive invariant: the types, what was queued is queued once, and the table,
\* the batch and the channel in a row hold it in the order in which it was queued.
THEOREM LogInductive == Spec => []LogInv
<1>1. LogInv /\ [Next]_vars => LogInv'
  BY TypedStep, SentStep, LineStep, LossStep DEF LogInv
<1> QED
  BY <1>1, LogInit, PTL DEF Spec

\* Every variable has its type; the channel and the batch keep their limits.
THEOREM LogTyped == Spec => []TypeOK
<1>1. LogInv => TypeOK
  BY DEF LogInv
<1> QED
  BY <1>1, LogInductive, PTL

\* The table has the attempts in the order in which their requests queued them,
\* whatever batches fail or are written without a reply (src/api/analytics.go:55-93).
THEOREM TableInOrder == Spec => []WrittenOnceInOrder
<1>1. LogInv => WrittenOnceInOrder
  <2> SUFFICES ASSUME LogInv PROVE WrittenOnceInOrder
    OBVIOUS
  <2>1. \A i \in DOMAIN written : i \in DOMAIN Line /\ Line[i] = written[i]
    BY DEF LogInv, TypeOK, Line
  <2>2. Ordered(Line)
    BY DEF LogInv, InLine
  <2> QED
    BY <2>1, <2>2 DEF WrittenOnceInOrder, Ordered, Before
<1> QED
  BY <1>1, LogInductive, PTL

\* No attempt is in the table twice, though its batch be written and the reply lost.
THEOREM NeverTwiceInTable ==
  Spec => [](\A i, j \in DOMAIN written : written[i] = written[j] => i = j)
<1>1. LogInv => \A i, j \in DOMAIN written : written[i] = written[j] => i = j
  <2> SUFFICES ASSUME LogInv, NEW i \in DOMAIN written, NEW j \in DOMAIN written, i < j
               PROVE  written[i] # written[j]
    BY DEF LogInv, TypeOK
  <2>1. Before(Line[i], Line[j]) /\ Line[i] = written[i] /\ Line[j] = written[j]
    BY DEF LogInv, TypeOK, Line, InLine, Ordered
  <2>2. PICK k \in DOMAIN sent, l \in DOMAIN sent :
           k < l /\ sent[k] = written[i] /\ sent[l] = written[j]
    BY <2>1 DEF Before
  <2>3. k # l
    BY <2>2 DEF LogInv, TypeOK
  <2> QED
    BY <2>2, <2>3 DEF LogInv, SentOnce
<1> QED
  BY <1>1, LogInductive, PTL

\* No attempt is lost in silence before the process ends, and the writer never returns
\* with attempts in its hands (src/api/analytics.go:55-77).
THEOREM NothingLostInSilence == Spec => []NoSilentLoss
<1>1. LogInv => NoSilentLoss
  BY DEF LogInv
<1> QED
  BY <1>1, LogInductive, PTL

-----------------------------------------------------------------------------
(* What the end of the process loses *)

\* The attempts that were queued, and are neither in the table nor in the log.
Unwritten == {a \in Attempts : step[a] = "queued" /\ a \notin ToSet(written) \cup failed}

\* They are in the channel or the batch, in the memory of a process that has ended as well.
InMemory == Unwritten \subseteq ToSet(queue) \cup ToSet(buf)

\* A process ends without touching what it has in memory.
LEMMA EndTouchesNothing ==
  ASSUME [Next]_vars, main' = "exited"
  PROVE  UNCHANGED <<step, queue, buf, written, failed>>
  BY DEF Next, Accept, LogAttempt, Receive, TickerFlush, ContextDone, Acquire,
         BatchWritten, BatchFails, StopWorker, Shutdown, ShutdownReturns, Exit, Crash,
         Exited, vars, Running

LEMMA InMemoryStep ==
  ASSUME LogInv', InMemory, [Next]_vars PROVE InMemory'
<1>1. CASE main' = "exited"
  BY <1>1, EndTouchesNothing DEF InMemory, Unwritten
<1>2. CASE main' # "exited"
  BY <1>2 DEF LogInv, NoSilentLoss, Running, InMemory, Unwritten
<1> QED
  BY <1>1, <1>2

\* A sequence holds no more than its length.
LEMMA HeldIsBounded ==
  ASSUME NEW S, NEW s \in Seq(S)
  PROVE  /\ IsFiniteSet(ToSet(s)) /\ Cardinality(ToSet(s)) \in Nat
         /\ Cardinality(ToSet(s)) <= Len(s)
<1>1. Len(s) \in Nat /\ DOMAIN s = 1..Len(s)
  OBVIOUS
<1>2. IsFiniteSet(1..Len(s)) /\ Cardinality(1..Len(s)) = Len(s)
  BY <1>1, FS_Interval
<1> DEFINE f == [i \in 1..Len(s) |-> s[i]]
<1>3. f \in Surjection(1..Len(s), ToSet(s))
  BY <1>1 DEF Surjection, ToSet
<1>4. IsFiniteSet(ToSet(s)) /\ Cardinality(ToSet(s)) <= Cardinality(1..Len(s))
  BY <1>2, <1>3, FS_Surjection
<1> QED
  BY <1>2, <1>4, FS_CardinalityType

\* However the process ends, by a shutdown or a crash, it takes with it at most a full
\* channel and a full batch: every other attempt that was queued is in the table, or the
\* failure of its batch in the log (src/api/analytics.go:17-18 and 55-77).
THEOREM LossIsBounded == Spec => [](Cardinality(Unwritten) <= ChanCap + MaxBatch)
<1>1. Init => InMemory
  BY DEF Init, InMemory, Unwritten
<1>2. LogInv' /\ InMemory /\ [Next]_vars => InMemory'
  BY InMemoryStep
<1>3. LogInv /\ InMemory => Cardinality(Unwritten) <= ChanCap + MaxBatch
  <2> SUFFICES ASSUME LogInv, InMemory PROVE Cardinality(Unwritten) <= ChanCap + MaxBatch
    OBVIOUS
  <2> DEFINE Q == ToSet(queue)  B == ToSet(buf)  L == Unwritten
  <2>1. /\ Len(queue) \in Nat /\ Len(queue) <= ChanCap /\ Len(buf) \in Nat
        /\ Len(buf) <= MaxBatch
    BY DEF LogInv, TypeOK
  <2>2. /\ IsFiniteSet(Q) /\ Cardinality(Q) \in Nat /\ Cardinality(Q) <= Len(queue)
        /\ IsFiniteSet(B) /\ Cardinality(B) \in Nat /\ Cardinality(B) <= Len(buf)
    BY HeldIsBounded DEF LogInv, TypeOK
  <2>3. L \subseteq Q \cup B
    BY DEF InMemory
  <2> HIDE DEF Q, B, L
  <2>4. /\ IsFiniteSet(Q \cup B) /\ IsFiniteSet(Q \cap B)
        /\ Cardinality(Q \cup B) = Cardinality(Q) + Cardinality(B) - Cardinality(Q \cap B)
    BY <2>2, FS_Union, FS_Intersection
  <2>5. IsFiniteSet(L) /\ Cardinality(L) <= Cardinality(Q \cup B)
    BY <2>3, <2>4, FS_Subset
  <2>6. Cardinality(L) \in Nat /\ Cardinality(Q \cap B) \in Nat /\ Cardinality(Q \cup B) \in Nat
    BY <2>4, <2>5, FS_CardinalityType
  <2>7. Cardinality(L) <= ChanCap + MaxBatch
    BY <2>1, <2>2, <2>4, <2>5, <2>6, Limits
  <2> QED
    BY <2>7 DEF L
<1> QED
  BY <1>1, <1>2, <1>3, LogInductive, PTL DEF Spec

\* The writer and the channel have nothing from the moment on at which main leaves serving.
IdleAtStop == main # "serving" => queue = <<>> /\ buf = <<>>

\* What was reported as failed is in the table all the same.
FailedIsWritten == failed \subseteq ToSet(written)

LEMMA FailedStep ==
  ASSUME "db_error" \notin Faults, TypeOK, IdleAtStop, FailedIsWritten, [Next]_vars
  PROVE  FailedIsWritten'
<1> USE DEF TypeOK
<1>1. CASE BatchWritten \/ BatchFails
  <2>1. ToSet(written \o buf) = ToSet(written) \cup ToSet(buf)
    BY HeldByBoth
  <2>2. main = "closing" => ToSet(buf) = {}
    BY DEF IdleAtStop, ToSet
  <2> QED
    BY <1>1, <2>1, <2>2 DEF BatchWritten, BatchFails, FailedIsWritten
<1>2. CASE UNCHANGED <<written, failed>>
  BY <1>2 DEF FailedIsWritten
<1> QED
  BY <1>1, <1>2 DEF Next, Accept, LogAttempt, Receive, TickerFlush, ContextDone, Acquire,
     StopWorker, Shutdown, ShutdownReturns, Exit, Crash, Exited, vars

\* Every attempt is captured, as analytics.go:11 and 17 have it, when the log is idle from
\* the signal on and no insert fails: what the run "captured" loses is what waits in
\* memory when the writer's context is cancelled, or comes while the server drains
\* (src/api/main.go:142-149).  A reply that is lost takes nothing with it.
THEOREM IdleStopLosesNothing ==
  ASSUME "db_error" \notin Faults PROVE Spec /\ []IdleAtStop => []AttemptsCaptured
<1>1. Init => InMemory /\ FailedIsWritten
  BY DEF Init, InMemory, Unwritten, FailedIsWritten, ToSet
<1>2. LogInv /\ LogInv' /\ IdleAtStop /\ InMemory /\ FailedIsWritten /\ [Next]_vars
        => InMemory' /\ FailedIsWritten'
  BY InMemoryStep, FailedStep DEF LogInv
<1>3. IdleAtStop /\ InMemory /\ FailedIsWritten => AttemptsCaptured
  BY DEF IdleAtStop, InMemory, Unwritten, FailedIsWritten, AttemptsCaptured, ToSet
<1> QED
  BY <1>1, <1>2, <1>3, LogInductive, PTL DEF Spec
=============================================================================
