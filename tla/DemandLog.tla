------------------------------ MODULE DemandLog ------------------------------
(***************************************************************************)
(* The demand log (src/api/analytics.go) and the shutdown that ends it     *)
(* (src/api/main.go).  Every booking request leaves an attempt in a        *)
(* buffered channel; one goroutine collects attempts and inserts them in   *)
(* batches; on a signal main cancels that goroutine's context, lets the    *)
(* server finish its requests and returns, which closes the pool.          *)
(*                                                                         *)
(* An attempt is named by its request; what it says is left out.  A batch  *)
(* is one implicit transaction: it is written as a whole or not at all.    *)
(* Its end, whose error insertAttempts ignores, is taken to succeed when   *)
(* its rows did.                                                           *)
(* Faults: "db_error" (a batch fails), "reply_lost" (it is written and     *)
(* fails), "crash" (the process dies).                                     *)
(***************************************************************************)
EXTENDS Naturals, Sequences, SequencesExt

CONSTANTS Attempts, ChanCap, MaxBatch, Faults

DemandAssumption == ChanCap \in Nat \ {0} /\ MaxBatch \in Nat \ {0}

ASSUME DemandAssumption

VARIABLES
  step,     \* a request: before, in its handler, its attempt queued or dropped
  queue,    \* the channel
  buf,      \* the attempts the writer has received
  writer,   \* the writer: at its select, in insertAttempts without or with a
            \* connection, or returned
  leaving,  \* the writer's flush is the one of ctx.Done()
  main,     \* main: serving, context cancelled, in Shutdown, in the deferred
            \* db.Close(), or returned
  written,  \* booking_attempts
  failed,   \* the attempts of the batches whose error was logged
  sent      \* the attempts in the order they were queued (history)

vars == <<step, queue, buf, writer, leaving, main, written, failed, sent>>

Init ==
  /\ step = [a \in Attempts |-> "none"]
  /\ queue = <<>> /\ buf = <<>> /\ written = <<>> /\ sent = <<>>
  /\ writer = "select" /\ leaving = FALSE
  /\ main = "serving"
  /\ failed = {}

Running == main # "exited"

-----------------------------------------------------------------------------
(* createBooking *)

\* The listener takes a booking request of a real event.
Accept(a) ==
  /\ main \in {"serving", "cancelled"}
  /\ step[a] = "none"
  /\ step' = [step EXCEPT ![a] = "handling"]
  /\ UNCHANGED <<queue, buf, writer, leaving, main, written, failed, sent>>

Room == Len(queue) < ChanCap

\* Mutant of LogAttempt: a send without a default.
LogAttemptBlocking(a) ==
  /\ Running
  /\ step[a] = "handling"
  /\ Room
  /\ queue' = Append(queue, a)
  /\ sent' = Append(sent, a)
  /\ step' = [step EXCEPT ![a] = "queued"]
  /\ UNCHANGED <<buf, writer, leaving, main, written, failed>>
\* The deferred logAttempt, whatever the outcome.
LogAttempt(a) ==
  /\ Running
  /\ step[a] = "handling"
  /\ \/ /\ Room
        /\ queue' = Append(queue, a)
        /\ sent' = Append(sent, a)
        /\ step' = [step EXCEPT ![a] = "queued"]
     \/ /\ ~Room
        /\ step' = [step EXCEPT ![a] = "dropped"]
        /\ UNCHANGED <<queue, sent>>
  /\ UNCHANGED <<buf, writer, leaving, main, written, failed>>

-----------------------------------------------------------------------------
(* attemptWriter: its select takes any case that is ready *)

\* Mutant of Full: > for >=.
FullLate(b) == Len(b) > MaxBatch
Full(b) == Len(b) >= MaxBatch

\* Mutant of Flush: ctx.Done() returns without a flush.
FlushNotLast(b, last) ==
  /\ leaving' = last
  /\ writer' = IF last THEN "stopped" ELSE IF b # <<>> THEN "flush" ELSE "select"
\* Mutant of Flush: only a full batch is sent, and the last.
FlushWhenFull(b, last) ==
  /\ leaving' = last
  /\ writer' = IF b # <<>> /\ (last \/ Full(b)) THEN "flush"
               ELSE IF last THEN "stopped" ELSE "select"
\* flush, called from the select or on the way out; nothing to do when empty.
Flush(b, last) ==
  /\ leaving' = last
  /\ writer' = IF b # <<>> THEN "flush" ELSE IF last THEN "stopped" ELSE "select"

Receive ==
  /\ Running /\ writer = "select"
  /\ queue # <<>>
  /\ buf' = Append(buf, Head(queue))
  /\ queue' = Tail(queue)
  /\ IF Full(buf') THEN Flush(buf', FALSE) ELSE UNCHANGED <<writer, leaving>>
  /\ UNCHANGED <<step, main, written, failed, sent>>

TickerFlush ==
  /\ Running /\ writer = "select"
  /\ Flush(buf, FALSE)
  /\ UNCHANGED <<step, queue, buf, main, written, failed, sent>>

ContextDone ==
  /\ Running /\ writer = "select"
  /\ main # "serving"
  /\ Flush(buf, TRUE)
  /\ UNCHANGED <<step, queue, buf, main, written, failed, sent>>

-----------------------------------------------------------------------------
(* insertAttempts *)

\* The pool gives a connection until it is closed.
Acquire ==
  /\ main \in {"serving", "cancelled", "draining"}
  /\ writer = "flush"
  /\ writer' = "send"
  /\ UNCHANGED <<step, queue, buf, leaving, main, written, failed, sent>>

\* Mutant of Flushed: buf is not emptied.
FlushedNot ==
  /\ UNCHANGED buf
  /\ writer' = IF leaving THEN "stopped" ELSE "select"
\* buf = buf[:0], and the writer is back in its loop or gone.
Flushed ==
  /\ buf' = <<>>
  /\ writer' = IF leaving THEN "stopped" ELSE "select"

BatchWritten ==
  /\ Running /\ writer = "send"
  /\ written' = written \o buf
  /\ Flushed
  /\ UNCHANGED <<step, queue, leaving, main, failed, sent>>

\* The batch is given up, and the error logged.
BatchFails ==
  /\ Running
  /\ \/ /\ writer = "flush" /\ main = "closing"
        /\ UNCHANGED written
     \/ /\ writer = "send" /\ "db_error" \in Faults
        /\ UNCHANGED written
     \/ /\ writer = "send" /\ "reply_lost" \in Faults
        /\ written' = written \o buf
  /\ failed' = failed \union ToSet(buf)
  /\ Flushed
  /\ UNCHANGED <<step, queue, leaving, main, sent>>

-----------------------------------------------------------------------------
(* main *)

\* The signal: stopWorker().
StopWorker ==
  /\ main = "serving"
  /\ main' = "cancelled"
  /\ UNCHANGED <<step, queue, buf, writer, leaving, written, failed, sent>>

\* srv.Shutdown closes the listener.
Shutdown ==
  /\ main = "cancelled"
  /\ main' = "draining"
  /\ UNCHANGED <<step, queue, buf, writer, leaving, written, failed, sent>>

\* Shutdown returns: the handlers have, or its ten seconds are over.
ShutdownReturns ==
  /\ main = "draining"
  /\ main' = "closing"
  /\ UNCHANGED <<step, queue, buf, writer, leaving, written, failed, sent>>

\* db.Close() waits for the connections in use; then the process is gone.
Exit ==
  /\ main = "closing"
  /\ writer # "send"
  /\ main' = "exited"
  /\ UNCHANGED <<step, queue, buf, writer, leaving, written, failed, sent>>

Crash ==
  /\ "crash" \in Faults
  /\ Running
  /\ main' = "exited"
  /\ UNCHANGED <<step, queue, buf, writer, leaving, written, failed, sent>>

Exited ==
  /\ main = "exited"
  /\ UNCHANGED vars

Next ==
  \/ \E a \in Attempts : Accept(a) \/ LogAttempt(a)
  \/ Receive \/ TickerFlush \/ ContextDone
  \/ Acquire \/ BatchWritten \/ BatchFails
  \/ StopWorker \/ Shutdown \/ ShutdownReturns \/ Exit \/ Crash
  \/ Exited

Spec == Init /\ [][Next]_vars

\* Handlers run on, the writer's goroutine is scheduled, its ticker is chosen again
\* and again whatever else is ready.  Nothing is assumed of signals, nor that the pool
\* ever gives a connection, nor that Postgres ever answers.
FairSpec ==
  /\ Spec
  /\ \A a \in Attempts : WF_vars(LogAttempt(a))
  /\ WF_vars(Receive) /\ SF_vars(TickerFlush /\ buf # <<>>)

-----------------------------------------------------------------------------
(* Properties *)

\* Every variable has its type; the channel and the batch keep their limits.
TypeOK ==
  /\ step \in [Attempts -> {"none", "handling", "queued", "dropped"}]
  /\ queue \in Seq(Attempts) /\ Len(queue) <= ChanCap
  /\ buf \in Seq(Attempts) /\ Len(buf) <= MaxBatch
  /\ written \in Seq(Attempts) /\ sent \in Seq(Attempts)
  /\ writer \in {"select", "flush", "send", "stopped"}
  /\ leaving \in BOOLEAN
  /\ main \in {"serving", "cancelled", "draining", "closing", "exited"}
  /\ failed \subseteq Attempts

\* The table has every attempt at most once and in the order they were queued,
\* also when batches fail, are written without a reply, or are cut by a shutdown.
WrittenOnceInOrder ==
  \A i, j \in DOMAIN written : i < j =>
    \E k, l \in DOMAIN sent : k < l /\ sent[k] = written[i] /\ sent[l] = written[j]

\* No attempt is lost in silence before the process ends: what was queued is written,
\* reported in the log, or still on its way; and the writer never returns with
\* attempts in its hands.
NoSilentLoss ==
  Running =>
    /\ \A a \in Attempts : step[a] = "queued" =>
         a \in ToSet(queue) \union ToSet(buf) \union ToSet(written) \union failed
    /\ writer = "stopped" => buf = <<>>

\* Logging never holds a request up, though Postgres hang, the channel be full or the
\* writer be gone ("drop rather than block the request", src/api/analytics.go:36).
RequestsNeverWait ==
  \A a \in Attempts : step[a] = "handling" ~> step[a] # "handling" \/ ~Running

\* While the server serves, a queued attempt comes to the table or to the log, though
\* its batch never fill ("or a short timer", src/api/analytics.go:40-41), unless the
\* pool or Postgres leaves a batch without an answer.
AttemptsAreFlushed ==
  \A a \in Attempts :
    step[a] = "queued" ~> \/ a \in ToSet(written) \union failed
                          \/ main # "serving"
                          \/ [](writer \in {"flush", "send"})

\* src/api/analytics.go:11 and :17: every attempt is captured, unless the buffer
\* is full.  So a shutdown without any fault leaves every queued attempt in the table.
AttemptsCaptured ==
  main = "exited" => \A a \in Attempts : step[a] = "queued" => a \in ToSet(written)

=============================================================================
