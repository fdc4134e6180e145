----------------------------- MODULE BlockingIO -----------------------------
(***************************************************************************)
(* What AndroidTcpTransport and AndroidUsbTransport have in common: a read *)
(* and a write thread that block in the kernel, and the event loop, which  *)
(* hands them one operation each and closes them.                          *)
(*                                                                         *)
(* A thread waits on a condition variable with a predicate.  Between the   *)
(* predicate's evaluation and the sleep it holds its mutex ("dozing"): a   *)
(* caller that takes the mutex cannot notify it then, one that does not    *)
(* take it can, and the notification is lost.                              *)
(***************************************************************************)
EXTENDS Naturals

Direction == {"read", "write"}

VARIABLES
    open,        \* open_
    requested,   \* read_requested_, write_requested_
    stored,      \* pending_read_handler_, pending_write_handler_ are set
    thread,      \* where each thread is
    posted,      \* handlers posted on the executor that have not run
    called,      \* history: the caller waits for the handler of its operation
    ended,       \* a read has reported the end of the stream or an error
    closing      \* close(): "open", "joining" the threads, or "returned"

ioVars == <<open, requested, stored, thread, posted, called, ended, closing>>

Place == {"loop", "test", "dozing", "asleep", "io", "exited"}

IoTypeOK ==
    /\ open \in BOOLEAN /\ ended \in BOOLEAN
    /\ requested \in [Direction -> BOOLEAN]
    /\ stored \in [Direction -> BOOLEAN]
    /\ thread \in [Direction -> Place]
    /\ posted \in [Direction -> Nat]
    /\ called \in [Direction -> BOOLEAN]
    /\ closing \in {"open", "joining", "returned"}

Init ==
    /\ open = TRUE
    /\ requested = [d \in Direction |-> FALSE]
    /\ stored = [d \in Direction |-> FALSE]
    /\ thread = [d \in Direction |-> "loop"]
    /\ posted = [d \in Direction |-> 0]
    /\ called = [d \in Direction |-> FALSE]
    /\ ended = FALSE
    /\ closing = "open"

-----------------------------------------------------------------------------
(* The event loop.  It is blocked while close() joins the threads. *)

LoopFree == closing # "joining"

\* notify_one, notify_all
Notified(place) == IF place = "asleep" THEN "test" ELSE place

\* The caller's side of the contract: one operation of a direction at a time;
\* BufferedTransport reads until the first error and not after close().
MayCall(d) == /\ LoopFree /\ ~called[d]
              /\ d = "read" => closing = "open" /\ ~ended

\* Mutant of Call: the request is made without the mutex.
CallUnlocked(d) ==
    /\ MayCall(d)
    /\ called' = [called EXCEPT ![d] = TRUE]
    /\ IF open
         THEN /\ stored' = [stored EXCEPT ![d] = TRUE]
              /\ requested' = [requested EXCEPT ![d] = TRUE]
              /\ thread' = [thread EXCEPT ![d] = Notified(@)]
              /\ UNCHANGED posted
         ELSE /\ posted' = [posted EXCEPT ![d] = @ + 1]
              /\ UNCHANGED <<stored, requested, thread>>
    /\ UNCHANGED <<open, ended, closing>>

\* async_read, async_write: a closed transport posts operation_aborted.
Call(d) ==
    /\ MayCall(d)
    /\ called' = [called EXCEPT ![d] = TRUE]
    /\ IF open
         THEN /\ thread[d] # "dozing"
              /\ stored' = [stored EXCEPT ![d] = TRUE]
              /\ requested' = [requested EXCEPT ![d] = TRUE]
              /\ thread' = [thread EXCEPT ![d] = Notified(@)]
              /\ UNCHANGED posted
         ELSE /\ posted' = [posted EXCEPT ![d] = @ + 1]
              /\ UNCHANGED <<stored, requested, thread>>
    /\ UNCHANGED <<open, ended, closing>>

\* Mutant of RunHandler: a handler is run before it has been posted.
RunHandlerInline(d) ==
    /\ LoopFree /\ called[d]
    /\ posted' = [posted EXCEPT ![d] = @ - 1]
    /\ called' = [called EXCEPT ![d] = FALSE]
    /\ UNCHANGED <<open, requested, stored, thread, ended, closing>>

\* A posted handler runs.
RunHandler(d) ==
    /\ LoopFree /\ posted[d] > 0
    /\ posted' = [posted EXCEPT ![d] = @ - 1]
    /\ called' = [called EXCEPT ![d] = FALSE]
    /\ UNCHANGED <<open, requested, stored, thread, ended, closing>>

\* close(), up to the joins.  The notification does not take the mutexes.  A
\* transport that is not open any more is not closed.
BeginClose ==
    /\ closing = "open"
    /\ IF open
         THEN /\ open' = FALSE
              /\ thread' = [d \in Direction |-> Notified(thread[d])]
              /\ closing' = "joining"
         ELSE /\ closing' = "returned"
              /\ UNCHANGED <<open, thread>>
    /\ UNCHANGED <<requested, stored, posted, called, ended>>

\* Mutant of FinishClose: the handlers are not cancelled.
FinishCloseOnly ==
    /\ closing = "joining"
    /\ \A d \in Direction : thread[d] = "exited"
    /\ closing' = "returned"
    /\ UNCHANGED <<open, requested, stored, thread, posted, called, ended>>

\* close(), after the joins: the stored handlers are posted with operation_aborted.
FinishClose ==
    /\ closing = "joining"
    /\ \A d \in Direction : thread[d] = "exited"
    /\ posted' = [d \in Direction |-> IF stored[d] THEN posted[d] + 1 ELSE posted[d]]
    /\ stored' = [d \in Direction |-> FALSE]
    /\ closing' = "returned"
    /\ UNCHANGED <<open, requested, thread, called, ended>>

-----------------------------------------------------------------------------
(* The threads: while (open_) { wait; take the request; do it; post }. *)

Go(d, place) == thread' = [thread EXCEPT ![d] = place]

TestOpen(d) ==
    /\ thread[d] = "loop"
    /\ Go(d, IF open THEN "test" ELSE "exited")
    /\ UNCHANGED <<open, requested, stored, posted, called, ended, closing>>

\* The predicate of wait: read_requested_ || !open_.
Ready(d) == requested[d] \/ ~open

Doze(d) ==
    /\ thread[d] = "test" /\ ~Ready(d)
    /\ Go(d, "dozing")
    /\ UNCHANGED <<open, requested, stored, posted, called, ended, closing>>

Sleep(d) ==
    /\ thread[d] = "dozing"
    /\ Go(d, "asleep")
    /\ UNCHANGED <<open, requested, stored, posted, called, ended, closing>>

SpuriousWake(d) ==
    /\ thread[d] = "asleep"
    /\ Go(d, "test")
    /\ UNCHANGED <<open, requested, stored, posted, called, ended, closing>>

Wait(d) == TestOpen(d) \/ Doze(d) \/ Sleep(d) \/ SpuriousWake(d)

Post(d) == posted' = [posted EXCEPT ![d] = @ + 1]

Loop == \/ \E d \in Direction : Call(d) \/ RunHandler(d)
        \/ BeginClose \/ FinishClose

(***************************************************************************)
(* The operating system runs both threads, and the loop finishes a close   *)
(* it has begun.  A spurious wake-up is possible and never owed.           *)
(***************************************************************************)
WaitFairness == /\ \A d \in Direction : /\ WF_ioVars(TestOpen(d))
                                        /\ WF_ioVars(Doze(d))
                                        /\ WF_ioVars(Sleep(d))
                /\ WF_ioVars(FinishClose)

-----------------------------------------------------------------------------
(* Properties of either transport. *)

\* ITransport's contract, of the operations as their caller sees them: a handler
\* is queued only for a call, once, and never run inside it.
Contract == INSTANCE AsyncOps WITH
    op <- [d \in Direction |-> IF posted[d] > 0 THEN "due"
                               ELSE IF called[d] THEN "pending" ELSE "idle"]
Keeps == Contract!Spec

\* A request is taken by its thread unless the transport is closed: it is never
\* made while the thread is between its predicate and its sleep.
Served == \A d \in Direction :
              requested[d] /\ open ~> (thread[d] = "io" \/ ~requested[d] \/ ~open)

\* "Exactly one handler invocation per call" and "close() ... cancels pending
\* operations": once close() has returned no handler is left in the transport.
CloseCompletes == closing = "returned" => \A d \in Direction : ~stored[d]

\* close() returns to the event loop that called it.
CloseReturns == closing = "joining" ~> closing = "returned"
=============================================================================
