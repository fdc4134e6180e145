----------------------------- MODULE WriteQueue -----------------------------
(***************************************************************************)
(* The outbound half of a Session: write_queue_, write_in_progress_ and    *)
(* the async_write operations given to the transport (Session.cpp,         *)
(* enqueue_write, do_write_next, on_write_complete).  A frame is abstracted *)
(* to what its bytes are on the wire: plaintext before AUTH_COMPLETE, the  *)
(* AUTH_COMPLETE message itself, or TLS ciphertext.                        *)
(***************************************************************************)
EXTENDS Integers, Sequences

CONSTANT QueueCap      \* kMaxWriteQueueSize

ASSUME QueueAssumption == QueueCap \in Nat \ {0}

VARIABLES
    open,        \* the transport has not been closed by the session
    queue,       \* write_queue_, the head being the frame being written
    writing,     \* write_in_progress_
    writes,      \* async_write calls whose handler has not run yet
    sent         \* history: the last frame completely written

writerVars == <<open, queue, writing, writes, sent>>

Plain  == 0
Auth   == 1
Sealed == 2
Frame  == {Plain, Auth, Sealed}

WriterTypeOK ==
    /\ open \in BOOLEAN
    /\ queue \in Seq(Frame) /\ Len(queue) <= QueueCap
    /\ writing \in BOOLEAN
    /\ writes \in Nat
    /\ sent \in Frame

WriterInit ==
    /\ open = TRUE
    /\ queue = <<>>
    /\ writing = FALSE
    /\ writes = 0
    /\ sent = Plain

\* Mutant of Push: the size check is forgotten.
PushUnbounded(q, f) == Append(q, f)

\* A full queue drops the newest frame.
Push(q, f) == IF Len(q) < QueueCap THEN Append(q, f) ELSE q

\* Mutant of Accept: enqueue_write starts a write without looking at
\* write_in_progress_.
AcceptAlwaysWrites(q) ==
    /\ queue' = q
    /\ writing' = TRUE
    /\ writes' = writes + 1
    /\ UNCHANGED <<open, sent>>

\* The queue becomes q; an idle writer that has received a frame starts writing.
Accept(q) ==
    /\ queue' = q
    /\ IF writing \/ q = queue
         THEN UNCHANGED <<writing, writes>>
         ELSE /\ writing' = TRUE
              /\ writes' = writes + 1
    /\ UNCHANGED <<open, sent>>

Enqueue(f)     == Accept(Push(queue, f))
EnqueuePair(f) == Accept(Push(Push(queue, f), f))

\* on_write_complete without error: pop the head, write the next frame if any.
WriteDone ==
    /\ queue' = Tail(queue)
    /\ sent' = Head(queue)
    /\ IF Tail(queue) = <<>>
         THEN /\ writing' = FALSE
              /\ writes' = writes - 1
         ELSE UNCHANGED <<writing, writes>>
    /\ UNCHANGED open

\* transport_->close(), and at the same time the handler of `done` write
\* operations has run.
CloseTransport(done) ==
    /\ open' = FALSE
    /\ writes' = writes - done
    /\ UNCHANGED <<queue, writing, sent>>
=============================================================================
