---------------------------- MODULE InboundStream ----------------------------
(***************************************************************************)
(* The way in: from the chunks the transport reads to the messages the     *)
(* session dispatches.  BufferedTransport keeps a read outstanding and     *)
(* queues chunks while the session is busy; Framer cuts the bytes into     *)
(* fragments; InboundMessageAssembler joins the fragments of each channel. *)
(*                                                                         *)
(* Bytes are counted in units: a frame is two header units (channel and    *)
(* flags; length), a total-size unit when it is the first of several, and  *)
(* its payload units.  A chunk may end between any two.  Each action is a  *)
(* handler on the event loop, but for the feeding of a chunk, which takes  *)
(* a step per fragment.                                                    *)
(***************************************************************************)
EXTENDS Naturals, SequencesExt

CONSTANTS
    Channel,      \* channel ids
    Streams,      \* what the phone may send: sequences of frames
    MaxLength,    \* payload units of a frame at most: its length has 16 bits
    MaxChunk,     \* units that one read returns at most
    MaxQueued     \* kMaxQueuedReads

\* A frame: its channel, whether it begins and ends a message, and its payload.
Frames == [ch : Channel, first : BOOLEAN, last : BOOLEAN, body : Seq(Nat) \ {<<>>}]

ASSUME StreamAssumption ==
    /\ {MaxChunk, MaxQueued, MaxLength} \subseteq Nat \ {0}
    /\ \A s \in Streams : /\ s \in Seq(Frames)
                           /\ \A i \in DOMAIN s : Len(s[i].body) <= MaxLength

VARIABLES
    stream,      \* the frames the phone sends in this run
    wire,        \* units that have not been read yet
    under,       \* the read of the underlying transport: "reading", "done", "idle"
    result,      \* what that read has returned
    rx,          \* rx_queue_
    parked,      \* pending_handler_ is set
    deferred,    \* deferred_error_ is set
    due,         \* completions posted to the session: none or one
    closed,      \* closed_
    starting,    \* the session has not started its first read
    recv,        \* recv_buffer_ of the Framer
    feeding,     \* the session is feeding a chunk
    partial,     \* channel_payloads_
    delivered,   \* history: messages dispatched, by channel
    lost         \* history: a chunk was dropped, or a fragment not decrypted

bufferVars == <<under, result, rx, parked, deferred, due, closed, lost>>
sessionVars == <<recv, feeding, partial, delivered>>
vars == <<stream, wire, starting, bufferVars, sessionVars>>

\* What a read ends with instead of a chunk.
Failure == <<[error |-> "failure"]>>
Aborted == <<[error |-> "operation_aborted"]>>

Flags(f) == [ch |-> f.ch, first |-> f.first, last |-> f.last]
Size(n) == [len |-> n]
Payload(n) == [data |-> n]

HeaderSize == 2

\* The total-size field of the first of several fragments: not counted in len.
Extra(h) == IF h.first /\ ~h.last THEN 1 ELSE 0

Encoded(f) == <<Flags(f), Size(Len(f.body))>>
              \o [i \in 1..Extra(f) |-> Payload(0)]
              \o [i \in 1..Len(f.body) |-> Payload(f.body[i])]

\* One frame more: what it adds to the messages of channel c, and to the one that is
\* not complete.  A first frame begins a message, whatever came before.
Join(c, acc, f) ==
    LET all == (IF f.first THEN <<>> ELSE acc.part) \o f.body
    IN  IF f.ch # c THEN acc
        ELSE IF f.last THEN [whole |-> Append(acc.whole, all), part |-> <<>>]
        ELSE [acc EXCEPT !.part = all]

\* The messages of channel c in the first i frames of s, for each i.
Joined(s, c) ==
    LET join[i \in 0..Len(s)] ==
            IF i = 0 THEN [whole |-> <<>>, part |-> <<>>]
                     ELSE Join(c, join[i - 1], s[i])
    IN  join

Sent(s, c) == Joined(s, c)[Len(s)].whole

Init ==
    /\ stream \in Streams
    /\ wire = FlattenSeq([i \in DOMAIN stream |-> Encoded(stream[i])])
    /\ under = "reading" /\ result = <<>>
    /\ rx = <<>> /\ due = <<>>
    /\ parked = FALSE /\ deferred = FALSE /\ closed = FALSE /\ lost = FALSE
    /\ starting = TRUE
    /\ recv = <<>> /\ feeding = FALSE
    /\ partial = [c \in Channel |-> <<>>]
    /\ delivered = [c \in Channel |-> <<>>]

-----------------------------------------------------------------------------
(* BufferedTransport *)

\* The underlying read ends: with some of the units sent, or with an error.
UnderlyingRead ==
    /\ under = "reading" /\ ~closed
    /\ under' = "done"
    /\ \/ \E n \in 1..Len(wire) :
             /\ n <= MaxChunk
             /\ result' = SubSeq(wire, 1, n)
             /\ wire' = SubSeq(wire, n + 1, Len(wire))
       \/ /\ result' = Failure
          /\ UNCHANGED wire
    /\ UNCHANGED <<stream, starting, rx, parked, deferred, due, closed, lost,
                   sessionVars>>

\* invoke_handler: the completion of the session's read is posted, with a chunk that
\* fits into its buffer, or with an error.
InvokeHandler(what) == due' = <<what>>

\* Mutant of Buffer: the queue has no bound.
BufferAll(chunk) ==
    /\ rx' = Append(rx, chunk)
    /\ UNCHANGED lost

\* A full queue loses its oldest chunk.
Buffer(chunk) ==
    /\ rx' = Append(IF Len(rx) >= MaxQueued THEN Tail(rx) ELSE rx, chunk)
    /\ lost' = (lost \/ Len(rx) >= MaxQueued)

\* Mutant of OnError: the error is posted as soon as it is seen.
OnErrorEager ==
    /\ due' = <<Failure>>
    /\ parked' = FALSE
    /\ UNCHANGED deferred

\* Mutant of OnError: without a parked reader the error is forgotten.
OnErrorForgets ==
    /\ due' = IF parked THEN <<Failure>> ELSE due
    /\ parked' = FALSE
    /\ UNCHANGED deferred

OnError ==
    /\ IF parked THEN InvokeHandler(Failure) ELSE UNCHANGED due
    /\ parked' = FALSE
    /\ deferred' = ~parked

\* on_underlying_read: a parked reader gets the chunk or the error; without one
\* the chunk is queued and the error deferred.  After an error nothing is read.
OnUnderlyingRead ==
    /\ under = "done" /\ ~feeding
    /\ result' = <<>>
    /\ \/ /\ closed
          /\ under' = "idle"
          /\ UNCHANGED <<rx, parked, deferred, due, lost>>
       \/ /\ ~closed /\ result = Failure
          /\ under' = "idle"
          /\ OnError
          /\ UNCHANGED <<rx, lost>>
       \/ /\ ~closed /\ result # Failure
          /\ under' = "reading"
          /\ IF parked
               THEN /\ InvokeHandler(result)
                    /\ parked' = FALSE
                    /\ UNCHANGED <<rx, lost>>
               ELSE Buffer(result) /\ UNCHANGED <<due, parked>>
          /\ UNCHANGED deferred
    /\ UNCHANGED <<stream, wire, starting, closed, sessionVars>>

\* Mutant of AsyncRead: the handler is parked without a look at the queue.
AsyncReadParks ==
    /\ parked' = TRUE
    /\ UNCHANGED <<rx, due, deferred>>

\* async_read: queued chunks first, then a deferred error, then wait.
AsyncRead ==
    \/ /\ rx # <<>>
       /\ InvokeHandler(Head(rx))
       /\ rx' = Tail(rx)
       /\ UNCHANGED <<parked, deferred>>
    \/ /\ rx = <<>> /\ deferred
       /\ InvokeHandler(Failure)
       /\ deferred' = FALSE
       /\ UNCHANGED <<rx, parked>>
    \/ /\ rx = <<>> /\ ~deferred
       /\ parked' = TRUE
       /\ UNCHANGED <<rx, due, deferred>>

\* close(), by a session that ends: the queue is cleared, a parked read aborted.
Close ==
    /\ closed' = TRUE
    /\ rx' = <<>>
    /\ parked' = FALSE
    /\ under' = IF under = "reading" THEN "idle" ELSE under

-----------------------------------------------------------------------------
(* Session *)

\* start_read: a session that has ended reads no more.
StartRead == IF closed THEN UNCHANGED <<rx, parked, due, deferred>> ELSE AsyncRead

SessionStart ==
    /\ starting
    /\ starting' = FALSE
    /\ StartRead
    /\ UNCHANGED <<stream, wire, under, result, closed, lost, sessionVars>>

\* feed of the assembler and of its Framer: the chunk is appended, and its fragments
\* are handled one after the other before anything else runs.
Feed(chunk) ==
    /\ recv' = recv \o chunk
    /\ feeding' = TRUE

\* on_read_complete: data is fed, an error closes the transport.
OnReadComplete ==
    /\ due # <<>> /\ ~feeding
    /\ due' = <<>>
    /\ \/ /\ due[1] = Aborted
          /\ UNCHANGED <<under, rx, parked, closed, recv, feeding>>
       \/ /\ due[1] = Failure
          /\ Close
          /\ UNCHANGED <<recv, feeding>>
       \/ /\ due[1] \notin {Aborted, Failure}
          /\ Feed(due[1])
          /\ UNCHANGED <<under, rx, parked, closed>>
    /\ UNCHANGED <<stream, wire, starting, result, deferred, lost, partial,
                   delivered>>

\* The session ends for a reason of its own: a stop, a timeout, a message.
SessionEnds ==
    /\ ~closed
    /\ Close
    /\ IF parked THEN InvokeHandler(Aborted) ELSE UNCHANGED due
    /\ UNCHANGED <<stream, wire, starting, result, deferred, lost, sessionVars>>

\* What the first two units can be read as.  After a gap they may be any part of a
\* frame, and then mean anything.
HeaderRead ==
    { h \in [ch : Channel, first : BOOLEAN, last : BOOLEAN, len : 0..MaxLength] :
        /\ "ch" \in DOMAIN recv[1] => recv[1] = Flags(h)
        /\ "len" \in DOMAIN recv[2] => recv[2] = Size(h.len) }

\* Mutant of FrameSize: the total-size field is taken for payload.
FrameSizeNoExtra(h) == HeaderSize + h.len

FrameSize(h) == HeaderSize + Extra(h) + h.len

\* append_fragment_payload and extract_complete_message: a message too short to
\* have a type is dropped.
Assemble(h, data) ==
    LET whole == (IF h.first THEN <<>> ELSE partial[h.ch]) \o data
    IN  /\ partial' = [partial EXCEPT ![h.ch] = IF h.last THEN <<>> ELSE whole]
        /\ delivered' = IF h.last /\ whole # <<>>
                          THEN [delivered EXCEPT ![h.ch] = Append(@, whole)]
                          ELSE delivered

\* A fragment that cannot be decrypted: its channel is cleared and the session ends.
CannotDecrypt(h) ==
    /\ partial' = [partial EXCEPT ![h.ch] = <<>>]
    /\ IF closed THEN UNCHANGED <<under, rx, parked, closed>> ELSE Close
    /\ lost' = TRUE
    /\ UNCHANGED delivered

\* try_parse_fragment: a fragment that is complete leaves the buffer.
ParseFragment ==
    /\ feeding /\ Len(recv) >= HeaderSize
    /\ \E h \in HeaderRead :
          /\ FrameSize(h) <= Len(recv)
          /\ recv' = SubSeq(recv, FrameSize(h) + 1, Len(recv))
          /\ \/ /\ Assemble(h, SubSeq(recv, FrameSize(h) - h.len + 1, FrameSize(h)))
                /\ UNCHANGED <<under, rx, parked, closed, lost>>
             \/ CannotDecrypt(h)
    /\ UNCHANGED <<stream, wire, starting, feeding, result, deferred, due>>

\* The buffer has no complete fragment: the session starts its next read.
EndFeed ==
    /\ feeding
    /\ Len(recv) >= HeaderSize => \E h \in HeaderRead : FrameSize(h) > Len(recv)
    /\ feeding' = FALSE
    /\ StartRead
    /\ UNCHANGED <<stream, wire, starting, under, result, closed, lost, recv,
                   partial, delivered>>

-----------------------------------------------------------------------------
Next == \/ UnderlyingRead \/ OnUnderlyingRead
        \/ SessionStart \/ OnReadComplete \/ SessionEnds
        \/ ParseFragment \/ EndFeed

Spec == Init /\ [][Next]_vars

\* The event loop runs every handler that is due; nothing makes the phone send.
Fairness == /\ WF_vars(OnUnderlyingRead)
            /\ WF_vars(SessionStart) /\ WF_vars(OnReadComplete)
            /\ WF_vars(ParseFragment) /\ WF_vars(EndFeed)

FairSpec == Spec /\ Fairness

-----------------------------------------------------------------------------
\* The session has one read, which is parked, completed, or being fed; chunks
\* beyond the queue's bound are never kept.
TypeOK ==
    /\ under \in {"reading", "done", "idle"}
    /\ {parked, deferred, closed, lost, starting, feeding} \subseteq BOOLEAN
    /\ Len(rx) <= MaxQueued
    /\ Len(due) + (IF parked THEN 1 ELSE 0) + (IF feeding THEN 1 ELSE 0) <= 1

Bodies(payloads) == [i \in DOMAIN payloads |-> payloads[i].data]

\* All that was sent has been read, and the session waits for more.
Drained == wire = <<>> /\ result = <<>> /\ parked

\* However the transport cuts the stream into chunks and whatever is queued, each
\* channel's messages are dispatched whole and in order, and none is held back once
\* the session waits for more, as long as no chunk was dropped and no fragment failed
\* to decrypt.  (After a drop the Framer never looks for the next frame boundary.)
Faithful ==
    ~lost => \A c \in Channel :
        LET got == [i \in DOMAIN delivered[c] |-> Bodies(delivered[c][i])]
        IN  IsPrefix(got, Sent(stream, c)) /\ (Drained => got = Sent(stream, c))

\* An error of the transport never overtakes data that was read before it.
ErrorAfterData == due = <<Failure>> => rx = <<>>

\* What has been read reaches the services, unless a chunk is dropped or the
\* session ends.
Arrives ==
    wire = <<>> ~> \/ lost \/ closed
                   \/ \A c \in Channel : Len(delivered[c]) = Len(Sent(stream, c))

\* A transport that has failed is closed by the session, even when the error came
\* while the session was busy or behind with its chunks: the error is not lost.
ErrorEndsSession == result = Failure ~> closed
=============================================================================
