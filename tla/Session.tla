------------------------------- MODULE Session -------------------------------
(***************************************************************************)
(* One Android Auto session (Session.cpp) with its handshake coordinator,  *)
(* its TLS client (Crypto), its outbound encoder and queue (WriteQueue)    *)
(* and its control service (ControlService), on the engine's single        *)
(* event-loop thread.                                                      *)
(*                                                                         *)
(* Each action is one handler run to completion.  The only handler cut     *)
(* into several steps is on_read_complete: it feeds a chunk of messages to *)
(* the session one after the other, and no other handler runs meanwhile    *)
(* (feeding).  The phone and the transport are the environment: any        *)
(* message may arrive in any order, any operation may fail.                *)
(***************************************************************************)
EXTENDS WriteQueue, ControlService, Crypto

CONSTANTS
    VersionTimeout,   \* version_exchange_timeout_ms, in ticks
    SslTimeout,       \* ssl_handshake_timeout_ms
    ByeTimeout,       \* byebye_timeout_ms
    MaxStops,         \* bound: stop requests of the application in flight
    Faults            \* the environment's faults: a subset of FaultKinds

FaultKinds == {"transport", "tls", "version"}

ASSUME SessionAssumption ==
    /\ {VersionTimeout, SslTimeout, ByeTimeout} \subseteq Nat \ {0}
    /\ MaxStops \in Nat
    /\ Faults \subseteq FaultKinds

VARIABLES
    state,         \* state_
    stateTimer,    \* state_timer_: ticks left, or NotArmed
    timeouts,      \* collected on_state_timeout handlers that have not run
    starting,      \* start() is posted on the strand
    stops,         \* stop() handlers posted on the strand
    reads,         \* async_read calls whose handler has not run yet
    feeding,       \* on_read_complete is feeding messages of its chunk
    errors         \* on_session_error calls made to the observer

ownVars == <<state, stateTimer, timeouts, starting, stops, reads, feeding,
             hello, established, errors>>
vars == <<ownVars, writerVars, controlVars>>

Handshake == {"VersionExchange", "SslHandshake"}
Terminal  == {"Disconnected", "Error"}
SessionState == {"Idle", "Running", "Disconnecting"} \cup Handshake \cup Terminal

OwnTypeOK ==
    /\ state \in SessionState
    /\ stateTimer \in Int /\ stateTimer >= NotArmed
    /\ timeouts \in Nat /\ stops \in Nat /\ reads \in Nat /\ errors \in Nat
    /\ starting \in BOOLEAN /\ feeding \in BOOLEAN
    /\ hello \in BOOLEAN /\ established \in BOOLEAN

TypeOK == WriterTypeOK /\ ControlTypeOK /\ OwnTypeOK

\* The constructor.
OwnInit ==
    /\ WriterInit /\ CryptoInit
    /\ state = "Idle" /\ stateTimer = NotArmed
    /\ timeouts = 0 /\ stops = 0 /\ reads = 0 /\ errors = 0
    /\ feeding = FALSE

\* do_start_session posts the start of the session it has made.
Init ==
    /\ OwnInit
    /\ ControlInit
    /\ starting = TRUE

-----------------------------------------------------------------------------
(* State changes shared by the handlers. *)

\* Mutant of TransitionTo: the timer is started first, and transition_to cancels it.
TransitionCancelsTimer(s, t) == state' = s /\ stateTimer' = NotArmed

\* transition_to, followed by start_state_timer when t is a timeout.
TransitionTo(s, t) == state' = s /\ stateTimer' = t

\* Mutant of OutFrame: the encoder follows the session's state, not the crypto's.
OutFrameByState == IF state = "Running" THEN Sealed ELSE Plain

\* What send_message puts on the wire: ciphertext once TLS is established.
OutFrame == IF IsEstablished THEN Sealed ELSE Plain

\* Mutant of Fail: the early return on a terminal state is missing.
FailAgain(done) ==
    /\ TransitionTo("Error", NotArmed)
    /\ CloseTransport(done)
    /\ OnChannelClose
    /\ errors' = errors + 1

\* handle_error, in a handler that has also completed `done` writes.  Its
\* caller says what happens to the variables it does not mention.
Fail(done) ==
    /\ state \notin Terminal
    /\ TransitionTo("Error", NotArmed)
    /\ CloseTransport(done)
    /\ OnChannelClose
    /\ errors' = errors + 1

\* session_close_cb_ of ControlService: a stop is posted the first time.  The
\* bound on stops matters only to a phone that reopens channel 0 in between.
PostClose == /\ closeTriggered \/ stops <= MaxStops
             /\ stops' = IF closeTriggered THEN stops ELSE stops + 1

\* complete_disconnect.
CompleteDisconnect ==
    /\ TransitionTo("Disconnected", NotArmed)
    /\ CloseTransport(0)

-----------------------------------------------------------------------------
(* Handlers posted on the strand. *)

\* The event loop takes its next handler.  The one posted by start() is ahead of
\* every completion, timer and stop of its session in the ready queue.
Ready == ~feeding /\ ~starting

\* send_version_request.
SendVersionRequest == Enqueue(OutFrame)

\* The handler posted by start(): begin_version_exchange.
RunStart ==
    /\ starting
    /\ starting' = FALSE
    /\ TransitionTo("VersionExchange", VersionTimeout)
    /\ reads' = reads + 1
    /\ SendVersionRequest
    /\ UNCHANGED <<timeouts, stops, feeding, hello, established, errors, controlVars>>

\* initiate_bye of ControlService, which alone of the services does something when
\* the session stops: a ByeByeRequest.
InitiateBye == Enqueue(OutFrame)

\* begin_disconnect.
BeginDisconnect ==
    /\ TransitionTo("Disconnecting", ByeTimeout)
    /\ InitiateBye

\* The handler posted by stop().
RunStop ==
    /\ Ready /\ stops > 0
    /\ stops' = stops - 1
    /\ \/ /\ state \in Terminal
          /\ UNCHANGED <<state, stateTimer, errors, writerVars, controlVars>>
       \/ /\ state = "Running"
          /\ BeginDisconnect
          /\ UNCHANGED <<errors, controlVars>>
       \/ /\ state # "Running"
          /\ Fail(0)
    /\ UNCHANGED <<timeouts, starting, reads, feeding, hello, established>>

\* on_state_timeout: it acts on the state it finds.
RunTimeout ==
    /\ Ready /\ timeouts > 0
    /\ timeouts' = timeouts - 1
    /\ \/ /\ state \in Handshake
          /\ Fail(0)
       \/ /\ state = "Disconnecting"
          /\ CompleteDisconnect
          /\ UNCHANGED <<errors, controlVars>>
       \/ /\ state \notin Handshake \cup {"Disconnecting"}
          /\ UNCHANGED <<state, stateTimer, errors, writerVars, controlVars>>
    /\ UNCHANGED <<starting, stops, reads, feeding, hello, established>>

\* on_heartbeat_timer: a ping, then the verdict on the last pong.
RunHeartbeat ==
    /\ Ready /\ hbDue
    /\ \/ /\ ~running
          /\ SkipHeartbeat
          /\ UNCHANGED <<stops, writerVars>>
       \/ /\ running
          /\ Enqueue(OutFrame)
          /\ \E overdue \in BOOLEAN :
                /\ Heartbeat(overdue)
                /\ IF overdue THEN PostClose ELSE UNCHANGED stops
    /\ UNCHANGED <<state, stateTimer, timeouts, starting, reads, feeding, hello,
                   established, errors>>

-----------------------------------------------------------------------------
(* Completions of the transport. *)

\* Mutant of ReadData: the next read is started before the chunk is fed.
ReadDataRearmed ==
    /\ Ready /\ reads > 0
    /\ feeding' = TRUE
    /\ UNCHANGED <<state, stateTimer, timeouts, starting, stops, reads, hello,
                   established, errors, writerVars, controlVars>>

\* on_read_complete.  A read outstanding at close() is aborted, unless its
\* completion was already posted.
ReadData ==
    /\ Ready /\ reads > 0
    /\ reads' = reads - 1
    /\ feeding' = TRUE
    /\ UNCHANGED <<state, stateTimer, timeouts, starting, stops, hello,
                   established, errors, writerVars, controlVars>>

ReadError ==
    /\ Ready /\ reads > 0 /\ "transport" \in Faults
    /\ reads' = reads - 1
    /\ \/ Fail(0)
       \/ /\ state \in Terminal
          /\ UNCHANGED <<state, stateTimer, errors, writerVars, controlVars>>
    /\ UNCHANGED <<timeouts, starting, stops, feeding, hello, established>>

ReadAborted ==
    /\ Ready /\ reads > 0 /\ ~open
    /\ reads' = reads - 1
    /\ UNCHANGED <<state, stateTimer, timeouts, starting, stops, feeding, hello,
                   established, errors, writerVars, controlVars>>

\* The chunk is exhausted: start_read, unless the session is terminal.
EndChunk ==
    /\ feeding
    /\ feeding' = FALSE
    /\ reads' = IF state \in Terminal THEN reads ELSE reads + 1
    /\ UNCHANGED <<state, stateTimer, timeouts, starting, stops, hello,
                   established, errors, writerVars, controlVars>>

\* on_write_complete.
WriteOk ==
    /\ Ready /\ writes > 0
    /\ WriteDone
    /\ UNCHANGED <<ownVars, controlVars>>

WriteError ==
    /\ Ready /\ writes > 0 /\ "transport" \in Faults
    /\ \/ Fail(1)
       \/ /\ state \in Terminal
          /\ writes' = writes - 1
          /\ UNCHANGED <<state, stateTimer, errors, open, queue, writing, sent,
                         controlVars>>
    /\ UNCHANGED <<timeouts, starting, stops, reads, feeding, hello, established>>

\* The transport aborts the writes it still holds when it is closed; one that
\* saw its peer leave has closed itself and aborts every later write too.
WriteAborted ==
    /\ Ready /\ writes > 0
    /\ ~open \/ "transport" \in Faults
    /\ writes' = writes - 1
    /\ UNCHANGED <<ownVars, open, queue, writing, sent, controlVars>>

-----------------------------------------------------------------------------
(* Messages of the phone during the handshake.  Others are ignored. *)

\* Mutant of InHandshake: VERSION and SSL messages are taken in any live state.
InHandshakeOrLater == state \notin Terminal

\* is_handshake_state: the session itself takes the messages.
InHandshake == state \in Handshake

\* A handshake_step that fails.
TlsFails ==
    /\ "tls" \in Faults
    /\ HandshakeStep("error")
    /\ Fail(0)

\* A handshake_step, given `input` or nothing, that needs more data.
TlsContinues(input) ==
    /\ HandshakeStep("want")
    /\ \E output \in Output(input) :
          IF output THEN Enqueue(OutFrame) ELSE UNCHANGED writerVars
    /\ UNCHANGED <<errors, controlVars>>

\* The phone refuses the version it was offered.
VersionRefused ==
    /\ "version" \in Faults
    /\ Fail(0)
    /\ UNCHANGED cryptoVars

\* on_version_response, then begin_ssl_handshake: without input the first step
\* writes the ClientHello and a later one has nothing to do.  The state is
\* SslHandshake with a new timer before the coordinator can report an error.
RecvVersionResponse ==
    /\ feeding /\ InHandshake
    /\ \/ /\ TransitionTo("SslHandshake", SslTimeout)
          /\ TlsContinues(FALSE)
       \/ TlsFails
       \/ VersionRefused
    /\ UNCHANGED <<timeouts, starting, stops, reads, feeding>>

\* on_ssl_data_received, and on_ssl_complete when the handshake is done: the
\* plaintext AUTH_COMPLETE, then Running, which has no state timer.
RecvSsl ==
    /\ feeding /\ InHandshake
    /\ \/ /\ TlsContinues(TRUE)
          /\ UNCHANGED <<state, stateTimer>>
       \/ TlsFails
       \/ /\ HandshakeStep("complete")
          /\ Enqueue(Auth)
          /\ TransitionTo("Running", NotArmed)
          /\ UNCHANGED <<errors, controlVars>>
    /\ UNCHANGED <<timeouts, starting, stops, reads, feeding>>

-----------------------------------------------------------------------------
(* Messages of the phone after the handshake.  dispatch_decrypted hands     *)
(* them to the services whatever the state is by then, Error included.      *)

Dispatching == feeding /\ ~InHandshake

\* SensorService answers the opening of its channel, and the phone's request for the
\* driving status, with its response and the status.
SensorStarted == EnqueuePair(OutFrame)

\* A request that a service answers with one frame, or with two.
RecvRequest ==
    /\ Dispatching
    /\ Enqueue(OutFrame) \/ SensorStarted
    /\ UNCHANGED <<ownVars, controlVars>>

RecvPong ==
    /\ Dispatching
    /\ OnPong
    /\ UNCHANGED <<ownVars, writerVars>>

\* ByeByeRequest is answered before the close is triggered.
RecvByeRequest ==
    /\ Dispatching
    /\ Enqueue(OutFrame)
    /\ PostClose
    /\ TriggerClose
    /\ UNCHANGED <<state, stateTimer, timeouts, starting, reads, feeding, hello,
                   established, errors>>

RecvByeResponse ==
    /\ Dispatching
    /\ PostClose
    /\ TriggerClose
    /\ UNCHANGED <<state, stateTimer, timeouts, starting, reads, feeding, hello,
                   established, errors, writerVars>>

\* A ChannelOpenRequest on channel 0.
RecvControlOpen ==
    /\ Dispatching
    /\ Enqueue(OutFrame)
    /\ OnChannelOpen
    /\ UNCHANGED ownVars

\* A fragment that does not decrypt.
RecvUndecryptable ==
    /\ Dispatching /\ "tls" \in Faults
    /\ DecryptFails
    /\ Fail(0)
    /\ UNCHANGED <<timeouts, starting, stops, reads, feeding>>

-----------------------------------------------------------------------------
(* The application, and the clock. *)

\* Engine::stop_session and stop_all reach the sessions that are not terminal.
RequestStop ==
    /\ state \notin Terminal /\ stops < MaxStops
    /\ stops' = stops + 1
    /\ UNCHANGED <<state, stateTimer, timeouts, starting, reads, feeding, hello,
                   established, errors, writerVars, controlVars>>

\* send_touch and send_media_key of InputService: one report.
SendInput == Enqueue(OutFrame)

\* A touch, a key or a change of audio focus that the engine turns into a frame.
AppSend ==
    /\ ~feeding /\ state \notin Terminal
    /\ SendInput
    /\ UNCHANGED <<ownVars, controlVars>>

CollectStateTimer ==
    /\ Ready /\ stateTimer = 0
    /\ stateTimer' = NotArmed
    /\ timeouts' = timeouts + 1
    /\ UNCHANGED <<state, starting, stops, reads, feeding, hello, established,
                   errors, writerVars, controlVars>>

CollectHeartbeatTimer ==
    /\ Ready
    /\ CollectHeartbeat
    /\ UNCHANGED <<ownVars, writerVars>>

\* The event loop runs what is due before the next tick: a handler takes much
\* less than a tick.
Tick ==
    /\ Ready /\ ~hbDue
    /\ stops = 0 /\ timeouts = 0
    /\ stateTimer # 0 /\ hb # 0
    /\ stateTimer' = IF stateTimer > 0 THEN stateTimer - 1 ELSE stateTimer
    /\ ControlTick
    /\ UNCHANGED <<state, timeouts, starting, stops, reads, feeding, hello,
                   established, errors, writerVars>>

-----------------------------------------------------------------------------
Loop == RunStart \/ RunStop \/ RunTimeout \/ RunHeartbeat

Transport == ReadData \/ ReadError \/ ReadAborted \/ WriteOk \/ WriteError \/ WriteAborted

Phone == \/ RecvVersionResponse \/ RecvSsl \/ RecvRequest \/ RecvPong
         \/ RecvByeRequest \/ RecvByeResponse \/ RecvControlOpen
         \/ RecvUndecryptable

Next == \/ Loop \/ Transport \/ Phone \/ EndChunk
        \/ RequestStop \/ AppSend
        \/ CollectStateTimer \/ CollectHeartbeatTimer \/ Tick

Spec == Init /\ [][Next]_vars

(***************************************************************************)
(* Fairness: the event loop's ready queue is first-in first-out, so a      *)
(* handler that is due runs even when others keep arriving; a chunk holds  *)
(* finitely many messages; time passes.  Nothing is assumed of the phone,  *)
(* the transport or the application.                                       *)
(***************************************************************************)
Fairness ==
    /\ WF_vars(EndChunk)
    /\ SF_vars(RunStart) /\ SF_vars(RunStop) /\ SF_vars(RunTimeout)
    /\ SF_vars(RunHeartbeat)
    /\ SF_vars(CollectStateTimer) /\ SF_vars(CollectHeartbeatTimer)
    /\ SF_vars(Tick)

FairSpec == Spec /\ Fairness

-----------------------------------------------------------------------------
(* Safety. *)

\* The transport holds at most one write and its buffer is the head of the
\* queue: nothing pops the frame being written, nothing starts a second write,
\* and an idle writer has nothing queued (enqueue_write and do_write_next are
\* entered from any handler, on_write_complete among them).
OneWriter ==
    /\ writes <= 1
    /\ writes = 1 => writing
    /\ writing <=> queue # <<>>

\* At most one read is outstanding, and none while the chunk it would overwrite
\* in read_buffer_ is still being fed.
OneReader == reads + (IF feeding THEN 1 ELSE 0) <= 1

\* On the wire, plaintext comes first, then AUTH_COMPLETE once, then only
\* ciphertext: "it's the last plaintext message" of on_ssl_complete, with
\* heartbeats, touches and frames dropped by a full queue in between.
WireOrder ==
    /\ \A i, j \in 1..Len(queue) :
          i < j => queue[i] <= queue[j] /\ (queue[i] = Auth => queue[j] # Auth)
    /\ queue # <<>> => sent <= queue[1] /\ (sent = Auth => queue[1] # Auth)

\* TLS protects exactly the sessions that have left the handshake: no handler,
\* late timeout or repeated VERSION_RESPONSE returns an established session to
\* it, and services are never reached without TLS except to be told of an error.
SecureStates ==
    /\ state \in {"Idle"} \cup Handshake => ~established
    /\ state \in {"Running", "Disconnecting", "Disconnected"} => established

\* A session that has not ended always has an event under way that can end it,
\* even if the phone and the application never do anything again: its start,
\* its heartbeat, a stop, or the timer of its farewell.  The heartbeat alone
\* watches a Running session, and nothing starts it but the control channel.
Watched ==
    \/ state \in Terminal
    \/ starting
    \/ hb >= 0
    \/ hbDue
    \/ stops > 0
    \/ state = "Disconnecting" /\ (stateTimer >= 0 \/ timeouts > 0)

\* The session implements the lifecycle it promises its observer.
Observed == INSTANCE Lifecycle
Implements == Observed!Spec

-----------------------------------------------------------------------------
(* Liveness, under Fairness. *)

\* A stop that was requested ends the session, whatever the phone does.
StopEnds == stops > 0 ~> state \in Terminal

\* The handshake ends.  The state timer alone does not give this, as each
\* VERSION_RESPONSE rearms it; the heartbeat that runs since the session was
\* created does.
HandshakeEnds == state \in Handshake ~> state \notin Handshake

\* A phone that stops answering pings is given up.
DeadPhoneEnds == <>[](pongAge > PingTimeout) => <>(state \in Terminal)
=============================================================================
