--------------------------- MODULE Session_proofs ---------------------------
(***************************************************************************)
(* Proofs about Session for every value of its constants: type correctness *)
(* and the safety invariants, from one inductive invariant.                *)
(***************************************************************************)
EXTENDS Session, TLAPS

USE DEF Plain, Auth, Sealed, Frame, NotArmed

-----------------------------------------------------------------------------
(* The inductive invariant. *)

\* Before the start handler nothing has been read, and the session is Idle.
StartInv == /\ starting => ~feeding /\ reads = 0
            /\ starting <=> state = "Idle"

\* While TLS is not established only plaintext has been queued.
PlainInv == ~established => /\ sent = Plain
                            /\ \A i \in 1..Len(queue) : queue[i] = Plain

\* Why a live session is watched: its control service runs; a heartbeat is due
\* or armed until the close is triggered; from then on a stop is posted until
\* the farewell begins, and the farewell has its own timer.
WatchInv == \/ state \in Terminal
            \/ /\ running
               /\ closeTriggered \/ hb >= 0 \/ hbDue
               /\ closeTriggered => stops > 0 \/ state = "Disconnecting"
               /\ state = "Disconnecting" => stateTimer >= 0 \/ timeouts > 0

IInv == /\ TypeOK
        /\ OneWriter
        /\ StartInv
        /\ OneReader
        /\ SecureStates
        /\ PlainInv
        /\ WireOrder
        /\ WatchInv

-----------------------------------------------------------------------------
(* The write queue: what Push and Tail do to the order of the wire. *)

\* WireOrder and PlainInv of a last frame l and a queue q.
Ordered(l, q) ==
    /\ \A i, j \in 1..Len(q) :
          i < j => q[i] <= q[j] /\ (q[i] = Auth => q[j] # Auth)
    /\ q # <<>> => l <= q[1] /\ (l = Auth => q[1] # Auth)

AllPlain(l, q) == l = Plain /\ \A i \in 1..Len(q) : q[i] = Plain

Bounded(q) == q \in Seq(Frame) /\ Len(q) <= QueueCap

\* Push keeps the queue bounded and never leaves it empty; it drops the frame or
\* puts it behind the others.
LEMMA PushShape ==
    ASSUME NEW q, Bounded(q), NEW f \in Frame
    PROVE  /\ Bounded(Push(q, f))
           /\ Push(q, f) # <<>>
           /\ Len(q) < QueueCap => /\ Len(Push(q, f)) = Len(q) + 1
                                   /\ \A i \in 1..Len(q) : Push(q, f)[i] = q[i]
                                   /\ Push(q, f)[Len(q) + 1] = f
           /\ ~(Len(q) < QueueCap) => Push(q, f) = q
<1>1. Len(q) \in Nat /\ QueueCap \in Nat \ {0}
  BY QueueAssumption DEF Bounded
<1>2. CASE Len(q) < QueueCap
  <2>1. Push(q, f) = Append(q, f)
    BY <1>2 DEF Push
  <2>2. /\ Append(q, f) \in Seq(Frame)
        /\ Len(Append(q, f)) = Len(q) + 1
        /\ \A i \in 1..Len(q) : Append(q, f)[i] = q[i]
        /\ Append(q, f)[Len(q) + 1] = f
    BY <1>1 DEF Bounded
  <2>3. Append(q, f) # <<>>
    BY <1>1, <2>2
  <2> QED BY <1>1, <1>2, <2>1, <2>2, <2>3 DEF Bounded
<1>3. CASE ~(Len(q) < QueueCap)
  <2>1. Push(q, f) = q
    BY <1>3 DEF Push
  <2>2. q # <<>>
    BY <1>1, <1>3
  <2> QED BY <1>3, <2>1, <2>2 DEF Bounded
<1> QED BY <1>2, <1>3

\* Ciphertext may follow anything, and anything may follow plaintext.
LEMMA PushOrdered ==
    ASSUME NEW q, Bounded(q), NEW l \in Frame, NEW f \in Frame,
           Ordered(l, q), f = Sealed \/ AllPlain(l, q)
    PROVE  Ordered(l, Push(q, f))
<1>1. CASE Len(q) < QueueCap
  <2> DEFINE p == Push(q, f)
  <2>0. Len(q) \in Nat /\ \A i \in 1..Len(q) : q[i] \in Frame
    BY DEF Bounded
  <2>1. /\ Len(p) = Len(q) + 1 /\ Len(q) \in Nat
        /\ \A i \in 1..Len(q) : p[i] = q[i] /\ q[i] \in Frame
        /\ p[Len(q) + 1] = f
    BY <1>1, <2>0, PushShape
  <2> HIDE DEF p
  <2>2. \A i \in 1..Len(q) : q[i] <= f /\ (q[i] = Auth => f # Auth)
    BY <2>1 DEF AllPlain
  <2>3. ASSUME NEW i \in 1..Len(p), NEW j \in 1..Len(p), i < j
        PROVE  p[i] <= p[j] /\ (p[i] = Auth => p[j] # Auth)
    <3>1. CASE j \in 1..Len(q)
      <4>1. i \in 1..Len(q)
        BY <2>1, <2>3, <3>1
      <4> QED BY <2>1, <2>3, <3>1, <4>1 DEF Ordered
    <3>2. CASE j = Len(q) + 1
      <4>1. i \in 1..Len(q)
        BY <2>1, <2>3, <3>2
      <4> QED BY <2>1, <2>2, <3>2, <4>1
    <3> QED BY <2>1, <3>1, <3>2
  <2>4. l <= p[1] /\ (l = Auth => p[1] # Auth)
    <3>1. CASE q = <<>>
      BY <2>1, <3>1 DEF AllPlain
    <3>2. CASE q # <<>>
      <4>1. 1 \in 1..Len(q)
        BY <2>1, <3>2 DEF Bounded
      <4> QED BY <2>1, <3>2, <4>1 DEF Ordered
    <3> QED BY <3>1, <3>2
  <2>5. Ordered(l, p)
    BY <2>3, <2>4 DEF Ordered
  <2> QED BY <2>5 DEF p
<1>2. CASE ~(Len(q) < QueueCap)
  <2>1. Push(q, f) = q
    BY <1>2, PushShape
  <2> QED BY <2>1
<1> QED BY <1>1, <1>2

LEMMA PushPlain ==
    ASSUME NEW q, Bounded(q), NEW l, AllPlain(l, q)
    PROVE  AllPlain(l, Push(q, Plain))
<1>1. CASE Len(q) < QueueCap
  <2> DEFINE p == Push(q, Plain)
  <2>0. Len(q) \in Nat
    BY DEF Bounded
  <2>1. /\ Len(p) = Len(q) + 1 /\ Len(q) \in Nat
        /\ \A i \in 1..Len(q) : p[i] = q[i]
        /\ p[Len(q) + 1] = Plain
    BY <1>1, <2>0, PushShape
  <2> HIDE DEF p
  <2>2. AllPlain(l, p)
    BY <2>1 DEF AllPlain
  <2> QED BY <2>2 DEF p
<1>2. CASE ~(Len(q) < QueueCap)
  <2>1. Push(q, Plain) = q
    BY <1>2, PushShape
  <2> QED BY <2>1
<1> QED BY <1>1, <1>2

\* The head leaves the queue and becomes the last frame on the wire.
LEMMA PopOrdered ==
    ASSUME NEW q, Bounded(q), q # <<>>, NEW l \in Frame, Ordered(l, q)
    PROVE  /\ Bounded(Tail(q))
           /\ Head(q) \in Frame
           /\ Ordered(Head(q), Tail(q))
           /\ AllPlain(l, q) => AllPlain(Head(q), Tail(q))
<1> DEFINE t == Tail(q)
<1>1. /\ Len(q) \in Nat \ {0} /\ t \in Seq(Frame) /\ Len(t) = Len(q) - 1
      /\ Head(q) = q[1] /\ Head(q) \in Frame
      /\ \A i \in 1..Len(t) : t[i] = q[i + 1]
  BY DEF Bounded
<1>2. t # <<>> => 2 \in 1..Len(q) /\ t[1] = q[2]
  BY <1>1
<1> HIDE DEF t
<1>3. Bounded(t)
  BY <1>1, QueueAssumption DEF Bounded
<1>4. Ordered(Head(q), t)
  <2>1. ASSUME NEW i \in 1..Len(t), NEW j \in 1..Len(t), i < j
        PROVE  t[i] <= t[j] /\ (t[i] = Auth => t[j] # Auth)
    <3>1. i + 1 \in 1..Len(q) /\ j + 1 \in 1..Len(q) /\ i + 1 < j + 1
      BY <1>1, <2>1
    <3> QED BY <1>1, <2>1, <3>1 DEF Ordered
  <2>2. t # <<>> => Head(q) <= t[1] /\ (Head(q) = Auth => t[1] # Auth)
    BY <1>1, <1>2 DEF Ordered
  <2> QED BY <2>1, <2>2 DEF Ordered
<1>5. AllPlain(l, q) => AllPlain(Head(q), t)
  BY <1>1 DEF AllPlain
<1> QED BY <1>1, <1>3, <1>4, <1>5 DEF t

-----------------------------------------------------------------------------
(* The handlers' effects on the writer. *)

QueueInv == WriterTypeOK /\ OneWriter /\ WireOrder /\ PlainInv

\* QueueInv in terms of the predicates above, in a state and after a step.
LEMMA QueueInvDef ==
    /\ QueueInv <=> /\ open \in BOOLEAN /\ writing \in BOOLEAN /\ writes \in Nat
                    /\ sent \in Frame /\ Bounded(queue) /\ OneWriter
                    /\ Ordered(sent, queue)
                    /\ ~established => AllPlain(sent, queue)
    /\ QueueInv' <=> /\ open' \in BOOLEAN /\ writing' \in BOOLEAN /\ writes' \in Nat
                     /\ sent' \in Frame /\ Bounded(queue') /\ OneWriter'
                     /\ Ordered(sent', queue')
                     /\ ~established' => AllPlain(sent', queue')
BY DEF QueueInv, WriterTypeOK, WireOrder, PlainInv, Bounded, Ordered, AllPlain

LEMMA AcceptKeeps ==
    ASSUME QueueInv, NEW q, Bounded(q), q # <<>>, Ordered(sent, q),
           ~established' => AllPlain(sent, q), Accept(q)
    PROVE  QueueInv'
<1>1. /\ open \in BOOLEAN /\ writing \in BOOLEAN /\ writes \in Nat
      /\ sent \in Frame /\ OneWriter
  BY QueueInvDef
<1>2. queue' = q /\ open' = open /\ sent' = sent
  BY DEF Accept
<1>3. /\ writing' \in BOOLEAN /\ writes' \in Nat
      /\ OneWriter'
  <2>1. CASE writing
    BY <1>1, <1>2, <2>1 DEF Accept, OneWriter
  <2>2. CASE ~writing
    <3>1. queue = <<>> /\ writes = 0
      BY <1>1, <2>2 DEF OneWriter
    <3>2. writing' = TRUE /\ writes' = 1
      BY <2>2, <3>1 DEF Accept
    <3> QED BY <1>2, <3>2 DEF OneWriter
  <2> QED BY <2>1, <2>2
<1> QED BY <1>1, <1>2, <1>3, QueueInvDef

\* A frame sent through the encoder, or two.
LEMMA EnqueueKeeps ==
    ASSUME QueueInv, established' = established,
           Enqueue(OutFrame) \/ EnqueuePair(OutFrame)
    PROVE  QueueInv'
<1> DEFINE p == Push(queue, OutFrame)
           r == Push(p, OutFrame)
<1>1. /\ sent \in Frame /\ Bounded(queue) /\ Ordered(sent, queue)
      /\ ~established => AllPlain(sent, queue)
  BY QueueInvDef
<1>2. OutFrame \in Frame /\ (~established => OutFrame = Plain)
                         /\ (established => OutFrame = Sealed)
  BY DEF OutFrame, IsEstablished
<1>3. Bounded(p) /\ p # <<>> /\ Ordered(sent, p) /\ (~established => AllPlain(sent, p))
  BY <1>1, <1>2, PushShape, PushOrdered, PushPlain
<1>4. Bounded(r) /\ r # <<>> /\ Ordered(sent, r) /\ (~established => AllPlain(sent, r))
  <2> HIDE DEF p
  <2> QED BY <1>1, <1>2, <1>3, PushShape, PushOrdered, PushPlain
<1>5. Accept(p) \/ Accept(r)
  BY DEF Enqueue, EnqueuePair
<1> HIDE DEF p, r
<1> QED BY <1>3, <1>4, <1>5, AcceptKeeps

\* AUTH_COMPLETE, sent while only plaintext is queued.
LEMMA AuthKeeps ==
    ASSUME QueueInv, ~established, established', Enqueue(Auth)
    PROVE  QueueInv'
<1> DEFINE p == Push(queue, Auth)
<1>1. sent \in Frame /\ Bounded(queue) /\ Ordered(sent, queue) /\ AllPlain(sent, queue)
  BY QueueInvDef
<1>2. Bounded(p) /\ p # <<>> /\ Ordered(sent, p)
  BY <1>1, PushShape, PushOrdered
<1>3. Accept(p)
  BY DEF Enqueue
<1> HIDE DEF p
<1> QED BY <1>2, <1>3, AcceptKeeps

LEMMA DoneKeeps ==
    ASSUME QueueInv, established' = established, writes > 0, WriteDone
    PROVE  QueueInv'
<1> DEFINE t == Tail(queue)
<1>1. /\ open \in BOOLEAN /\ writing \in BOOLEAN /\ writes \in Nat
      /\ sent \in Frame /\ Bounded(queue) /\ OneWriter
      /\ Ordered(sent, queue) /\ (~established => AllPlain(sent, queue))
  BY QueueInvDef
<1>2. queue # <<>> /\ writes = 1 /\ writing
  BY <1>1 DEF OneWriter
<1>3. /\ Bounded(t) /\ Head(queue) \in Frame
      /\ Ordered(Head(queue), t)
      /\ ~established => AllPlain(Head(queue), t)
  BY <1>1, <1>2, PopOrdered
<1>4. queue' = t /\ sent' = Head(queue) /\ open' = open
  BY DEF WriteDone
<1>5. writing' \in BOOLEAN /\ writes' \in Nat /\ OneWriter'
  <2>1. CASE t = <<>>
    <3>1. writing' = FALSE /\ writes' = 0
      BY <1>2, <2>1 DEF WriteDone
    <3>2. ~writing' /\ queue' = <<>>
      BY <1>4, <2>1, <3>1
    <3>3. OneWriter'
      BY <3>1, <3>2 DEF OneWriter
    <3> QED BY <3>1, <3>3
  <2>2. CASE t # <<>>
    BY <1>1, <1>2, <1>4, <2>2 DEF WriteDone, OneWriter
  <2> QED BY <2>1, <2>2
<1> HIDE DEF t
<1> QED BY <1>1, <1>3, <1>4, <1>5, QueueInvDef

\* The transport is closed, or a write operation ends without success.
LEMMA CloseKeeps ==
    ASSUME QueueInv, established' = established,
           UNCHANGED <<queue, writing, sent>>,
           open' \in BOOLEAN, writes' \in {0, writes}
    PROVE  QueueInv'
<1>1. writing' \in BOOLEAN /\ writes' \in Nat /\ OneWriter'
  BY DEF QueueInv, WriterTypeOK, OneWriter
<1> QED BY <1>1 DEF QueueInv, WriterTypeOK, WireOrder, PlainInv

LEMMA IdleKeeps ==
    ASSUME QueueInv, UNCHANGED writerVars, established' = established
    PROVE  QueueInv'
<1>1. /\ open' = open /\ queue' = queue /\ writing' = writing
      /\ writes' = writes /\ sent' = sent
  BY DEF writerVars
<1>2. OneWriter'
  BY <1>1 DEF QueueInv, OneWriter
<1> QED BY <1>1, <1>2, QueueInvDef

LEMMA FailKeeps ==
    ASSUME QueueInv, established' = established,
           Fail(0) \/ (Fail(1) /\ writes > 0)
    PROVE  QueueInv'
<1>1. writes \in {0, 1}
  BY QueueInvDef DEF OneWriter
<1>2. writes' \in {0, writes}
  <2>1. CASE Fail(0)
    BY <1>1, <2>1 DEF Fail, CloseTransport
  <2>2. CASE Fail(1) /\ writes > 0
    BY <1>1, <2>2 DEF Fail, CloseTransport
  <2> QED BY <2>1, <2>2
<1>3. open' = FALSE /\ UNCHANGED <<queue, writing, sent>>
  BY DEF Fail, CloseTransport
<1>4. open' \in BOOLEAN
  BY <1>3
<1> QED BY <1>2, <1>3, <1>4, CloseKeeps

-----------------------------------------------------------------------------
(* The invariant, split into what the writer and what the rest of the state *)
(* contribute; each half has one step per action.                           *)

CoreInv == /\ ControlTypeOK /\ OwnTypeOK
           /\ StartInv /\ OneReader /\ SecureStates /\ WatchInv

LEMMA IInvSplit == IInv <=> QueueInv /\ CoreInv
BY DEF IInv, QueueInv, CoreInv, TypeOK

LEMMA InitIInv == Init => IInv
<1> SUFFICES ASSUME Init PROVE IInv
  OBVIOUS
<1>1. Bounded(<<>>) /\ Ordered(Plain, <<>>) /\ AllPlain(Plain, <<>>)
  BY QueueAssumption DEF Bounded, Ordered, AllPlain
<1>2. OneWriter
  BY DEF Init, OwnInit, CryptoInit, WriterInit, OneWriter
<1>3. QueueInv
  BY <1>1, <1>2, QueueInvDef DEF Init, OwnInit, CryptoInit, WriterInit
<1>4. ControlTypeOK /\ OwnTypeOK
  <2>1. ControlTypeOK
    <3>1. PingInterval \in Nat /\ PingTimeout \in Nat
      BY PingAssumption
    <3>2. hb \in NotArmed..PingInterval /\ pongAge \in 0..(PingTimeout + 1)
      BY <3>1 DEF Init, OwnInit, CryptoInit, ControlInit
    <3>3. hbDue = FALSE /\ running = TRUE /\ closeTriggered = FALSE
      BY DEF Init, OwnInit, CryptoInit, ControlInit
    <3>4. hbDue \in BOOLEAN /\ running \in BOOLEAN /\ closeTriggered \in BOOLEAN
      BY <3>3
    <3> QED BY <3>2, <3>4 DEF ControlTypeOK
  <2>2. OwnTypeOK
    <3>1. starting = TRUE /\ feeding = FALSE /\ hello = FALSE /\ established = FALSE
      BY DEF Init, OwnInit, CryptoInit
    <3>2. /\ starting \in BOOLEAN /\ feeding \in BOOLEAN
          /\ hello \in BOOLEAN /\ established \in BOOLEAN
      BY <3>1
    <3> QED BY <3>2 DEF Init, OwnInit, CryptoInit, OwnTypeOK, SessionState
  <2> QED BY <2>1, <2>2
<1>5. StartInv /\ OneReader /\ SecureStates /\ WatchInv
  BY PingAssumption DEF Init, OwnInit, CryptoInit, ControlInit, StartInv, OneReader, SecureStates,
                        WatchInv, Handshake, Terminal
<1> QED BY <1>3, <1>4, <1>5, IInvSplit DEF CoreInv

\* Every step keeps the writer's half.
LEMMA QueueStep == IInv /\ [Next]_vars => QueueInv'
<1> SUFFICES ASSUME IInv, [Next]_vars PROVE QueueInv'
  OBVIOUS
<1>1. QueueInv /\ OwnTypeOK /\ SecureStates /\ writes \in Nat
  BY IInvSplit, QueueInvDef DEF CoreInv
<1>4. CASE RunStart
  BY <1>1, <1>4, EnqueueKeeps DEF RunStart, SendVersionRequest
<1>5. CASE RunStop
  BY <1>1, IdleKeeps, FailKeeps, <1>5, EnqueueKeeps
     DEF RunStop, BeginDisconnect, InitiateBye
<1>6. CASE RunTimeout
  <2>1. CASE CompleteDisconnect
    <3>1. open' = FALSE /\ writes' = writes - 0 /\ UNCHANGED <<queue, writing, sent>>
      BY <2>1 DEF CompleteDisconnect, CloseTransport
    <3>2. open' \in BOOLEAN
      BY <3>1
    <3>3. writes' \in {0, writes}
      BY <1>1, <3>1
    <3> QED BY <1>1, <1>6, <3>1, <3>2, <3>3, CloseKeeps DEF RunTimeout
  <2> QED BY <1>1, IdleKeeps, FailKeeps, <1>6, <2>1 DEF RunTimeout
<1>7. CASE RunHeartbeat
  BY <1>1, IdleKeeps, <1>7, EnqueueKeeps DEF RunHeartbeat
<1>8. CASE ReadData
  BY <1>1, IdleKeeps, <1>8 DEF ReadData
<1>9. CASE ReadError
  BY <1>1, IdleKeeps, FailKeeps, <1>9 DEF ReadError
<1>10. CASE ReadAborted
  BY <1>1, IdleKeeps, <1>10 DEF ReadAborted
<1>11. CASE EndChunk
  BY <1>1, IdleKeeps, <1>11 DEF EndChunk
<1>12. CASE WriteOk
  BY <1>1, <1>12, DoneKeeps DEF WriteOk, ownVars
<1>13. CASE WriteError
  <2>1. writes = 1
    BY <1>1, <1>13 DEF WriteError, QueueInv, OneWriter
  <2>2. CASE Fail(1)
    BY <1>1, FailKeeps, <1>13, <2>1, <2>2 DEF WriteError
  <2>3. CASE writes' = writes - 1 /\ UNCHANGED <<open, queue, writing, sent>>
    BY <1>1, <1>13, <2>1, <2>3, CloseKeeps, QueueInvDef DEF WriteError
  <2> QED BY <1>13, <2>2, <2>3 DEF WriteError
<1>14. CASE WriteAborted
  <2>1. writes = 1
    BY <1>1, <1>14 DEF WriteAborted, QueueInv, OneWriter
  <2> QED BY <1>1, <1>14, <2>1, CloseKeeps, QueueInvDef DEF WriteAborted, ownVars
<1>15. CASE RecvVersionResponse
  BY <1>1, IdleKeeps, FailKeeps, <1>15, EnqueueKeeps
     DEF RecvVersionResponse, VersionRefused, TlsContinues, TlsFails, HandshakeStep,
         cryptoVars
<1>16. CASE RecvSsl
  <2>1. ~established
    BY <1>1, <1>16 DEF RecvSsl, InHandshake, SecureStates
  <2>2. CASE HandshakeStep("complete") /\ Enqueue(Auth)
    BY <1>1, <2>1, <2>2, AuthKeeps DEF HandshakeStep
  <2> QED BY <1>1, IdleKeeps, FailKeeps, <1>16, <2>2, EnqueueKeeps
          DEF RecvSsl, TlsContinues, TlsFails, HandshakeStep, cryptoVars
<1>17. CASE RecvRequest
  BY <1>1, <1>17, EnqueueKeeps DEF RecvRequest, SensorStarted, ownVars
<1>18. CASE RecvPong
  BY <1>1, IdleKeeps, <1>18 DEF RecvPong, ownVars
<1>19. CASE RecvByeRequest
  BY <1>1, <1>19, EnqueueKeeps DEF RecvByeRequest
<1>20. CASE RecvByeResponse
  BY <1>1, IdleKeeps, <1>20 DEF RecvByeResponse
<1>21. CASE RecvControlOpen
  BY <1>1, <1>21, EnqueueKeeps DEF RecvControlOpen, ownVars
<1>22. CASE RecvUndecryptable
  BY <1>1, FailKeeps, <1>22 DEF RecvUndecryptable, DecryptFails, cryptoVars
<1>23. CASE RequestStop
  BY <1>1, IdleKeeps, <1>23 DEF RequestStop
<1>24. CASE AppSend
  BY <1>1, <1>24, EnqueueKeeps DEF AppSend, SendInput, ownVars
<1>25. CASE CollectStateTimer
  BY <1>1, IdleKeeps, <1>25 DEF CollectStateTimer
<1>26. CASE CollectHeartbeatTimer
  BY <1>1, IdleKeeps, <1>26 DEF CollectHeartbeatTimer, ownVars
<1>27. CASE Tick
  BY <1>1, IdleKeeps, <1>27 DEF Tick
<1>28. CASE UNCHANGED vars
  BY <1>1, IdleKeeps, <1>28 DEF vars, ownVars
<1> QED BY <1>4, <1>5, <1>6, <1>7, <1>8, <1>9, <1>10, <1>11, <1>12, <1>13, <1>14,
           <1>15, <1>16, <1>17, <1>18, <1>19, <1>20, <1>21, <1>22, <1>23, <1>24,
           <1>25, <1>26, <1>27, <1>28 DEF Next, Loop, Transport, Phone

\* What the handlers of the control service keep.
LEMMA ControlKeeps ==
    ASSUME ControlTypeOK,
           \/ UNCHANGED controlVars \/ OnChannelOpen \/ OnChannelClose \/ OnPong
           \/ CollectHeartbeat \/ SkipHeartbeat \/ TriggerClose \/ ControlTick
           \/ \E overdue \in BOOLEAN : Heartbeat(overdue)
    PROVE  ControlTypeOK'
<1> USE DEF OnChannelOpen, OnChannelClose, OnPong, CollectHeartbeat, SkipHeartbeat,
            TriggerClose, ControlTick, Heartbeat, controlVars
<1>1. PingInterval \in Nat \ {0} /\ PingTimeout \in Nat \ {0}
  BY PingAssumption
<1>2. hb \in NotArmed..PingInterval /\ pongAge \in 0..(PingTimeout + 1)
  BY DEF ControlTypeOK
<1>3. hb' \in NotArmed..PingInterval /\ pongAge' \in 0..(PingTimeout + 1)
  BY <1>1, <1>2
<1>4. hbDue \in BOOLEAN /\ running \in BOOLEAN /\ closeTriggered \in BOOLEAN
  BY DEF ControlTypeOK
<1>5. hbDue' \in BOOLEAN
  BY <1>4, Zenon
<1>6. running' \in BOOLEAN
  BY <1>4, Zenon
<1>7. closeTriggered' \in BOOLEAN
  BY <1>4, Zenon
<1> QED BY <1>3, <1>5, <1>6, <1>7 DEF ControlTypeOK

\* A handler that ends the session with an error.
LEMMA FailCore ==
    ASSUME CoreInv, ~starting, NEW done, Fail(done),
           UNCHANGED <<starting, feeding, hello, established>>,
           timeouts' \in Nat, stops' \in Nat, reads' \in Nat, OneReader'
    PROVE  CoreInv'
<1>1. ControlTypeOK'
  BY ControlKeeps DEF CoreInv, Fail
<1>2. state' = "Error" /\ stateTimer' = NotArmed /\ errors' = errors + 1
  BY DEF Fail, TransitionTo
<1>3. OwnTypeOK'
  BY <1>2 DEF CoreInv, OwnTypeOK, SessionState, Terminal
<1>4. StartInv'
  BY <1>2 DEF StartInv
<1>5. SecureStates' /\ WatchInv'
  BY <1>2 DEF SecureStates, WatchInv, Terminal, Handshake
<1> QED BY <1>1, <1>3, <1>4, <1>5 DEF CoreInv

LEMMA IdleCore == ASSUME CoreInv, UNCHANGED <<ownVars, controlVars>> PROVE CoreInv'
BY DEF CoreInv, ownVars, controlVars, ControlTypeOK, OwnTypeOK, StartInv, OneReader,
       SecureStates, WatchInv

\* Every step keeps the other half.
LEMMA CoreStep == IInv /\ [Next]_vars => CoreInv'
<1> SUFFICES ASSUME IInv, [Next]_vars PROVE CoreInv'
  OBVIOUS
<1> USE DEF ownVars, controlVars, Ready, Dispatching
<1>1. /\ CoreInv /\ ControlTypeOK /\ OwnTypeOK
      /\ StartInv /\ OneReader /\ SecureStates /\ WatchInv
  BY IInvSplit DEF CoreInv
<1>2. {PingInterval, VersionTimeout, SslTimeout, ByeTimeout} \subseteq Nat \ {0}
  BY PingAssumption, SessionAssumption
<1>3. feeding => ~starting
  BY <1>1 DEF StartInv
<1>4. CASE RunStart
  <2>1. ControlTypeOK'
    BY <1>1, <1>4, ControlKeeps DEF RunStart
  <2>2. OwnTypeOK'
    <3>1. starting' = FALSE /\ state' = "VersionExchange" /\ stateTimer' = VersionTimeout
      BY <1>4 DEF RunStart, TransitionTo
    <3>2. starting' \in BOOLEAN
      BY <3>1
    <3> QED BY <1>1, <1>2, <1>4, <3>1, <3>2
               DEF OwnTypeOK, SessionState, RunStart, Handshake
  <2>3. StartInv' /\ OneReader'
    BY <1>1, <1>4
       DEF StartInv, OneReader, OwnTypeOK, RunStart, TransitionTo, Handshake,
           Terminal
  <2>4. SecureStates'
    BY <1>1, <1>4
       DEF SecureStates, StartInv, RunStart, TransitionTo, Handshake, Terminal
  <2>5. WatchInv'
    <3>1. state = "Idle" /\ running /\ (closeTriggered \/ hb >= 0 \/ hbDue)
      BY <1>1, <1>4 DEF RunStart, StartInv, WatchInv, Terminal
    <3>2. closeTriggered => stops > 0
      BY <1>1, <3>1 DEF WatchInv, Terminal
    <3>3. state' = "VersionExchange"
      BY <1>4 DEF RunStart, TransitionTo
    <3>4. UNCHANGED <<stops, running, closeTriggered, hb, hbDue>>
      BY <1>4 DEF RunStart
    <3> QED BY <3>1, <3>2, <3>3, <3>4 DEF WatchInv
  <2> QED BY <2>1, <2>2, <2>3, <2>4, <2>5 DEF CoreInv
<1>5. CASE RunStop
  <2>1. CASE state \in Terminal
    <3>1. UNCHANGED <<state, stateTimer, errors, controlVars, timeouts, starting,
                      reads, feeding, hello, established>> /\ stops' = stops - 1
      BY <1>5, <2>1 DEF RunStop, Terminal, Fail
    <3>2. stops' \in Nat
      BY <1>1, <1>5, <3>1 DEF RunStop, OwnTypeOK
    <3> QED BY <1>1, <2>1, <3>1, <3>2
            DEF CoreInv, ControlTypeOK, OwnTypeOK, StartInv, OneReader, SecureStates,
                WatchInv
  <2>2. CASE state = "Running" /\ TransitionTo("Disconnecting", ByeTimeout)
                               /\ UNCHANGED <<errors, controlVars>>
    <3>1. ControlTypeOK'
      BY <1>1, <1>5, <2>2, ControlKeeps DEF RunStop
    <3>2. OwnTypeOK'
      BY <1>1, <1>2, <1>5, <2>2
         DEF OwnTypeOK, SessionState, RunStop, TransitionTo, Handshake, Terminal
    <3>3. StartInv' /\ OneReader'
      BY <1>1, <1>5, <2>2
         DEF StartInv, OneReader, OwnTypeOK, RunStop, TransitionTo, Handshake,
             Terminal
    <3>4. SecureStates'
      BY <1>1, <1>5, <2>2
         DEF SecureStates, StartInv, RunStop, TransitionTo, Handshake, Terminal
    <3>5. WatchInv'
      BY <1>1, <1>2, <1>5, <2>2
         DEF WatchInv, OwnTypeOK, ControlTypeOK, RunStop, TransitionTo, Handshake,
             Terminal
    <3> QED BY <3>1, <3>2, <3>3, <3>4, <3>5 DEF CoreInv
  <2>3. CASE Fail(0)
    <3>1. stops' \in Nat /\ OneReader'
      BY <1>1, <1>5 DEF RunStop, OwnTypeOK, OneReader
    <3> QED BY <1>1, <1>5, <2>3, <3>1, FailCore DEF RunStop, OwnTypeOK
  <2> QED BY <1>5, <2>1, <2>2, <2>3 DEF RunStop, BeginDisconnect
<1>6. CASE RunTimeout
  <2>0. timeouts' \in Nat /\ OneReader'
    BY <1>1, <1>6 DEF RunTimeout, OwnTypeOK, OneReader
  <2>1. CASE Fail(0)
    BY <1>1, <1>6, <2>0, <2>1, FailCore DEF RunTimeout, OwnTypeOK
  <2>2. CASE state = "Disconnecting" /\ CompleteDisconnect
                                     /\ UNCHANGED <<errors, controlVars>>
    <3>1. ControlTypeOK'
      BY <1>1, <1>6, <2>2, ControlKeeps DEF RunTimeout, CompleteDisconnect
    <3>2. OwnTypeOK'
      BY <1>1, <1>2, <1>6, <2>2
         DEF OwnTypeOK, SessionState, RunTimeout, CompleteDisconnect,
             TransitionTo, Handshake, Terminal
    <3>3. StartInv' /\ OneReader'
      BY <1>1, <1>6, <2>2
         DEF StartInv, OneReader, OwnTypeOK, RunTimeout, CompleteDisconnect,
             TransitionTo, Handshake, Terminal
    <3>4. SecureStates'
      BY <1>1, <1>6, <2>2
         DEF SecureStates, StartInv, RunTimeout, CompleteDisconnect, TransitionTo,
             Handshake, Terminal
    <3>5. WatchInv'
      BY <1>1, <1>2, <1>6, <2>2
         DEF WatchInv, OwnTypeOK, ControlTypeOK, RunTimeout, CompleteDisconnect,
             TransitionTo, Handshake, Terminal
    <3> QED BY <3>1, <3>2, <3>3, <3>4, <3>5 DEF CoreInv
  <2>3. CASE state \notin Handshake \cup {"Disconnecting"}
             /\ UNCHANGED <<state, stateTimer, errors, controlVars>>
    <3>1. ControlTypeOK'
      BY <1>1, <1>6, <2>3, ControlKeeps DEF RunTimeout
    <3>2. OwnTypeOK'
      BY <1>1, <1>2, <1>6, <2>3 DEF OwnTypeOK, SessionState, RunTimeout, Terminal
    <3>3. StartInv' /\ OneReader'
      BY <1>1, <1>6, <2>3 DEF StartInv, OneReader, OwnTypeOK, RunTimeout, Terminal
    <3>4. SecureStates'
      BY <1>1, <1>6, <2>3 DEF SecureStates, StartInv, RunTimeout, Terminal
    <3>5. WatchInv'
      BY <1>1, <1>2, <1>6, <2>3
         DEF WatchInv, OwnTypeOK, ControlTypeOK, RunTimeout, Terminal
    <3> QED BY <3>1, <3>2, <3>3, <3>4, <3>5 DEF CoreInv
  <2> QED BY <1>6, <2>1, <2>2, <2>3 DEF RunTimeout
<1>7. CASE RunHeartbeat
  <2>1. ControlTypeOK'
    BY <1>1, <1>7, ControlKeeps
       DEF RunHeartbeat, SkipHeartbeat, Heartbeat, PostClose
  <2>2. OwnTypeOK'
    BY <1>1, <1>2, <1>7
       DEF OwnTypeOK, SessionState, RunHeartbeat, SkipHeartbeat, Heartbeat,
           PostClose
  <2>3. StartInv' /\ OneReader'
    BY <1>1, <1>7
       DEF StartInv, OneReader, OwnTypeOK, RunHeartbeat, SkipHeartbeat, Heartbeat,
           PostClose
  <2>4. SecureStates'
    BY <1>1, <1>7
       DEF SecureStates, StartInv, RunHeartbeat, SkipHeartbeat, Heartbeat,
           PostClose
  <2>5. WatchInv'
    BY <1>1, <1>2, <1>7
       DEF WatchInv, OwnTypeOK, ControlTypeOK, RunHeartbeat, SkipHeartbeat,
           Heartbeat, PostClose
  <2> QED BY <2>1, <2>2, <2>3, <2>4, <2>5 DEF CoreInv
<1>8. CASE ReadData
  <2>1. ControlTypeOK'
    BY <1>1, <1>8, ControlKeeps DEF ReadData
  <2>2. OwnTypeOK'
    BY <1>1, <1>2, <1>8 DEF OwnTypeOK, SessionState, ReadData
  <2>3. StartInv' /\ OneReader'
    BY <1>1, <1>8 DEF StartInv, OneReader, OwnTypeOK, ReadData
  <2>4. SecureStates'
    BY <1>1, <1>8 DEF SecureStates, StartInv, ReadData
  <2>5. WatchInv'
    BY <1>1, <1>2, <1>8 DEF WatchInv, OwnTypeOK, ControlTypeOK, ReadData
  <2> QED BY <2>1, <2>2, <2>3, <2>4, <2>5 DEF CoreInv
<1>9. CASE ReadError
  <2>1. reads' \in Nat /\ OneReader'
    BY <1>1, <1>9 DEF ReadError, OwnTypeOK, OneReader
  <2>2. CASE Fail(0)
    BY <1>1, <1>9, <2>1, <2>2, FailCore DEF ReadError, OwnTypeOK
  <2>3. CASE state \in Terminal /\ UNCHANGED <<state, stateTimer, errors, controlVars>>
    <3>1. ControlTypeOK'
      BY <1>1, <1>9, <2>1, <2>3, ControlKeeps DEF ReadError
    <3>2. OwnTypeOK'
      BY <1>1, <1>2, <1>9, <2>1, <2>3
         DEF OwnTypeOK, SessionState, ReadError, Terminal
    <3>3. StartInv' /\ OneReader'
      BY <1>1, <1>9, <2>1, <2>3
         DEF StartInv, OneReader, OwnTypeOK, ReadError, Terminal
    <3>4. SecureStates'
      BY <1>1, <1>9, <2>1, <2>3 DEF SecureStates, StartInv, ReadError, Terminal
    <3>5. WatchInv'
      BY <1>1, <1>2, <1>9, <2>1, <2>3
         DEF WatchInv, OwnTypeOK, ControlTypeOK, ReadError, Terminal
    <3> QED BY <3>1, <3>2, <3>3, <3>4, <3>5 DEF CoreInv
  <2> QED BY <1>9, <2>2, <2>3 DEF ReadError
<1>10. CASE ReadAborted
  <2>1. ControlTypeOK'
    BY <1>1, <1>10, ControlKeeps DEF ReadAborted
  <2>2. OwnTypeOK'
    BY <1>1, <1>2, <1>10 DEF OwnTypeOK, SessionState, ReadAborted
  <2>3. StartInv' /\ OneReader'
    BY <1>1, <1>10 DEF StartInv, OneReader, OwnTypeOK, ReadAborted
  <2>4. SecureStates'
    BY <1>1, <1>10 DEF SecureStates, StartInv, ReadAborted
  <2>5. WatchInv'
    BY <1>1, <1>2, <1>10 DEF WatchInv, OwnTypeOK, ControlTypeOK, ReadAborted
  <2> QED BY <2>1, <2>2, <2>3, <2>4, <2>5 DEF CoreInv
<1>11. CASE EndChunk
  <2>1. ControlTypeOK'
    BY <1>1, <1>11, ControlKeeps DEF EndChunk
  <2>2. OwnTypeOK'
    <3>1. feeding' = FALSE /\ reads' \in Nat
      BY <1>1, <1>11 DEF EndChunk, OwnTypeOK
    <3>2. feeding' \in BOOLEAN
      BY <3>1
    <3> QED BY <1>1, <1>11, <3>1, <3>2 DEF OwnTypeOK, EndChunk
  <2>3. StartInv' /\ OneReader'
    BY <1>1, <1>11 DEF StartInv, OneReader, OwnTypeOK, EndChunk, Terminal
  <2>4. SecureStates'
    BY <1>1, <1>11 DEF SecureStates, StartInv, EndChunk, Terminal
  <2>5. WatchInv'
    BY <1>1, <1>2, <1>11 DEF WatchInv, OwnTypeOK, ControlTypeOK, EndChunk, Terminal
  <2> QED BY <2>1, <2>2, <2>3, <2>4, <2>5 DEF CoreInv
<1>12. CASE WriteOk
  BY <1>1, <1>12, IdleCore DEF WriteOk
<1>13. CASE WriteError
  <2>1. OneReader'
    BY <1>1, <1>13 DEF WriteError, OneReader
  <2>2. CASE Fail(1)
    BY <1>1, <1>13, <2>1, <2>2, FailCore DEF WriteError, OwnTypeOK
  <2>3. CASE UNCHANGED <<state, stateTimer, errors, controlVars>>
    BY <1>1, <1>13, <2>3, IdleCore DEF WriteError
  <2> QED BY <1>13, <2>2, <2>3 DEF WriteError
<1>14. CASE WriteAborted
  BY <1>1, <1>14, IdleCore DEF WriteAborted
<1>15. CASE RecvVersionResponse
  <2>1. OneReader'
    BY <1>1, <1>15 DEF RecvVersionResponse, OneReader
  <2>2. CASE Fail(0) /\ UNCHANGED <<hello, established>>
    BY <1>1, <1>3, <1>15, <2>1, <2>2, FailCore DEF RecvVersionResponse, OwnTypeOK
  <2>3. CASE TransitionTo("SslHandshake", SslTimeout) /\ TlsContinues(FALSE)
    <3> USE DEF RecvVersionResponse, InHandshake, TransitionTo, TlsContinues,
                HandshakeStep, Handshake, Terminal
    <3>1. ControlTypeOK'
      BY <1>1, <1>15, <2>3, ControlKeeps
    <3>2. OwnTypeOK'
      BY <1>1, <1>2, <1>15, <2>3 DEF OwnTypeOK, SessionState
    <3>3. StartInv' /\ OneReader'
      BY <1>1, <1>15, <2>3 DEF StartInv, OneReader, OwnTypeOK
    <3>4. SecureStates'
      BY <1>1, <1>15, <2>3 DEF SecureStates, StartInv
    <3>5. WatchInv'
      BY <1>1, <1>2, <1>15, <2>3 DEF WatchInv, OwnTypeOK, ControlTypeOK
    <3> QED BY <3>1, <3>2, <3>3, <3>4, <3>5 DEF CoreInv
  <2> QED BY <1>15, <2>2, <2>3
          DEF RecvVersionResponse, VersionRefused, TlsFails, HandshakeStep, cryptoVars
<1>16. CASE RecvSsl
  <2>1. OneReader'
    BY <1>1, <1>16 DEF RecvSsl, OneReader
  <2>2. CASE TlsFails
    BY <1>1, <1>3, <1>16, <2>1, <2>2, FailCore
       DEF RecvSsl, TlsFails, HandshakeStep, cryptoVars, OwnTypeOK
  <2>3. CASE TlsContinues(TRUE) /\ UNCHANGED <<state, stateTimer>>
    <3> USE DEF RecvSsl, InHandshake, TlsContinues, HandshakeStep, Terminal
    <3>1. ControlTypeOK'
      BY <1>1, <1>16, <2>3, ControlKeeps
    <3>2. OwnTypeOK'
      BY <1>1, <1>2, <1>16, <2>3 DEF OwnTypeOK, SessionState
    <3>3. StartInv' /\ OneReader'
      BY <1>1, <1>16, <2>3 DEF StartInv, OneReader, OwnTypeOK
    <3>4. SecureStates'
      BY <1>1, <1>16, <2>3 DEF SecureStates, StartInv
    <3>5. WatchInv'
      BY <1>1, <1>2, <1>16, <2>3 DEF WatchInv, OwnTypeOK, ControlTypeOK
    <3> QED BY <3>1, <3>2, <3>3, <3>4, <3>5 DEF CoreInv
  <2>4. CASE /\ HandshakeStep("complete") /\ TransitionTo("Running", NotArmed)
             /\ UNCHANGED <<errors, controlVars>>
    <3> USE DEF RecvSsl, InHandshake, HandshakeStep, TransitionTo, Handshake, Terminal
    <3>1. ControlTypeOK'
      BY <1>1, <1>16, <2>4, ControlKeeps
    <3>2. OwnTypeOK'
      BY <1>1, <1>2, <1>16, <2>4 DEF OwnTypeOK, SessionState
    <3>3. StartInv' /\ OneReader'
      BY <1>1, <1>16, <2>4 DEF StartInv, OneReader, OwnTypeOK
    <3>4. SecureStates'
      BY <1>1, <1>16, <2>4 DEF SecureStates, StartInv
    <3>5. WatchInv'
      BY <1>1, <1>2, <1>16, <2>4 DEF WatchInv, OwnTypeOK, ControlTypeOK
    <3> QED BY <3>1, <3>2, <3>3, <3>4, <3>5 DEF CoreInv
  <2> QED BY <1>16, <2>2, <2>3, <2>4 DEF RecvSsl
<1>17. CASE RecvRequest
  BY <1>1, <1>17, IdleCore DEF RecvRequest
<1>18. CASE RecvPong
  <2>1. ControlTypeOK'
    BY <1>1, <1>18, ControlKeeps DEF RecvPong, OnPong
  <2>2. OwnTypeOK'
    BY <1>1, <1>2, <1>18 DEF OwnTypeOK, SessionState, RecvPong, OnPong
  <2>3. StartInv' /\ OneReader'
    BY <1>1, <1>18 DEF StartInv, OneReader, OwnTypeOK, RecvPong, OnPong
  <2>4. SecureStates'
    BY <1>1, <1>18 DEF SecureStates, StartInv, RecvPong, OnPong
  <2>5. WatchInv'
    BY <1>1, <1>2, <1>18 DEF WatchInv, OwnTypeOK, ControlTypeOK, RecvPong, OnPong
  <2> QED BY <2>1, <2>2, <2>3, <2>4, <2>5 DEF CoreInv
<1>19. CASE RecvByeRequest
  <2>1. ControlTypeOK'
    BY <1>1, <1>19, ControlKeeps DEF RecvByeRequest, TriggerClose, PostClose
  <2>2. OwnTypeOK'
    BY <1>1, <1>2, <1>19
       DEF OwnTypeOK, SessionState, RecvByeRequest, TriggerClose, PostClose
  <2>3. StartInv' /\ OneReader'
    BY <1>1, <1>19
       DEF StartInv, OneReader, OwnTypeOK, RecvByeRequest, TriggerClose, PostClose
  <2>4. SecureStates'
    BY <1>1, <1>19
       DEF SecureStates, StartInv, RecvByeRequest, TriggerClose, PostClose
  <2>5. WatchInv'
    BY <1>1, <1>2, <1>19
       DEF WatchInv, OwnTypeOK, ControlTypeOK, RecvByeRequest, TriggerClose,
           PostClose
  <2> QED BY <2>1, <2>2, <2>3, <2>4, <2>5 DEF CoreInv
<1>20. CASE RecvByeResponse
  <2>1. ControlTypeOK'
    BY <1>1, <1>20, ControlKeeps DEF RecvByeResponse, TriggerClose, PostClose
  <2>2. OwnTypeOK'
    BY <1>1, <1>2, <1>20
       DEF OwnTypeOK, SessionState, RecvByeResponse, TriggerClose, PostClose
  <2>3. StartInv' /\ OneReader'
    BY <1>1, <1>20
       DEF StartInv, OneReader, OwnTypeOK, RecvByeResponse, TriggerClose,
           PostClose
  <2>4. SecureStates'
    BY <1>1, <1>20
       DEF SecureStates, StartInv, RecvByeResponse, TriggerClose, PostClose
  <2>5. WatchInv'
    BY <1>1, <1>2, <1>20
       DEF WatchInv, OwnTypeOK, ControlTypeOK, RecvByeResponse, TriggerClose,
           PostClose
  <2> QED BY <2>1, <2>2, <2>3, <2>4, <2>5 DEF CoreInv
<1>21. CASE RecvControlOpen
  <2>1. ControlTypeOK'
    BY <1>1, <1>21, ControlKeeps DEF RecvControlOpen, OnChannelOpen
  <2>2. OwnTypeOK'
    BY <1>1, <1>2, <1>21 DEF OwnTypeOK, SessionState, RecvControlOpen, OnChannelOpen
  <2>3. StartInv' /\ OneReader'
    BY <1>1, <1>21
       DEF StartInv, OneReader, OwnTypeOK, RecvControlOpen, OnChannelOpen
  <2>4. SecureStates'
    BY <1>1, <1>21 DEF SecureStates, StartInv, RecvControlOpen, OnChannelOpen
  <2>5. WatchInv'
    BY <1>1, <1>2, <1>21
       DEF WatchInv, OwnTypeOK, ControlTypeOK, RecvControlOpen, OnChannelOpen
  <2> QED BY <2>1, <2>2, <2>3, <2>4, <2>5 DEF CoreInv
<1>22. CASE RecvUndecryptable
  <2>1. OneReader'
    BY <1>1, <1>22 DEF RecvUndecryptable, OneReader
  <2> QED BY <1>1, <1>3, <1>22, <2>1, FailCore
          DEF RecvUndecryptable, DecryptFails, cryptoVars, OwnTypeOK
<1>23. CASE RequestStop
  <2>1. ControlTypeOK'
    BY <1>1, <1>23, ControlKeeps DEF RequestStop
  <2>2. OwnTypeOK'
    BY <1>1, <1>2, <1>23 DEF OwnTypeOK, SessionState, RequestStop
  <2>3. StartInv' /\ OneReader'
    BY <1>1, <1>23 DEF StartInv, OneReader, OwnTypeOK, RequestStop
  <2>4. SecureStates'
    BY <1>1, <1>23 DEF SecureStates, StartInv, RequestStop
  <2>5. WatchInv'
    BY <1>1, <1>2, <1>23 DEF WatchInv, OwnTypeOK, ControlTypeOK, RequestStop
  <2> QED BY <2>1, <2>2, <2>3, <2>4, <2>5 DEF CoreInv
<1>24. CASE AppSend
  BY <1>1, <1>24, IdleCore DEF AppSend
<1>25. CASE CollectStateTimer
  <2>1. ControlTypeOK'
    BY <1>1, <1>25, ControlKeeps DEF CollectStateTimer
  <2>2. OwnTypeOK'
    BY <1>1, <1>2, <1>25 DEF OwnTypeOK, SessionState, CollectStateTimer
  <2>3. StartInv' /\ OneReader'
    BY <1>1, <1>25 DEF StartInv, OneReader, OwnTypeOK, CollectStateTimer
  <2>4. SecureStates'
    BY <1>1, <1>25 DEF SecureStates, StartInv, CollectStateTimer
  <2>5. WatchInv'
    BY <1>1, <1>2, <1>25 DEF WatchInv, OwnTypeOK, ControlTypeOK, CollectStateTimer
  <2> QED BY <2>1, <2>2, <2>3, <2>4, <2>5 DEF CoreInv
<1>26. CASE CollectHeartbeatTimer
  <2>1. ControlTypeOK'
    BY <1>1, <1>26, ControlKeeps DEF CollectHeartbeatTimer, CollectHeartbeat
  <2>2. OwnTypeOK'
    BY <1>1, <1>2, <1>26
       DEF OwnTypeOK, SessionState, CollectHeartbeatTimer, CollectHeartbeat
  <2>3. StartInv' /\ OneReader'
    BY <1>1, <1>26
       DEF StartInv, OneReader, OwnTypeOK, CollectHeartbeatTimer, CollectHeartbeat
  <2>4. SecureStates'
    BY <1>1, <1>26
       DEF SecureStates, StartInv, CollectHeartbeatTimer, CollectHeartbeat
  <2>5. WatchInv'
    BY <1>1, <1>2, <1>26
       DEF WatchInv, OwnTypeOK, ControlTypeOK, CollectHeartbeatTimer,
           CollectHeartbeat
  <2> QED BY <2>1, <2>2, <2>3, <2>4, <2>5 DEF CoreInv
<1>27. CASE Tick
  <2>1. ControlTypeOK'
    BY <1>1, <1>27, ControlKeeps DEF Tick, ControlTick
  <2>2. OwnTypeOK'
    BY <1>1, <1>2, <1>27 DEF OwnTypeOK, SessionState, Tick, ControlTick
  <2>3. StartInv' /\ OneReader'
    BY <1>1, <1>27 DEF StartInv, OneReader, OwnTypeOK, Tick, ControlTick
  <2>4. SecureStates'
    BY <1>1, <1>27 DEF SecureStates, StartInv, Tick, ControlTick
  <2>5. WatchInv'
    BY <1>1, <1>2, <1>27 DEF WatchInv, OwnTypeOK, ControlTypeOK, Tick, ControlTick
  <2> QED BY <2>1, <2>2, <2>3, <2>4, <2>5 DEF CoreInv
<1>28. CASE UNCHANGED vars
  BY <1>1, <1>28, IdleCore DEF vars
<1> QED BY <1>4, <1>5, <1>6, <1>7, <1>8, <1>9, <1>10, <1>11, <1>12, <1>13,
<1>14, <1>15, <1>16, <1>17, <1>18, <1>19, <1>20, <1>21, <1>22, <1>23,
<1>24, <1>25, <1>26, <1>27, <1>28 DEF Next, Loop, Transport, Phone

-----------------------------------------------------------------------------
(* The theorems. *)

LEMMA InductiveInvariant == Spec => []IInv
<1>1. IInv /\ [Next]_vars => IInv'
  <2>1. IInv' <=> QueueInv' /\ CoreInv'
    BY DEF IInv, QueueInv, CoreInv, TypeOK
  <2> QED BY <2>1, QueueStep, CoreStep
<1> QED BY InitIInv, <1>1, PTL DEF Spec

\* Every variable of the session keeps its type, and the write queue its bound
\* kMaxWriteQueueSize, whatever the order of handlers, messages and faults.
THEOREM TypeCorrect == Spec => []TypeOK
<1>1. IInv => TypeOK
  BY DEF IInv
<1> QED BY <1>1, InductiveInvariant, PTL

\* enqueue_write, do_write_next and on_write_complete never have two writes in
\* the transport, never pop a frame that is not written and never stall.
THEOREM SingleWriter == Spec => []OneWriter
<1>1. IInv => OneWriter
  BY DEF IInv
<1> QED BY <1>1, InductiveInvariant, PTL

\* read_buffer_ is never read into while on_read_complete is feeding it.
THEOREM SingleReader == Spec => []OneReader
<1>1. IInv => OneReader
  BY DEF IInv
<1> QED BY <1>1, InductiveInvariant, PTL

\* Whatever heartbeats, touches and services send around the end of the TLS
\* handshake, plaintext precedes AUTH_COMPLETE and ciphertext follows it.
THEOREM PlaintextBeforeCiphertext == Spec => []WireOrder
<1>1. IInv => WireOrder
  BY DEF IInv
<1> QED BY <1>1, InductiveInvariant, PTL

\* No late timer or repeated message brings an established session back into its
\* handshake, and none runs or says farewell without TLS.
THEOREM SecuredOnceEstablished == Spec => []SecureStates
<1>1. IInv => SecureStates
  BY DEF IInv
<1> QED BY <1>1, InductiveInvariant, PTL

\* A session that has not ended is never left without an event that can end it.
THEOREM AlwaysWatched == Spec => []Watched
<1>1. IInv => Watched
  <2> SUFFICES ASSUME IInv, state \notin Terminal PROVE Watched
    BY DEF Watched
  <2>1. /\ closeTriggered \/ hb >= 0 \/ hbDue
        /\ closeTriggered => stops > 0 \/ state = "Disconnecting"
        /\ state = "Disconnecting" => stateTimer >= 0 \/ timeouts > 0
    BY DEF IInv, WatchInv
  <2> QED BY <2>1 DEF Watched
<1> QED BY <1>1, InductiveInvariant, PTL

\* What the observer of the session is told, of its states and its errors, is a
\* run of the abstract Lifecycle: every handler is one of its steps or invisible.
THEOREM SessionImplementsLifecycle == Spec => Implements
<1>1. Init => Observed!Init
  BY DEF Init, OwnInit, Observed!Init
<1>2. IInv /\ [Next]_vars => [Observed!Next]_<<state, errors>>
  <2> SUFFICES ASSUME IInv, [Next]_vars
               PROVE  [Observed!Next]_<<state, errors>>
    OBVIOUS
  <2> USE DEF ownVars, Observed!Forward
  <2>0. (starting => state = "Idle") /\ state \in SessionState
    BY DEF IInv, StartInv, TypeOK, OwnTypeOK
  <2>1. ASSUME NEW done, Fail(done) PROVE Observed!Next
    BY <2>1 DEF Fail, TransitionTo, Terminal, Observed!Next, Observed!Fail,
                Observed!Ended
  <2>2. CASE RunStart
    BY <2>0, <2>2 DEF RunStart, TransitionTo, Observed!Next, Observed!Open
  <2>3. CASE RunStop
    BY <2>1, <2>3 DEF RunStop, BeginDisconnect, TransitionTo, Observed!Next,
                      Observed!Stop
  <2>4. CASE RunTimeout
    BY <2>1, <2>4 DEF RunTimeout, CompleteDisconnect, TransitionTo,
                      Observed!Next, Observed!Disconnect
  <2>5. CASE RecvVersionResponse
    <3>1. CASE TransitionTo("SslHandshake", SslTimeout) /\ UNCHANGED errors
      BY <2>5, <3>1 DEF RecvVersionResponse, InHandshake, Handshake, TransitionTo,
                        Observed!Next, Observed!Secure
    <3> QED BY <2>1, <2>5, <3>1
            DEF RecvVersionResponse, VersionRefused, TlsContinues, TlsFails
  <2>6. CASE RecvSsl
    <3>1. CASE TransitionTo("Running", NotArmed) /\ UNCHANGED errors
      BY <2>6, <3>1 DEF RecvSsl, InHandshake, Handshake, TransitionTo,
                        Observed!Next, Observed!Establish
    <3> QED BY <2>1, <2>6, <3>1 DEF RecvSsl, TlsContinues, TlsFails
  <2>7. CASE ReadError \/ WriteError \/ RecvUndecryptable
    BY <2>1, <2>7 DEF ReadError, WriteError, RecvUndecryptable
  <2>8. CASE \/ RunHeartbeat \/ ReadData \/ ReadAborted \/ WriteOk \/ WriteAborted
             \/ EndChunk \/ RecvRequest \/ RecvPong \/ RecvByeRequest
             \/ RecvByeResponse \/ RecvControlOpen
    BY <2>8 DEF RunHeartbeat, ReadData, ReadAborted, WriteOk, WriteAborted, EndChunk,
                RecvRequest, RecvPong, RecvByeRequest, RecvByeResponse,
                RecvControlOpen
  <2>9. CASE \/ RequestStop \/ AppSend \/ CollectStateTimer \/ CollectHeartbeatTimer
             \/ Tick \/ UNCHANGED vars
    BY <2>9 DEF RequestStop, AppSend, CollectStateTimer, CollectHeartbeatTimer, Tick,
                vars
  <2> QED BY <2>2, <2>3, <2>4, <2>5, <2>6, <2>7, <2>8, <2>9
          DEF Next, Loop, Transport, Phone
<1> QED BY <1>1, <1>2, InductiveInvariant, PTL DEF Spec, Implements, Observed!Spec

=============================================================================
