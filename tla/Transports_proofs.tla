-------------------------- MODULE Transports_proofs --------------------------
(***************************************************************************)
(* Proofs about the transports of either kind: types, that no handler is   *)
(* run twice or lost in a USB transport's close(), and that both keep the  *)
(* contract of ITransport (AsyncOps).                                      *)
(***************************************************************************)
EXTENDS Transports, TLAPS

\* The handler of a direction: in one place (OneHandler), and in the transport as long
\* as its thread may still take the request.
Handler(d) ==
    /\ IF kind = "tcp"
         THEN posted[d] + (IF stored[d] THEN 1 ELSE 0) + (IF thread[d] = "io" THEN 1 ELSE 0)
                  <= (IF called[d] THEN 1 ELSE 0)
         ELSE /\ posted[d] + (IF stored[d] THEN 1 ELSE 0) <= (IF called[d] THEN 1 ELSE 0)
              /\ thread[d] = "io" => stored[d]
    /\ requested[d] /\ thread[d] # "exited" => stored[d]

\* A USB transport is closed by close() only, and its write thread has taken the request
\* it is working on.
UsbInv ==
    kind = "usb" => /\ open <=> closing = "open"
                    /\ CloseCompletes
                    /\ thread["write"] = "io" => ~requested["write"]

IInv ==
    /\ TypeOK
    /\ \A d \in Direction : Handler(d)
    /\ UsbInv

-----------------------------------------------------------------------------
LEMMA Names ==
    /\ "read" \in Direction /\ "write" \in Direction
    /\ Tcp!Direction = Direction /\ Usb!Direction = Direction
BY DEF Direction, Tcp!Direction, Usb!Direction

USE Names DEF TypeOK, IoTypeOK, Place

\* A step that leaves another direction alone leaves its handler where it is.
LEMMA Elsewhere ==
    ASSUME NEW e \in Direction, Handler(e), UNCHANGED kind,
           UNCHANGED <<posted[e], thread[e], called[e], requested[e], stored[e]>>
    PROVE  Handler(e)'
BY DEF Handler

-----------------------------------------------------------------------------
(* The event loop's steps, which both kinds share. *)

LEMMA CallStep ==
    ASSUME IInv, UNCHANGED kind, NEW d \in Direction, Call(d)
    PROVE  IInv'
<1> USE DEF IInv
<1>1. CASE open
  <2>1. /\ called' = [called EXCEPT ![d] = TRUE]
        /\ stored' = [stored EXCEPT ![d] = TRUE]
        /\ requested' = [requested EXCEPT ![d] = TRUE]
        /\ thread' = [thread EXCEPT ![d] = IF thread[d] = "asleep" THEN "test" ELSE thread[d]]
        /\ UNCHANGED <<posted, open, ended, closing>>
        /\ ~called[d]
    BY <1>1 DEF Call, MayCall, Notified
  <2>2. TypeOK'
    <3>1. /\ called' \in [Direction -> BOOLEAN] /\ stored' \in [Direction -> BOOLEAN]
          /\ requested' \in [Direction -> BOOLEAN]
      BY <2>1
    <3>2. thread' \in [Direction -> Place]
      BY <2>1
    <3> QED BY <2>1, <3>1, <3>2
  <2>3. Handler(d)'
    BY <2>1 DEF Handler
  <2>4. ASSUME NEW e \in Direction, e # d
        PROVE  Handler(e)'
    BY <2>1, <2>4, Elsewhere
  <2>5. UsbInv'
    <3>1. CASE d = "write"
      BY <1>1, <2>1, <3>1 DEF UsbInv, CloseCompletes, Handler
    <3>2. CASE d # "write"
      BY <1>1, <2>1, <3>2 DEF UsbInv, CloseCompletes
    <3> QED BY <3>1, <3>2
  <2> QED BY <2>2, <2>3, <2>4, <2>5
<1>2. CASE ~open
  <2>1. /\ called' = [called EXCEPT ![d] = TRUE]
        /\ posted' = [posted EXCEPT ![d] = posted[d] + 1]
        /\ UNCHANGED <<stored, requested, thread, open, ended, closing>>
        /\ ~called[d]
    BY <1>2 DEF Call, MayCall
  <2>2. TypeOK'
    <3>1. called' \in [Direction -> BOOLEAN]
      BY <2>1
    <3>2. posted' \in [Direction -> Nat]
      BY <2>1
    <3> QED BY <2>1, <3>1, <3>2
  <2>3. Handler(d)'
    BY <2>1 DEF Handler
  <2>4. ASSUME NEW e \in Direction, e # d
        PROVE  Handler(e)'
    BY <2>1, <2>4, Elsewhere
  <2>5. UsbInv'
    BY <2>1 DEF UsbInv, CloseCompletes
  <2> QED BY <2>2, <2>3, <2>4, <2>5
<1> QED BY <1>1, <1>2

LEMMA RunStep ==
    ASSUME IInv, UNCHANGED kind, NEW d \in Direction, RunHandler(d)
    PROVE  IInv'
<1> USE DEF IInv
<1>1. /\ posted' = [posted EXCEPT ![d] = posted[d] - 1]
      /\ called' = [called EXCEPT ![d] = FALSE]
      /\ UNCHANGED <<open, requested, stored, thread, ended, closing>>
      /\ posted[d] > 0
  BY DEF RunHandler
<1>2. TypeOK'
  <2>1. called' \in [Direction -> BOOLEAN]
    BY <1>1
  <2>2. posted' \in [Direction -> Nat]
    BY <1>1
  <2> QED BY <1>1, <2>1, <2>2
<1>3. Handler(d)'
  BY <1>1 DEF Handler
<1>4. ASSUME NEW e \in Direction, e # d
      PROVE  Handler(e)'
  BY <1>1, <1>4, Elsewhere
<1>5. UsbInv'
  BY <1>1 DEF UsbInv, CloseCompletes
<1> QED BY <1>2, <1>3, <1>4, <1>5

LEMMA BeginStep ==
    ASSUME IInv, UNCHANGED kind, BeginClose
    PROVE  IInv'
<1> USE DEF IInv
<1>1. CASE open
  <2>1. /\ open' = FALSE /\ closing' = "joining"
        /\ thread' = [d \in Direction |-> IF thread[d] = "asleep" THEN "test" ELSE thread[d]]
        /\ UNCHANGED <<requested, stored, posted, called, ended>>
    BY <1>1 DEF BeginClose, Notified
  <2>2. TypeOK'
    <3>1. thread' \in [Direction -> Place]
      BY <2>1
    <3> QED BY <2>1, <3>1
  <2>3. ASSUME NEW e \in Direction
        PROVE  Handler(e)'
    BY <2>1 DEF Handler
  <2>4. UsbInv'
    BY <2>1 DEF UsbInv, CloseCompletes
  <2> QED BY <2>2, <2>3, <2>4
<1>2. CASE ~open
  <2>1. /\ closing' = "returned" /\ closing = "open"
        /\ UNCHANGED <<open, thread, requested, stored, posted, called, ended>>
    BY <1>2 DEF BeginClose
  <2>2. TypeOK'
    BY <2>1
  <2>3. ASSUME NEW e \in Direction
        PROVE  Handler(e)'
    BY <2>1, Elsewhere
  <2>4. UsbInv'
    BY <1>2, <2>1 DEF UsbInv
  <2> QED BY <2>2, <2>3, <2>4
<1> QED BY <1>1, <1>2

LEMMA FinishStep ==
    ASSUME IInv, UNCHANGED kind, FinishClose
    PROVE  IInv'
<1> USE DEF IInv
<1>1. /\ \A d \in Direction : thread[d] = "exited"
      /\ posted' = [d \in Direction |-> IF stored[d] THEN posted[d] + 1 ELSE posted[d]]
      /\ stored' = [d \in Direction |-> FALSE]
      /\ closing = "joining" /\ closing' = "returned"
      /\ UNCHANGED <<open, requested, thread, called, ended>>
  BY DEF FinishClose
<1>2. TypeOK'
  <2>1. stored' \in [Direction -> BOOLEAN]
    BY <1>1
  <2>2. posted' \in [Direction -> Nat]
    BY <1>1
  <2> QED BY <1>1, <2>1, <2>2
<1>3. ASSUME NEW e \in Direction
      PROVE  Handler(e)'
  BY <1>1 DEF Handler
<1>4. UsbInv'
  BY <1>1 DEF UsbInv, CloseCompletes
<1> QED BY <1>2, <1>3, <1>4

LEMMA LoopStep ==
    ASSUME IInv, Loop, UNCHANGED kind
    PROVE  IInv'
BY CallStep, RunStep, BeginStep, FinishStep DEF Loop

-----------------------------------------------------------------------------
(* The threads. *)

\* A thread that goes anywhere but into the kernel, and does not come
\* back from its end.
LEMMA MoveStep ==
    ASSUME IInv, UNCHANGED kind, NEW d \in Direction, NEW p \in Place,
           p # "io", thread[d] # "exited",
           thread' = [thread EXCEPT ![d] = p],
           UNCHANGED <<open, requested, stored, posted, called, ended, closing>>
    PROVE  IInv'
<1> USE DEF IInv
<1>1. TypeOK'
  <2>1. thread' \in [Direction -> Place]
    OBVIOUS
  <2> QED BY <2>1
<1>2. Handler(d)'
  BY DEF Handler
<1>3. ASSUME NEW e \in Direction, e # d
      PROVE  Handler(e)'
  BY <1>3, Elsewhere
<1>4. UsbInv'
  BY DEF UsbInv, CloseCompletes
<1> QED BY <1>1, <1>2, <1>3, <1>4

\* The kinds share what their threads do to wait.
LEMMA SameWait ==
    ASSUME NEW d
    PROVE  (Tcp!Wait(d) <=> Wait(d)) /\ (Usb!Wait(d) <=> Wait(d))
BY Zenon DEF Wait, Tcp!Wait, Usb!Wait, TestOpen, Tcp!TestOpen, Usb!TestOpen, Doze, Tcp!Doze,
         Usb!Doze, Sleep, Tcp!Sleep, Usb!Sleep, SpuriousWake, Tcp!SpuriousWake,
         Usb!SpuriousWake, Go, Tcp!Go, Usb!Go, Ready, Tcp!Ready, Usb!Ready

LEMMA WaitStep ==
    ASSUME IInv, UNCHANGED kind, NEW d \in Direction, Wait(d)
    PROVE  IInv'
<1>1. CASE TestOpen(d)
  BY <1>1, MoveStep DEF TestOpen, Go
<1>2. CASE Doze(d)
  BY <1>2, MoveStep DEF Doze, Go
<1>3. CASE Sleep(d)
  BY <1>3, MoveStep DEF Sleep, Go
<1>4. CASE SpuriousWake(d)
  BY <1>4, MoveStep DEF SpuriousWake, Go
<1> QED BY <1>1, <1>2, <1>3, <1>4 DEF Wait

\* A TCP thread comes out of the kernel and posts its handler; it may have seen the
\* peer leave.
LEMMA TcpPost ==
    ASSUME IInv, UNCHANGED kind, kind = "tcp", NEW d \in Direction,
           thread[d] = "io",
           thread' = [thread EXCEPT ![d] = "loop"],
           posted' = [posted EXCEPT ![d] = posted[d] + 1],
           open' \in BOOLEAN, ended' \in BOOLEAN,
           UNCHANGED <<requested, stored, called, closing>>
    PROVE  IInv'
<1> USE DEF IInv
<1>1. TypeOK'
  <2>1. thread' \in [Direction -> Place]
    OBVIOUS
  <2>2. posted' \in [Direction -> Nat]
    OBVIOUS
  <2> QED BY <2>1, <2>2
<1>2. Handler(d)'
  BY DEF Handler
<1>3. ASSUME NEW e \in Direction, e # d
      PROVE  Handler(e)'
  BY <1>3, Elsewhere
<1>4. UsbInv'
  BY DEF UsbInv
<1> QED BY <1>1, <1>2, <1>3, <1>4

LEMMA TcpTake ==
    ASSUME IInv, UNCHANGED kind, kind = "tcp", NEW d \in Direction, Tcp!Take(d)
    PROVE  IInv'
<1> USE DEF IInv
<1>1. CASE open
  <2>1. /\ requested' = [requested EXCEPT ![d] = FALSE]
        /\ stored' = [stored EXCEPT ![d] = FALSE]
        /\ thread' = [thread EXCEPT ![d] = "io"]
        /\ UNCHANGED <<open, posted, called, ended, closing>>
        /\ thread[d] = "test" /\ requested[d]
    BY <1>1 DEF Tcp!Take, Tcp!Ready, Tcp!Go
  <2>2. TypeOK'
    <3>1. requested' \in [Direction -> BOOLEAN] /\ stored' \in [Direction -> BOOLEAN]
      BY <2>1
    <3>2. thread' \in [Direction -> Place]
      BY <2>1
    <3> QED BY <2>1, <3>1, <3>2
  <2>3. Handler(d)'
    BY <2>1 DEF Handler
  <2>4. ASSUME NEW e \in Direction, e # d
        PROVE  Handler(e)'
    BY <2>1, <2>4, Elsewhere
  <2>5. UsbInv'
    BY DEF UsbInv
  <2> QED BY <2>2, <2>3, <2>4, <2>5
<1>2. CASE ~open
  BY <1>2, MoveStep DEF Tcp!Take, Tcp!Go
<1> QED BY <1>1, <1>2

LEMMA TcpStep ==
    ASSUME IInv, UNCHANGED kind, kind = "tcp", Tcp!Threads
    PROVE  IInv'
<1>1. ASSUME NEW d \in Direction, Tcp!Wait(d)
      PROVE  IInv'
  BY <1>1, WaitStep, SameWait
<1>2. ASSUME NEW d \in Direction, Tcp!Take(d)
      PROVE  IInv'
  BY <1>2, TcpTake
<1>3. CASE Tcp!ReadReturns
  <2>1. CASE Tcp!ReadData
    BY <2>1, TcpPost DEF Tcp!ReadData, Tcp!Go, Tcp!Post, IInv
  <2>2. CASE Tcp!ReadEnd
    BY <2>2, TcpPost DEF Tcp!ReadEnd, Tcp!Go, Tcp!Post
  <2>3. CASE Tcp!ReadFails /\ open
    BY <2>3, TcpPost DEF Tcp!ReadFails, Tcp!Go, Tcp!Post
  <2>4. CASE Tcp!ReadFails /\ ~open
    BY <2>4, MoveStep DEF Tcp!ReadFails, Tcp!Go
  <2> QED BY <1>3, <2>1, <2>2, <2>3, <2>4 DEF Tcp!ReadReturns
<1>4. CASE Tcp!WriteReturns
  <2>1. CASE Tcp!WriteDone
    BY <2>1, TcpPost DEF Tcp!WriteDone, Tcp!Go, Tcp!Post, IInv
  <2>2. CASE Tcp!WriteFails
    BY <2>2, TcpPost DEF Tcp!WriteFails, Tcp!Go, Tcp!Post, IInv
  <2> QED BY <1>4, <2>1, <2>2 DEF Tcp!WriteReturns
<1> QED BY <1>1, <1>2, <1>3, <1>4 DEF Tcp!Threads

\* A USB thread comes out of its ioctl and posts its handler.
LEMMA UsbPost ==
    ASSUME IInv, UNCHANGED kind, kind = "usb", NEW d \in Direction,
           thread[d] = "io",
           thread' = [thread EXCEPT ![d] = "loop"],
           posted' = [posted EXCEPT ![d] = posted[d] + 1],
           stored' = [stored EXCEPT ![d] = FALSE],
           \/ requested' = [requested EXCEPT ![d] = FALSE]
           \/ requested' = requested /\ ~requested[d],
           ended' \in BOOLEAN,
           UNCHANGED <<open, called, closing>>
    PROVE  IInv'
<1> USE DEF IInv
<1>1. TypeOK'
  <2>1. stored' \in [Direction -> BOOLEAN] /\ requested' \in [Direction -> BOOLEAN]
    OBVIOUS
  <2>2. thread' \in [Direction -> Place]
    OBVIOUS
  <2>3. posted' \in [Direction -> Nat]
    OBVIOUS
  <2> QED BY <2>1, <2>2, <2>3
<1>2. Handler(d)'
  BY DEF Handler
<1>3. ASSUME NEW e \in Direction, e # d
      PROVE  Handler(e)'
  BY <1>3, Elsewhere
<1>4. UsbInv'
  <2>1. CloseCompletes'
    BY DEF UsbInv, CloseCompletes
  <2>2. thread'["write"] = "io" => ~requested'["write"]
    BY DEF UsbInv
  <2> QED BY <2>1, <2>2 DEF UsbInv
<1> QED BY <1>1, <1>2, <1>3, <1>4

LEMMA UsbTakeRead ==
    ASSUME IInv, UNCHANGED kind, kind = "usb", Usb!TakeRead
    PROVE  IInv'
<1> USE DEF IInv
<1>1. CASE open
  <2>1. /\ thread' = [thread EXCEPT !["read"] = "io"]
        /\ UNCHANGED <<open, requested, stored, posted, called, ended, closing>>
        /\ thread["read"] = "test" /\ requested["read"]
    BY <1>1 DEF Usb!TakeRead, Usb!Ready, Usb!Go
  <2>2. TypeOK'
    <3>1. thread' \in [Direction -> Place]
      BY <2>1
    <3> QED BY <2>1, <3>1
  <2>3. Handler("read")'
    BY <2>1 DEF Handler
  <2>4. ASSUME NEW e \in Direction, e # "read"
        PROVE  Handler(e)'
    BY <2>1, <2>4, Elsewhere
  <2>5. UsbInv'
    BY <2>1 DEF UsbInv, CloseCompletes
  <2> QED BY <2>2, <2>3, <2>4, <2>5
<1>2. CASE ~open
  BY <1>2, MoveStep DEF Usb!TakeRead, Usb!Go
<1> QED BY <1>1, <1>2

LEMMA UsbTakeWrite ==
    ASSUME IInv, UNCHANGED kind, kind = "usb", Usb!TakeWrite
    PROVE  IInv'
<1> USE DEF IInv
<1> DEFINE p == IF requested["write"] THEN "io" ELSE "exited"
<1>1. /\ requested' = [requested EXCEPT !["write"] = FALSE]
      /\ thread' = [thread EXCEPT !["write"] = p]
      /\ UNCHANGED <<open, stored, posted, called, ended, closing>>
      /\ thread["write"] = "test"
  BY DEF Usb!TakeWrite, Usb!Ready, Usb!Go
<1>2. TypeOK'
  <2>1. requested' \in [Direction -> BOOLEAN]
    BY <1>1
  <2>2. thread' \in [Direction -> Place]
    BY <1>1
  <2> QED BY <1>1, <2>1, <2>2
<1>3. Handler("write")'
  BY <1>1 DEF Handler
<1>4. ASSUME NEW e \in Direction, e # "write"
      PROVE  Handler(e)'
  BY <1>1, <1>4, Elsewhere
<1>5. UsbInv'
  BY <1>1 DEF UsbInv, CloseCompletes
<1> QED BY <1>2, <1>3, <1>4, <1>5

\* The write thread fails in a closed transport: it drops the handler.
LEMMA UsbDrops ==
    ASSUME IInv, UNCHANGED kind, kind = "usb", ~open, Usb!WriteFails
    PROVE  IInv'
<1> USE DEF IInv
<1>1. /\ stored' = [stored EXCEPT !["write"] = FALSE]
      /\ thread' = [thread EXCEPT !["write"] = "exited"]
      /\ UNCHANGED <<open, requested, posted, called, ended, closing>>
      /\ thread["write"] = "io"
  BY DEF Usb!WriteFails, Usb!Go
<1>2. TypeOK'
  <2>1. stored' \in [Direction -> BOOLEAN]
    BY <1>1
  <2>2. thread' \in [Direction -> Place]
    BY <1>1
  <2> QED BY <1>1, <2>1, <2>2
<1>3. Handler("write")'
  BY <1>1 DEF Handler
<1>4. ASSUME NEW e \in Direction, e # "write"
      PROVE  Handler(e)'
  BY <1>1, <1>4, Elsewhere
<1>5. UsbInv'
  BY <1>1 DEF UsbInv, CloseCompletes
<1> QED BY <1>2, <1>3, <1>4, <1>5

LEMMA UsbStep ==
    ASSUME IInv, UNCHANGED kind, kind = "usb", Usb!Threads
    PROVE  IInv'
<1>1. ASSUME NEW d \in Direction, Usb!Wait(d)
      PROVE  IInv'
  BY <1>1, WaitStep, SameWait
<1>2. CASE Usb!ReadReturns
  <2>1. CASE Usb!ReadTimesOut
    BY <2>1, MoveStep DEF Usb!ReadTimesOut, Usb!Go
  <2>2. CASE Usb!ReadData
    BY <2>2, UsbPost DEF Usb!ReadData, Usb!Complete, Usb!Go, Usb!Post, IInv
  <2>3. CASE Usb!ReadFails /\ open
    BY <2>3, UsbPost DEF Usb!ReadFails, Usb!Complete, Usb!Go, Usb!Post, IInv
  <2>4. CASE Usb!ReadFails /\ ~open
    BY <2>4, MoveStep DEF Usb!ReadFails, Usb!Go
  <2> QED BY <1>2, <2>1, <2>2, <2>3, <2>4 DEF Usb!ReadReturns
<1>3. CASE Usb!WriteReturns
  <2>1. CASE Usb!WriteDone
    BY <2>1, UsbPost DEF Usb!WriteDone, Usb!Complete, Usb!Go, Usb!Post, IInv, UsbInv
  <2>2. CASE Usb!WriteFails /\ open
    BY <2>2, UsbPost DEF Usb!WriteFails, Usb!Complete, Usb!Go, Usb!Post, IInv, UsbInv
  <2>3. CASE Usb!WriteFails /\ ~open
    BY <2>3, UsbDrops
  <2> QED BY <1>3, <2>1, <2>2, <2>3 DEF Usb!WriteReturns
<1> QED BY <1>1, <1>2, <1>3, UsbTakeRead, UsbTakeWrite DEF Usb!Threads

-----------------------------------------------------------------------------
\* The kinds share their loop.
LEMMA SameLoop == (Tcp!Loop <=> Loop) /\ (Usb!Loop <=> Loop)
<1>1. ASSUME NEW d
      PROVE  /\ (Tcp!Call(d) <=> Call(d)) /\ (Usb!Call(d) <=> Call(d))
             /\ (Tcp!RunHandler(d) <=> RunHandler(d)) /\ (Usb!RunHandler(d) <=> RunHandler(d))
  BY Zenon DEF Call, Tcp!Call, Usb!Call, MayCall, Tcp!MayCall, Usb!MayCall, RunHandler,
         Tcp!RunHandler, Usb!RunHandler, LoopFree, Tcp!LoopFree, Usb!LoopFree,
         Notified, Tcp!Notified, Usb!Notified
<1>2. (Tcp!BeginClose <=> BeginClose) /\ (Usb!BeginClose <=> BeginClose)
  BY Zenon DEF BeginClose, Tcp!BeginClose, Usb!BeginClose, Notified, Tcp!Notified, Usb!Notified
<1>3. (Tcp!FinishClose <=> FinishClose) /\ (Usb!FinishClose <=> FinishClose)
  BY Zenon DEF FinishClose, Tcp!FinishClose, Usb!FinishClose
<1> QED BY <1>1, <1>2, <1>3, Zenon DEF Loop, Tcp!Loop, Usb!Loop

\* Every step is one of the loop's or of a thread's of the transport's kind.
LEMMA Steps ==
    ASSUME Next
    PROVE  /\ UNCHANGED kind
           /\ \/ Loop
              \/ kind = "tcp" /\ Tcp!Threads
              \/ kind = "usb" /\ Usb!Threads
BY SameLoop DEF Next, Tcp!Next, Usb!Next

LEMMA InductiveStep == IInv /\ [Next]_vars => IInv'
<1> SUFFICES ASSUME IInv, [Next]_vars PROVE IInv'
  OBVIOUS
<1>1. CASE Next
  BY <1>1, Steps, LoopStep, TcpStep, UsbStep
<1>2. CASE UNCHANGED vars
  <2>1. UNCHANGED <<open, requested, stored, thread, posted, called, ended, closing, kind>>
    BY <1>2 DEF vars, ioVars
  <2> QED BY <2>1 DEF IInv, Handler, UsbInv, CloseCompletes
<1> QED BY <1>1, <1>2

LEMMA Initial == TransportInit => IInv
<1> SUFFICES ASSUME TransportInit PROVE IInv
  OBVIOUS
<1> USE DEF TransportInit, Init
<1>1. requested \in [Direction -> BOOLEAN] /\ stored \in [Direction -> BOOLEAN]
  OBVIOUS
<1>2. called \in [Direction -> BOOLEAN] /\ posted \in [Direction -> Nat]
  OBVIOUS
<1>3. thread \in [Direction -> Place]
  OBVIOUS
<1>4. TypeOK
  BY <1>1, <1>2, <1>3
<1>5. ASSUME NEW d \in Direction
      PROVE  Handler(d)
  BY DEF Handler
<1>6. UsbInv
  BY DEF UsbInv, CloseCompletes
<1> QED BY <1>4, <1>5, <1>6 DEF IInv

LEMMA Invariance == Spec => []IInv
BY Initial, InductiveStep, PTL DEF Spec

\* The state of a transport of either kind has its types: among them, the number of
\* handlers queued never falls below zero.
THEOREM TypeCorrect == Spec => []TypeOK
<1>1. IInv => TypeOK
  BY DEF IInv
<1> QED BY <1>1, Invariance, PTL

\* async_read, async_write and the threads of either kind: a handler is in one place at a
\* time, and is there only for a caller that waits for it.
THEOREM HandlersAreSingle == Spec => []OneHandler
<1>1. IInv => OneHandler
  BY DEF IInv, OneHandler, Handler, Tcp!OneHandler, Usb!OneHandler
<1> QED BY <1>1, Invariance, PTL

\* close() of AndroidUsbTransport: when it has returned no handler is left behind.
THEOREM CloseLeavesNone == Spec => []CloseCancels
<1>1. IInv => CloseCancels
  BY DEF IInv, UsbInv, CloseCancels
<1> QED BY <1>1, Invariance, PTL

-----------------------------------------------------------------------------
(* Both kinds implement AsyncOps. *)

Stage(d) == IF posted[d] > 0 THEN "due" ELSE IF called[d] THEN "pending" ELSE "idle"
opBar == [d \in Direction |-> Stage(d)]

\* What a step changes of the operation of one direction is a step of the contract.
LEMMA StartsOne ==
    ASSUME NEW d \in Direction, Stage(d) = "idle", Stage(d)' \in {"pending", "due"},
           \A e \in Direction \ {d} : Stage(e)' = Stage(e)
    PROVE  Contract!Next
<1>1. opBar' = [opBar EXCEPT ![d] = Stage(d)']
  BY DEF opBar
<1> QED BY <1>1 DEF opBar, Stage, Contract!Next, Contract!Start

LEMMA RunsOne ==
    ASSUME NEW d \in Direction, Stage(d) = "due", Stage(d)' = "idle",
           \A e \in Direction \ {d} : Stage(e)' = Stage(e)
    PROVE  Contract!Next
<1>1. opBar' = [opBar EXCEPT ![d] = "idle"]
  BY DEF opBar
<1> QED BY <1>1 DEF opBar, Stage, Contract!Next, Contract!Run

LEMMA FinishesSome ==
    ASSUME NEW D \in SUBSET Direction,
           \A d \in D : Stage(d) = "pending" /\ Stage(d)' = "due",
           \A e \in Direction \ D : Stage(e)' = Stage(e)
    PROVE  Contract!Next
<1>1. opBar' = [d \in Direction |-> IF d \in D THEN "due" ELSE opBar[d]]
  BY DEF opBar
<1> QED BY <1>1 DEF opBar, Stage, Contract!Next, Contract!Finish

\* A thread, or the loop, that has posted the handler of one direction.
LEMMA PostsOne ==
    ASSUME IInv, NEW d \in Direction,
           \/ kind = "tcp" /\ thread[d] = "io"
           \/ kind = "usb" /\ stored[d],
           posted' = [posted EXCEPT ![d] = posted[d] + 1],
           UNCHANGED called
    PROVE  Contract!Next
<1> USE DEF IInv
<1>1. Stage(d) = "pending" /\ Stage(d)' = "due"
  BY DEF Stage, Handler
<1>2. \A e \in Direction \ {d} : Stage(e)' = Stage(e)
  BY DEF Stage
<1> DEFINE D == {d}
<1>3. D \in SUBSET Direction /\ \A e \in D : Stage(e) = "pending" /\ Stage(e)' = "due"
  BY <1>1
<1>4. \A e \in Direction \ D : Stage(e)' = Stage(e)
  BY <1>2
<1> HIDE DEF D
<1> QED BY <1>3, <1>4, FinishesSome

LEMMA ContractStep ==
    ASSUME IInv, Next
    PROVE  Contract!Next \/ UNCHANGED <<posted, called>>
<1> USE DEF IInv
<1>1. ASSUME NEW d \in Direction, Call(d)
      PROVE  Contract!Next
  <2>1. /\ called' = [called EXCEPT ![d] = TRUE] /\ ~called[d]
        /\ \/ posted' = posted
           \/ posted' = [posted EXCEPT ![d] = posted[d] + 1]
    BY <1>1 DEF Call, MayCall
  <2>2. Stage(d) = "idle" /\ Stage(d)' \in {"pending", "due"}
    BY <2>1 DEF Stage, Handler
  <2>3. \A e \in Direction \ {d} : Stage(e)' = Stage(e)
    BY <2>1 DEF Stage
  <2> QED BY <2>2, <2>3, StartsOne
<1>2. ASSUME NEW d \in Direction, RunHandler(d)
      PROVE  Contract!Next
  <2>1. /\ called' = [called EXCEPT ![d] = FALSE]
        /\ posted' = [posted EXCEPT ![d] = posted[d] - 1] /\ posted[d] > 0
    BY <1>2 DEF RunHandler
  <2>2. Stage(d) = "due" /\ Stage(d)' = "idle"
    BY <2>1 DEF Stage, Handler
  <2>3. \A e \in Direction \ {d} : Stage(e)' = Stage(e)
    BY <2>1 DEF Stage
  <2> QED BY <2>2, <2>3, RunsOne
<1>3. CASE BeginClose
  BY <1>3 DEF BeginClose
<1>4. CASE FinishClose
  <2> DEFINE D == {d \in Direction : stored[d]}
  <2>1. /\ posted' = [d \in Direction |-> IF stored[d] THEN posted[d] + 1 ELSE posted[d]]
        /\ UNCHANGED called
    BY <1>4 DEF FinishClose
  <2>2. \A d \in D : Stage(d) = "pending" /\ Stage(d)' = "due"
    BY <2>1 DEF Stage, Handler
  <2>3. \A e \in Direction \ D : Stage(e)' = Stage(e)
    BY <2>1 DEF Stage
  <2> QED BY <2>2, <2>3, FinishesSome
<1>5. CASE kind = "tcp" /\ Tcp!Threads
  <2>1. ASSUME NEW d \in Direction, Tcp!Wait(d) \/ Tcp!Take(d)
        PROVE  UNCHANGED <<posted, called>>
    BY <2>1 DEF Tcp!Wait, Tcp!TestOpen, Tcp!Doze, Tcp!Sleep, Tcp!SpuriousWake, Tcp!Take
  <2>2. CASE Tcp!ReadData \/ Tcp!ReadEnd \/ (Tcp!ReadFails /\ open)
    BY <1>5, <2>2, PostsOne DEF Tcp!ReadData, Tcp!ReadEnd, Tcp!ReadFails, Tcp!Post
  <2>3. CASE Tcp!ReadFails /\ ~open
    BY <2>3 DEF Tcp!ReadFails
  <2>4. CASE Tcp!WriteReturns
    BY <1>5, <2>4, PostsOne DEF Tcp!WriteReturns, Tcp!WriteDone, Tcp!WriteFails, Tcp!Post
  <2> QED BY <1>5, <2>1, <2>2, <2>3, <2>4 DEF Tcp!Threads, Tcp!ReadReturns
<1>6. CASE kind = "usb" /\ Usb!Threads
  <2>1. ASSUME NEW d \in Direction, Usb!Wait(d)
        PROVE  UNCHANGED <<posted, called>>
    BY <2>1 DEF Usb!Wait, Usb!TestOpen, Usb!Doze, Usb!Sleep, Usb!SpuriousWake
  <2>2. CASE Usb!TakeRead \/ Usb!TakeWrite \/ Usb!ReadTimesOut
    BY <2>2 DEF Usb!TakeRead, Usb!TakeWrite, Usb!ReadTimesOut
  <2>3. ASSUME NEW d \in Direction, thread[d] = "io"
        PROVE  stored[d]
    BY <1>6, <2>3 DEF Handler
  <2>4. CASE Usb!ReadData \/ (Usb!ReadFails /\ open)
    BY <1>6, <2>3, <2>4, PostsOne DEF Usb!ReadData, Usb!ReadFails, Usb!Complete, Usb!Post
  <2>5. CASE Usb!WriteDone \/ (Usb!WriteFails /\ open)
    BY <1>6, <2>3, <2>5, PostsOne DEF Usb!WriteDone, Usb!WriteFails, Usb!Complete, Usb!Post
  <2>6. CASE (Usb!ReadFails \/ Usb!WriteFails) /\ ~open
    BY <2>6 DEF Usb!ReadFails, Usb!WriteFails
  <2> QED BY <1>6, <2>1, <2>2, <2>4, <2>5, <2>6
         DEF Usb!Threads, Usb!ReadReturns, Usb!WriteReturns
<1> QED BY <1>1, <1>2, <1>3, <1>4, <1>5, <1>6, Steps DEF Loop

\* Both transports implement ITransport's contract, whatever their threads do: a handler
\* is queued only for a call that waits for it, once, and is never run inside the call.
THEOREM KeepsContract == Spec => Keeps
<1>1. TransportInit => Contract!Init
  BY DEF TransportInit, Init, Contract!Init
<1>2. IInv /\ [Next]_vars => [Contract!Next]_opBar
  <2> SUFFICES ASSUME IInv, [Next]_vars
               PROVE  Contract!Next \/ UNCHANGED opBar
    OBVIOUS
  <2>1. CASE Next
    BY <2>1, ContractStep DEF opBar, Stage
  <2>2. CASE UNCHANGED vars
    BY <2>2 DEF vars, ioVars, opBar, Stage
  <2> QED BY <2>1, <2>2
<1>3. Contract!Spec <=> Contract!Init /\ [][Contract!Next]_opBar
  BY DEF Contract!Spec, opBar, Stage
<1> QED BY <1>1, <1>2, <1>3, Invariance, PTL DEF Spec, Keeps
=============================================================================
