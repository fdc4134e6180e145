--------------------------- MODULE Playback_proofs ---------------------------
(***************************************************************************)
(* Proofs about Playback for every value of its constants: the credits of  *)
(* a media channel, and the bound on what a new decoder is given of the    *)
(* stream of the old one.                                                  *)
(***************************************************************************)
EXTENDS Playback, FiniteSetTheorems, SequenceTheorems, TLAPS

-----------------------------------------------------------------------------
(* Counting what is under way, when a queue grows at its end and shrinks at *)
(* its head.                                                                *)

Places(q, n, S) == {i \in DOMAIN q : i < n /\ q[i] \in S}

LEMMA CountOfPlaces ==
    ASSUME NEW q, NEW n, NEW S
    PROVE  CountBefore(q, n, S) = Cardinality(Places(q, n, S))
BY DEF CountBefore, Places

LEMMA PlacesFinite ==
    ASSUME NEW T, NEW q \in Seq(T), NEW n, NEW S
    PROVE  IsFiniteSet(Places(q, n, S)) /\ CountBefore(q, n, S) \in Nat
<1>1. IsFiniteSet(1 .. Len(q))
  BY FS_Interval
<1>2. Places(q, n, S) \in SUBSET (1 .. Len(q))
  BY DEF Places
<1>3. IsFiniteSet(Places(q, n, S))
  BY <1>1, <1>2, FS_Subset
<1> QED BY <1>3, FS_CardinalityType, CountOfPlaces

LEMMA NoneBefore ==
    ASSUME NEW T, NEW q \in Seq(T), NEW S
    PROVE  CountBefore(q, 1, S) = 0
<1>1. {i \in DOMAIN q : i < 1 /\ q[i] \in S} = {}
  OBVIOUS
<1> QED BY <1>1, FS_EmptySet, Zenon DEF CountBefore

\* One place further.
LEMMA CountNext ==
    ASSUME NEW T, NEW q \in Seq(T), NEW n \in 1 .. Len(q), NEW S
    PROVE  CountBefore(q, n + 1, S)
             = CountBefore(q, n, S) + (IF q[n] \in S THEN 1 ELSE 0)
<1>1. IsFiniteSet(Places(q, n, S)) /\ CountBefore(q, n, S) \in Nat
  BY PlacesFinite
<1>2. n \notin Places(q, n, S)
  BY DEF Places
<1>3. CASE q[n] \in S
  <2>1. Places(q, n + 1, S) = Places(q, n, S) \cup {n}
    BY <1>3 DEF Places
  <2>2. Cardinality(Places(q, n, S) \cup {n}) = Cardinality(Places(q, n, S)) + 1
    BY <1>1, <1>2, FS_AddElement
  <2> QED BY <1>3, <2>1, <2>2, CountOfPlaces
<1>4. CASE q[n] \notin S
  <2>1. Places(q, n + 1, S) = Places(q, n, S)
    BY <1>4 DEF Places
  <2> QED BY <1>1, <1>4, <2>1, CountOfPlaces
<1> QED BY <1>3, <1>4

\* What is appended is not before what was there.
LEMMA CountOld ==
    ASSUME NEW T, NEW q \in Seq(T), NEW x \in T, NEW n \in 1 .. Len(q) + 1, NEW S
    PROVE  CountBefore(Append(q, x), n, S) = CountBefore(q, n, S)
<1>1. Places(Append(q, x), n, S) = Places(q, n, S)
  <2>1. \A i \in 1 .. Len(q) : Append(q, x)[i] = q[i]
    OBVIOUS
  <2>2. DOMAIN Append(q, x) = 1 .. Len(q) + 1 /\ DOMAIN q = 1 .. Len(q)
    OBVIOUS
  <2> QED BY <2>1, <2>2 DEF Places
<1> QED BY <1>1, CountOfPlaces

\* When the head goes, every place moves up by one.
LEMMA CountShift ==
    ASSUME NEW T, NEW q \in Seq(T), q # <<>>, NEW n \in 1 .. Len(q), NEW S
    PROVE  CountBefore(q, n + 1, S)
             = CountBefore(Tail(q), n, S) + (IF Head(q) \in S THEN 1 ELSE 0)
<1> DEFINE t == Tail(q)
           A == Places(t, n, S)
           B == {i \in Places(q, n + 1, S) : i # 1}
           f == [i \in A |-> i + 1]
<1>1. t \in Seq(T) /\ Len(t) = Len(q) - 1 /\ \A i \in 1 .. Len(t) : t[i] = q[i + 1]
  OBVIOUS
<1>2. A = {i \in 1 .. Len(q) - 1 : i < n /\ q[i + 1] \in S}
  BY <1>1 DEF Places
<1>3. B = {i \in 2 .. Len(q) : i < n + 1 /\ q[i] \in S}
  BY DEF Places
<1>4. IsFiniteSet(A) /\ Cardinality(A) \in Nat
  BY <1>1, PlacesFinite, CountOfPlaces
<1>5. ExistsBijection(A, B)
  <2>1. f \in [A -> B]
    <3>1. ASSUME NEW i \in A PROVE i + 1 \in B
      BY <1>2, <1>3
    <3> QED BY <3>1
  <2>2. \A i, j \in A : f[i] = f[j] => i = j
    BY <1>2
  <2>3. \A k \in B : \E i \in A : f[i] = k
    <3>1. ASSUME NEW k \in B PROVE k - 1 \in A /\ f[k - 1] = k
      BY <1>2, <1>3
    <3> QED BY <3>1
  <2>4. f \in Bijection(A, B)
    BY <2>1, <2>2, <2>3 DEF Bijection, Injection, Surjection, IsInjective
  <2> QED BY <2>4 DEF ExistsBijection
<1>6. IsFiniteSet(B) /\ Cardinality(B) = Cardinality(A)
  BY <1>4, <1>5, FS_Bijection
<1>7. 1 \notin B
  OBVIOUS
<1> HIDE DEF A, B, f
<1>8. CASE Head(q) \in S
  <2>1. Places(q, n + 1, S) = B \cup {1}
    BY <1>8 DEF B, Places
  <2>2. Cardinality(B \cup {1}) = Cardinality(B) + 1
    BY <1>6, <1>7, FS_AddElement
  <2> QED BY <1>4, <1>6, <1>8, <2>1, <2>2, CountOfPlaces DEF A
<1>9. CASE Head(q) \notin S
  <2>1. Places(q, n + 1, S) = B
    BY <1>9 DEF B, Places
  <2> QED BY <1>4, <1>6, <1>9, <2>1, CountOfPlaces DEF A
<1> QED BY <1>8, <1>9

LEMMA CountIsNat ==
    ASSUME NEW T, NEW q \in Seq(T), NEW S
    PROVE  Count(q, S) \in Nat
<1>1. CountBefore(q, Len(q) + 1, S) \in Nat
  BY PlacesFinite, Zenon
<1> QED BY <1>1 DEF Count

LEMMA CountAppend ==
    ASSUME NEW T, NEW q \in Seq(T), NEW x \in T, NEW S
    PROVE  Count(Append(q, x), S) = Count(q, S) + (IF x \in S THEN 1 ELSE 0)
<1> DEFINE a == Append(q, x)
           n == Len(q) + 1
<1>1. a \in Seq(T) /\ Len(a) = n /\ a[n] = x /\ n \in 1 .. Len(a)
  OBVIOUS
<1>2. CountBefore(a, n, S) = CountBefore(q, n, S)
  BY CountOld
<1>3. Count(a, S) = CountBefore(a, n + 1, S) /\ Count(q, S) = CountBefore(q, n, S)
  BY <1>1 DEF Count
<1> HIDE DEF a, n
<1>4. CountBefore(a, n + 1, S) = CountBefore(a, n, S) + (IF a[n] \in S THEN 1 ELSE 0)
  BY <1>1, CountNext
<1>5. Count(a, S) = Count(q, S) + (IF x \in S THEN 1 ELSE 0)
  BY <1>1, <1>2, <1>3, <1>4
<1> QED BY <1>5 DEF a

LEMMA CountTail ==
    ASSUME NEW T, NEW q \in Seq(T), q # <<>>, NEW S
    PROVE  Count(q, S) = Count(Tail(q), S) + (IF Head(q) \in S THEN 1 ELSE 0)
<1>1. Len(q) \in 1 .. Len(q) /\ Len(Tail(q)) + 1 = Len(q)
  OBVIOUS
<1>2. CountBefore(q, Len(q) + 1, S)
        = CountBefore(Tail(q), Len(q), S) + (IF Head(q) \in S THEN 1 ELSE 0)
  BY <1>1, CountShift
<1> QED BY <1>1, <1>2 DEF Count

\* There is not more before a place than altogether.
LEMMA CountWhole ==
    ASSUME NEW T, NEW q \in Seq(T), NEW n \in 1 .. Len(q) + 1, NEW S
    PROVE  CountBefore(q, n, S) <= Count(q, S)
<1>1. IsFiniteSet(Places(q, Len(q) + 1, S))
  BY PlacesFinite
<1>2. Places(q, n, S) \in SUBSET Places(q, Len(q) + 1, S)
  BY DEF Places
<1>3. Cardinality(Places(q, n, S)) <= Cardinality(Places(q, Len(q) + 1, S))
  BY <1>1, <1>2, FS_Subset
<1> QED BY <1>3, CountOfPlaces DEF Count

\* What \o does with one element and with two.
LEMMA OneMore ==
    ASSUME NEW T, NEW q \in Seq(T), NEW x \in T
    PROVE  q \o <<x>> = Append(q, x) /\ Append(q, x) \in Seq(T) /\ q \o <<>> = q
OBVIOUS

LEMMA TwoMore ==
    ASSUME NEW T, NEW q \in Seq(T), NEW x \in T, NEW y \in T
    PROVE  /\ q \o <<x, y>> = Append(Append(q, x), y)
           /\ Append(Append(q, x), y) \in Seq(T) /\ Append(q, x) \in Seq(T)
OBVIOUS

\* Nothing is under way in an empty queue.
LEMMA CountNone ==
    ASSUME NEW S
    PROVE  Count(<<>>, S) = 0
<1>1. <<>> \in Seq({}) /\ Len(<<>>) + 1 = 1
  OBVIOUS
<1>2. CountBefore(<<>>, 1, S) = 0
  BY <1>1, NoneBefore
<1> QED BY <1>1, <1>2 DEF Count

-----------------------------------------------------------------------------
(* Types, of which Playback.TypeOK is what a run needs. *)

UpTypes == {"setup", "start", "config", "key", "data", "stop"}
DownTypes == {"ready", "ack", "projected", "native"}
Calls == {"focus", "unfocus", "attach", "detach"}
Frames == Messages({"none", "config", "key", "data"})

PhoneTypes ==
  /\ medium \in {"video", "audio"} /\ projected \in BOOLEAN
  /\ credits \in Nat /\ streams \in 0 .. MaxStreams /\ sent \in 0 .. NoStream

QueueTypes ==
  /\ up \in Seq(Messages(UpTypes)) /\ down \in Seq(DownTypes) /\ posted \in Seq(Calls)

ServiceTypes ==
  /\ started \in BOOLEAN /\ sinks_active \in BOOLEAN
  /\ binder \in Seq(Media) /\ (medium = "audio" => binder = <<>>)
  /\ headed \in BOOLEAN /\ headless \in Nat /\ mishaps \in 0 .. MaxMishaps

AppTypes ==
  /\ surfaces \in Nat /\ surface \in {None, surfaces} /\ videoDecoder \in {None, surface}
  /\ active \in BOOLEAN /\ main \in {"idle", "destroy", "remove", "ended"}
  /\ taker \in [at : {"idle", "open", "feed"}, frame : Frames, decoder : Nat]

TypeInv == PhoneTypes /\ QueueTypes /\ ServiceTypes /\ AppTypes

LEMMA Parameters ==
    Credits \in Nat \ {0} /\ MaxData \in Nat \ {0} /\ MaxStreams \in Nat /\ MaxMishaps \in Nat
BY MediaAssumption

LEMMA MediaIsUp == Media \in SUBSET Messages(UpTypes) /\ Media \in SUBSET Frames
BY DEF Media, Messages, UpTypes, Frames

LEMMA MessageIn ==
    ASSUME NEW types, NEW type \in types, NEW stream \in Nat
    PROVE  Message(type, stream) \in Messages(types)
BY DEF Message, Messages

LEMMA TypeInit == Init => TypeInv
<1> SUFFICES ASSUME Init PROVE TypeInv
  OBVIOUS
<1> USE DEF Init, MediaInit
<1>1. PhoneTypes
  <2>1. medium \in {"video", "audio"} /\ projected \in BOOLEAN /\ credits = 0 /\ streams = 0
        /\ sent = MaxData + 1
    BY DEF NoStream
  <2> QED BY <2>1, Parameters DEF PhoneTypes, NoStream
<1>2. QueueTypes
  <2>1. Message("setup", 0) \in Messages(UpTypes)
    BY MessageIn DEF UpTypes
  <2> QED BY <2>1 DEF QueueTypes
<1>3. ServiceTypes
  <2>1. binder \in Seq(Media)
    OBVIOUS
  <2>2. headed \in BOOLEAN
    BY Zenon
  <2>3. headless \in Nat /\ mishaps \in 0 .. MaxMishaps
    BY Parameters
  <2> QED BY <2>1, <2>2, <2>3 DEF ServiceTypes
<1>4. AppTypes
  <2>1. Message("none", 0) \in Frames
    BY MessageIn DEF Frames
  <2> QED BY <2>1 DEF AppTypes, None, Idle
<1> QED BY <1>1, <1>2, <1>3, <1>4 DEF TypeInv

-----------------------------------------------------------------------------
(* What a message handled comes to. *)

\* Acknowledged, unless the write queue or the binder's buffer was full.
Answered ==
  \/ down' = Append(down, "ack") /\ mishaps' \in {mishaps, mishaps + 1}
  \/ down' = down /\ mishaps' = mishaps + 1

Kept == UNCHANGED <<headed, headless>>

Handled(m) ==
  \/ m.type = "setup" /\ down' = Append(down, "ready") /\ UNCHANGED mishaps /\ Kept
  \/ m.type \in {"start", "stop"} /\ UNCHANGED <<down, mishaps>> /\ Kept
  \/ /\ m.type \in {"config", "key", "data"} /\ Answered
     /\ \/ headed' = TRUE /\ UNCHANGED headless
        \/ m.type # "config" /\ Kept
        \/ m.type # "config" /\ ~headed /\ UNCHANGED headed /\ headless' = headless + 1

Taken(m) ==
  \/ UNCHANGED binder
  \/ medium = "video" /\ m.type \in {"config", "key", "data"} /\ binder' = Append(binder, m)

LEMMA AckAnswers ==
    ASSUME TypeInv, SendAck
    PROVE  Answered /\ mishaps' \in 0 .. MaxMishaps
<1>1. mishaps \in 0 .. MaxMishaps
  BY DEF TypeInv, ServiceTypes
<1> QED BY <1>1, Parameters DEF SendAck, Answered, Mishap

LEMMA DeliverAnswers ==
    ASSUME TypeInv, NEW m, Deliver(m)
    PROVE  Answered /\ mishaps' \in 0 .. MaxMishaps /\ binder' \in {binder, Append(binder, m)}
<1>1. mishaps \in 0 .. MaxMishaps
  BY DEF TypeInv, ServiceTypes
<1> QED BY <1>1, Parameters DEF Deliver, SendAck, Answered, Mishap

\* What a message of the video channel does.
LEMMA VideoHandled ==
    ASSUME TypeInv, medium = "video", NEW m, VideoMessage(m)
    PROVE  /\ Handled(m) /\ Taken(m) /\ mishaps' \in 0 .. MaxMishaps
           /\ started' \in BOOLEAN /\ sinks_active' = sinks_active
<1>0. mishaps \in 0 .. MaxMishaps /\ started \in BOOLEAN /\ headed \in BOOLEAN
  BY DEF TypeInv, ServiceTypes
<1>1. CASE m.type = "setup" /\ VideoSetup
  BY <1>0, <1>1 DEF VideoSetup, SendReady, serviceVars, Handled, Kept, Taken
<1>2. CASE m.type = "start" /\ VideoStart
  BY <1>0, <1>2 DEF VideoStart, Handled, Kept, Taken
<1>3. CASE m.type = "config" /\ VideoCodecConfig(m)
  <2>1. /\ Deliver(m) /\ headed' = TRUE
        /\ UNCHANGED <<started, sinks_active, headless>>
    BY <1>3 DEF VideoCodecConfig
  <2> QED BY <1>0, <1>3, <2>1, DeliverAnswers DEF Handled, Taken
<1>4. CASE m.type \in {"key", "data"} /\ VideoData(m)
  <2>1. UNCHANGED <<started, sinks_active, headed>>
    BY <1>4 DEF VideoData
  <2>2. CASE started /\ sinks_active
    <3>1. Deliver(m) /\ CountHeadless
      BY <1>4, <2>2 DEF VideoData
    <3>2. \/ Kept
          \/ ~headed /\ UNCHANGED headed /\ headless' = headless + 1
      BY <2>1, <3>1 DEF CountHeadless, Kept
    <3> QED BY <1>0, <1>4, <2>1, <3>1, <3>2, DeliverAnswers DEF Handled, Taken
  <2>3. CASE ~(started /\ sinks_active)
    <3>1. SendAck /\ UNCHANGED <<binder, headless>>
      BY <1>4, <2>3 DEF VideoData
    <3> QED BY <1>0, <1>4, <2>1, <3>1, AckAnswers DEF Handled, Kept, Taken
  <2> QED BY <2>2, <2>3
<1>5. CASE m.type = "stop" /\ VideoStop
  BY <1>0, <1>5 DEF VideoStop, serviceVars, Handled, Kept, Taken
<1> QED BY <1>1, <1>2, <1>3, <1>4, <1>5 DEF VideoMessage

LEMMA AudioHandled ==
    ASSUME TypeInv, NEW m, AudioMessage(m)
    PROVE  /\ Handled(m) /\ Taken(m) /\ mishaps' \in 0 .. MaxMishaps
           /\ started' \in BOOLEAN /\ sinks_active' = sinks_active
<1>0. mishaps \in 0 .. MaxMishaps /\ started \in BOOLEAN
  BY DEF TypeInv, ServiceTypes
<1>1. UNCHANGED <<sinks_active, binder, headed, headless>>
  BY DEF AudioMessage
<1>2. CASE m.type = "setup" /\ AudioSetup
  BY <1>0, <1>1, <1>2 DEF AudioSetup, SendReady, Handled, Kept, Taken
<1>3. CASE m.type = "start" /\ AudioStart
  BY <1>0, <1>1, <1>3 DEF AudioStart, Handled, Kept, Taken
<1>4. CASE m.type \in {"key", "data"} /\ AudioData
  <2>1. SendAck /\ UNCHANGED started
    BY <1>4 DEF AudioData
  <2> QED BY <1>0, <1>1, <1>4, <2>1, AckAnswers DEF Handled, Kept, Taken
<1>5. CASE m.type = "stop" /\ AudioStop
  BY <1>0, <1>1, <1>5 DEF AudioStop, Handled, Kept, Taken
<1> QED BY <1>2, <1>3, <1>4, <1>5 DEF AudioMessage

LEMMA MessageHandled ==
    ASSUME TypeInv, HandleMessage
    PROVE  /\ up # <<>> /\ up' = Tail(up) /\ UNCHANGED <<phoneVars, posted>>
           /\ Handled(Head(up)) /\ Taken(Head(up)) /\ mishaps' \in 0 .. MaxMishaps
           /\ started' \in BOOLEAN /\ sinks_active' = sinks_active
<1>1. medium \in {"video", "audio"}
  BY DEF TypeInv, PhoneTypes
<1>2. CASE medium = "video"
  BY <1>2, VideoHandled DEF HandleMessage
<1>3. CASE medium = "audio"
  BY <1>3, AudioHandled DEF HandleMessage
<1> QED BY <1>1, <1>2, <1>3

-----------------------------------------------------------------------------
(* The types are kept. *)

LEMMA TypesOfPhone ==
    ASSUME TypeInv, PhoneReads \/ PhoneStarts \/ PhoneSends \/ PhoneStops
    PROVE  PhoneTypes' /\ QueueTypes' /\ UNCHANGED <<posted, serviceVars, mishaps, medium>>
<1>0. PhoneTypes /\ QueueTypes /\ streams \in Nat
  BY Parameters DEF TypeInv, PhoneTypes
<1>1. ASSUME NEW type \in UpTypes
      PROVE  Append(up, Message(type, streams)) \in Seq(Messages(UpTypes))
  BY <1>0, <1>1, MessageIn DEF QueueTypes
<1>2. CASE PhoneReads
  <2>1. /\ down # <<>> /\ down' = Tail(down)
        /\ UNCHANGED <<medium, streams, posted, serviceVars, mishaps>>
    BY <1>2 DEF PhoneReads
  <2>2. credits' \in Nat
    BY <1>0, <1>2, Parameters DEF PhoneReads, PhoneTypes
  <2>3. projected' \in BOOLEAN
    BY <1>0, <1>2, Zenon DEF PhoneReads, PhoneTypes
  <2>4. sent' \in {sent, NoStream} /\ up' \in {up, Append(up, Message("stop", streams))}
    BY <1>2 DEF PhoneReads
  <2>5. PhoneTypes'
    BY <1>0, <2>1, <2>2, <2>3, <2>4, Parameters DEF PhoneTypes, NoStream
  <2>6. up' \in Seq(Messages(UpTypes))
    BY <1>0, <1>1, <2>4 DEF QueueTypes, UpTypes
  <2> QED BY <1>0, <2>1, <2>5, <2>6 DEF QueueTypes
<1>3. CASE PhoneStarts
  <2>1. /\ UNCHANGED <<medium, projected, down, posted, serviceVars, mishaps>>
        /\ credits > 0 /\ streams < MaxStreams /\ streams' = streams + 1 /\ sent' = 0
        /\ credits' \in {credits, credits - 1}
    BY <1>3 DEF PhoneStarts
  <2>2. PhoneTypes'
    BY <1>0, <2>1, Parameters DEF PhoneTypes, NoStream
  <2>3. /\ Message("start", streams') \in Messages(UpTypes)
        /\ Message("config", streams') \in Messages(UpTypes)
    <3>1. streams' \in Nat /\ "start" \in UpTypes /\ "config" \in UpTypes
      BY <1>0, <2>1 DEF UpTypes
    <3> QED BY <3>1, MessageIn
  <2>4. up' \in Seq(Messages(UpTypes))
    <3>1. \/ up' = up \o <<Message("start", streams'), Message("config", streams')>>
          \/ up' = Append(up, Message("start", streams'))
      BY <1>3 DEF PhoneStarts
    <3>2. up \in Seq(Messages(UpTypes))
      BY <1>0 DEF QueueTypes
    <3>3. /\ up \o <<Message("start", streams'), Message("config", streams')>>
               = Append(Append(up, Message("start", streams')), Message("config", streams'))
          /\ Append(Append(up, Message("start", streams')), Message("config", streams'))
               \in Seq(Messages(UpTypes))
          /\ Append(up, Message("start", streams')) \in Seq(Messages(UpTypes))
      BY <2>3, <3>2, TwoMore, Zenon
    <3> QED BY <3>1, <3>3, Zenon
  <2> QED BY <1>0, <2>1, <2>2, <2>4 DEF QueueTypes
<1>4. CASE PhoneSends
  <2>1. /\ UNCHANGED <<medium, projected, streams, down, posted, serviceVars, mishaps>>
        /\ sent < MaxData /\ credits > 0 /\ sent' = sent + 1 /\ credits' = credits - 1
        /\ \/ up' = Append(up, Message("key", streams))
           \/ up' = Append(up, Message("data", streams))
    BY <1>4 DEF PhoneSends
  <2>2. PhoneTypes'
    BY <1>0, <2>1, Parameters DEF PhoneTypes, NoStream
  <2>3. up' \in Seq(Messages(UpTypes))
    BY <1>1, <2>1 DEF UpTypes
  <2> QED BY <1>0, <2>1, <2>2, <2>3 DEF QueueTypes
<1>5. CASE PhoneStops
  <2>1. /\ UNCHANGED <<medium, projected, credits, streams, down, posted, serviceVars, mishaps>>
        /\ sent' = NoStream /\ up' = Append(up, Message("stop", streams))
    BY <1>5 DEF PhoneStops
  <2>2. PhoneTypes'
    BY <1>0, <2>1, Parameters DEF PhoneTypes, NoStream
  <2>3. up' \in Seq(Messages(UpTypes))
    BY <1>1, <2>1 DEF UpTypes
  <2> QED BY <1>0, <2>1, <2>2, <2>3 DEF QueueTypes
<1> QED BY <1>2, <1>3, <1>4, <1>5

LEMMA TypesOfMessage ==
    ASSUME TypeInv, HandleMessage
    PROVE  PhoneTypes' /\ QueueTypes' /\ ServiceTypes'
<1>0. PhoneTypes /\ QueueTypes /\ ServiceTypes
  BY DEF TypeInv
<1>1. Head(up) \in Messages(UpTypes) /\ Tail(up) \in Seq(Messages(UpTypes))
  BY <1>0, MessageHandled DEF QueueTypes
<1>2. PhoneTypes'
  BY <1>0, MessageHandled DEF PhoneTypes, phoneVars
<1>3. QueueTypes'
  <2>1. \/ down' = down \/ down' = Append(down, "ready") \/ down' = Append(down, "ack")
    BY MessageHandled DEF Handled, Answered
  <2>2. down \in Seq(DownTypes) /\ "ready" \in DownTypes /\ "ack" \in DownTypes
    BY <1>0 DEF QueueTypes, DownTypes
  <2>3. down' \in Seq(DownTypes)
    BY <2>1, <2>2, AppendProperties
  <2> QED BY <1>0, <1>1, <2>3, MessageHandled DEF QueueTypes
<1>4. binder' \in Seq(Media) /\ (medium' = "audio" => binder' = <<>>)
  <2>1. medium' = medium
    BY MessageHandled DEF phoneVars
  <2>2. CASE UNCHANGED binder
    BY <1>0, <2>1, <2>2 DEF ServiceTypes
  <2>3. CASE /\ medium = "video" /\ Head(up).type \in {"config", "key", "data"}
             /\ binder' = Append(binder, Head(up))
    <3>1. Head(up) \in Media
      BY <1>1, <2>3 DEF Media, Messages
    <3> QED BY <1>0, <2>1, <2>3, <3>1 DEF ServiceTypes
  <2> QED BY <2>2, <2>3, MessageHandled DEF Taken
<1>5. headed' \in BOOLEAN /\ headless' \in Nat
  <2>1. headed' \in {TRUE, headed} /\ headless' \in {headless, headless + 1}
    BY MessageHandled DEF Handled, Kept
  <2>2. headed \in BOOLEAN /\ headless \in Nat
    BY <1>0 DEF ServiceTypes
  <2>3. headed' \in BOOLEAN
    BY <2>1, <2>2, Zenon
  <2>4. headless' \in Nat
    BY <2>1, <2>2
  <2> QED BY <2>3, <2>4
<1> QED BY <1>0, <1>2, <1>3, <1>4, <1>5, MessageHandled DEF ServiceTypes

\* A call: the focus of the video service, or the sinks.
LEMMA CallRun ==
    ASSUME TypeInv, RunCall
    PROVE  /\ posted # <<>> /\ posted' = Tail(posted)
           /\ UNCHANGED <<phoneVars, up, started, binder, mishaps>> /\ sinks_active' \in BOOLEAN
           /\ \/ /\ Head(posted) = "focus" /\ medium = "video"
                 /\ down' = Append(down, "projected") /\ headed' = FALSE /\ headless' = 0
              \/ /\ Head(posted) = "unfocus" /\ medium = "video"
                 /\ down' = Append(down, "native") /\ Kept
              \/ /\ Head(posted) \in {"attach", "detach"} \/ medium = "audio"
                 /\ UNCHANGED down /\ Kept
<1>0. sinks_active \in BOOLEAN
  BY DEF TypeInv, ServiceTypes
<1>1. /\ posted # <<>> /\ posted' = Tail(posted)
      /\ UNCHANGED <<phoneVars, up, started, binder, mishaps>>
  BY DEF RunCall
<1> DEFINE call == Head(posted)
<1>2. CASE call \in {"focus", "unfocus"} /\ medium = "video" /\ SetVideoFocus(call = "focus")
  <2>1. sinks_active' \in BOOLEAN
    BY <1>2 DEF SetVideoFocus, AttachSinks
  <2>2. CASE call = "focus"
    BY <1>1, <1>2, <2>1, <2>2 DEF SetVideoFocus
  <2>3. CASE call = "unfocus"
    BY <1>1, <1>2, <2>1, <2>3 DEF SetVideoFocus, Kept
  <2> QED BY <1>2, <2>2, <2>3
<1>3. CASE /\ call \in {"focus", "unfocus"} /\ medium = "audio"
           /\ UNCHANGED <<sinks_active, headed, headless, down>>
  BY <1>0, <1>1, <1>3 DEF Kept
<1>4. CASE /\ call \in {"attach", "detach"} /\ AttachSinks(call = "attach")
           /\ UNCHANGED <<headed, headless, down>>
  <2>1. sinks_active' \in BOOLEAN
    BY <1>4 DEF AttachSinks
  <2> QED BY <1>1, <1>4, <2>1 DEF Kept
<1> QED BY <1>2, <1>3, <1>4 DEF RunCall

LEMMA TypesOfCall ==
    ASSUME TypeInv, RunCall
    PROVE  PhoneTypes' /\ QueueTypes' /\ ServiceTypes'
<1>0. PhoneTypes /\ QueueTypes /\ ServiceTypes
  BY DEF TypeInv
<1>1. PhoneTypes'
  BY <1>0, CallRun DEF PhoneTypes, phoneVars
<1>2. down' \in Seq(DownTypes) /\ posted' \in Seq(Calls) /\ up' = up
  <2>1. down' \in {down, Append(down, "projected"), Append(down, "native")}
    BY CallRun
  <2>2. down \in Seq(DownTypes) /\ posted \in Seq(Calls)
    BY <1>0 DEF QueueTypes
  <2>3. down' \in Seq(DownTypes)
    BY <2>1, <2>2 DEF DownTypes
  <2>4. posted # <<>> /\ posted' = Tail(posted) /\ up' = up
    BY CallRun
  <2> QED BY <2>2, <2>3, <2>4
<1>3. headed' \in BOOLEAN /\ headless' \in Nat
  <2>1. headed' \in {FALSE, headed} /\ headless' \in {headless, 0}
    BY CallRun DEF Kept
  <2>2. headed \in BOOLEAN /\ headless \in Nat
    BY <1>0 DEF ServiceTypes
  <2>3. headed' \in BOOLEAN
    BY <2>1, <2>2, Zenon
  <2>4. headless' \in Nat
    BY <2>1, <2>2
  <2> QED BY <2>3, <2>4
<1> QED BY <1>0, <1>1, <1>2, <1>3, CallRun DEF QueueTypes, ServiceTypes, phoneVars

LEMMA TypesOfBinder ==
    ASSUME TypeInv, BinderThread
    PROVE  /\ ServiceTypes' /\ AppTypes'
           /\ UNCHANGED <<phoneVars, up, down, posted, headed, headless>>
<1>0. PhoneTypes /\ ServiceTypes /\ AppTypes
  BY DEF TypeInv
<1>1. taker \in [at : {"idle", "open", "feed"}, frame : Frames, decoder : Nat]
      /\ surfaces \in Nat /\ videoDecoder \in Nat
  BY <1>0 DEF AppTypes, None
<1>2. Idle \in [at : {"idle", "open", "feed"}, frame : Frames, decoder : Nat]
  BY MessageIn DEF Idle, Frames, None
<1>3. CASE TakeFrame
  <2>1. /\ binder # <<>> /\ binder' = Tail(binder)
        /\ UNCHANGED <<phoneVars, up, down, posted, started, sinks_active, headed, headless,
                       mishaps, surfaces, surface, videoDecoder, active, main>>
        /\ taker' \in {Idle, [at |-> "open", frame |-> Head(binder), decoder |-> videoDecoder]}
    BY <1>3 DEF TakeFrame
  <2>2. Head(binder) \in Frames /\ Tail(binder) \in Seq(Media)
    BY <1>0, <2>1, MediaIsUp DEF ServiceTypes
  <2>3. taker' \in [at : {"idle", "open", "feed"}, frame : Frames, decoder : Nat]
    BY <1>1, <1>2, <2>1, <2>2
  <2>4. medium # "audio"
    BY <1>0, <2>1 DEF ServiceTypes
  <2> QED BY <1>0, <2>1, <2>2, <2>3, <2>4 DEF ServiceTypes, AppTypes, phoneVars
<1>4. CASE OpenDecoder
  <2>1. /\ UNCHANGED <<phoneVars, up, down, posted, serviceVars,
                       surfaces, surface, videoDecoder, active, main>>
        /\ taker' \in {Idle, Feeding}
        /\ mishaps' = mishaps \/ Mishap
    BY <1>4 DEF OpenDecoder
  <2>2. Feeding \in [at : {"idle", "open", "feed"}, frame : Frames, decoder : Nat]
    BY <1>1 DEF Feeding, None
  <2>3. mishaps' \in 0 .. MaxMishaps
    BY <1>0, <2>1, Parameters DEF ServiceTypes, Mishap
  <2> QED BY <1>0, <1>2, <2>1, <2>2, <2>3 DEF ServiceTypes, AppTypes, phoneVars, serviceVars
<1>5. CASE FeedData
  <2>1. /\ UNCHANGED <<phoneVars, up, down, posted, serviceVars,
                       surfaces, surface, videoDecoder, active, main>>
        /\ taker' = Idle
        /\ mishaps' = mishaps \/ Mishap
    BY <1>5 DEF FeedData
  <2>2. mishaps' \in 0 .. MaxMishaps
    BY <1>0, <2>1, Parameters DEF ServiceTypes, Mishap
  <2> QED BY <1>0, <1>2, <2>1, <2>2 DEF ServiceTypes, AppTypes, phoneVars, serviceVars
<1> QED BY <1>3, <1>4, <1>5 DEF BinderThread

\* The main thread but for the end of the session, and the release of a decoder.
Surfaces == SurfaceDestroyed \/ SurfaceCreated \/ ActivateSession \/ Demote

\* What the main thread posts: it looks at the surface and at the session.
LEMMA PostedBySurfaces ==
    ASSUME TypeInv, Surfaces
    PROVE  /\ UNCHANGED <<phoneVars, up, down, serviceVars, mishaps, taker>> /\ main # "ended"
           /\ main' \in {main, "idle"}
           /\ \/ active' = FALSE /\ surface' = None /\ main = "destroy"
                 /\ posted' = IF active THEN Append(posted, "unfocus") ELSE posted
              \/ /\ medium = "video" /\ main = "idle"
                 /\ surface = None /\ surface' = surfaces + 1 /\ active' = active
                 /\ posted' = IF active THEN Append(posted, "focus") ELSE posted
              \/ /\ ~active /\ active' = TRUE /\ surface' = surface /\ main = "idle"
                 /\ posted' = IF surface # None THEN Append(Append(posted, "attach"), "focus")
                              ELSE Append(posted, "attach")
              \/ /\ active /\ active' = FALSE /\ surface' = surface /\ main = "idle"
                 /\ posted' = Append(Append(posted, "unfocus"), "detach")
<1>0. posted \in Seq(Calls) /\ surfaces \in Nat /\ active \in BOOLEAN
  BY DEF TypeInv, QueueTypes, AppTypes
<1>1. /\ "focus" \in Calls /\ "unfocus" \in Calls /\ "attach" \in Calls /\ "detach" \in Calls
  BY DEF Calls
<1>2. CASE SurfaceDestroyed
  BY <1>0, <1>2 DEF SurfaceDestroyed
<1>3. CASE SurfaceCreated
  <2>1. posted \o <<"focus">> = Append(posted, "focus") /\ posted \o <<>> = posted
    BY <1>0, <1>1, OneMore, Zenon
  <2>2. surfaces + 1 # None
    BY <1>0 DEF None
  <2> QED BY <1>0, <1>3, <2>1, <2>2 DEF SurfaceCreated, OnSurfaceReady
<1>4. CASE ActivateSession
  <2>1. /\ posted \o <<"attach">> = Append(posted, "attach")
        /\ Append(posted, "attach") \in Seq(Calls)
    BY <1>0, <1>1, OneMore, Zenon
  <2>2. /\ Append(posted, "attach") \o <<"focus">> = Append(Append(posted, "attach"), "focus")
        /\ Append(posted, "attach") \o <<>> = Append(posted, "attach")
    BY <1>1, <2>1, OneMore, Zenon
  <2> QED BY <1>0, <1>4, <2>1, <2>2 DEF ActivateSession, OnSurfaceReady
<1>5. CASE Demote
  <2>1. posted \o <<"unfocus", "detach">> = Append(Append(posted, "unfocus"), "detach")
    BY <1>0, <1>1, TwoMore
  <2> QED BY <1>0, <1>5, <2>1 DEF Demote
<1> QED BY <1>2, <1>3, <1>4, <1>5 DEF Surfaces

LEMMA TypesOfSurfaces ==
    ASSUME TypeInv, Surfaces
    PROVE  QueueTypes' /\ AppTypes'
<1>0. QueueTypes /\ AppTypes
  BY DEF TypeInv
<1>1. posted' \in Seq(Calls)
  <2>1. /\ posted \in Seq(Calls)
        /\ "focus" \in Calls /\ "unfocus" \in Calls /\ "attach" \in Calls /\ "detach" \in Calls
    BY <1>0 DEF QueueTypes, Calls
  <2>2. \/ posted' = posted
        \/ posted' = Append(posted, "unfocus")
        \/ posted' = Append(posted, "focus")
        \/ posted' = Append(posted, "attach")
        \/ posted' = Append(Append(posted, "attach"), "focus")
        \/ posted' = Append(Append(posted, "unfocus"), "detach")
    BY PostedBySurfaces
  <2> QED BY <2>1, <2>2, AppendProperties
<1>2. surfaces' \in Nat /\ surface' \in {None, surfaces'} /\ videoDecoder' \in {None, surface'}
  <2>1. /\ surfaces \in Nat /\ surface \in {None, surfaces} /\ videoDecoder \in {None, surface}
    BY <1>0 DEF AppTypes
  <2>2. \/ UNCHANGED surfaces /\ surface' = None /\ videoDecoder' = None
        \/ surfaces' = surfaces + 1 /\ surface' = surfaces + 1 /\ videoDecoder' = surfaces + 1
        \/ UNCHANGED <<surfaces, surface, videoDecoder>>
    BY DEF Surfaces, SurfaceDestroyed, SurfaceCreated, ActivateSession, Demote
  <2> QED BY <2>1, <2>2
<1>3. active' \in BOOLEAN
  BY <1>0, PostedBySurfaces, Zenon DEF AppTypes
<1>4. main' \in {"idle", "destroy", "remove", "ended"} /\ taker' = taker
  BY <1>0, PostedBySurfaces DEF AppTypes
<1> QED BY <1>0, <1>1, <1>2, <1>3, <1>4, PostedBySurfaces DEF QueueTypes, AppTypes

LEMMA TypesOfEnd ==
    ASSUME TypeInv, SessionEnds
    PROVE  TypeInv'
<1>1. /\ UNCHANGED <<phoneVars, sinks_active, binder, headed, headless, mishaps,
                     surfaces, surface, taker>>
      /\ up' = <<>> /\ down' = <<>> /\ posted' = <<>> /\ started' = FALSE
      /\ videoDecoder' = None /\ active' = FALSE /\ main' = "ended"
  BY DEF SessionEnds, VideoClose, AudioClose
<1>2. PhoneTypes' /\ QueueTypes'
  BY <1>1 DEF TypeInv, PhoneTypes, QueueTypes, phoneVars
<1>3. ServiceTypes'
  BY <1>1 DEF TypeInv, ServiceTypes, phoneVars
<1>4. AppTypes'
  BY <1>1 DEF TypeInv, AppTypes
<1> QED BY <1>2, <1>3, <1>4 DEF TypeInv

\* The main thread begins to drop the display, or the session.
Releases ==
  \/ surface # None /\ ReleaseDecoder("destroy") /\ UNCHANGED mishaps
  \/ active /\ ReleaseDecoder("remove") /\ Mishap

LEMMA ReleaseEffect ==
    ASSUME TypeInv, Releases
    PROVE  /\ UNCHANGED <<phoneVars, up, down, posted, serviceVars,
                          surfaces, surface, videoDecoder, active, taker>>
           /\ main = "idle" /\ main' \in {"destroy", "remove"}
           /\ mishaps' \in 0 .. MaxMishaps /\ mishaps' \in {mishaps, mishaps + 1}
<1>1. mishaps \in 0 .. MaxMishaps
  BY DEF TypeInv, ServiceTypes
<1> QED BY <1>1, Parameters DEF Releases, ReleaseDecoder, Mishap

\* What happens on the channel, and what happens in the application.
ChannelStep ==
  InSession /\ (PhoneReads \/ PhoneStarts \/ PhoneSends \/ PhoneStops \/ HandleMessage \/ RunCall)
    /\ UNCHANGED appVars

LEMMA StepsAre ==
    Next => ChannelStep \/ BinderThread \/ SessionEnds \/ Surfaces \/ Releases
BY DEF Next, Phone, EventLoop, MainThread, ChannelStep, Surfaces, Releases

LEMMA TypeStep ==
    ASSUME TypeInv, [Next]_vars
    PROVE  TypeInv'
<1>0. PhoneTypes /\ QueueTypes /\ ServiceTypes /\ AppTypes
  BY DEF TypeInv
<1>1. CASE ChannelStep
  <2>1. AppTypes'
    BY <1>0, <1>1 DEF ChannelStep, appVars, AppTypes
  <2>2. CASE PhoneReads \/ PhoneStarts \/ PhoneSends \/ PhoneStops
    <3>1. ServiceTypes'
      BY <1>0, <2>2, TypesOfPhone DEF ServiceTypes, serviceVars
    <3> QED BY <2>1, <2>2, <3>1, TypesOfPhone DEF TypeInv
  <2>3. CASE HandleMessage
    BY <2>1, <2>3, TypesOfMessage DEF TypeInv
  <2>4. CASE RunCall
    BY <2>1, <2>4, TypesOfCall DEF TypeInv
  <2> QED BY <1>1, <2>2, <2>3, <2>4 DEF ChannelStep
<1>2. CASE BinderThread
  <2>1. ServiceTypes' /\ AppTypes'
    BY <1>2, TypesOfBinder
  <2>2. PhoneTypes' /\ QueueTypes'
    BY <1>0, <1>2, TypesOfBinder DEF PhoneTypes, QueueTypes, phoneVars
  <2> QED BY <2>1, <2>2 DEF TypeInv
<1>3. CASE SessionEnds
  BY <1>3, TypesOfEnd
<1>4. CASE Surfaces
  <2>1. QueueTypes' /\ AppTypes'
    BY <1>4, TypesOfSurfaces
  <2>2. PhoneTypes' /\ ServiceTypes'
    BY <1>0, <1>4, PostedBySurfaces DEF PhoneTypes, ServiceTypes, phoneVars, serviceVars
  <2> QED BY <2>1, <2>2 DEF TypeInv
<1>5. CASE Releases
  <2>1. PhoneTypes' /\ QueueTypes' /\ ServiceTypes'
    BY <1>0, <1>5, ReleaseEffect
       DEF PhoneTypes, QueueTypes, ServiceTypes, phoneVars, serviceVars
  <2>2. AppTypes'
    BY <1>0, <1>5, ReleaseEffect DEF AppTypes
  <2> QED BY <2>1, <2>2 DEF TypeInv
<1>6. CASE UNCHANGED vars
  BY <1>0, <1>6 DEF vars, mediaVars, phoneVars, serviceVars, appVars,
     TypeInv, PhoneTypes, QueueTypes, ServiceTypes, AppTypes
<1> QED BY <1>1, <1>2, <1>3, <1>4, <1>5, <1>6, StepsAre

-----------------------------------------------------------------------------
(* The focus.  The phone is told of it in the order the calls were posted,  *)
(* and gains and losses alternate: a stream is under way only for a phone   *)
(* that holds the focus, or is about to hear that it lost it.               *)

\* What the phone will know once it has read what is on its way.
Promised ==
  \/ \E i \in DOMAIN down : /\ down[i] = "projected"
                            /\ \A k \in DOMAIN down : k > i => down[k] # "native"
  \/ projected /\ \A k \in DOMAIN down : down[k] # "native"

Alternate(q) ==
  \A i, j \in DOMAIN q : i < j /\ q[i] = "focus" /\ q[j] = "focus"
    => \E k \in DOMAIN q : i < k /\ k < j /\ q[k] = "unfocus"
Preceded(q) == \A j \in DOMAIN q : q[j] = "focus" => \E k \in DOMAIN q : k < j /\ q[k] = "unfocus"
Followed(q) == \A j \in DOMAIN q : q[j] = "focus" => \E k \in DOMAIN q : j < k /\ q[k] = "unfocus"
Lost(q) == \E k \in DOMAIN q : q[k] = "unfocus"

FocusInv ==
  medium = "video" =>
    /\ sent # NoStream => projected
    /\ InSession => /\ Alternate(posted)
                    /\ Promised => Preceded(posted)
                    /\ ~(active /\ surface # None)
                         => Followed(posted) /\ (Promised => Lost(posted))

LEMMA AppendCall ==
    ASSUME NEW q \in Seq(Calls), NEW x \in Calls, NEW a, a = Append(q, x)
    PROVE  /\ x # "focus" /\ Alternate(q) => Alternate(a)
           /\ x # "focus" /\ Preceded(q) => Preceded(a)
           /\ x # "focus" /\ Followed(q) => Followed(a)
           /\ x = "unfocus" => Followed(a)
           /\ Lost(q) \/ x = "unfocus" => Lost(a)
           /\ Preceded(q) /\ Lost(q) => Preceded(a)
           /\ Alternate(q) /\ Followed(q) => Alternate(a)
<1>1. /\ DOMAIN q = 1 .. Len(q) /\ Len(q) \in Nat /\ DOMAIN a = 1 .. Len(q) + 1
      /\ \A i \in DOMAIN q : i \in DOMAIN a /\ a[i] = q[i]
      /\ a[Len(q) + 1] = x
  OBVIOUS
<1> DEFINE n == Len(q) + 1
<1>2. /\ \A i \in DOMAIN a : i \in DOMAIN q \/ i = n
      /\ n \in DOMAIN a /\ a[n] = x
      /\ \A i \in DOMAIN q : i < n /\ ~(n < i)
      /\ ~(n < n)
  BY <1>1
<1>3. \A i \in DOMAIN q : i \in DOMAIN a /\ a[i] = q[i]
  BY <1>1
<1> HIDE DEF n
<1>4. x # "focus" /\ Alternate(q) => Alternate(a)
  BY <1>2, <1>3 DEF Alternate
<1>5. x # "focus" /\ Preceded(q) => Preceded(a)
  BY <1>2, <1>3 DEF Preceded
<1>6. x # "focus" /\ Followed(q) => Followed(a)
  BY <1>2, <1>3 DEF Followed
<1>7. x = "unfocus" => Followed(a)
  BY <1>2, <1>3 DEF Followed
<1>8. Lost(q) \/ x = "unfocus" => Lost(a)
  BY <1>2, <1>3 DEF Lost
<1>9. Preceded(q) /\ Lost(q) => Preceded(a)
  BY <1>2, <1>3 DEF Preceded, Lost
<1>10. Alternate(q) /\ Followed(q) => Alternate(a)
  BY <1>2, <1>3 DEF Alternate, Followed
<1> QED BY <1>4, <1>5, <1>6, <1>7, <1>8, <1>9, <1>10

LEMMA TailPlaces ==
    ASSUME NEW T, NEW q \in Seq(T), q # <<>>, NEW t, t = Tail(q)
    PROVE  /\ \A i \in DOMAIN t : i \in Int /\ i + 1 \in DOMAIN q /\ t[i] = q[i + 1] /\ 1 < i + 1
           /\ \A i \in DOMAIN q : i \in Int /\ 1 <= i
           /\ \A i \in DOMAIN q : i # 1 => i - 1 \in DOMAIN t /\ t[i - 1] = q[i]
           /\ 1 \in DOMAIN q /\ q[1] = Head(q)
<1>1. /\ DOMAIN q = 1 .. Len(q) /\ Len(q) \in Nat \ {0} /\ DOMAIN t = 1 .. Len(q) - 1
      /\ \A i \in DOMAIN t : t[i] = q[i + 1]
      /\ q[1] = Head(q)
  OBVIOUS
<1>2. ASSUME NEW i \in DOMAIN q, i # 1
      PROVE  i - 1 \in DOMAIN t /\ t[i - 1] = q[i]
  <2>1. i \in Nat /\ i - 1 \in DOMAIN t /\ (i - 1) + 1 = i
    BY <1>1, <1>2
  <2> QED BY <1>1, <2>1
<1>3. ASSUME NEW i \in DOMAIN t
      PROVE  i \in Int /\ i + 1 \in DOMAIN q /\ t[i] = q[i + 1] /\ 1 < i + 1
  BY <1>1
<1>4. \A i \in DOMAIN q : i \in Int /\ 1 <= i
  BY <1>1
<1>5. 1 \in DOMAIN q
  BY <1>1
<1> QED BY <1>1, <1>2, <1>3, <1>4, <1>5

LEMMA TailCall ==
    ASSUME NEW q \in Seq(Calls), q # <<>>, NEW t, t = Tail(q)
    PROVE  /\ Alternate(q) => Alternate(t)
           /\ Head(q) = "focus" /\ Alternate(q) => Preceded(t)
           /\ Head(q) # "unfocus" /\ Preceded(q) => Preceded(t)
           /\ Followed(q) => Followed(t)
           /\ Head(q) = "focus" /\ Followed(q) => Lost(t)
           /\ Head(q) # "unfocus" /\ Lost(q) => Lost(t)
           /\ Head(q) = "focus" => ~Preceded(q)
<1>1. 1 \in DOMAIN q /\ q[1] = Head(q)
  BY TailPlaces
<1>2. /\ \A i \in DOMAIN t : i \in Int /\ i + 1 \in DOMAIN q /\ t[i] = q[i + 1] /\ 1 < i + 1
      /\ \A i \in DOMAIN q : i \in Int /\ 1 <= i
      /\ \A i \in DOMAIN q : i # 1 => i - 1 \in DOMAIN t /\ t[i - 1] = q[i]
  BY TailPlaces
<1>3. Alternate(q) => Alternate(t)
  <2>1. SUFFICES ASSUME Alternate(q), NEW i \in DOMAIN t, NEW j \in DOMAIN t,
                        i < j, t[i] = "focus", t[j] = "focus"
                 PROVE  \E k \in DOMAIN t : i < k /\ k < j /\ t[k] = "unfocus"
    BY DEF Alternate
  <2>2. PICK k \in DOMAIN q : i + 1 < k /\ k < j + 1 /\ q[k] = "unfocus"
    BY <1>2, <2>1 DEF Alternate
  <2>3. k - 1 \in DOMAIN t /\ t[k - 1] = "unfocus" /\ i < k - 1 /\ k - 1 < j
    BY <1>2, <2>2
  <2> QED BY <2>3
<1>4. Head(q) = "focus" /\ Alternate(q) => Preceded(t)
  <2>1. SUFFICES ASSUME Head(q) = "focus", Alternate(q), NEW j \in DOMAIN t, t[j] = "focus"
                 PROVE  \E k \in DOMAIN t : k < j /\ t[k] = "unfocus"
    BY DEF Preceded
  <2>2. PICK k \in DOMAIN q : 1 < k /\ k < j + 1 /\ q[k] = "unfocus"
    BY <1>1, <1>2, <2>1 DEF Alternate
  <2>3. k - 1 \in DOMAIN t /\ t[k - 1] = "unfocus" /\ k - 1 < j
    BY <1>2, <2>2
  <2> QED BY <2>3
<1>5. Head(q) # "unfocus" /\ Preceded(q) => Preceded(t)
  <2>1. SUFFICES ASSUME Head(q) # "unfocus", Preceded(q), NEW j \in DOMAIN t, t[j] = "focus"
                 PROVE  \E k \in DOMAIN t : k < j /\ t[k] = "unfocus"
    BY DEF Preceded
  <2>2. PICK k \in DOMAIN q : k < j + 1 /\ q[k] = "unfocus"
    BY <1>2, <2>1 DEF Preceded
  <2>3. k - 1 \in DOMAIN t /\ t[k - 1] = "unfocus" /\ k - 1 < j
    BY <1>1, <1>2, <2>1, <2>2
  <2> QED BY <2>3
<1>6. Followed(q) => Followed(t)
  <2>1. SUFFICES ASSUME Followed(q), NEW j \in DOMAIN t, t[j] = "focus"
                 PROVE  \E k \in DOMAIN t : j < k /\ t[k] = "unfocus"
    BY DEF Followed
  <2>2. PICK k \in DOMAIN q : j + 1 < k /\ q[k] = "unfocus"
    BY <1>2, <2>1 DEF Followed
  <2>3. k - 1 \in DOMAIN t /\ t[k - 1] = "unfocus" /\ j < k - 1
    BY <1>2, <2>2
  <2> QED BY <2>3
<1>7. Head(q) = "focus" /\ Followed(q) => Lost(t)
  <2>1. SUFFICES ASSUME Head(q) = "focus", Followed(q)
                 PROVE  \E k \in DOMAIN t : t[k] = "unfocus"
    BY DEF Lost
  <2>2. PICK k \in DOMAIN q : 1 < k /\ q[k] = "unfocus"
    BY <1>1, <1>2, <2>1 DEF Followed
  <2>3. k # 1
    BY <1>2, <2>2
  <2>4. k - 1 \in DOMAIN t /\ t[k - 1] = "unfocus"
    BY <1>2, <2>2, <2>3
  <2> QED BY <2>4
<1>8. Head(q) # "unfocus" /\ Lost(q) => Lost(t)
  BY <1>1, <1>2 DEF Lost
<1>9. Head(q) = "focus" => ~Preceded(q)
  BY <1>1, <1>2 DEF Preceded
<1> QED BY <1>3, <1>4, <1>5, <1>6, <1>7, <1>8, <1>9

\* What the phone will know changes with what is sent to it, and not with what it reads.
LEMMA PromisedSame ==
    ASSUME down' = down, projected' = projected
    PROVE  Promised' <=> Promised
BY DEF Promised

LEMMA PromisedAppend ==
    ASSUME TypeInv, NEW x \in DownTypes, down' = Append(down, x), projected' = projected
    PROVE  /\ x \in {"ready", "ack"} /\ Promised' => Promised
           /\ x = "native" => ~Promised'
<1>1. down \in Seq(DownTypes)
  BY DEF TypeInv, QueueTypes
<1> DEFINE n == Len(down) + 1
<1>2. /\ n \in DOMAIN down' /\ down'[n] = x
      /\ \A i \in DOMAIN down : i \in DOMAIN down' /\ down'[i] = down[i] /\ n > i
      /\ \A i \in DOMAIN down' : i \in DOMAIN down \/ i = n
  BY <1>1
<1> HIDE DEF n
<1>3. x \in {"ready", "ack"} /\ Promised' => Promised
  <2>1. SUFFICES ASSUME x # "native", x # "projected", Promised'
                 PROVE  Promised
    OBVIOUS
  <2>2. CASE \E i \in DOMAIN down' : /\ down'[i] = "projected"
                                     /\ \A k \in DOMAIN down' : k > i => down'[k] # "native"
    BY <1>2, <2>1, <2>2 DEF Promised
  <2>3. CASE projected' /\ \A k \in DOMAIN down' : down'[k] # "native"
    BY <1>2, <2>3 DEF Promised
  <2> QED BY <2>1, <2>2, <2>3 DEF Promised
<1>4. x = "native" => ~Promised'
  <2>1. SUFFICES ASSUME x = "native", Promised' PROVE FALSE
    OBVIOUS
  <2>2. x # "projected"
    BY <2>1
  <2> QED BY <1>2, <2>1, <2>2 DEF Promised
<1> QED BY <1>3, <1>4

LEMMA PromisedRead ==
    ASSUME TypeInv, PhoneReads
    PROVE  Promised' => Promised
<1>1. down \in Seq(DownTypes) /\ down # <<>> /\ down' = Tail(down) /\ projected \in BOOLEAN
  BY DEF PhoneReads, TypeInv, QueueTypes, PhoneTypes
<1>2. 1 \in DOMAIN down /\ down[1] = Head(down)
  BY <1>1, TailPlaces
<1>3. /\ Head(down) = "projected" => projected'
      /\ Head(down) = "native" => ~projected'
      /\ Head(down) \notin {"projected", "native"} => projected' = projected
  BY DEF PhoneReads
<1>4. SUFFICES ASSUME Promised' PROVE Promised
  OBVIOUS
<1>5. /\ \A i \in DOMAIN down' : i \in Int /\ i + 1 \in DOMAIN down /\ down'[i] = down[i + 1]
      /\ \A k \in DOMAIN down : k \in Int /\ 1 <= k
      /\ \A k \in DOMAIN down : k # 1 => k - 1 \in DOMAIN down' /\ down'[k - 1] = down[k]
  BY <1>1, TailPlaces
<1>6. CASE \E i \in DOMAIN down' : /\ down'[i] = "projected"
                                   /\ \A k \in DOMAIN down' : k > i => down'[k] # "native"
  <2>1. PICK i \in DOMAIN down' : /\ down'[i] = "projected"
                                  /\ \A k \in DOMAIN down' : k > i => down'[k] # "native"
    BY <1>6
  <2>2. ASSUME NEW k \in DOMAIN down, k > i + 1
        PROVE  down[k] # "native"
    <3>1. k \in Int /\ k # 1 /\ k - 1 > i
      BY <1>5, <2>2
    <3> QED BY <1>5, <2>1, <3>1
  <2>3. i + 1 \in DOMAIN down /\ down[i + 1] = "projected"
    BY <1>5, <2>1
  <2> QED BY <2>2, <2>3 DEF Promised
<1>7. CASE projected' /\ \A k \in DOMAIN down' : down'[k] # "native"
  <2>1. \A k \in DOMAIN down : k # 1 => down[k] # "native"
    BY <1>5, <1>7
  <2>2. CASE Head(down) = "projected"
    <3>1. \A k \in DOMAIN down : k > 1 => down[k] # "native"
      BY <2>1
    <3> QED BY <1>2, <2>2, <3>1 DEF Promised
  <2>3. CASE Head(down) # "projected"
    <3>1. Head(down) # "native" /\ projected
      BY <1>3, <1>7, <2>3
    <3>2. \A k \in DOMAIN down : down[k] # "native"
      BY <1>2, <2>1, <3>1
    <3> QED BY <3>1, <3>2 DEF Promised
  <2> QED BY <2>2, <2>3
<1> QED BY <1>4, <1>6, <1>7 DEF Promised

LEMMA FocusInit == Init => FocusInv
BY DEF Init, MediaInit, FocusInv, Alternate, Followed, Promised

LEMMA FocusKept ==
    ASSUME FocusInv, UNCHANGED <<medium, posted, active, surface>>, InSession' => InSession,
           medium = "video" /\ sent' # NoStream => projected', Promised' => Promised
    PROVE  FocusInv'
BY DEF FocusInv

LEMMA FocusPhone ==
    ASSUME TypeInv, FocusInv, PhoneReads \/ PhoneStarts \/ PhoneSends \/ PhoneStops,
           UNCHANGED appVars
    PROVE  FocusInv'
<1>0. UNCHANGED <<medium, posted, active, surface, main>>
  BY DEF PhoneReads, PhoneStarts, PhoneSends, PhoneStops, appVars
<1>1. medium = "video" /\ sent # NoStream => projected
  BY DEF FocusInv
<1>2. CASE PhoneReads
  <2>1. Promised' => Promised
    BY <1>2, PromisedRead
  <2>2. ASSUME medium = "video", sent' # NoStream
        PROVE  projected'
    BY <1>1, <1>2, <2>2 DEF PhoneReads
  <2> QED BY <1>0, <2>1, <2>2, FocusKept DEF InSession
<1>3. CASE PhoneStarts \/ PhoneSends \/ PhoneStops
  <2>1. down' = down /\ projected' = projected
    BY <1>3 DEF PhoneStarts, PhoneSends, PhoneStops
  <2>2. medium = "video" /\ sent' # NoStream => projected
    <3>1. CASE PhoneStarts
      BY <3>1 DEF PhoneStarts
    <3>2. CASE PhoneSends
      <4>1. sent # NoStream
        BY <3>2, Parameters DEF PhoneSends, NoStream
      <4> QED BY <1>1, <4>1
    <3>3. CASE PhoneStops
      BY <3>3 DEF PhoneStops
    <3> QED BY <1>3, <3>1, <3>2, <3>3
  <2> QED BY <1>0, <2>1, <2>2, PromisedSame, FocusKept DEF InSession
<1> QED BY <1>2, <1>3

LEMMA FocusMessage ==
    ASSUME TypeInv, FocusInv, HandleMessage, UNCHANGED appVars
    PROVE  FocusInv'
<1>1. UNCHANGED <<medium, sent, projected, posted, active, surface, main>>
  BY MessageHandled DEF phoneVars, appVars
<1>2. \/ down' = down \/ down' = Append(down, "ready") \/ down' = Append(down, "ack")
  BY MessageHandled DEF Handled, Answered
<1>3. "ready" \in DownTypes /\ "ack" \in DownTypes
  BY DEF DownTypes
<1>4. Promised' => Promised
  BY <1>1, <1>2, <1>3, PromisedSame, PromisedAppend
<1>5. medium = "video" /\ sent' # NoStream => projected'
  BY <1>1 DEF FocusInv
<1> QED BY <1>1, <1>4, <1>5, FocusKept DEF InSession

\* A focus gained is one the phone was told it had lost.
LEMMA NotPromised ==
    ASSUME TypeInv, FocusInv, InSession, medium = "video", posted # <<>>, Head(posted) = "focus"
    PROVE  ~Promised
<1>1. posted \in Seq(Calls)
  BY DEF TypeInv, QueueTypes
<1> QED BY <1>1, TailCall DEF FocusInv

LEMMA FocusCall ==
    ASSUME TypeInv, FocusInv, InSession, RunCall, UNCHANGED appVars
    PROVE  FocusInv'
<1>0. SUFFICES ASSUME medium = "video" PROVE FocusInv'
  BY CallRun DEF FocusInv, phoneVars
<1>1. UNCHANGED <<medium, sent, projected, active, surface, main>>
  BY CallRun DEF phoneVars, appVars
<1>2. posted \in Seq(Calls) /\ posted # <<>> /\ posted' = Tail(posted)
  BY CallRun DEF TypeInv, QueueTypes
<1>3. /\ sent # NoStream => projected
      /\ Alternate(posted) /\ (Promised => Preceded(posted))
      /\ ~(active /\ surface # None) => Followed(posted) /\ (Promised => Lost(posted))
  BY <1>0 DEF FocusInv
<1>4. CASE Head(posted) = "focus"
  <2>1. Alternate(posted') /\ Preceded(posted')
    BY <1>2, <1>3, <1>4, TailCall
  <2>2. ~(active /\ surface # None) => Followed(posted') /\ Lost(posted')
    BY <1>2, <1>3, <1>4, TailCall
  <2> QED BY <1>1, <1>3, <2>1, <2>2 DEF FocusInv
<1>5. CASE Head(posted) = "unfocus"
  <2>1. ~Promised'
    <3>1. down' = Append(down, "native") /\ "native" \in DownTypes
      BY <1>0, <1>5, CallRun DEF DownTypes
    <3> QED BY <1>1, <3>1, PromisedAppend
  <2>2. Alternate(posted') /\ (Followed(posted) => Followed(posted'))
    BY <1>2, <1>3, TailCall
  <2> QED BY <1>1, <1>3, <2>1, <2>2 DEF FocusInv
<1>6. CASE Head(posted) \notin {"focus", "unfocus"}
  <2>1. Promised' <=> Promised
    <3>1. down' = down
      BY <1>6, CallRun
    <3> QED BY <1>1, <3>1, PromisedSame
  <2>2. /\ Alternate(posted') /\ (Followed(posted) => Followed(posted'))
        /\ (Preceded(posted) => Preceded(posted')) /\ (Lost(posted) => Lost(posted'))
    BY <1>2, <1>3, <1>6, TailCall
  <2> QED BY <1>1, <1>3, <2>1, <2>2 DEF FocusInv
<1> QED BY <1>4, <1>5, <1>6

LEMMA FocusSurfaces ==
    ASSUME TypeInv, FocusInv, Surfaces
    PROVE  FocusInv'
<1>0. SUFFICES ASSUME medium = "video" PROVE FocusInv'
  BY PostedBySurfaces DEF FocusInv, phoneVars
<1>1. UNCHANGED <<medium, sent, projected, down>> /\ InSession
  BY PostedBySurfaces DEF phoneVars, InSession
<1>2. /\ posted \in Seq(Calls) /\ surfaces \in Nat
      /\ "focus" \in Calls /\ "unfocus" \in Calls /\ "attach" \in Calls /\ "detach" \in Calls
  BY DEF TypeInv, QueueTypes, AppTypes, Calls
<1>3. /\ sent # NoStream => projected
      /\ Alternate(posted) /\ (Promised => Preceded(posted))
      /\ ~(active /\ surface # None) => Followed(posted) /\ (Promised => Lost(posted))
  BY <1>0, <1>1 DEF FocusInv
<1>4. Promised' <=> Promised
  BY <1>1, PromisedSame
<1> SUFFICES /\ Alternate(posted') /\ (Promised => Preceded(posted'))
             /\ ~(active' /\ surface' # None)
                  => Followed(posted') /\ (Promised => Lost(posted'))
  BY <1>1, <1>3, <1>4 DEF FocusInv
<1> DEFINE lost == Append(posted, "unfocus")
           attached == Append(posted, "attach")
<1>5. /\ lost \in Seq(Calls) /\ Alternate(lost) /\ Followed(lost) /\ Lost(lost)
      /\ Preceded(posted) => Preceded(lost)
  BY <1>2, <1>3, AppendCall, AppendProperties
<1>6. /\ attached \in Seq(Calls) /\ Alternate(attached)
      /\ Preceded(posted) => Preceded(attached)
      /\ Followed(posted) => Followed(attached)
      /\ Lost(posted) => Lost(attached)
  BY <1>2, <1>3, AppendCall, AppendProperties
<1>7. CASE /\ active' = FALSE /\ surface' = None
           /\ posted' = IF active THEN Append(posted, "unfocus") ELSE posted
  BY <1>3, <1>5, <1>7
<1>8. CASE /\ surface = None /\ surface' = surfaces + 1 /\ active' = active
           /\ posted' = IF active THEN Append(posted, "focus") ELSE posted
  <2>1. CASE active
    <3>1. Alternate(posted') /\ (Promised => Preceded(posted'))
      BY <1>2, <1>3, <1>8, <2>1, AppendCall
    <3>2. surface' # None
      BY <1>2, <1>8 DEF None
    <3> QED BY <1>8, <2>1, <3>1, <3>2
  <2>2. CASE ~active
    BY <1>3, <1>8, <2>2
  <2> QED BY <2>1, <2>2
<1>9. CASE /\ ~active /\ active' = TRUE /\ surface' = surface
           /\ posted' = IF surface # None THEN Append(Append(posted, "attach"), "focus")
                        ELSE Append(posted, "attach")
  <2>1. CASE surface # None
    <3>1. posted' = Append(attached, "focus") /\ active' /\ surface' # None
      BY <1>9, <2>1
    <3>2. Alternate(attached) /\ Followed(attached)
          /\ (Promised => Preceded(attached) /\ Lost(attached))
      BY <1>3, <1>6, <1>9
    <3> HIDE DEF attached
    <3> QED BY <1>2, <1>6, <3>1, <3>2, AppendCall
  <2>2. CASE surface = None
    BY <1>3, <1>6, <1>9, <2>2
  <2> QED BY <2>1, <2>2
<1>10. CASE /\ active /\ active' = FALSE /\ surface' = surface
            /\ posted' = Append(Append(posted, "unfocus"), "detach")
  <2>1. posted' = Append(lost, "detach") /\ "detach" # "focus"
    BY <1>10
  <2> HIDE DEF lost
  <2> QED BY <1>2, <1>3, <1>5, <2>1, AppendCall
<1> QED BY <1>7, <1>8, <1>9, <1>10, PostedBySurfaces

LEMMA FocusStep ==
    ASSUME TypeInv, FocusInv, [Next]_vars
    PROVE  FocusInv'
<1>1. CASE ChannelStep
  BY <1>1, FocusPhone, FocusMessage, FocusCall DEF ChannelStep
<1>2. CASE BinderThread
  <2>1. UNCHANGED <<phoneVars, down, posted>>
    BY <1>2, TypesOfBinder
  <2>2. UNCHANGED <<active, surface, main>>
    BY <1>2 DEF BinderThread, TakeFrame, OpenDecoder, FeedData
  <2> QED BY <2>1, <2>2, PromisedSame, FocusKept DEF FocusInv, InSession, phoneVars
<1>3. CASE SessionEnds
  <2>1. UNCHANGED phoneVars /\ ~InSession'
    BY <1>3 DEF SessionEnds, InSession
  <2> QED BY <2>1 DEF FocusInv, phoneVars
<1>4. CASE Surfaces
  BY <1>4, FocusSurfaces
<1>5. CASE Releases
  <2>1. UNCHANGED <<phoneVars, down, posted, active, surface>> /\ InSession
    BY <1>5, ReleaseEffect DEF InSession
  <2> QED BY <2>1, PromisedSame, FocusKept DEF FocusInv, phoneVars
<1>6. CASE UNCHANGED vars
  BY <1>6, PromisedSame, FocusKept
     DEF FocusInv, InSession, vars, mediaVars, phoneVars, appVars
<1> QED BY <1>1, <1>2, <1>3, <1>4, <1>5, <1>6, StepsAre

-----------------------------------------------------------------------------
(* The credits: a setup still to be answered is worth all of them, and then *)
(* a media message takes one that its acknowledgement brings back.          *)

Setups == Messages({"setup"})

SetupsUp == Count(up, Setups)
MediaUp == Count(up, Media)
ReadyDown == Count(down, {"ready"})
AcksDown == Count(down, {"ack"})
Held == credits + MediaUp + AcksDown

CreditInv ==
  InSession =>
    \/ SetupsUp + ReadyDown = 0 /\ Held \in Credits - mishaps .. Credits
    \/ SetupsUp + ReadyDown = 1 /\ Held = 0 /\ headless = 0

LEMMA ByType ==
    ASSUME NEW m \in Messages(UpTypes)
    PROVE  /\ m \in Setups <=> m.type = "setup"
           /\ m \in Media <=> m.type \in {"config", "key", "data"}
BY DEF Setups, Media, Messages

LEMMA TypeOfMessage ==
    ASSUME NEW type \in UpTypes, NEW stream \in Nat
    PROVE  /\ Message(type, stream) \in Messages(UpTypes)
           /\ Message(type, stream) \in Setups <=> type = "setup"
           /\ Message(type, stream) \in Media <=> type \in {"config", "key", "data"}
<1>1. Message(type, stream) \in Messages(UpTypes) /\ Message(type, stream).type = type
  BY MessageIn DEF Message
<1> QED BY <1>1, ByType

LEMMA CountsAreNat ==
    ASSUME TypeInv
    PROVE  /\ SetupsUp \in Nat /\ MediaUp \in Nat /\ ReadyDown \in Nat /\ AcksDown \in Nat
           /\ credits \in Nat /\ headless \in Nat /\ mishaps \in Nat
<1>1. up \in Seq(Messages(UpTypes)) /\ down \in Seq(DownTypes)
  BY DEF TypeInv, QueueTypes
<1>2. SetupsUp \in Nat /\ MediaUp \in Nat
  BY <1>1, CountIsNat, Zenon DEF SetupsUp, MediaUp
<1>3. ReadyDown \in Nat /\ AcksDown \in Nat
  BY <1>1, CountIsNat, Zenon DEF ReadyDown, AcksDown
<1> QED BY <1>2, <1>3 DEF TypeInv, PhoneTypes, ServiceTypes

LEMMA CountsStayNat ==
    ASSUME TypeInv'
    PROVE  SetupsUp' \in Nat /\ MediaUp' \in Nat /\ ReadyDown' \in Nat /\ AcksDown' \in Nat
<1>1. up' \in Seq(Messages(UpTypes)) /\ down' \in Seq(DownTypes)
  BY DEF TypeInv, QueueTypes
<1>2. SetupsUp' \in Nat /\ MediaUp' \in Nat
  BY <1>1, CountIsNat, Zenon DEF SetupsUp, MediaUp
<1>3. ReadyDown' \in Nat /\ AcksDown' \in Nat
  BY <1>1, CountIsNat, Zenon DEF ReadyDown, AcksDown
<1> QED BY <1>2, <1>3

\* What a message sent up adds.
LEMMA SentUp ==
    ASSUME TypeInv, NEW type \in UpTypes, NEW stream \in Nat,
           NEW q, q = Append(up, Message(type, stream))
    PROVE  /\ q \in Seq(Messages(UpTypes)) /\ Len(q) = Len(up) + 1
           /\ Count(q, Setups) = SetupsUp + (IF type = "setup" THEN 1 ELSE 0)
           /\ Count(q, Media) = MediaUp + (IF type \in {"config", "key", "data"} THEN 1 ELSE 0)
<1> DEFINE m == Message(type, stream)
<1>1. /\ up \in Seq(Messages(UpTypes)) /\ m \in Messages(UpTypes)
      /\ m \in Setups <=> type = "setup"
      /\ m \in Media <=> type \in {"config", "key", "data"}
  BY TypeOfMessage DEF TypeInv, QueueTypes
<1> HIDE DEF m
<1>2. /\ Count(Append(up, m), Setups) = Count(up, Setups) + (IF m \in Setups THEN 1 ELSE 0)
      /\ Count(Append(up, m), Media) = Count(up, Media) + (IF m \in Media THEN 1 ELSE 0)
  BY <1>1, CountAppend
<1>3. q = Append(up, m)
  BY DEF m
<1>4. q \in Seq(Messages(UpTypes)) /\ Len(q) = Len(up) + 1
  BY <1>1, <1>3, AppendProperties
<1> QED BY <1>1, <1>2, <1>3, <1>4 DEF SetupsUp, MediaUp

\* What a message handled takes away.
LEMMA TakenUp ==
    ASSUME TypeInv, TypeInv', up # <<>>, up' = Tail(up)
    PROVE  /\ Head(up) \in Messages(UpTypes)
           /\ Head(up) \in Setups => SetupsUp' = SetupsUp - 1
           /\ Head(up) \notin Setups => SetupsUp = SetupsUp'
           /\ Head(up) \in Media => MediaUp' = MediaUp - 1
           /\ Head(up) \notin Media => MediaUp = MediaUp'
<1>1. up \in Seq(Messages(UpTypes))
  BY DEF TypeInv, QueueTypes
<1>2. Head(up) \in Messages(UpTypes)
  BY <1>1
<1>3. /\ Count(up, Setups) = Count(Tail(up), Setups) + (IF Head(up) \in Setups THEN 1 ELSE 0)
      /\ Count(up, Media) = Count(Tail(up), Media) + (IF Head(up) \in Media THEN 1 ELSE 0)
  BY <1>1, CountTail
<1>4. /\ Count(up, Setups) \in Nat /\ Count(Tail(up), Setups) \in Nat
      /\ Count(up, Media) \in Nat /\ Count(Tail(up), Media) \in Nat
  <2>1. Tail(up) \in Seq(Messages(UpTypes))
    BY <1>1
  <2> QED BY <1>1, <2>1, CountIsNat, Zenon
<1>5. /\ Head(up) \in Setups => Count(Tail(up), Setups) = Count(up, Setups) - 1
      /\ Head(up) \notin Setups => Count(Tail(up), Setups) = Count(up, Setups)
      /\ Head(up) \in Media => Count(Tail(up), Media) = Count(up, Media) - 1
      /\ Head(up) \notin Media => Count(Tail(up), Media) = Count(up, Media)
  BY <1>3, <1>4
<1> QED BY <1>2, <1>5 DEF SetupsUp, MediaUp

LEMMA SentDown ==
    ASSUME TypeInv, NEW x \in DownTypes, down' = Append(down, x)
    PROVE  /\ ReadyDown' = ReadyDown + (IF x = "ready" THEN 1 ELSE 0)
           /\ AcksDown' = AcksDown + (IF x = "ack" THEN 1 ELSE 0)
<1>1. down \in Seq(DownTypes)
  BY DEF TypeInv, QueueTypes
<1>2. /\ Count(Append(down, x), {"ready"})
           = Count(down, {"ready"}) + (IF x \in {"ready"} THEN 1 ELSE 0)
      /\ Count(Append(down, x), {"ack"})
           = Count(down, {"ack"}) + (IF x \in {"ack"} THEN 1 ELSE 0)
  BY <1>1, CountAppend
<1> QED BY <1>2 DEF ReadyDown, AcksDown

LEMMA TakenDown ==
    ASSUME TypeInv, down # <<>>, down' = Tail(down)
    PROVE  /\ Head(down) = "ready" => ReadyDown' = ReadyDown - 1
           /\ Head(down) # "ready" => ReadyDown' = ReadyDown
           /\ Head(down) = "ack" => AcksDown' = AcksDown - 1
           /\ Head(down) # "ack" => AcksDown' = AcksDown
<1>1. down \in Seq(DownTypes)
  BY DEF TypeInv, QueueTypes
<1>2. ASSUME NEW x
      PROVE  /\ Head(down) = x => Count(Tail(down), {x}) = Count(down, {x}) - 1
             /\ Head(down) # x => Count(Tail(down), {x}) = Count(down, {x})
  <2>1. Count(down, {x}) = Count(Tail(down), {x}) + (IF Head(down) \in {x} THEN 1 ELSE 0)
    BY <1>1, CountTail
  <2>2. Count(down, {x}) \in Nat /\ Count(Tail(down), {x}) \in Nat
    <3>1. Tail(down) \in Seq(DownTypes)
      BY <1>1
    <3> QED BY <1>1, <3>1, CountIsNat, Zenon
  <2> QED BY <2>1, <2>2
<1> QED BY <1>2 DEF ReadyDown, AcksDown

LEMMA SameUp ==
    ASSUME up' = up
    PROVE  SetupsUp' = SetupsUp /\ MediaUp' = MediaUp
BY DEF SetupsUp, MediaUp

LEMMA SameDown ==
    ASSUME down' = down
    PROVE  ReadyDown' = ReadyDown /\ AcksDown' = AcksDown
BY DEF ReadyDown, AcksDown

LEMMA CountsAtFirst ==
    ASSUME Init
    PROVE  SetupsUp = 1 /\ MediaUp = 0 /\ ReadyDown = 0 /\ AcksDown = 0
<1>1. down = <<>> /\ credits = 0 /\ headless = 0 /\ up = <<Message("setup", 0)>>
  BY DEF Init, MediaInit
<1> DEFINE m == Message("setup", 0)
<1>2. m \in Setups /\ m \notin Media /\ m \in Messages(UpTypes)
  BY TypeOfMessage DEF UpTypes
<1>3. up = Append(<<>>, m)
  BY <1>1
<1> HIDE DEF m
<1>4. /\ Count(Append(<<>>, m), Setups) = Count(<<>>, Setups) + (IF m \in Setups THEN 1 ELSE 0)
      /\ Count(Append(<<>>, m), Media) = Count(<<>>, Media) + (IF m \in Media THEN 1 ELSE 0)
  <2>1. <<>> \in Seq(Messages(UpTypes))
    OBVIOUS
  <2> QED BY <1>2, <2>1, CountAppend
<1>5. SetupsUp = 1 /\ MediaUp = 0
  BY <1>2, <1>3, <1>4, CountNone DEF SetupsUp, MediaUp
<1>6. ReadyDown = 0 /\ AcksDown = 0
  BY <1>1, CountNone DEF ReadyDown, AcksDown
<1> QED BY <1>5, <1>6

LEMMA CreditInit == Init => CreditInv
<1>1. ASSUME Init PROVE CreditInv
  <2>1. credits = 0 /\ headless = 0
    BY <1>1 DEF Init, MediaInit
  <2>2. SetupsUp + ReadyDown = 1 /\ Held = 0
    BY <1>1, <2>1, CountsAtFirst DEF Held
  <2> QED BY <2>1, <2>2 DEF CreditInv
<1> QED BY <1>1

\* What a step of the phone does to the counts.
LEMMA CreditsOfPhone ==
    ASSUME TypeInv, TypeInv', PhoneReads \/ PhoneStarts \/ PhoneSends \/ PhoneStops
    PROVE  /\ SetupsUp' = SetupsUp
           /\ \/ /\ ReadyDown' = ReadyDown - 1 /\ AcksDown' = AcksDown /\ MediaUp' = MediaUp
                 /\ credits' = Credits
              \/ /\ ReadyDown' = ReadyDown /\ AcksDown' = AcksDown - 1 /\ MediaUp' = MediaUp
                 /\ credits' = credits + 1
              \/ /\ ReadyDown' = ReadyDown /\ AcksDown' = AcksDown /\ MediaUp' = MediaUp + 1
                 /\ credits' = credits - 1 /\ credits > 0
              \/ /\ ReadyDown' = ReadyDown /\ AcksDown' = AcksDown /\ MediaUp' = MediaUp
                 /\ credits' = credits
<1>0. streams \in Nat /\ medium \in {"video", "audio"}
  BY Parameters DEF TypeInv, PhoneTypes
<1>1. {"start", "config", "key", "data", "stop"} \in SUBSET UpTypes
  BY DEF UpTypes
<1>2. CASE PhoneReads
  <2>1. /\ down # <<>> /\ down' = Tail(down)
        /\ up' = up \/ up' = Append(up, Message("stop", streams))
        /\ \/ Head(down) = "ready" /\ credits' = Credits
           \/ Head(down) = "ack" /\ credits' = credits + 1
           \/ Head(down) \notin {"ready", "ack"} /\ credits' = credits
    BY <1>2 DEF PhoneReads
  <2>2. SetupsUp' = SetupsUp + 0 /\ MediaUp' = MediaUp + 0
    <3>1. CASE up' = up
      BY <3>1, SameUp, CountsAreNat
    <3>2. CASE up' = Append(up, Message("stop", streams))
      BY <1>0, <1>1, <3>2, SentUp DEF SetupsUp, MediaUp
    <3> QED BY <2>1, <3>1, <3>2
  <2> QED BY <2>1, <2>2, TakenDown, CountsAreNat
<1>3. CASE PhoneStarts
  <2>1. down' = down /\ credits > 0
    BY <1>3 DEF PhoneStarts
  <2>2. CASE medium = "video"
    <3> DEFINE s == Message("start", streams + 1)
               c == Message("config", streams + 1)
    <3>1. credits' = credits - 1 /\ up' = up \o <<s, c>>
      BY <1>3, <2>2 DEF PhoneStarts
    <3>2. /\ up \in Seq(Messages(UpTypes)) /\ streams + 1 \in Nat
          /\ s \in Messages(UpTypes) /\ c \in Messages(UpTypes)
          /\ s \notin Setups /\ s \notin Media /\ c \notin Setups /\ c \in Media
      BY <1>0, <1>1, TypeOfMessage DEF TypeInv, QueueTypes
    <3> HIDE DEF s, c
    <3>3. /\ up \o <<s, c>> = Append(Append(up, s), c)
          /\ Append(Append(up, s), c) \in Seq(Messages(UpTypes))
          /\ Append(up, s) \in Seq(Messages(UpTypes))
      BY <3>2, TwoMore, Zenon
    <3>4. Count(Append(up, s), Setups) = SetupsUp + 0 /\ Count(Append(up, s), Media) = MediaUp + 0
      BY <3>2, CountAppend DEF SetupsUp, MediaUp
    <3> DEFINE q == Append(up, s)
    <3>5. q \in Seq(Messages(UpTypes)) /\ up' = Append(q, c)
      BY <3>1, <3>3
    <3> HIDE DEF q
    <3>6. SetupsUp' = Count(q, Setups) + 0 /\ MediaUp' = Count(q, Media) + 1
      BY <3>2, <3>5, CountAppend DEF SetupsUp, MediaUp
    <3> QED BY <2>1, <3>1, <3>4, <3>6, SameDown, CountsAreNat DEF q
  <2>3. CASE medium = "audio"
    <3>1. credits' = credits /\ up' = Append(up, Message("start", streams + 1))
      BY <1>3, <2>3 DEF PhoneStarts
    <3>2. SetupsUp' = SetupsUp + 0 /\ MediaUp' = MediaUp + 0
      <4>1. streams + 1 \in Nat /\ "start" \in UpTypes
        BY <1>0, <1>1
      <4> QED BY <3>1, <4>1, SentUp DEF SetupsUp, MediaUp
    <3> QED BY <2>1, <3>1, <3>2, SameDown, CountsAreNat
  <2> QED BY <1>0, <2>2, <2>3
<1>4. CASE PhoneSends
  <2>1. /\ down' = down /\ credits > 0 /\ credits' = credits - 1
        /\ \/ up' = Append(up, Message("key", streams))
           \/ up' = Append(up, Message("data", streams))
    BY <1>4 DEF PhoneSends
  <2>2. SetupsUp' = SetupsUp + 0 /\ MediaUp' = MediaUp + 1
    BY <1>0, <1>1, <2>1, SentUp DEF SetupsUp, MediaUp
  <2> QED BY <2>1, <2>2, SameDown, CountsAreNat
<1>5. CASE PhoneStops
  <2>1. down' = down /\ credits' = credits /\ up' = Append(up, Message("stop", streams))
    BY <1>5 DEF PhoneStops
  <2>2. SetupsUp' = SetupsUp + 0 /\ MediaUp' = MediaUp + 0
    BY <1>0, <1>1, <2>1, SentUp DEF SetupsUp, MediaUp
  <2> QED BY <2>1, <2>2, SameDown, CountsAreNat
<1> QED BY <1>2, <1>3, <1>4, <1>5

\* What a message handled does to them.
LEMMA CreditsOfMessage ==
    ASSUME TypeInv, TypeInv', HandleMessage
    PROVE  /\ credits' = credits
           /\ \/ /\ SetupsUp' = SetupsUp - 1 /\ MediaUp' = MediaUp
                 /\ ReadyDown' = ReadyDown + 1 /\ AcksDown' = AcksDown
                 /\ mishaps' = mishaps /\ headless' = headless
              \/ /\ SetupsUp' = SetupsUp /\ MediaUp' = MediaUp
                 /\ ReadyDown' = ReadyDown /\ AcksDown' = AcksDown
                 /\ mishaps' = mishaps /\ headless' = headless
              \/ /\ SetupsUp' = SetupsUp /\ MediaUp' = MediaUp - 1 /\ ReadyDown' = ReadyDown
                 /\ \/ AcksDown' = AcksDown + 1 /\ mishaps' \in {mishaps, mishaps + 1}
                    \/ AcksDown' = AcksDown /\ mishaps' = mishaps + 1
<1>1. /\ up # <<>> /\ up' = Tail(up) /\ credits' = credits /\ Handled(Head(up))
      /\ "ready" \in DownTypes /\ "ack" \in DownTypes
  BY MessageHandled DEF phoneVars, DownTypes
<1> DEFINE kind == Head(up).type
<1>2. /\ Head(up) \in Setups <=> kind = "setup"
      /\ Head(up) \in Media <=> kind \in {"config", "key", "data"}
  BY <1>1, TakenUp, ByType
<1>3. /\ kind = "setup" => SetupsUp' = SetupsUp - 1 /\ MediaUp' = MediaUp
      /\ kind \in {"start", "stop"} => SetupsUp' = SetupsUp /\ MediaUp' = MediaUp
      /\ kind \in {"config", "key", "data"} => SetupsUp' = SetupsUp /\ MediaUp' = MediaUp - 1
  BY <1>1, <1>2, TakenUp
<1>4. \/ kind = "setup" /\ down' = Append(down, "ready") /\ UNCHANGED mishaps /\ Kept
      \/ kind \in {"start", "stop"} /\ UNCHANGED <<down, mishaps>> /\ Kept
      \/ kind \in {"config", "key", "data"} /\ Answered
  BY <1>1 DEF Handled
<1> HIDE DEF kind
<1>5. CASE /\ kind = "setup" /\ down' = Append(down, "ready")
           /\ UNCHANGED mishaps /\ Kept
  <2>1. ReadyDown' = ReadyDown + 1 /\ AcksDown' = AcksDown + 0
    BY <1>1, <1>5, SentDown
  <2>2. SetupsUp' = SetupsUp - 1 /\ MediaUp' = MediaUp
    BY <1>3, <1>5
  <2> QED BY <1>1, <1>5, <2>1, <2>2, CountsAreNat DEF Kept
<1>6. CASE kind \in {"start", "stop"} /\ UNCHANGED <<down, mishaps>> /\ Kept
  <2>1. SetupsUp' = SetupsUp /\ MediaUp' = MediaUp
    BY <1>3, <1>6
  <2> QED BY <1>1, <1>6, <2>1, SameDown DEF Kept
<1>7. CASE kind \in {"config", "key", "data"} /\ Answered
  <2>1. SetupsUp' = SetupsUp /\ MediaUp' = MediaUp - 1
    BY <1>3, <1>7
  <2>2. CASE down' = Append(down, "ack") /\ mishaps' \in {mishaps, mishaps + 1}
    <3>1. ReadyDown' = ReadyDown + 0 /\ AcksDown' = AcksDown + 1
      BY <1>1, <2>2, SentDown
    <3> QED BY <1>1, <2>1, <2>2, <3>1, CountsAreNat
  <2>3. CASE down' = down /\ mishaps' = mishaps + 1
    BY <1>1, <2>1, <2>3, SameDown
  <2> QED BY <1>7, <2>2, <2>3 DEF Answered
<1> QED BY <1>4, <1>5, <1>6, <1>7

LEMMA CreditsKeptBy ==
    ASSUME CreditInv, UNCHANGED <<up, down, credits, headless>>, InSession' => InSession,
           mishaps \in Nat, mishaps' \in {mishaps, mishaps + 1}
    PROVE  CreditInv'
<1>1. SetupsUp' = SetupsUp /\ MediaUp' = MediaUp /\ ReadyDown' = ReadyDown /\ AcksDown' = AcksDown
  BY SameUp, SameDown
<1>2. Held' = Held
  BY <1>1 DEF Held
<1>3. Credits \in Nat
  BY Parameters
<1> QED BY <1>1, <1>2, <1>3 DEF CreditInv

LEMMA CreditStep ==
    ASSUME TypeInv, TypeInv', CreditInv, [Next]_vars
    PROVE  CreditInv'
<1>0. /\ SetupsUp \in Nat /\ MediaUp \in Nat /\ ReadyDown \in Nat /\ AcksDown \in Nat
      /\ credits \in Nat /\ mishaps \in Nat /\ Credits \in Nat
      /\ SetupsUp' \in Nat /\ MediaUp' \in Nat /\ ReadyDown' \in Nat /\ AcksDown' \in Nat
  BY CountsAreNat, CountsStayNat, Parameters
<1>1. CASE ChannelStep
  <2>0. /\ InSession
        /\ \/ SetupsUp + ReadyDown = 0 /\ Held \in Credits - mishaps .. Credits
           \/ SetupsUp + ReadyDown = 1 /\ Held = 0 /\ headless = 0
    BY <1>1 DEF ChannelStep, CreditInv
  <2> SUFFICES \/ SetupsUp' + ReadyDown' = 0 /\ Held' \in Credits - mishaps' .. Credits
               \/ SetupsUp' + ReadyDown' = 1 /\ Held' = 0 /\ headless' = 0
    BY DEF CreditInv
  <2>1. CASE PhoneReads \/ PhoneStarts \/ PhoneSends \/ PhoneStops
    <3>1. UNCHANGED <<headless, mishaps>>
      BY <2>1, TypesOfPhone DEF serviceVars
    <3>2. SetupsUp' = SetupsUp
      BY <2>1, CreditsOfPhone
    <3>3. CASE /\ ReadyDown' = ReadyDown - 1 /\ AcksDown' = AcksDown /\ MediaUp' = MediaUp
               /\ credits' = Credits
      <4>1. SetupsUp + ReadyDown >= 1 /\ SetupsUp + ReadyDown' = SetupsUp + ReadyDown - 1
        BY <1>0, <3>3
      <4>2. SetupsUp + ReadyDown = 1 /\ Held = 0 /\ headless = 0
        BY <2>0, <4>1
      <4>3. MediaUp = 0 /\ AcksDown = 0
        BY <1>0, <4>2 DEF Held
      <4>4. Held' = Credits + 0 + 0
        BY <3>3, <4>3 DEF Held
      <4>5. Held' \in Credits - mishaps' .. Credits
        BY <1>0, <3>1, <4>4
      <4>6. SetupsUp' + ReadyDown' = 0
        BY <1>0, <3>2, <3>3, <4>2
      <4> QED BY <4>5, <4>6
    <3>4. CASE /\ ReadyDown' = ReadyDown /\ AcksDown' = AcksDown - 1 /\ MediaUp' = MediaUp
               /\ credits' = credits + 1
      <4>1. Held' = Held
        BY <1>0, <3>4 DEF Held
      <4> QED BY <2>0, <3>1, <3>2, <3>4, <4>1
    <3>5. CASE /\ ReadyDown' = ReadyDown /\ AcksDown' = AcksDown /\ MediaUp' = MediaUp + 1
               /\ credits' = credits - 1 /\ credits > 0
      <4>1. Held' = Held
        BY <1>0, <3>5 DEF Held
      <4> QED BY <2>0, <3>1, <3>2, <3>5, <4>1
    <3>6. CASE /\ ReadyDown' = ReadyDown /\ AcksDown' = AcksDown /\ MediaUp' = MediaUp
               /\ credits' = credits
      BY <2>0, <3>1, <3>2, <3>6 DEF Held
    <3> QED BY <2>1, <3>3, <3>4, <3>5, <3>6, CreditsOfPhone
  <2>2. CASE HandleMessage
    <3>1. credits' = credits
      BY <2>2, CreditsOfMessage
    <3>2. CASE /\ SetupsUp' = SetupsUp - 1 /\ MediaUp' = MediaUp
               /\ ReadyDown' = ReadyDown + 1 /\ AcksDown' = AcksDown
               /\ mishaps' = mishaps /\ headless' = headless
      <4>1. Held' = Held /\ SetupsUp' + ReadyDown' = SetupsUp + ReadyDown
        BY <1>0, <3>1, <3>2 DEF Held
      <4> QED BY <2>0, <3>2, <4>1
    <3>3. CASE /\ SetupsUp' = SetupsUp /\ MediaUp' = MediaUp
               /\ ReadyDown' = ReadyDown /\ AcksDown' = AcksDown
               /\ mishaps' = mishaps /\ headless' = headless
      BY <2>0, <3>1, <3>3 DEF Held
    <3>4. CASE /\ SetupsUp' = SetupsUp /\ MediaUp' = MediaUp - 1 /\ ReadyDown' = ReadyDown
               /\ \/ AcksDown' = AcksDown + 1 /\ mishaps' \in {mishaps, mishaps + 1}
                  \/ AcksDown' = AcksDown /\ mishaps' = mishaps + 1
      <4>1. Held # 0
        <5>1. MediaUp >= 1
          BY <1>0, <3>4
        <5> QED BY <1>0, <5>1 DEF Held
      <4>2. SetupsUp + ReadyDown = 0 /\ Held \in Credits - mishaps .. Credits
        BY <2>0, <4>1
      <4>3. \/ Held' = Held /\ mishaps' \in {mishaps, mishaps + 1}
            \/ Held' = Held - 1 /\ mishaps' = mishaps + 1
        <5>1. CASE AcksDown' = AcksDown + 1
          <6>1. credits' + MediaUp' + AcksDown' = credits + MediaUp + AcksDown
            BY <1>0, <3>1, <3>4, <5>1
          <6>2. mishaps' \in {mishaps, mishaps + 1}
            BY <3>4
          <6> QED BY <6>1, <6>2 DEF Held
        <5>2. CASE AcksDown' = AcksDown /\ mishaps' = mishaps + 1
          <6>1. credits' + MediaUp' + AcksDown' = (credits + MediaUp + AcksDown) - 1
            BY <1>0, <3>1, <3>4, <5>2
          <6>2. Held' = Held - 1
            BY <6>1, Zenon DEF Held
          <6> QED BY <5>2, <6>2
        <5> QED BY <3>4, <5>1, <5>2
      <4>4. Held' \in Credits - mishaps' .. Credits
        BY <1>0, <4>2, <4>3
      <4> QED BY <3>4, <4>2, <4>4
    <3> QED BY <2>2, <3>2, <3>3, <3>4, CreditsOfMessage
  <2>3. CASE RunCall
    <3>1. /\ UNCHANGED <<up, credits, mishaps>> /\ headless' \in {headless, 0}
          /\ down' = down \/ down' = Append(down, "projected") \/ down' = Append(down, "native")
          /\ "projected" \in DownTypes /\ "native" \in DownTypes
      BY <2>3, CallRun DEF phoneVars, Kept, DownTypes
    <3>2. ReadyDown' = ReadyDown /\ AcksDown' = AcksDown
      BY <1>0, <3>1, SentDown, SameDown
    <3>3. SetupsUp' = SetupsUp /\ Held' = Held
      BY <3>1, <3>2, SameUp DEF Held
    <3> QED BY <2>0, <3>1, <3>2, <3>3
  <2> QED BY <1>1, <2>1, <2>2, <2>3 DEF ChannelStep
<1>2. CASE BinderThread
  <2>1. UNCHANGED <<up, down, credits, headless, main>>
    BY <1>2, TypesOfBinder DEF phoneVars, BinderThread, TakeFrame, OpenDecoder, FeedData
  <2>2. mishaps' \in {mishaps, mishaps + 1}
    BY <1>2 DEF BinderThread, TakeFrame, OpenDecoder, FeedData, Mishap
  <2> QED BY <1>0, <2>1, <2>2, CreditsKeptBy DEF InSession
<1>3. CASE SessionEnds
  BY <1>3 DEF SessionEnds, CreditInv, InSession
<1>4. CASE Surfaces
  <2>1. UNCHANGED <<up, down, credits, headless, mishaps>> /\ InSession
    BY <1>4, PostedBySurfaces DEF phoneVars, serviceVars, InSession
  <2> QED BY <1>0, <2>1, CreditsKeptBy
<1>5. CASE Releases
  <2>1. /\ UNCHANGED <<up, down, credits, headless>> /\ InSession
        /\ mishaps' \in {mishaps, mishaps + 1}
    BY <1>5, ReleaseEffect DEF phoneVars, serviceVars, InSession
  <2> QED BY <1>0, <2>1, CreditsKeptBy
<1>6. CASE UNCHANGED vars
  <2>1. UNCHANGED <<up, down, credits, headless, mishaps, main>>
    BY <1>6 DEF vars, mediaVars, phoneVars, serviceVars, appVars
  <2> QED BY <1>0, <2>1, CreditsKeptBy DEF InSession
<1> QED BY <1>1, <1>2, <1>3, <1>4, <1>5, <1>6, StepsAre

-----------------------------------------------------------------------------
(* The stream of the old display.  Once a focus is gained and until the     *)
(* next configuration, what has been forwarded and what may still come      *)
(* before one is within the credits: either the phone has a loss of focus   *)
(* to read, and everything it holds until then counts, or the stream it has *)
(* under way, if any, is one whose configuration is still to come.          *)

\* There is a loss of focus in q, and what it finds is within the credits.
NativeIn(q, k) ==
  \E n \in DOMAIN q : q[n] = "native" /\ k + CountBefore(q, n, {"ack"}) <= Credits

\* There is a configuration in q, and what comes before it is within the credits.
ConfigIn(q, h) ==
  \E c \in DOMAIN q : q[c].type = "config" /\ h + CountBefore(q, c, Media) <= Credits

Leaving == NativeIn(down, credits + headless + MediaUp)
Bounded == (sent = NoStream /\ headless + MediaUp <= Credits) \/ ConfigIn(up, headless)

HeadInv ==
  /\ credits <= Credits
  /\ medium = "video" => headless <= Credits /\ (InSession => headed \/ Leaving \/ Bounded)

LEMMA NativeAppend ==
    ASSUME NEW q \in Seq(DownTypes), NEW x \in DownTypes, NEW k, NativeIn(q, k)
    PROVE  NativeIn(Append(q, x), k)
<1>1. PICK n \in DOMAIN q : q[n] = "native" /\ k + CountBefore(q, n, {"ack"}) <= Credits
  BY DEF NativeIn
<1>2. n \in DOMAIN Append(q, x) /\ Append(q, x)[n] = "native" /\ n \in 1 .. Len(q) + 1
  BY <1>1
<1>3. CountBefore(Append(q, x), n, {"ack"}) = CountBefore(q, n, {"ack"})
  BY <1>2, CountOld
<1> QED BY <1>1, <1>2, <1>3 DEF NativeIn

LEMMA NativeTail ==
    ASSUME NEW q \in Seq(DownTypes), q # <<>>, NEW k \in Nat, NativeIn(q, k)
    PROVE  \/ Head(q) = "native" /\ k <= Credits
           \/ Head(q) = "ack" /\ NativeIn(Tail(q), k + 1)
           \/ Head(q) # "ack" /\ NativeIn(Tail(q), k)
<1>1. PICK n \in DOMAIN q : q[n] = "native" /\ k + CountBefore(q, n, {"ack"}) <= Credits
  BY DEF NativeIn
<1>2. CASE n = 1
  <2>1. Head(q) = "native"
    BY <1>1, <1>2
  <2>2. CountBefore(q, 1, {"ack"}) = 0
    BY NoneBefore
  <2> QED BY <1>1, <1>2, <2>1, <2>2
<1>3. CASE n # 1
  <2> DEFINE p == n - 1
             t == Tail(q)
  <2>1. p \in DOMAIN t /\ t[p] = q[n]
    BY <1>3, TailPlaces
  <2>2. p \in 1 .. Len(q) /\ p + 1 = n /\ t \in Seq(DownTypes)
    BY <1>3
  <2>3. CountBefore(t, p, {"ack"}) \in Nat
    BY <2>2, PlacesFinite, Zenon
  <2> HIDE DEF p
  <2>4. CountBefore(q, p + 1, {"ack"})
          = CountBefore(t, p, {"ack"}) + (IF Head(q) \in {"ack"} THEN 1 ELSE 0)
    BY <2>2, CountShift
  <2> HIDE DEF t
  <2>5. CASE Head(q) = "ack"
    <3>1. (k + 1) + CountBefore(t, p, {"ack"}) <= Credits
      BY <1>1, <2>2, <2>3, <2>4, <2>5
    <3>2. NativeIn(t, k + 1)
      BY <1>1, <2>1, <3>1 DEF NativeIn
    <3> QED BY <2>5, <3>2 DEF t
  <2>6. CASE Head(q) # "ack"
    <3>1. k + CountBefore(t, p, {"ack"}) <= Credits
      BY <1>1, <2>2, <2>3, <2>4, <2>6
    <3>2. NativeIn(t, k)
      BY <1>1, <2>1, <3>1 DEF NativeIn
    <3> QED BY <2>6, <3>2 DEF t
  <2> QED BY <2>5, <2>6
<1> QED BY <1>2, <1>3

LEMMA NativeBound ==
    ASSUME NEW q \in Seq(DownTypes), NEW k \in Nat, NativeIn(q, k)
    PROVE  k <= Credits /\ \A j \in Nat : j <= k => NativeIn(q, j)
<1>1. PICK n \in DOMAIN q : q[n] = "native" /\ k + CountBefore(q, n, {"ack"}) <= Credits
  BY DEF NativeIn
<1>2. CountBefore(q, n, {"ack"}) \in Nat
  BY PlacesFinite, Zenon
<1>3. ASSUME NEW j \in Nat, j <= k
      PROVE  j + CountBefore(q, n, {"ack"}) <= Credits
  BY <1>1, <1>2, <1>3, Parameters
<1> QED BY <1>1, <1>2, <1>3, Parameters DEF NativeIn

LEMMA NativeWhole ==
    ASSUME NEW q \in Seq(DownTypes), NEW k \in Nat, k + Count(q, {"ack"}) <= Credits,
           NEW n \in DOMAIN q, q[n] = "native"
    PROVE  NativeIn(q, k)
<1>1. n \in 1 .. Len(q) + 1
  OBVIOUS
<1>2. CountBefore(q, n, {"ack"}) <= Count(q, {"ack"})
  BY <1>1, CountWhole
<1>3. CountBefore(q, n, {"ack"}) \in Nat /\ Count(q, {"ack"}) \in Nat
  BY PlacesFinite, CountIsNat, Zenon
<1>4. k + CountBefore(q, n, {"ack"}) <= Credits
  BY <1>2, <1>3, Parameters
<1> QED BY <1>4 DEF NativeIn

LEMMA ConfigAppend ==
    ASSUME NEW q \in Seq(Messages(UpTypes)), NEW x \in Messages(UpTypes), NEW h, ConfigIn(q, h)
    PROVE  ConfigIn(Append(q, x), h)
<1>1. PICK c \in DOMAIN q : q[c].type = "config" /\ h + CountBefore(q, c, Media) <= Credits
  BY DEF ConfigIn
<1>2. c \in DOMAIN Append(q, x) /\ Append(q, x)[c] = q[c] /\ c \in 1 .. Len(q) + 1
  BY <1>1
<1>3. CountBefore(Append(q, x), c, Media) = CountBefore(q, c, Media)
  BY <1>2, CountOld
<1> QED BY <1>1, <1>2, <1>3 DEF ConfigIn

LEMMA ConfigNew ==
    ASSUME NEW q \in Seq(Messages(UpTypes)), NEW x \in Messages(UpTypes), x.type = "config",
           NEW h, h + Count(q, Media) <= Credits
    PROVE  ConfigIn(Append(q, x), h)
<1> DEFINE c == Len(q) + 1
<1>1. c \in DOMAIN Append(q, x) /\ Append(q, x)[c] = x /\ c \in 1 .. Len(q) + 1
  OBVIOUS
<1>2. CountBefore(Append(q, x), c, Media) = CountBefore(q, c, Media)
  BY <1>1, CountOld
<1>3. CountBefore(q, c, Media) = Count(q, Media)
  BY DEF Count
<1> HIDE DEF c
<1> QED BY <1>1, <1>2, <1>3 DEF ConfigIn

LEMMA ConfigTail ==
    ASSUME NEW q \in Seq(Messages(UpTypes)), q # <<>>, Head(q).type # "config",
           NEW h \in Nat, ConfigIn(q, h)
    PROVE  /\ ConfigIn(Tail(q), h) /\ h <= Credits
           /\ Head(q) \in Media => ConfigIn(Tail(q), h + 1) /\ h + 1 <= Credits
<1>1. PICK n \in DOMAIN q : q[n].type = "config" /\ h + CountBefore(q, n, Media) <= Credits
  BY DEF ConfigIn
<1> DEFINE p == n - 1
           t == Tail(q)
<1>2. n # 1
  BY <1>1
<1>3. p \in DOMAIN t /\ t[p] = q[n]
  BY <1>2, TailPlaces
<1>4. p \in 1 .. Len(q) /\ p + 1 = n /\ t \in Seq(Messages(UpTypes))
  BY <1>2
<1>5. CountBefore(t, p, Media) \in Nat
  BY <1>4, PlacesFinite, Zenon
<1> HIDE DEF p
<1>6. CountBefore(q, p + 1, Media)
        = CountBefore(t, p, Media) + (IF Head(q) \in Media THEN 1 ELSE 0)
  BY <1>4, CountShift
<1> HIDE DEF t
<1>7. ConfigIn(t, h) /\ h <= Credits
  <2>1. h + CountBefore(t, p, Media) <= Credits
    BY <1>1, <1>4, <1>5, <1>6, Parameters
  <2> QED BY <1>1, <1>3, <1>5, <2>1, Parameters DEF ConfigIn
<1>8. ASSUME Head(q) \in Media PROVE ConfigIn(t, h + 1) /\ h + 1 <= Credits
  <2>1. (h + 1) + CountBefore(t, p, Media) <= Credits
    BY <1>1, <1>4, <1>5, <1>6, <1>8, Parameters
  <2> QED BY <1>1, <1>3, <1>5, <2>1, Parameters DEF ConfigIn
<1> QED BY <1>7, <1>8 DEF t

LEMMA HeadInit == Init => HeadInv
<1> SUFFICES ASSUME Init PROVE HeadInv
  OBVIOUS
<1>1. credits = 0 /\ headless = 0 /\ sent = NoStream /\ MediaUp = 0
  BY CountsAtFirst DEF Init, MediaInit
<1>2. Bounded
  BY <1>1, Parameters DEF Bounded
<1> QED BY <1>1, <1>2, Parameters DEF HeadInv

LEMMA HeadKept ==
    ASSUME HeadInv, UNCHANGED <<medium, up, down, credits, headless, headed, sent>>,
           InSession' => InSession
    PROVE  HeadInv'
<1>1. MediaUp' = MediaUp
  BY SameUp
<1>2. (Leaving => Leaving') /\ (Bounded => Bounded')
  BY <1>1 DEF Leaving, Bounded
<1> QED BY <1>2 DEF HeadInv

\* What is known of a video channel before a step of the phone.
HeadOpen == headed \/ Leaving \/ Bounded

LEMMA HeadReads ==
    ASSUME TypeInv, TypeInv', CreditInv, InSession, medium = "video", HeadOpen, PhoneReads
    PROVE  HeadOpen'
<1>0. /\ down \in Seq(DownTypes) /\ down # <<>> /\ down' = Tail(down) /\ streams \in Nat
      /\ up \in Seq(Messages(UpTypes)) /\ "stop" \in UpTypes
      /\ UNCHANGED <<headed, headless>>
  BY Parameters DEF PhoneReads, TypeInv, QueueTypes, PhoneTypes, serviceVars, UpTypes
<1>1. /\ MediaUp \in Nat /\ credits \in Nat /\ headless \in Nat /\ AcksDown \in Nat
      /\ AcksDown' \in Nat /\ SetupsUp \in Nat /\ ReadyDown \in Nat /\ Credits \in Nat
      /\ ReadyDown' \in Nat
  BY CountsAreNat, CountsStayNat, Parameters
<1>2. \/ up' = up /\ (sent = NoStream \/ Head(down) # "native") /\ sent' = sent
      \/ /\ Head(down) = "native" /\ sent # NoStream /\ sent' = NoStream
         /\ up' = Append(up, Message("stop", streams))
  BY DEF PhoneReads
<1>3. MediaUp' = MediaUp
  <2>1. CASE up' = up
    BY <2>1, SameUp
  <2>2. CASE up' = Append(up, Message("stop", streams))
    <3>1. MediaUp' = MediaUp + 0
      BY <1>0, <2>2, SentUp DEF MediaUp
    <3> QED BY <1>1, <3>1
  <2> QED BY <1>2, <2>1, <2>2
<1>4. CASE Leaving
  <2> DEFINE k == credits + headless + MediaUp
  <2>1. k \in Nat /\ NativeIn(down, k)
    BY <1>1, <1>4 DEF Leaving
  <2>2. CASE Head(down) = "native" /\ k <= Credits
    <3>1. sent' = NoStream
      BY <1>2, <2>2
    <3>2. headless + MediaUp <= Credits
      BY <1>1, <2>2
    <3> QED BY <1>0, <1>3, <3>1, <3>2 DEF HeadOpen, Bounded
  <2>3. CASE Head(down) = "ack" /\ NativeIn(Tail(down), k + 1)
    <3>1. credits' = credits + 1
      BY <2>3 DEF PhoneReads
    <3>2. credits' + headless' + MediaUp' = k + 1
      BY <1>0, <1>1, <1>3, <3>1
    <3> QED BY <1>0, <2>3, <3>2 DEF HeadOpen, Leaving
  <2>4. CASE Head(down) # "ack" /\ NativeIn(Tail(down), k)
    <3>1. CASE Head(down) = "ready"
      <4>1. ReadyDown' = ReadyDown - 1
        BY <3>1, <1>0, <1>1, TakenDown
      <4>2. ReadyDown >= 1
        BY <1>1, <4>1
      <4>3. Held = 0 /\ headless = 0
        BY <1>1, <4>2 DEF CreditInv
      <4>4. MediaUp = 0 /\ AcksDown = 0
        BY <1>1, <4>3 DEF Held
      <4>5. AcksDown' = 0 /\ credits' = Credits
        <5>1. AcksDown' = AcksDown
          BY <1>0, <3>1, TakenDown
        <5> QED BY <3>1, <4>4, <5>1 DEF PhoneReads
      <4>6. PICK n \in DOMAIN Tail(down) : Tail(down)[n] = "native"
        BY <2>4 DEF NativeIn
      <4>7. Tail(down) \in Seq(DownTypes) /\ Count(Tail(down), {"ack"}) = 0
        BY <1>0, <4>5 DEF AcksDown
      <4>8. Credits + Count(Tail(down), {"ack"}) <= Credits
        BY <1>1, <4>7
      <4>9. NativeIn(Tail(down), Credits)
        BY <1>1, <4>6, <4>7, <4>8, NativeWhole
      <4>10. credits' + headless' + MediaUp' = Credits
        BY <1>0, <1>1, <1>3, <4>3, <4>4, <4>5
      <4> QED BY <1>0, <4>9, <4>10 DEF HeadOpen, Leaving
    <3>2. CASE Head(down) # "ready"
      <4>1. credits' = credits
        BY <2>4, <3>2 DEF PhoneReads
      <4>2. credits' + headless' + MediaUp' = k
        BY <1>0, <1>3, <4>1
      <4> QED BY <1>0, <2>4, <4>2 DEF HeadOpen, Leaving
    <3> QED BY <3>1, <3>2
  <2> HIDE DEF k
  <2> QED BY <1>0, <2>1, <2>2, <2>3, <2>4, NativeTail
<1>5. CASE Bounded
  <2>1. CASE up' = up /\ sent' = sent
    BY <1>0, <1>3, <1>5, <2>1 DEF HeadOpen, Bounded
  <2>2. CASE sent # NoStream /\ up' = Append(up, Message("stop", streams))
    <3>1. ConfigIn(up, headless)
      BY <1>5, <2>2 DEF Bounded
    <3>2. Message("stop", streams) \in Messages(UpTypes)
      BY <1>0, MessageIn
    <3>3. ConfigIn(up', headless')
      BY <1>0, <2>2, <3>1, <3>2, ConfigAppend
    <3> QED BY <3>3 DEF HeadOpen, Bounded
  <2> QED BY <1>2, <2>1, <2>2
<1>6. CASE headed
  BY <1>0, <1>6 DEF HeadOpen
<1> QED BY <1>4, <1>5, <1>6 DEF HeadOpen

LEMMA HeadSends ==
    ASSUME TypeInv, TypeInv', medium = "video", HeadOpen, PhoneStarts \/ PhoneSends
    PROVE  HeadOpen'
<1>0. /\ down' = down /\ UNCHANGED <<headed, headless>> /\ credits' = credits - 1
      /\ up \in Seq(Messages(UpTypes)) /\ streams \in Nat /\ streams + 1 \in Nat
  BY Parameters DEF PhoneStarts, PhoneSends, serviceVars, TypeInv, QueueTypes, PhoneTypes
<1>1. /\ MediaUp \in Nat /\ credits \in Nat /\ headless \in Nat /\ MediaUp' \in Nat
  BY CountsAreNat, CountsStayNat
<1>2. MediaUp' = MediaUp + 1
  <2>1. credits' # credits /\ credits' # credits + 1
    BY <1>0, <1>1
  <2>2. ReadyDown' = ReadyDown /\ AcksDown' = AcksDown /\ ReadyDown \in Nat /\ AcksDown \in Nat
    BY <1>0, SameDown, CountsAreNat
  <2> QED BY <1>1, <2>1, <2>2, CreditsOfPhone
<1>3. CASE Leaving
  <2>1. credits' + headless' + MediaUp' = credits + headless + MediaUp
    BY <1>0, <1>1, <1>2
  <2> QED BY <1>0, <1>3, <2>1 DEF HeadOpen, Leaving
<1>4. CASE Bounded /\ PhoneStarts
  <2> DEFINE s == Message("start", streams + 1)
             c == Message("config", streams + 1)
  <2>1. up' = up \o <<s, c>> /\ sent = NoStream
    BY <1>4 DEF PhoneStarts
  <2>2. /\ s \in Messages(UpTypes) /\ c \in Messages(UpTypes) /\ c.type = "config"
        /\ s \notin Media
    <3>1. "start" \in UpTypes /\ "config" \in UpTypes /\ c.type = "config"
      BY DEF UpTypes, Message
    <3> QED BY <1>0, <3>1, TypeOfMessage
  <2> HIDE DEF s, c
  <2>3. /\ up \o <<s, c>> = Append(Append(up, s), c)
        /\ Append(Append(up, s), c) \in Seq(Messages(UpTypes))
        /\ Append(up, s) \in Seq(Messages(UpTypes))
    BY <1>0, <2>2, TwoMore, Zenon
  <2>4. CASE headless + MediaUp <= Credits
    <3>1. Count(Append(up, s), Media) = MediaUp + 0
      BY <1>0, <2>2, CountAppend DEF MediaUp
    <3>2. headless + Count(Append(up, s), Media) <= Credits
      BY <1>1, <2>4, <3>1
    <3>3. ConfigIn(Append(Append(up, s), c), headless)
      BY <2>2, <2>3, <3>2, ConfigNew
    <3> QED BY <1>0, <2>1, <2>3, <3>3 DEF HeadOpen, Bounded
  <2>5. CASE ConfigIn(up, headless)
    <3>1. ConfigIn(Append(up, s), headless)
      BY <1>0, <2>2, <2>5, ConfigAppend
    <3>2. ConfigIn(Append(Append(up, s), c), headless)
      BY <2>2, <2>3, <3>1, ConfigAppend
    <3> QED BY <1>0, <2>1, <2>3, <3>2 DEF HeadOpen, Bounded
  <2> QED BY <1>4, <2>4, <2>5 DEF Bounded
<1>5. CASE Bounded /\ PhoneSends
  <2>1. ConfigIn(up, headless)
    <3>1. sent # NoStream
      BY <1>5, Parameters DEF PhoneSends, NoStream
    <3> QED BY <1>5, <3>1 DEF Bounded
  <2>2. PICK m \in Messages(UpTypes) : up' = Append(up, m)
    <3>1. /\ Message("key", streams) \in Messages(UpTypes)
          /\ Message("data", streams) \in Messages(UpTypes)
      <4>1. "key" \in UpTypes /\ "data" \in UpTypes
        BY DEF UpTypes
      <4> QED BY <1>0, <4>1, MessageIn
    <3>2. \/ up' = Append(up, Message("key", streams))
          \/ up' = Append(up, Message("data", streams))
      BY <1>5 DEF PhoneSends
    <3> QED BY <3>1, <3>2
  <2>3. ConfigIn(up', headless')
    BY <1>0, <2>1, <2>2, ConfigAppend
  <2> QED BY <2>3 DEF HeadOpen, Bounded
<1>6. CASE headed
  BY <1>0, <1>6 DEF HeadOpen
<1> QED BY <1>3, <1>4, <1>5, <1>6 DEF HeadOpen

\* Sums of what is there after a step.
LEMMA Sums ==
    ASSUME NEW a \in Nat, NEW b \in Nat, NEW m \in Nat, NEW n \in Nat
    PROVE  /\ a + m \in Nat /\ a + b + m \in Nat
           /\ n <= m => a + n <= a + m /\ a + b + n <= a + b + m
           /\ \A c \in Nat : n <= m /\ a + m <= c => a + n <= c
           /\ \A c \in Nat : a + m + n <= c => a <= c
OBVIOUS

LEMMA HeadMessage ==
    ASSUME TypeInv, TypeInv', medium = "video", headless <= Credits, HeadOpen, HandleMessage
    PROVE  headless' <= Credits /\ HeadOpen'
<1>0. /\ up # <<>> /\ up' = Tail(up) /\ up \in Seq(Messages(UpTypes)) /\ down \in Seq(DownTypes)
      /\ UNCHANGED <<credits, sent>> /\ Handled(Head(up))
      /\ "ready" \in DownTypes /\ "ack" \in DownTypes
  BY MessageHandled DEF phoneVars, TypeInv, QueueTypes, DownTypes
<1>1. /\ MediaUp \in Nat /\ credits \in Nat /\ headless \in Nat /\ MediaUp' \in Nat
      /\ Credits \in Nat
  BY CountsAreNat, CountsStayNat, Parameters
<1>2. /\ Head(up) \in Media <=> Head(up).type \in {"config", "key", "data"}
      /\ Head(up) \in Media => MediaUp' = MediaUp - 1
      /\ Head(up) \notin Media => MediaUp' = MediaUp
  BY <1>0, TakenUp, ByType
\* The way of a loss of focus, and of a configuration, to the next state.
<1>3. ASSUME NEW k \in Nat, NativeIn(down, k) PROVE NativeIn(down', k)
  <2>1. \/ down' = down \/ down' = Append(down, "ready") \/ down' = Append(down, "ack")
    BY <1>0 DEF Handled, Answered
  <2> QED BY <1>0, <1>3, <2>1, NativeAppend
<1>4. CASE headed' = TRUE /\ UNCHANGED headless
  BY <1>4 DEF HeadOpen
<1>5. CASE Head(up).type # "config" /\ Kept
  <2>1. headed' = headed /\ headless' = headless
    BY <1>5 DEF Kept
  <2>2. MediaUp' <= MediaUp
    BY <1>1, <1>2
  <2>3. CASE Leaving
    <3> DEFINE k == credits + headless + MediaUp
    <3>1. k \in Nat /\ NativeIn(down', k)
      BY <1>1, <1>3, <2>3 DEF Leaving
    <3>2. credits' + headless' + MediaUp' \in Nat /\ credits' + headless' + MediaUp' <= k
      <4>1. credits + headless + MediaUp' \in Nat /\ credits + headless + MediaUp' <= k
        BY <1>1, <2>2, Sums
      <4>2. credits' + headless' + MediaUp' = credits + headless + MediaUp'
        BY <1>0, <2>1
      <4> HIDE DEF k
      <4> QED BY <4>1, <4>2
    <3>3. down' \in Seq(DownTypes)
      BY DEF TypeInv, QueueTypes
    <3> HIDE DEF k
    <3>4. NativeIn(down', credits' + headless' + MediaUp')
      BY <3>1, <3>2, <3>3, NativeBound
    <3> QED BY <2>1, <3>4 DEF HeadOpen, Leaving
  <2>4. CASE Bounded
    <3>1. CASE sent = NoStream /\ headless + MediaUp <= Credits
      <4>1. headless + MediaUp' <= Credits
        BY <1>1, <2>2, <3>1, Sums
      <4> QED BY <1>0, <2>1, <3>1, <4>1 DEF HeadOpen, Bounded
    <3>2. CASE ConfigIn(up, headless)
      BY <1>0, <1>1, <1>5, <2>1, <3>2, ConfigTail DEF HeadOpen, Bounded
    <3> QED BY <2>4, <3>1, <3>2 DEF Bounded
  <2> QED BY <2>1, <2>3, <2>4 DEF HeadOpen
<1>6. CASE /\ Head(up).type \in {"key", "data"}
           /\ ~headed /\ UNCHANGED headed /\ headless' = headless + 1
  <2>1. Head(up) \in Media /\ MediaUp' = MediaUp - 1 /\ Head(up).type # "config"
    BY <1>2, <1>6
  <2>2. MediaUp >= 1 /\ headless' + MediaUp' = headless + MediaUp
    BY <1>1, <1>6, <2>1
  <2>3. CASE Leaving
    <3> DEFINE k == credits + headless + MediaUp
    <3>1. k \in Nat /\ NativeIn(down, k) /\ NativeIn(down', k)
      BY <1>1, <1>3, <2>3 DEF Leaving
    <3>2. credits' + headless' + MediaUp' = k
      BY <1>0, <1>1, <1>6, <2>1
    <3>3. k <= Credits
      BY <1>0, <3>1, NativeBound
    <3>4. headless' <= Credits
      BY <1>1, <1>6, <2>2, <3>3
    <3> QED BY <3>1, <3>2, <3>4 DEF HeadOpen, Leaving
  <2>4. CASE Bounded
    <3>1. CASE sent = NoStream /\ headless + MediaUp <= Credits
      <4>1. headless' <= Credits
        BY <1>1, <1>6, <2>2, <3>1
      <4> QED BY <1>0, <2>2, <3>1, <4>1 DEF HeadOpen, Bounded
    <3>2. CASE ConfigIn(up, headless)
      BY <1>0, <1>1, <1>6, <2>1, <3>2, ConfigTail DEF HeadOpen, Bounded
    <3> QED BY <2>4, <3>1, <3>2 DEF Bounded
  <2> QED BY <1>6, <2>3, <2>4 DEF HeadOpen
<1>7. \/ headed' = TRUE /\ UNCHANGED headless
      \/ Head(up).type # "config" /\ Kept
      \/ /\ Head(up).type \in {"key", "data"}
         /\ ~headed /\ UNCHANGED headed /\ headless' = headless + 1
  BY <1>0 DEF Handled
<1> QED BY <1>1, <1>4, <1>5, <1>6, <1>7 DEF Kept

\* A focus that is gained: its phone is leaving the old stream, or has left it.
LEMMA HeadGained ==
    ASSUME TypeInv, CreditInv, FocusInv, InSession, medium = "video", ~Promised
    PROVE  (sent = NoStream /\ MediaUp <= Credits) \/ NativeIn(down, credits + MediaUp)
<1>1. /\ MediaUp \in Nat /\ credits \in Nat /\ AcksDown \in Nat /\ Credits \in Nat
      /\ mishaps \in Nat /\ down \in Seq(DownTypes)
  BY CountsAreNat, Parameters DEF TypeInv, QueueTypes
<1>2. Held <= Credits
  BY <1>1 DEF CreditInv
<1>3. MediaUp <= Credits /\ (credits + MediaUp) + Count(down, {"ack"}) <= Credits
  BY <1>1, <1>2 DEF Held, AcksDown
<1>4. CASE \E n \in DOMAIN down : down[n] = "native"
  BY <1>1, <1>3, <1>4, NativeWhole
<1>5. CASE \A n \in DOMAIN down : down[n] # "native"
  <2>1. ~projected
    BY <1>5 DEF Promised
  <2> QED BY <1>3, <2>1 DEF FocusInv
<1> QED BY <1>4, <1>5

LEMMA HeadCall ==
    ASSUME TypeInv, TypeInv', CreditInv, FocusInv, InSession, medium = "video",
           headless <= Credits, HeadOpen, RunCall
    PROVE  headless' <= Credits /\ HeadOpen'
<1>0. /\ UNCHANGED <<up, credits, sent>> /\ down \in Seq(DownTypes)
      /\ "projected" \in DownTypes /\ "native" \in DownTypes /\ Credits \in Nat
  BY CallRun, Parameters DEF phoneVars, TypeInv, QueueTypes, DownTypes
<1>1. MediaUp' = MediaUp /\ MediaUp \in Nat /\ credits \in Nat
  BY <1>0, SameUp, CountsAreNat
<1>2. CASE /\ posted # <<>> /\ Head(posted) = "focus"
           /\ down' = Append(down, "projected") /\ headed' = FALSE /\ headless' = 0
  <2>1. ~Promised
    BY <1>2, NotPromised
  <2>2. CASE sent = NoStream /\ MediaUp <= Credits
    BY <1>0, <1>1, <1>2, <2>2 DEF HeadOpen, Bounded
  <2>3. CASE NativeIn(down, credits + MediaUp)
    <3>1. NativeIn(down', credits + MediaUp)
      BY <1>0, <1>2, <2>3, NativeAppend
    <3>2. credits' + headless' + MediaUp' = credits + MediaUp
      BY <1>0, <1>1, <1>2
    <3> QED BY <1>0, <1>2, <3>1, <3>2 DEF HeadOpen, Leaving
  <2> QED BY <2>1, <2>2, <2>3, HeadGained
<1>3. CASE (down' = down \/ down' = Append(down, "native")) /\ Kept
  <2>1. NativeIn(down, credits + headless + MediaUp)
          => NativeIn(down', credits + headless + MediaUp)
    BY <1>0, <1>3, NativeAppend
  <2>2. (Leaving => Leaving') /\ (Bounded => Bounded')
    BY <1>0, <1>1, <1>3, <2>1 DEF Leaving, Bounded, Kept
  <2> QED BY <1>3, <2>2 DEF HeadOpen, Kept
<1> QED BY <1>2, <1>3, CallRun

LEMMA HeadStep ==
    ASSUME TypeInv, TypeInv', CreditInv, CreditInv', FocusInv, HeadInv, [Next]_vars
    PROVE  HeadInv'
<1>0. /\ credits \in Nat /\ MediaUp' \in Nat /\ AcksDown' \in Nat
      /\ mishaps' \in Nat /\ Credits \in Nat
  BY CountsAreNat, CountsStayNat, Parameters DEF TypeInv, ServiceTypes
<1>1. CASE ChannelStep
  <2>1. InSession /\ InSession' /\ credits' \in Nat
    BY <1>1 DEF ChannelStep, appVars, InSession, TypeInv, PhoneTypes
  <2>2. credits' <= Credits
    <3>1. Held' <= Credits
      BY <1>0, <2>1 DEF CreditInv
    <3>2. credits' + MediaUp' + AcksDown' <= Credits
      BY <3>1 DEF Held
    <3> QED BY <1>0, <2>1, <3>2, Sums
  <2>3. medium' = medium
    BY <1>1, TypesOfPhone, MessageHandled, CallRun DEF ChannelStep, phoneVars
  <2>4. SUFFICES ASSUME medium = "video"
                 PROVE  headless' <= Credits /\ HeadOpen'
    BY <2>2, <2>3 DEF HeadInv, HeadOpen
  <2>5. headless <= Credits /\ HeadOpen
    BY <2>1, <2>4 DEF HeadInv, HeadOpen
  <2>6. CASE PhoneReads
    BY <2>1, <2>4, <2>5, <2>6, HeadReads DEF PhoneReads, serviceVars
  <2>7. CASE PhoneStarts \/ PhoneSends
    BY <2>4, <2>5, <2>7, HeadSends DEF PhoneStarts, PhoneSends, serviceVars
  <2>8. CASE PhoneStops
    BY <2>4, <2>8 DEF PhoneStops
  <2>9. CASE HandleMessage
    BY <2>4, <2>5, <2>9, HeadMessage
  <2>10. CASE RunCall
    BY <2>1, <2>4, <2>5, <2>10, HeadCall
  <2> QED BY <1>1, <2>6, <2>7, <2>8, <2>9, <2>10 DEF ChannelStep
<1>2. CASE BinderThread
  <2>1. UNCHANGED <<medium, up, down, credits, headless, headed, sent, main>>
    BY <1>2, TypesOfBinder DEF phoneVars, BinderThread, TakeFrame, OpenDecoder, FeedData
  <2> QED BY <2>1, HeadKept DEF InSession
<1>3. CASE SessionEnds
  BY <1>3 DEF SessionEnds, phoneVars, HeadInv, InSession
<1>4. CASE Surfaces
  <2>1. UNCHANGED <<medium, up, down, credits, headless, headed, sent>> /\ InSession
    BY <1>4, PostedBySurfaces DEF phoneVars, serviceVars, InSession
  <2> QED BY <2>1, HeadKept
<1>5. CASE Releases
  <2>1. UNCHANGED <<medium, up, down, credits, headless, headed, sent>> /\ InSession
    BY <1>5, ReleaseEffect DEF phoneVars, serviceVars, InSession
  <2> QED BY <2>1, HeadKept
<1>6. CASE UNCHANGED vars
  <2>1. UNCHANGED <<medium, up, down, credits, headless, headed, sent, main>>
    BY <1>6 DEF vars, mediaVars, phoneVars, serviceVars, appVars
  <2> QED BY <2>1, HeadKept DEF InSession
<1> QED BY <1>1, <1>2, <1>3, <1>4, <1>5, <1>6, StepsAre

-----------------------------------------------------------------------------
IInv == TypeInv /\ CreditInv /\ FocusInv /\ HeadInv

LEMMA Inductive == Spec => []IInv
<1>1. Init => IInv
  BY TypeInit, CreditInit, FocusInit, HeadInit DEF IInv
<1>2. IInv /\ [Next]_vars => IInv'
  BY TypeStep, CreditStep, FocusStep, HeadStep DEF IInv
<1> QED BY <1>1, <1>2, PTL DEF Spec

\* The queues hold what the two ends know, the credits never exceed max_unacked, and the
\* decoder in use is the one of the surface that is alive.
THEOREM TypeCorrect == Spec => []TypeOK
<1>1. IInv => TypeOK
  <2> SUFFICES ASSUME IInv PROVE TypeOK
    OBVIOUS
  <2>0. PhoneTypes /\ QueueTypes /\ ServiceTypes /\ AppTypes /\ credits <= Credits
    BY DEF IInv, TypeInv, HeadInv
  <2>1. medium \in {"video", "audio"} /\ projected \in BOOLEAN
        /\ credits \in 0 .. Credits /\ streams \in 0 .. MaxStreams /\ sent \in 0 .. NoStream
    BY <2>0, Parameters DEF PhoneTypes
  <2>2. {up[i].type : i \in DOMAIN up}
          \subseteq {"setup", "start", "config", "key", "data", "stop"}
    <3>1. \A i \in DOMAIN up : up[i] \in Messages(UpTypes)
      BY <2>0 DEF QueueTypes
    <3>2. \A m \in Messages(UpTypes) : m.type \in UpTypes
      BY DEF Messages
    <3> QED BY <3>1, <3>2 DEF UpTypes
  <2>3. /\ down \in Seq({"ready", "ack", "projected", "native"})
        /\ posted \in Seq({"focus", "unfocus", "attach", "detach"})
    BY <2>0 DEF QueueTypes, DownTypes, Calls
  <2>4. {started, sinks_active, active} \subseteq BOOLEAN
    BY <2>0 DEF ServiceTypes, AppTypes
  <2>5. {binder[i].type : i \in DOMAIN binder} \subseteq {"config", "key", "data"}
    <3>1. \A i \in DOMAIN binder : binder[i] \in Media
      BY <2>0 DEF ServiceTypes
    <3>2. \A m \in Media : m.type \in {"config", "key", "data"}
      BY DEF Media, Messages
    <3> QED BY <3>1, <3>2
  <2>6. /\ medium = "audio" => binder = <<>>
        /\ mishaps \in 0 .. MaxMishaps
    BY <2>0 DEF ServiceTypes
  <2>7. /\ surface \in {None, surfaces} /\ videoDecoder \in {None, surface}
        /\ main \in {"idle", "destroy", "remove", "ended"}
        /\ taker.at \in {"idle", "open", "feed"}
    BY <2>0 DEF AppTypes
  <2> QED BY <2>1, <2>2, <2>3, <2>4, <2>5, <2>6, <2>7 DEF TypeOK
<1> QED BY <1>1, Inductive, PTL

\* No credit of a phone is lost by a service, nor made up: whatever the sinks, the
\* application and the focus do, a message that was handled is acknowledged once, unless the
\* write queue dropped the acknowledgement.
THEOREM CreditsAreKept == Spec => []CreditsKept
<1>1. IInv => CreditsKept
  <2> SUFFICES ASSUME TypeInv, CreditInv, InSession
               PROVE  Held + Credits * (SetupsUp + ReadyDown) \in Credits - mishaps .. Credits
    BY DEF IInv, CreditsKept, Held, MediaUp, AcksDown, SetupsUp, ReadyDown, Setups
  <2>1. mishaps \in Nat /\ Credits \in Nat
    BY CountsAreNat, Parameters
  <2>2. CASE SetupsUp + ReadyDown = 0 /\ Held \in Credits - mishaps .. Credits
    BY <2>1, <2>2
  <2>3. CASE SetupsUp + ReadyDown = 1 /\ Held = 0
    BY <2>1, <2>3
  <2> QED BY <2>2, <2>3 DEF CreditInv
<1> QED BY <1>1, Inductive, PTL

\* What is forwarded of a stream to a decoder that has not seen its configuration is never
\* more than max_unacked messages, however often the focus is gained and lost.
THEOREM HeadlessIsBounded == Spec => []HeadlessBounded
<1>1. IInv => HeadlessBounded
  BY DEF IInv, HeadInv, HeadlessBounded
<1> QED BY <1>1, Inductive, PTL
=============================================================================
