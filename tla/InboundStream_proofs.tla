------------------------- MODULE InboundStream_proofs -------------------------
(***************************************************************************)
(* Proofs about InboundStream for any streams of the phone, sizes of       *)
(* chunks and bounds of the queue: the session has one read at a time, the *)
(* queue keeps its bound, no error overtakes data, and messages are        *)
(* dispatched as they were sent.                                           *)
(***************************************************************************)
EXTENDS InboundStream, WellFoundedInduction, TLAPS

-----------------------------------------------------------------------------
(* The inductive invariant. *)

Flagged ==
    /\ under \in {"reading", "done", "idle"}
    /\ parked \in BOOLEAN /\ deferred \in BOOLEAN /\ closed \in BOOLEAN
    /\ lost \in BOOLEAN /\ starting \in BOOLEAN /\ feeding \in BOOLEAN

\* The session's one read: not made yet, parked, completed, or being fed.
ReadInv ==
    /\ due = <<>> \/ \E x : due = <<x>>
    /\ starting => due = <<>> /\ ~parked /\ ~feeding
    /\ parked => due = <<>> /\ ~feeding
    /\ feeding => due = <<>>

\* The queue holds chunks, no error among them, and never beside a parked reader.
Chunks(q) == \E S : Failure \notin S /\ q \in Seq(S)

QueueInv ==
    /\ Chunks(rx) /\ Len(rx) <= MaxQueued
    /\ parked => rx = <<>> /\ ~deferred

\* An error that is kept back or on its way is the last thing that was read.
ErrorInv ==
    /\ deferred \/ due = <<Failure>> => under = "idle"
    /\ due = <<Failure>> => rx = <<>>

IInv == Flagged /\ ReadInv /\ QueueInv /\ ErrorInv

-----------------------------------------------------------------------------
(* The queue. *)

LEMMA EmptyIsChunks == Chunks(<<>>) /\ Len(<<>>) = 0
<1>1. Failure \notin {} /\ <<>> \in Seq({})
  OBVIOUS
<1> QED BY <1>1 DEF Chunks

LEMMA BoundIsPositive == MaxQueued \in Nat \ {0}
  BY StreamAssumption

LEMMA ChunksShrink ==
    ASSUME NEW q, Chunks(q), q # <<>>
    PROVE  Chunks(Tail(q)) /\ Len(q) \in Nat /\ Len(Tail(q)) = Len(q) - 1 /\ Head(q) # Failure
<1>1. PICK S : Failure \notin S /\ q \in Seq(S)
  BY DEF Chunks
<1>2. Tail(q) \in Seq(S) /\ Len(q) \in Nat /\ Len(Tail(q)) = Len(q) - 1 /\ Head(q) \in S
  BY <1>1
<1> QED BY <1>1, <1>2 DEF Chunks

LEMMA ChunksGrow ==
    ASSUME NEW q, Chunks(q), NEW chunk, chunk # Failure
    PROVE  Chunks(Append(q, chunk)) /\ Len(q) \in Nat /\ Len(Append(q, chunk)) = Len(q) + 1
<1>1. PICK S : Failure \notin S /\ q \in Seq(S)
  BY DEF Chunks
<1> DEFINE T == S \cup {chunk}
<1>2. Failure \notin T /\ S \subseteq T /\ chunk \in T
  BY <1>1
<1> HIDE DEF T
<1>3. q \in Seq(T)
  BY <1>1, <1>2
<1>4. Append(q, chunk) \in Seq(T) /\ Len(q) \in Nat /\ Len(Append(q, chunk)) = Len(q) + 1
  BY <1>2, <1>3
<1> QED BY <1>2, <1>4 DEF Chunks

\* What the queue is after a chunk, whether or not it was full.
LEMMA BufferKeeps ==
    ASSUME IInv, NEW chunk, chunk # Failure, Buffer(chunk)
    PROVE  Chunks(rx') /\ Len(rx') <= MaxQueued /\ lost' \in BOOLEAN
<1>0. Chunks(rx) /\ Len(rx) <= MaxQueued
  BY DEF IInv, QueueInv
<1>1. Len(rx) \in Nat
  BY <1>0, ChunksGrow
<1>2. lost' \in BOOLEAN
  BY DEF Buffer
<1>3. CASE Len(rx) >= MaxQueued
  <2>1. rx # <<>>
    BY <1>3, BoundIsPositive, EmptyIsChunks
  <2>2. Chunks(Tail(rx)) /\ Len(Tail(rx)) = Len(rx) - 1
    BY <1>0, <2>1, ChunksShrink
  <2>3. rx' = Append(Tail(rx), chunk)
    BY <1>3 DEF Buffer
  <2>4. Chunks(rx') /\ Len(rx') = Len(Tail(rx)) + 1
    BY <2>2, <2>3, ChunksGrow
  <2> QED BY <1>0, <1>1, <1>2, <2>2, <2>4
<1>4. CASE ~(Len(rx) >= MaxQueued)
  <2>1. rx' = Append(rx, chunk)
    BY <1>4 DEF Buffer
  <2>2. Chunks(rx') /\ Len(rx') = Len(rx) + 1
    BY <1>0, <2>1, ChunksGrow
  <2> QED BY <1>1, <1>2, <1>4, <2>2, BoundIsPositive
<1> QED BY <1>3, <1>4

-----------------------------------------------------------------------------
(* The session reads again, or closes the transport. *)

\* async_read, called when the session has no read: it has one then, parked or completed.
LEMMA StartReadKeeps ==
    ASSUME IInv, due = <<>>, ~parked, StartRead,
           UNCHANGED <<under, closed, lost>>, starting' = FALSE, feeding' = FALSE
    PROVE  IInv'
<1>1. Flagged' /\ ReadInv'
  <2>1. /\ parked' \in BOOLEAN /\ deferred' \in BOOLEAN
        /\ parked' => due' = <<>>
        /\ due' = <<>> \/ \E x : due' = <<x>>
    BY DEF StartRead, AsyncRead, InvokeHandler, IInv, Flagged
  <2>2. Flagged'
    BY <2>1 DEF IInv, Flagged
  <2> QED BY <2>1, <2>2 DEF ReadInv
<1>2. CASE closed
  BY <1>1, <1>2 DEF StartRead, IInv, QueueInv, ErrorInv
<1>3. CASE ~closed /\ rx # <<>>
  <2>1. due' = <<Head(rx)>> /\ rx' = Tail(rx) /\ UNCHANGED <<parked, deferred>>
    BY <1>3 DEF StartRead, AsyncRead, InvokeHandler
  <2>2. Chunks(rx) /\ Len(rx) <= MaxQueued
    BY DEF IInv, QueueInv
  <2>3. Chunks(rx') /\ Len(rx) \in Nat /\ Len(rx') = Len(rx) - 1 /\ Head(rx) # Failure
    BY <1>3, <2>1, <2>2, ChunksShrink
  <2>4. QueueInv'
    BY <2>1, <2>2, <2>3, BoundIsPositive DEF QueueInv
  <2>5. ErrorInv'
    BY <2>1, <2>3 DEF IInv, ErrorInv
  <2> QED BY <1>1, <2>4, <2>5 DEF IInv
<1>4. CASE ~closed /\ rx = <<>> /\ deferred
  <2>1. due' = <<Failure>> /\ deferred' = FALSE /\ UNCHANGED <<rx, parked>>
    BY <1>4 DEF StartRead, AsyncRead, InvokeHandler
  <2>2. QueueInv'
    BY <2>1 DEF IInv, QueueInv
  <2>3. ErrorInv'
    BY <1>4, <2>1 DEF IInv, ErrorInv
  <2> QED BY <1>1, <2>2, <2>3 DEF IInv
<1>5. CASE ~closed /\ rx = <<>> /\ ~deferred
  <2>1. parked' = TRUE /\ UNCHANGED <<rx, due, deferred>>
    BY <1>5 DEF StartRead, AsyncRead, InvokeHandler
  <2>2. QueueInv'
    BY <1>5, <2>1 DEF IInv, QueueInv
  <2>3. ErrorInv'
    BY <1>5, <2>1 DEF IInv, ErrorInv
  <2> QED BY <1>1, <2>2, <2>3 DEF IInv
<1> QED BY <1>2, <1>3, <1>4, <1>5

LEMMA CloseKeeps ==
    ASSUME IInv, Close, UNCHANGED <<starting, deferred>>,
           lost' \in BOOLEAN, feeding' = feeding,
           due' = due \/ due' = <<>> \/ (parked /\ due' = <<Aborted>>)
    PROVE  IInv'
<1>1. closed' = TRUE /\ rx' = <<>> /\ parked' = FALSE
      /\ (under' = under \/ under' = "idle") /\ (under = "idle" => under' = "idle")
  BY DEF Close, IInv, Flagged
<1>2. Flagged'
  BY <1>1 DEF IInv, Flagged
<1>3. ReadInv'
  BY <1>1 DEF IInv, ReadInv
<1>4. QueueInv'
  BY <1>1, EmptyIsChunks, BoundIsPositive DEF QueueInv
<1>5. <<Aborted>> # <<Failure>>
  BY DEF Aborted, Failure
<1>6. ErrorInv'
  BY <1>1, <1>5 DEF IInv, ErrorInv
<1> QED BY <1>2, <1>3, <1>4, <1>6 DEF IInv

-----------------------------------------------------------------------------
(* The actions. *)

LEMMA UnderlyingReadStep == IInv /\ UnderlyingRead => IInv'
  BY DEF IInv, Flagged, ReadInv, QueueInv, ErrorInv, UnderlyingRead, sessionVars

LEMMA OnUnderlyingReadStep ==
    ASSUME IInv, OnUnderlyingRead
    PROVE  IInv'
<1>0. under = "done" /\ ~feeding /\ UNCHANGED <<starting, closed, feeding>>
      /\ ~deferred /\ due # <<Failure>>
  BY DEF OnUnderlyingRead, InvokeHandler, sessionVars, IInv, ErrorInv
<1>1. CASE closed
  BY <1>0, <1>1
     DEF OnUnderlyingRead, InvokeHandler, IInv, Flagged, ReadInv, QueueInv, ErrorInv
<1>2. CASE ~closed /\ result = Failure
  <2>1. under' = "idle" /\ OnError /\ UNCHANGED <<rx, lost>>
    BY <1>2 DEF OnUnderlyingRead, InvokeHandler
  <2>2. Flagged'
    BY <1>0, <2>1 DEF OnError, InvokeHandler, IInv, Flagged
  <2>3. ReadInv'
    BY <1>0, <2>1 DEF OnError, InvokeHandler, IInv, ReadInv
  <2>4. QueueInv'
    BY <2>1 DEF OnError, InvokeHandler, IInv, QueueInv
  <2>5. ErrorInv'
    BY <1>0, <2>1 DEF OnError, InvokeHandler, IInv, QueueInv, ErrorInv
  <2> QED BY <2>2, <2>3, <2>4, <2>5 DEF IInv
<1>3. CASE ~closed /\ result # Failure /\ parked
  <2>1. /\ under' = "reading" /\ due' = <<result>> /\ parked' = FALSE
        /\ UNCHANGED <<rx, lost, deferred>>
    BY <1>3 DEF OnUnderlyingRead, InvokeHandler
  <2>2. due' # <<Failure>>
    BY <1>3, <2>1
  <2>3. Flagged' /\ ReadInv'
    BY <1>0, <1>3, <2>1 DEF IInv, Flagged, ReadInv
  <2>4. QueueInv' /\ ErrorInv'
    BY <1>0, <2>1, <2>2 DEF IInv, QueueInv, ErrorInv
  <2> QED BY <2>3, <2>4 DEF IInv
<1>4. CASE ~closed /\ result # Failure /\ ~parked
  <2>1. under' = "reading" /\ Buffer(result) /\ UNCHANGED <<due, parked, deferred>>
    BY <1>4 DEF OnUnderlyingRead, InvokeHandler
  <2>2. Chunks(rx') /\ Len(rx') <= MaxQueued /\ lost' \in BOOLEAN
    BY <1>4, <2>1, BufferKeeps
  <2>3. Flagged' /\ ReadInv'
    BY <1>0, <2>1, <2>2 DEF IInv, Flagged, ReadInv
  <2>4. QueueInv' /\ ErrorInv'
    BY <1>0, <1>4, <2>1, <2>2 DEF QueueInv, ErrorInv
  <2> QED BY <2>3, <2>4 DEF IInv
<1> QED BY <1>1, <1>2, <1>3, <1>4

LEMMA SessionStartStep ==
    ASSUME IInv, SessionStart
    PROVE  IInv'
<1>1. /\ due = <<>> /\ ~parked /\ StartRead /\ UNCHANGED <<under, closed, lost>>
      /\ starting' = FALSE /\ feeding' = FALSE
  BY DEF SessionStart, sessionVars, IInv, ReadInv, Flagged
<1> QED BY <1>1, StartReadKeeps

LEMMA OnReadCompleteStep ==
    ASSUME IInv, OnReadComplete
    PROVE  IInv'
<1>0. /\ due # <<>> /\ ~feeding /\ ~starting /\ ~parked /\ due' = <<>>
      /\ UNCHANGED <<starting, deferred, lost>>
  BY DEF OnReadComplete, Feed, IInv, ReadInv
<1>1. CASE Close /\ UNCHANGED <<recv, feeding>>
  <2>1. lost' \in BOOLEAN
    BY <1>0 DEF IInv, Flagged
  <2> QED BY <1>0, <1>1, <2>1, CloseKeeps
<1>2. CASE UNCHANGED <<under, rx, parked, closed>> /\ feeding' \in BOOLEAN
  <2>1. Flagged' /\ ReadInv'
    BY <1>0, <1>2 DEF IInv, Flagged, ReadInv
  <2>2. QueueInv' /\ ErrorInv'
    BY <1>0, <1>2 DEF IInv, QueueInv, ErrorInv
  <2> QED BY <2>1, <2>2 DEF IInv
<1> QED BY <1>1, <1>2 DEF OnReadComplete, Feed, IInv, Flagged

LEMMA SessionEndsStep ==
    ASSUME IInv, SessionEnds
    PROVE  IInv'
<1>1. /\ Close /\ UNCHANGED <<starting, deferred, lost, feeding>>
      /\ due' = due \/ (parked /\ due' = <<Aborted>>)
  BY DEF SessionEnds, InvokeHandler, sessionVars
<1>2. lost' \in BOOLEAN
  BY <1>1 DEF IInv, Flagged
<1> QED BY <1>1, <1>2, CloseKeeps

LEMMA ParseFragmentStep ==
    ASSUME IInv, ParseFragment
    PROVE  IInv'
<1>0. UNCHANGED <<starting, feeding, deferred, due>>
  BY DEF ParseFragment
<1>1. \/ UNCHANGED <<under, rx, parked, closed, lost>>
      \/ UNCHANGED <<under, rx, parked, closed>> /\ lost' = TRUE
      \/ Close /\ lost' = TRUE
  BY DEF ParseFragment, CannotDecrypt
<1>2. CASE UNCHANGED <<under, rx, parked, closed>> /\ lost' \in BOOLEAN
  BY <1>0, <1>2 DEF IInv, Flagged, ReadInv, QueueInv, ErrorInv
<1>3. CASE Close /\ lost' = TRUE
  BY <1>0, <1>3, CloseKeeps
<1> QED BY <1>1, <1>2, <1>3 DEF IInv, Flagged

LEMMA EndFeedStep ==
    ASSUME IInv, EndFeed
    PROVE  IInv'
<1>1. /\ due = <<>> /\ ~parked /\ StartRead /\ UNCHANGED <<under, closed, lost>>
      /\ starting' = FALSE /\ feeding' = FALSE
  BY DEF EndFeed, IInv, ReadInv, Flagged
<1> QED BY <1>1, StartReadKeeps

LEMMA Inductive == Spec => []IInv
<1>1. Init => IInv
  <2> SUFFICES ASSUME Init PROVE IInv
    OBVIOUS
  <2>1. /\ under = "reading" /\ rx = <<>> /\ due = <<>> /\ starting = TRUE /\ feeding = FALSE
        /\ parked = FALSE /\ deferred = FALSE /\ closed = FALSE /\ lost = FALSE
    BY DEF Init
  <2>2. Flagged /\ ReadInv
    BY <2>1 DEF Flagged, ReadInv
  <2>3. QueueInv
    BY <2>1, EmptyIsChunks, BoundIsPositive DEF QueueInv
  <2>4. due # <<Failure>>
    BY <2>1
  <2>5. ErrorInv
    BY <2>1, <2>4 DEF ErrorInv
  <2> QED BY <2>2, <2>3, <2>5 DEF IInv
<1>2. IInv /\ [Next]_vars => IInv'
  <2> SUFFICES ASSUME IInv, [Next]_vars PROVE IInv'
    OBVIOUS
  <2>1. CASE UNCHANGED vars
    BY <2>1 DEF vars, bufferVars, sessionVars, IInv, Flagged, ReadInv, QueueInv, ErrorInv
  <2> QED BY <2>1, UnderlyingReadStep, OnUnderlyingReadStep, SessionStartStep,
             OnReadCompleteStep, SessionEndsStep, ParseFragmentStep, EndFeedStep DEF Next
<1> QED BY <1>1, <1>2, PTL DEF Spec

-----------------------------------------------------------------------------
(* Recursive functions and sequences of sequences. *)

\* What holds at 0, and at i + 1 when it holds at i, holds up to n: a number without it
\* would have a least one beside it.
LEMMA UpTo ==
    ASSUME NEW n \in Nat, NEW S, 0 \in S,
           \A i \in 0..n : i < n /\ i \in S => i + 1 \in S
    PROVE  \A i \in 0..n : i \in S
<1> DEFINE R == OpToRel(<, Nat)
           Bad == {i \in 0..n : i \notin S}
<1>1. SUFFICES ASSUME Bad # {} PROVE FALSE
  OBVIOUS
<1>2. IsWellFoundedOn(R, Nat)
  BY NatLessThanWellFounded
<1>3. Bad \subseteq Nat
  OBVIOUS
<1>4. \E x \in Bad : \A y \in Bad : ~(<<y, x>> \in R)
  <2> HIDE DEF R, Bad
  <2> QED BY <1>1, <1>2, <1>3, WFMin
<1>5. \A a, b \in Nat : a < b => <<a, b>> \in R
  BY Zenon DEF OpToRel
<1> HIDE DEF R
<1>6. PICK x \in Bad : \A y \in Bad : ~(<<y, x>> \in R)
  BY <1>4
<1>7. x \in Nat /\ x # 0 /\ x <= n
  OBVIOUS
<1>8. x - 1 \in Nat /\ x - 1 < x /\ x - 1 \in 0..n /\ x - 1 < n
  BY <1>7
<1>9. <<x - 1, x>> \in R
  BY <1>5, <1>7, <1>8
<1>10. x - 1 \in S
  BY <1>6, <1>8, <1>9
<1>11. (x - 1) + 1 \in S
  BY <1>8, <1>10
<1> QED BY <1>6, <1>7, <1>11

\* g is reached from a0 in n steps.
Iterates(g, n, a0, step) == g[0] = a0 /\ \A i \in 1..n : g[i] = step[<<i, g[i - 1]>>]

\* A recursive definition over 0..n has a function that satisfies it.
LEMMA Recursion ==
    ASSUME NEW n \in Nat, NEW A, NEW a0 \in A, NEW step \in [(1..n) \X A -> A]
    PROVE  \E g \in [0..n -> A] : Iterates(g, n, a0, step)
<1> DEFINE Upto(m, g) == g[0] = a0 /\ \A i \in 1..m : g[i] = step[<<i, g[i - 1]>>]
           S == {m \in 0..n : \E g \in [0..m -> A] : Upto(m, g)}
<1>1. 0 \in S
  <2> DEFINE g == [i \in 0..0 |-> a0]
  <2>1. g \in [0..0 -> A] /\ g[0] = a0
    OBVIOUS
  <2> HIDE DEF g
  <2>2. Upto(0, g)
    BY <2>1
  <2>3. 0 \in 0..n
    OBVIOUS
  <2> HIDE DEF Upto
  <2> QED BY <2>1, <2>2, <2>3
<1>2. ASSUME NEW m \in 0..n, m < n, m \in S PROVE m + 1 \in S
  <2>1. PICK g \in [0..m -> A] : Upto(m, g)
    BY <1>2
  <2> DEFINE last == step[<<m + 1, g[m]>>]
             h == [i \in 0..(m + 1) |-> IF i = m + 1 THEN last ELSE g[i]]
  <2>2. last \in A
    BY <1>2, <2>1
  <2> HIDE DEF last
  <2>3. h \in [0..(m + 1) -> A]
    BY <2>1, <2>2
  <2> HIDE DEF h
  <2>4. h[0] = a0 /\ h[m + 1] = last /\ \A i \in 0..m : h[i] = g[i]
    BY <2>1 DEF h
  <2>5. ASSUME NEW i \in 1..m PROVE h[i] = step[<<i, h[i - 1]>>]
    <3>1. h[i] = g[i] /\ h[i - 1] = g[i - 1]
      BY <2>4
    <3> QED BY <2>1, <3>1
  <2>6. h[m + 1] = step[<<m + 1, h[(m + 1) - 1]>>]
    <3>1. m \in 0..m /\ (m + 1) - 1 = m
      BY <1>2
    <3>2. h[(m + 1) - 1] = g[m]
      BY <2>4, <3>1
    <3> QED BY <2>4, <3>2 DEF last
  <2>7. Upto(m + 1, h)
    BY <2>4, <2>5, <2>6
  <2>8. m + 1 \in 0..n
    BY <1>2
  <2> QED BY <2>3, <2>7, <2>8
<1>3. \A m \in 0..n : m \in S
  <2> HIDE DEF S
  <2> QED BY <1>1, <1>2, UpTo
<1>4. PICK g \in [0..n -> A] : Upto(n, g)
  BY <1>3
<1> QED BY <1>4 DEF Iterates

\* p is the beginning of q.
Begins(p, q) == Len(p) <= Len(q) /\ \A j \in 1..Len(p) : p[j] = q[j]

LEMMA BeginsJoined ==
    ASSUME NEW T, NEW p \in Seq(T), NEW q \in Seq(T), NEW r \in Seq(T), Begins(p, q)
    PROVE  Begins(p, q \o r)
  BY DEF Begins

\* A sequence of sequences is flattened one after the other.
LEMMA Flattened ==
    ASSUME NEW T, NEW q \in Seq(Seq(T))
    PROVE  \E w \in [0..Len(q) -> Seq(T)] :
              /\ w[0] = <<>>
              /\ \A i \in 1..Len(q) : w[i] = w[i - 1] \o q[i]
              /\ FlattenSeq(q) = w[Len(q)]
<1> DEFINE n == Len(q)
           step == [p \in (1..n) \X Seq(T) |-> p[2] \o q[p[1]]]
           Flat(f) == f = [i \in 1..n |-> IF i = 1 THEN q[i] ELSE f[i - 1] \o q[i]]
<1>0. n \in Nat /\ \A i \in 1..n : q[i] \in Seq(T)
  OBVIOUS
<1>1. step \in [(1..n) \X Seq(T) -> Seq(T)]
  <2> HIDE DEF n
  <2> QED BY <1>0
<1>2. <<>> \in Seq(T)
  OBVIOUS
<1> DEFINE A == Seq(T)
<1>3. PICK w \in [0..n -> A] : Iterates(w, n, <<>>, step)
  <2>1. step \in [(1..n) \X A -> A] /\ <<>> \in A /\ n \in Nat
    BY <1>0, <1>1, <1>2
  <2> HIDE DEF n, step, A
  <2> QED BY <2>1, Recursion, Zenon
<1>4. ASSUME NEW i \in 1..n PROVE w[i] = w[i - 1] \o q[i]
  <2>1. w[i] = step[<<i, w[i - 1]>>] /\ w[i - 1] \in Seq(T)
    <3> HIDE DEF step, n
    <3> QED BY <1>0, <1>3 DEF Iterates
  <2> HIDE DEF n
  <2> QED BY <2>1
<1>5. w[0] = <<>> /\ w \in [0..n -> Seq(T)]
  BY <1>0, <1>3 DEF Iterates
<1> HIDE DEF step
<1>6. CASE n = 0
  <2>1. FlattenSeq(q) = <<>>
    BY <1>6 DEF FlattenSeq
  <2> QED BY <1>3, <1>4, <1>5, <1>6, <2>1
<1>7. CASE n # 0
  <2> DEFINE h == [i \in 1..n |-> w[i]]
  <2>1. Flat(h)
    <3> SUFFICES ASSUME NEW i \in 1..n
                 PROVE  w[i] = IF i = 1 THEN q[i] ELSE h[i - 1] \o q[i]
      OBVIOUS
    <3>1. i # 1 => h[i - 1] = w[i - 1]
      BY <1>0
    <3>2. i = 1 => w[i] = q[i]
      <4>1. w[i] = w[i - 1] \o q[i] /\ q[i] \in Seq(T)
        BY <1>0, <1>4
      <4>2. i = 1 => w[i - 1] = <<>>
        BY <1>5
      <4>3. <<>> \o q[i] = q[i]
        BY <4>1
      <4> QED BY <4>1, <4>2, <4>3, Zenon
    <3>3. w[i] = w[i - 1] \o q[i]
      BY <1>4
    <3> HIDE DEF h, n
    <3> QED BY <3>1, <3>2, <3>3
  <2> DEFINE F == CHOOSE f : Flat(f)
  <2>2. Flat(F)
    <3> HIDE DEF h, Flat
    <3> QED BY <2>1
  <2>3. FlattenSeq(q) = F[n]
    BY <1>7, Zenon DEF FlattenSeq
  <2> HIDE DEF F, h
  <2>4. ASSUME NEW i \in 1..n PROVE F[i] = IF i = 1 THEN q[i] ELSE F[i - 1] \o q[i]
    <3> HIDE DEF n
    <3>1. F = [j \in 1..n |-> IF j = 1 THEN q[j] ELSE F[j - 1] \o q[j]]
      BY <2>2
    <3> DEFINE G(j) == IF j = 1 THEN q[j] ELSE F[j - 1] \o q[j]
    <3>2. F = [j \in 1..n |-> G(j)]
      BY <3>1
    <3>3. F[i] = G(i)
      <4> HIDE DEF G
      <4> QED BY <3>2
    <3> QED BY <3>3
  <2> DEFINE S == {m \in 0..n : m = 0 \/ F[m] = w[m]}
  <2>5. 0 \in S
    BY <1>0
  <2>6. ASSUME NEW m \in 0..n, m < n, m \in S PROVE m + 1 \in S
    <3>1. m + 1 \in 1..n /\ (m + 1) - 1 = m
      BY <1>0, <2>6
    <3>2. w[m + 1] = w[m] \o q[m + 1]
      BY <1>4, <3>1
    <3>3. m = 0 => w[m + 1] = q[m + 1]
      BY <1>0, <1>5, <3>1, <3>2
    <3>4. m # 0 => F[m + 1] = F[m] \o q[m + 1]
      <4> HIDE DEF n
      <4>1. F[m + 1] = IF m + 1 = 1 THEN q[m + 1] ELSE F[(m + 1) - 1] \o q[m + 1]
        BY <2>4, <3>1, Zenon
      <4>2. m # 0 => m + 1 # 1
        BY <1>0
      <4> QED BY <3>1, <4>1, <4>2, Zenon
    <3>5. m = 0 => F[m + 1] = q[m + 1]
      <4> HIDE DEF n
      <4> QED BY <2>4, <3>1
    <3>6. m # 0 => F[m] = w[m]
      BY <2>6
    <3>7. F[m + 1] = w[m + 1]
      BY <3>2, <3>3, <3>4, <3>5, <3>6, Zenon
    <3> QED BY <3>1, <3>7
  <2>7. \A m \in 0..n : m \in S
    <3> HIDE DEF S, n
    <3> QED BY <1>0, <2>5, <2>6, UpTo
  <2>8. F[n] = w[n]
    BY <1>0, <1>7, <2>7
  <2> QED BY <1>3, <1>4, <1>5, <2>3, <2>8
<1> QED BY <1>6, <1>7

\* Each of the sequences is found in the flat one, where those before it end.
Laid(q, at) ==
    /\ at \in [0..Len(q) -> Nat] /\ at[0] = 0 /\ at[Len(q)] = Len(FlattenSeq(q))
    /\ \A k \in 0..Len(q) : at[k] <= Len(FlattenSeq(q))
    /\ \A k \in 1..Len(q) :
          /\ at[k] = at[k - 1] + Len(q[k])
          /\ \A j \in 1..Len(q[k]) : FlattenSeq(q)[at[k - 1] + j] = q[k][j]

LEMMA FlatLaid ==
    ASSUME NEW T, NEW q \in Seq(Seq(T))
    PROVE  FlattenSeq(q) \in Seq(T) /\ \E at : Laid(q, at)
<1> DEFINE n == Len(q)
<1>0. n \in Nat /\ \A i \in 1..n : q[i] \in Seq(T)
  OBVIOUS
<1>1. PICK w \in [0..n -> Seq(T)] : /\ w[0] = <<>>
                                    /\ \A i \in 1..n : w[i] = w[i - 1] \o q[i]
                                    /\ FlattenSeq(q) = w[n]
  BY Flattened
<1> DEFINE at == [k \in 0..n |-> Len(w[k])]
<1> HIDE DEF n
<1>2. ASSUME NEW k \in 0..n PROVE Begins(w[k], w[n])
  <2> DEFINE S == {m \in 0..n : m < k \/ Begins(w[k], w[m])}
  <2>0. w[k] \in Seq(T)
    BY <1>1
  <2>1. 0 \in S
    <3>1. k = 0 => Begins(w[k], w[0])
      BY <1>1 DEF Begins
    <3> QED BY <1>0, <3>1
  <2>2. ASSUME NEW m \in 0..n, m < n, m \in S PROVE m + 1 \in S
    <3>1. m + 1 \in 0..n /\ m + 1 \in 1..n /\ (m + 1) - 1 = m
      BY <1>0, <2>2
    <3>2. w[m] \in Seq(T) /\ q[m + 1] \in Seq(T) /\ w[m + 1] = w[m] \o q[m + 1]
      BY <1>0, <1>1, <3>1
    <3>3. Begins(w[k], w[m]) => Begins(w[k], w[m + 1])
      BY <2>0, <3>2, BeginsJoined
    <3>4. m + 1 = k => Begins(w[k], w[m + 1])
      BY <2>0 DEF Begins
    <3> QED BY <1>0, <2>2, <3>1, <3>3, <3>4
  <2>3. \A m \in 0..n : m \in S
    <3> HIDE DEF S
    <3> QED BY <1>0, <2>1, <2>2, UpTo
  <2> QED BY <1>0, <2>3
<1>3. at \in [0..n -> Nat] /\ at[0] = 0 /\ at[n] = Len(FlattenSeq(q))
  <2>1. \A i \in 0..n : Len(w[i]) \in Nat
    BY <1>1
  <2>2. 0 \in 0..n /\ n \in 0..n
    BY <1>0
  <2> QED BY <1>1, <2>1, <2>2
<1>4. ASSUME NEW k \in 0..n PROVE at[k] <= Len(FlattenSeq(q))
  BY <1>1, <1>2 DEF Begins
<1>5. ASSUME NEW k \in 1..n
      PROVE  /\ at[k] = at[k - 1] + Len(q[k])
             /\ \A j \in 1..Len(q[k]) : FlattenSeq(q)[at[k - 1] + j] = q[k][j]
  <2>1. k \in 0..n /\ k - 1 \in 0..n
    BY <1>0
  <2>2. w[k] = w[k - 1] \o q[k] /\ w[k - 1] \in Seq(T) /\ q[k] \in Seq(T)
    BY <1>0, <1>1, <2>1
  <2> DEFINE p == w[k - 1]
             r == q[k]
  <2>3. /\ Len(w[k]) = Len(p) + Len(r)
        /\ \A j \in 1..Len(r) : w[k][Len(p) + j] = r[j]
        /\ \A j \in 1..Len(r) : Len(p) + j \in 1..Len(w[k])
    <3>1. w[k] = p \o r /\ p \in Seq(T) /\ r \in Seq(T)
      BY <2>2
    <3> HIDE DEF p, r
    <3> QED BY <3>1
  <2>4. at[k] = Len(w[k]) /\ at[k - 1] = Len(w[k - 1])
    BY <2>1
  <2>5. \A i \in 1..Len(w[k]) : w[k][i] = w[n][i]
    BY <1>2, <2>1 DEF Begins
  <2> HIDE DEF at
  <2> QED BY <1>1, <2>3, <2>4, <2>5
<1>6. Laid(q, at)
  BY <1>3, <1>4, <1>5 DEF Laid, n
<1>7. FlattenSeq(q) \in Seq(T)
  BY <1>0, <1>1
<1> QED BY <1>6, <1>7

-----------------------------------------------------------------------------
(* Frames, as units and as messages. *)

\* What is on the wire, and the payload units of a body.
Unit == [ch : Channel, first : BOOLEAN, last : BOOLEAN] \cup [len : Nat] \cup [data : Nat]
Units(b) == [i \in 1..Len(b) |-> Payload(b[i])]

LEMMA OneAfterOther ==
    ASSUME NEW T, NEW p \in Seq(T), NEW q \in Seq(T)
    PROVE  /\ p \o q \in Seq(T) /\ Len(p \o q) = Len(p) + Len(q)
           /\ Len(p) \in Nat /\ Len(q) \in Nat
           /\ \A i \in 1..Len(p) : (p \o q)[i] = p[i]
           /\ \A i \in 1..Len(q) : (p \o q)[Len(p) + i] = q[i]
           /\ \A i \in 1..(Len(p) + Len(q)) :
                 (p \o q)[i] = IF i <= Len(p) THEN p[i] ELSE q[i - Len(p)]
  OBVIOUS

LEMMA WiderSeq ==
    ASSUME NEW S, NEW T, S \subseteq T, NEW q \in Seq(S)
    PROVE  q \in Seq(T)
  OBVIOUS

LEMMA FrameTyped ==
    ASSUME NEW f \in Frames
    PROVE  /\ f.ch \in Channel /\ f.first \in BOOLEAN /\ f.last \in BOOLEAN
           /\ f.body \in Seq(Nat) /\ f.body # <<>> /\ Len(f.body) \in Nat /\ Len(f.body) > 0
  BY DEF Frames

LEMMA UnitsTyped ==
    ASSUME NEW b \in Seq(Nat)
    PROVE  /\ Units(b) \in Seq([data : Nat]) /\ Len(Units(b)) = Len(b)
           /\ \A i \in 1..Len(b) : Units(b)[i] = Payload(b[i])
<1>1. \A i \in 1..Len(b) : Payload(b[i]) \in [data : Nat]
  BY DEF Payload
<1> QED BY <1>1 DEF Units

LEMMA ExtraTyped == \A f : Extra(f) \in {0, 1}
  BY DEF Extra

\* Where the header and the payload of a frame are.
LEMMA EncodedTyped ==
    ASSUME NEW f \in Frames
    PROVE  /\ Encoded(f) \in Seq(Unit)
           /\ Len(Encoded(f)) = HeaderSize + Extra(f) + Len(f.body)
           /\ Encoded(f)[1] = Flags(f) /\ Encoded(f)[2] = Size(Len(f.body))
           /\ \A j \in 1..Len(f.body) :
                 Encoded(f)[HeaderSize + Extra(f) + j] = Payload(f.body[j])
<1> DEFINE h == <<Flags(f), Size(Len(f.body))>>
           e == [i \in 1..Extra(f) |-> Payload(0)]
           b == Units(f.body)
<1>1. h \in Seq(Unit) /\ Len(h) = 2 /\ h[1] = Flags(f) /\ h[2] = Size(Len(f.body))
  <2>1. Flags(f) \in Unit /\ Size(Len(f.body)) \in Unit
    BY FrameTyped DEF Unit, Flags, Size
  <2> QED BY <2>1
<1>2. e \in Seq(Unit) /\ Len(e) = Extra(f)
  <2>1. Payload(0) \in Unit
    BY DEF Unit, Payload
  <2> QED BY <2>1, ExtraTyped
<1>3. b \in Seq(Unit) /\ Len(b) = Len(f.body)
      /\ \A j \in 1..Len(f.body) : b[j] = Payload(f.body[j])
  <2>1. f.body \in Seq(Nat)
    BY FrameTyped
  <2>2. b \in Seq([data : Nat]) /\ Len(b) = Len(f.body)
        /\ \A j \in 1..Len(f.body) : b[j] = Payload(f.body[j])
    BY <2>1, UnitsTyped
  <2>3. [data : Nat] \subseteq Unit
    BY DEF Unit
  <2> HIDE DEF b
  <2>4. b \in Seq(Unit)
    BY <2>2, <2>3, WiderSeq
  <2> QED BY <2>2, <2>4
<1>4. Encoded(f) = (h \o e) \o b
  BY DEF Encoded, Units
<1>5. Extra(f) \in Nat /\ Len(f.body) \in Nat /\ HeaderSize = 2
  BY ExtraTyped, FrameTyped DEF HeaderSize
<1> HIDE DEF h, e, b
<1> DEFINE he == h \o e
<1>6. he \in Seq(Unit) /\ Len(he) = 2 + Extra(f) /\ he[1] = h[1] /\ he[2] = h[2]
  <2>1. h \in Seq(Unit) /\ e \in Seq(Unit)
    BY <1>1, <1>2
  <2>2. /\ h \o e \in Seq(Unit) /\ Len(h \o e) = Len(h) + Len(e)
        /\ \A i \in 1..Len(h) : (h \o e)[i] = h[i]
    <3> HIDE DEF he
    <3> QED BY <2>1, OneAfterOther
  <2>3. he \in Seq(Unit) /\ Len(he) = Len(h) + Len(e) /\ \A i \in 1..Len(h) : he[i] = h[i]
    BY <2>2
  <2> HIDE DEF he
  <2>4. 1 \in 1..Len(h) /\ 2 \in 1..Len(h)
    BY <1>1
  <2> QED BY <1>1, <1>2, <2>3, <2>4
<1>7. Encoded(f) = he \o b
  BY <1>4
<1> HIDE DEF he
<1> DEFINE all == he \o b
<1>8. /\ all \in Seq(Unit) /\ Len(all) = Len(he) + Len(b)
      /\ \A i \in 1..Len(he) : all[i] = he[i]
      /\ \A j \in 1..Len(b) : all[Len(he) + j] = b[j]
  <2>1. he \in Seq(Unit) /\ b \in Seq(Unit)
    BY <1>3, <1>6
  <2>2. /\ he \o b \in Seq(Unit) /\ Len(he \o b) = Len(he) + Len(b)
        /\ \A i \in 1..Len(he) : (he \o b)[i] = he[i]
        /\ \A i \in 1..Len(b) : (he \o b)[Len(he) + i] = b[i]
    <3> HIDE DEF all
    <3> QED BY <2>1, OneAfterOther
  <2> QED BY <2>2
<1>9. Encoded(f) = all
  BY <1>7
<1> HIDE DEF all
<1>10. 1 \in 1..Len(he) /\ 2 \in 1..Len(he)
  BY <1>5, <1>6
<1>11. all[1] = h[1] /\ all[2] = h[2]
  BY <1>6, <1>8, <1>10
<1>12. \A j \in 1..Len(f.body) : all[HeaderSize + Extra(f) + j] = Payload(f.body[j])
  BY <1>3, <1>5, <1>6, <1>8
<1> QED BY <1>1, <1>3, <1>5, <1>6, <1>8, <1>9, <1>11, <1>12

\* The messages of a channel after some frames, and the one that is not complete.
Acc == [whole : Seq(Seq(Nat)), part : Seq(Nat)]
Nothing == [whole |-> <<>>, part |-> <<>>]

LEMMA JoinTyped ==
    ASSUME NEW c, NEW acc \in Acc, NEW f \in Frames
    PROVE  /\ Join(c, acc, f) \in Acc
           /\ Begins(acc.whole, Join(c, acc, f).whole)
<1> DEFINE all == (IF f.first THEN <<>> ELSE acc.part) \o f.body
<1>1. acc.whole \in Seq(Seq(Nat)) /\ acc.part \in Seq(Nat)
  BY DEF Acc
<1>2. all \in Seq(Nat)
  <2>1. f.body \in Seq(Nat)
    BY FrameTyped
  <2> QED BY <1>1, <2>1
<1>3. Join(c, acc, f) = IF f.ch # c THEN acc
                        ELSE IF f.last THEN [whole |-> Append(acc.whole, all), part |-> <<>>]
                        ELSE [acc EXCEPT !.part = all]
  BY DEF Join
<1> HIDE DEF all
<1>4. Append(acc.whole, all) \in Seq(Seq(Nat)) /\ Begins(acc.whole, Append(acc.whole, all))
      /\ Begins(acc.whole, acc.whole)
  BY <1>1, <1>2 DEF Begins
<1>5. CASE f.ch # c
  BY <1>3, <1>4, <1>5
<1>6. CASE ~(f.ch # c) /\ f.last
  <2>1. Join(c, acc, f) = [whole |-> Append(acc.whole, all), part |-> <<>>]
    BY <1>3, <1>6
  <2> DEFINE g == Append(acc.whole, all)
  <2> HIDE DEF g
  <2>2. Join(c, acc, f) \in Acc /\ Join(c, acc, f).whole = g
    BY <1>4, <2>1 DEF Acc, g
  <2> QED BY <1>4, <2>2 DEF g
<1>7. CASE ~(f.ch # c) /\ ~f.last
  <2>1. Join(c, acc, f) = [acc EXCEPT !.part = all]
    BY <1>3, <1>7
  <2>2. Join(c, acc, f) \in Acc /\ Join(c, acc, f).whole = acc.whole
    BY <1>2, <2>1 DEF Acc
  <2> QED BY <1>4, <2>2
<1> QED BY <1>5, <1>6, <1>7

\* The recursive function of Joined is what its definition says, frame by frame.
LEMMA JoinedSteps ==
    ASSUME NEW s \in Seq(Frames), NEW c
    PROVE  /\ Joined(s, c) \in [0..Len(s) -> Acc]
           /\ Joined(s, c)[0] = Nothing
           /\ \A i \in 1..Len(s) : Joined(s, c)[i] = Join(c, Joined(s, c)[i - 1], s[i])
<1> DEFINE n == Len(s)
           step == [p \in (1..n) \X Acc |-> Join(c, p[2], s[p[1]])]
           J(g, i) == IF i = 0 THEN Nothing ELSE Join(c, g[i - 1], s[i])
           Joins(g) == g = [i \in 0..n |-> J(g, i)]
<1>0. n \in Nat /\ \A i \in 1..n : s[i] \in Frames
  OBVIOUS
<1> HIDE DEF n
<1>1. step \in [(1..n) \X Acc -> Acc]
  BY <1>0, JoinTyped
<1>2. Nothing \in Acc
  BY DEF Nothing, Acc
<1>3. PICK g \in [0..n -> Acc] : Iterates(g, n, Nothing, step)
  <2> HIDE DEF step
  <2> QED BY <1>0, <1>1, <1>2, Recursion
<1>4. Joins(g)
  <2> SUFFICES ASSUME NEW i \in 0..n PROVE g[i] = J(g, i)
    OBVIOUS
  <2>1. CASE i = 0
    BY <1>3, <2>1 DEF Iterates
  <2>2. CASE i # 0
    <3>1. i \in 1..n /\ i - 1 \in 0..n
      BY <1>0, <2>2
    <3>2. g[i] = step[<<i, g[i - 1]>>] /\ g[i - 1] \in Acc
      BY <1>3, <3>1 DEF Iterates
    <3>3. step[<<i, g[i - 1]>>] = Join(c, g[i - 1], s[i])
      BY <3>1, <3>2
    <3> QED BY <2>2, <3>2, <3>3
  <2> QED BY <2>1, <2>2
<1> DEFINE F == CHOOSE f : Joins(f)
<1>5. Joins(F)
  <2> HIDE DEF Joins
  <2> QED BY <1>4
<1>6. Joined(s, c) = F
  BY Zenon DEF Joined, Nothing, n
<1> HIDE DEF F, step
<1>7. ASSUME NEW i \in 0..n PROVE F[i] = J(F, i)
  <2>1. F = [j \in 0..n |-> J(F, j)]
    BY <1>5
  <2> HIDE DEF J
  <2> QED BY <2>1
<1>8. F[0] = Nothing
  BY <1>0, <1>7
<1>9. ASSUME NEW i \in 1..n PROVE F[i] = Join(c, F[i - 1], s[i])
  <2>1. i \in 0..n /\ i # 0
    BY <1>0
  <2> QED BY <1>7, <2>1
<1> DEFINE S == {m \in 0..n : F[m] \in Acc}
<1>10. 0 \in S
  BY <1>0, <1>2, <1>8
<1>11. ASSUME NEW m \in 0..n, m < n, m \in S PROVE m + 1 \in S
  <2>1. m + 1 \in 1..n /\ m + 1 \in 0..n /\ (m + 1) - 1 = m
    BY <1>0, <1>11
  <2>2. F[m + 1] = Join(c, F[m], s[m + 1])
    BY <1>9, <2>1
  <2>3. s[m + 1] \in Frames /\ F[m] \in Acc
    BY <1>0, <1>11, <2>1
  <2>4. F[m + 1] \in Acc
    BY <2>2, <2>3, JoinTyped
  <2> QED BY <2>1, <2>4
<1>12. \A m \in 0..n : m \in S
  <2> HIDE DEF S
  <2> QED BY <1>0, <1>10, <1>11, UpTo
<1>13. F \in [0..n -> Acc]
  <2>1. F = [j \in 0..n |-> J(F, j)]
    BY <1>5
  <2>2. DOMAIN F = 0..n /\ F = [j \in 0..n |-> F[j]]
    <3> HIDE DEF J
    <3> QED BY <2>1
  <2>3. \A m \in 0..n : F[m] \in Acc
    BY <1>12
  <2> QED BY <2>2, <2>3
<1> QED BY <1>6, <1>8, <1>9, <1>13 DEF n

\* What has been joined stays.
LEMMA JoinedGrows ==
    ASSUME NEW s \in Seq(Frames), NEW c, NEW k \in 0..Len(s)
    PROVE  IsPrefix(Joined(s, c)[k].whole, Joined(s, c)[Len(s)].whole)
<1> DEFINE n == Len(s)
           J == Joined(s, c)
           S == {m \in 0..n : m < k \/ Begins(J[k].whole, J[m].whole)}
<1>0. n \in Nat /\ k \in 0..n /\ \A i \in 1..n : s[i] \in Frames
  OBVIOUS
<1>1. /\ J \in [0..n -> Acc]
      /\ \A i \in 1..n : J[i] = Join(c, J[i - 1], s[i])
  BY JoinedSteps
<1> HIDE DEF n, J
<1>2. \A i \in 0..n : J[i] \in Acc /\ J[i].whole \in Seq(Seq(Nat))
  BY <1>1 DEF Acc
<1>3. Begins(J[k].whole, J[k].whole)
  BY <1>0, <1>2 DEF Begins
<1>4. 0 \in S
  BY <1>0, <1>3
<1>5. ASSUME NEW m \in 0..n, m < n, m \in S PROVE m + 1 \in S
  <2>1. m + 1 \in 1..n /\ m + 1 \in 0..n /\ (m + 1) - 1 = m
    BY <1>0, <1>5
  <2>2. J[m + 1] = Join(c, J[m], s[m + 1])
    BY <1>1, <2>1
  <2>3. Begins(J[m].whole, J[m + 1].whole)
    BY <1>0, <1>2, <2>1, <2>2, JoinTyped
  <2>4. Begins(J[k].whole, J[m].whole) => Begins(J[k].whole, J[m + 1].whole)
    <3> DEFINE a == J[k].whole
               b == J[m].whole
               d == J[m + 1].whole
    <3>1. a \in Seq(Seq(Nat)) /\ b \in Seq(Seq(Nat)) /\ d \in Seq(Seq(Nat))
      BY <1>0, <1>2, <2>1
    <3> HIDE DEF a, b, d
    <3>2. Begins(a, b) /\ Begins(b, d) => Begins(a, d)
      BY <3>1 DEF Begins
    <3> QED BY <2>3, <3>2 DEF a, b, d
  <2>5. m + 1 < k \/ m + 1 = k \/ ~(m < k)
    BY <1>0
  <2> QED BY <1>3, <1>5, <2>1, <2>4, <2>5
<1>6. \A m \in 0..n : m \in S
  <2> HIDE DEF S
  <2> QED BY <1>0, <1>4, <1>5, UpTo
<1>7. Begins(J[k].whole, J[n].whole)
  <2>1. n \in S /\ ~(n < k)
    BY <1>0, <1>6
  <2> QED BY <2>1
<1>8. J[k].whole \in Seq(Seq(Nat)) /\ J[n].whole \in Seq(Seq(Nat))
  BY <1>0, <1>2
<1> DEFINE p == J[k].whole
           q == J[n].whole
<1> HIDE DEF p, q
<1>9. IsPrefix(p, q)
  <2>1. p \in Seq(Seq(Nat)) /\ q \in Seq(Seq(Nat)) /\ Begins(p, q)
    BY <1>7, <1>8 DEF p, q
  <2>2. SubSeq(p, 1, Len(p)) = SubSeq(q, 1, Len(p))
    BY <2>1 DEF Begins
  <2> QED BY <2>1, <2>2 DEF IsPrefix, Begins
<1> QED BY <1>9 DEF p, q, n, J

-----------------------------------------------------------------------------
(* Parts of the stream. *)

\* x is the part of w after its first a units, up to the b-th.
Covers(w, x, a, b) ==
    /\ a \in Nat /\ b \in Nat /\ b <= Len(w)
    /\ x \in Seq(Unit) /\ a + Len(x) = b
    /\ \A i \in 1..Len(x) : x[i] = w[a + i]

LEMMA CoversAll ==
    ASSUME NEW w \in Seq(Unit)
    PROVE  Covers(w, w, 0, Len(w))
  BY DEF Covers

LEMMA CoversNone ==
    ASSUME NEW w \in Seq(Unit), NEW a \in Nat, a <= Len(w)
    PROVE  Covers(w, <<>>, a, a)
  BY DEF Covers

LEMMA CoversNothing ==
    ASSUME NEW w, NEW a, NEW b, Covers(w, <<>>, a, b)
    PROVE  a = b
<1>1. Len(<<>>) = 0
  OBVIOUS
<1> QED BY <1>1 DEF Covers

LEMMA CoversJoined ==
    ASSUME NEW w \in Seq(Unit), NEW x, NEW y, NEW a, NEW b, NEW c,
           Covers(w, x, a, b), Covers(w, y, b, c)
    PROVE  Covers(w, x \o y, a, c)
<1>1. x \in Seq(Unit) /\ y \in Seq(Unit) /\ a \in Nat /\ b \in Nat /\ c \in Nat
      /\ c <= Len(w) /\ a + Len(x) = b /\ b + Len(y) = c
  BY DEF Covers
<1> DEFINE z == x \o y
<1>2. /\ z \in Seq(Unit) /\ Len(z) = Len(x) + Len(y) /\ Len(x) \in Nat /\ Len(y) \in Nat
      /\ \A i \in 1..(Len(x) + Len(y)) : z[i] = IF i <= Len(x) THEN x[i] ELSE y[i - Len(x)]
  <2>1. x \in Seq(Unit) /\ y \in Seq(Unit)
    BY <1>1
  <2> QED BY <2>1, OneAfterOther
<1> HIDE DEF z
<1>3. ASSUME NEW i \in 1..Len(z) PROVE z[i] = w[a + i]
  <2>1. CASE i <= Len(x)
    <3>1. z[i] = x[i] /\ i \in 1..Len(x)
      BY <1>2, <2>1
    <3> QED BY <3>1 DEF Covers
  <2>2. CASE ~(i <= Len(x))
    <3>1. z[i] = y[i - Len(x)] /\ i - Len(x) \in 1..Len(y)
      BY <1>2, <2>2
    <3>2. y[i - Len(x)] = w[b + (i - Len(x))]
      BY <3>1 DEF Covers
    <3>3. b + (i - Len(x)) = a + i
      <4>1. \A l \in Nat : a + l = b => b + (i - l) = a + i
        BY <1>1, <1>2
      <4> QED BY <1>1, <1>2, <4>1
    <3> QED BY <3>1, <3>2, <3>3
  <2> QED BY <2>1, <2>2
<1>4. a + Len(z) = c
  <2>1. \A l, m \in Nat : a + l = b /\ b + m = c => a + (l + m) = c
    BY <1>1
  <2>2. Len(x) \in Nat /\ Len(y) \in Nat /\ Len(z) = Len(x) + Len(y)
    BY <1>2
  <2>3. a + Len(x) = b /\ b + Len(y) = c
    BY <1>1
  <2> QED BY <2>1, <2>2, <2>3, Zenon
<1>5. Covers(w, z, a, c)
  BY <1>1, <1>2, <1>3, <1>4 DEF Covers
<1> QED BY <1>5 DEF z

LEMMA CoversSplit ==
    ASSUME NEW w \in Seq(Unit), NEW x, NEW a, NEW b, Covers(w, x, a, b),
           NEW n \in Nat, n <= Len(x)
    PROVE  /\ Covers(w, SubSeq(x, 1, n), a, a + n)
           /\ Covers(w, SubSeq(x, n + 1, Len(x)), a + n, b)
<1>1. x \in Seq(Unit) /\ a \in Nat /\ b \in Nat /\ b <= Len(w) /\ a + Len(x) = b
      /\ \A i \in 1..Len(x) : x[i] = w[a + i]
  BY DEF Covers
<1> DEFINE y == SubSeq(x, 1, n)
           z == SubSeq(x, n + 1, Len(x))
<1>2. y \in Seq(Unit) /\ Len(y) = n /\ \A i \in 1..n : y[i] = x[i]
  BY <1>1
<1>3. z \in Seq(Unit) /\ Len(z) = Len(x) - n /\ \A i \in 1..Len(z) : z[i] = x[n + i]
  <2>1. \A i \in (n + 1)..Len(x) : x[i] \in Unit
    BY <1>1
  <2>2. Len(x) \in Nat
    BY <1>1
  <2>3. z \in Seq(Unit) /\ Len(z) = Len(x) - n
    BY <1>1, <2>1, <2>2
  <2>4. ASSUME NEW i \in 1..Len(z) PROVE z[i] = x[n + i]
    BY <1>1, <2>2, <2>3
  <2> QED BY <2>3, <2>4
<1> HIDE DEF y, z
<1>0. Len(x) \in Nat /\ Len(w) \in Nat
  BY <1>1
<1>4. Covers(w, y, a, a + n)
  <2>1. \A l \in Nat : n <= l /\ a + l = b => a + n \in Nat /\ a + n <= b
    BY <1>1
  <2>2. a + n \in Nat /\ a + n <= b
    BY <1>0, <1>1, <2>1
  <2>3. a + n <= Len(w)
    BY <1>0, <1>1, <2>2
  <2>4. \A i \in 1..Len(y) : y[i] = w[a + i]
    <3> SUFFICES ASSUME NEW i \in 1..Len(y) PROVE y[i] = w[a + i]
      OBVIOUS
    <3>1. i \in 1..n
      BY <1>2
    <3>2. i \in 1..Len(x)
      BY <1>0, <3>1
    <3> QED BY <1>1, <1>2, <3>1, <3>2
  <2> QED BY <1>1, <1>2, <2>2, <2>3, <2>4 DEF Covers
<1>5. Covers(w, z, a + n, b)
  <2>0. \A l \in Nat : a + l = b => (a + n) + (l - n) = b
    BY <1>1
  <2>1. Len(x) \in Nat /\ a + n \in Nat /\ (a + n) + Len(z) = b
    <3>1. Len(z) = Len(x) - n /\ a + Len(x) = b /\ a \in Nat
      BY <1>1, <1>3
    <3>2. a + n \in Nat
      BY <3>1
    <3> QED BY <1>0, <2>0, <3>1, <3>2, Zenon
  <2>2. ASSUME NEW i \in 1..Len(z) PROVE z[i] = w[(a + n) + i]
    <3>1. n + i \in 1..Len(x) /\ a + (n + i) = (a + n) + i
      BY <1>1, <1>3, <2>1
    <3> QED BY <1>1, <1>3, <3>1
  <2> QED BY <1>1, <1>3, <2>1, <2>2 DEF Covers
<1> QED BY <1>4, <1>5 DEF y, z

\* A part of the stream is never taken for an error.
LEMMA CoversIsData ==
    ASSUME NEW w, NEW x, NEW a, NEW b, Covers(w, x, a, b)
    PROVE  x # Failure /\ x # Aborted
<1>1. x \in Seq(Unit)
  BY DEF Covers
<1>2. ASSUME NEW e, x = <<[error |-> e]>> PROVE FALSE
  <2>1. Len(x) = 1 /\ x[1] = [error |-> e]
    BY <1>2
  <2>2. x[1] \in Unit
    BY <1>1, <2>1
  <2>3. \A u \in Unit : "error" \notin DOMAIN u
    BY DEF Unit
  <2> QED BY <2>1, <2>2, <2>3
<1> QED BY <1>2 DEF Failure, Aborted

\* The chunks of q follow each other from a to b; p says where each begins.
Marks(w, q, p, a, b) ==
    /\ p \in [1..(Len(q) + 1) -> Nat] /\ p[1] = a /\ p[Len(q) + 1] = b
    /\ \A i \in 1..Len(q) : Covers(w, q[i], p[i], p[i + 1])

Queued(w, q, a, b) == q \in Seq(Seq(Unit)) /\ \E p : Marks(w, q, p, a, b)

LEMMA QueuedNone ==
    ASSUME NEW w, NEW a \in Nat
    PROVE  Queued(w, <<>>, a, a)
<1> DEFINE q == <<>>
           p == [i \in 1..1 |-> a]
<1>1. q \in Seq(Seq(Unit)) /\ Len(q) = 0
  OBVIOUS
<1>2. p \in [1..1 -> Nat] /\ p[1] = a
  OBVIOUS
<1> HIDE DEF p, q
<1>3. Marks(w, q, p, a, a)
  BY <1>1, <1>2 DEF Marks
<1>4. Queued(w, q, a, a)
  BY <1>1, <1>3 DEF Queued
<1> QED BY <1>4 DEF q

LEMMA QueuedNothing ==
    ASSUME NEW w, NEW a, NEW b, Queued(w, <<>>, a, b)
    PROVE  a = b
<1>1. Len(<<>>) = 0
  OBVIOUS
<1> DEFINE q == <<>>
<1>2. \E p : Marks(w, q, p, a, b) /\ Len(q) = 0
  BY <1>1 DEF Queued
<1> HIDE DEF q
<1> QED BY <1>2 DEF Marks

LEMMA QueuedAppended ==
    ASSUME NEW w, NEW q, NEW a, NEW b, Queued(w, q, a, b), NEW x, NEW c, Covers(w, x, b, c)
    PROVE  Queued(w, Append(q, x), a, c)
<1>1. PICK p : Marks(w, q, p, a, b)
  BY DEF Queued
<1>2. q \in Seq(Seq(Unit)) /\ x \in Seq(Unit) /\ c \in Nat
  BY DEF Queued, Covers
<1> DEFINE n == Len(q)
           r == Append(q, x)
           o == [i \in 1..(n + 2) |-> IF i = n + 2 THEN c ELSE p[i]]
<1>3. n \in Nat /\ r \in Seq(Seq(Unit)) /\ Len(r) = n + 1 /\ r[n + 1] = x
      /\ \A i \in 1..n : r[i] = q[i]
  BY <1>2
<1>4. p \in [1..(n + 1) -> Nat] /\ p[1] = a /\ p[n + 1] = b
      /\ \A i \in 1..n : Covers(w, q[i], p[i], p[i + 1])
  BY <1>1 DEF Marks
<1> HIDE DEF n, r
<1>5. o \in [1..(n + 2) -> Nat] /\ o[n + 2] = c /\ \A i \in 1..(n + 1) : o[i] = p[i]
  BY <1>2, <1>3, <1>4
<1> HIDE DEF o
<1>6. ASSUME NEW i \in 1..(n + 1) PROVE Covers(w, r[i], o[i], o[i + 1])
  <2>1. CASE i = n + 1
    <3>1. r[i] = x /\ o[i] = b /\ o[i + 1] = c
      <4>1. i + 1 = n + 2 /\ n + 1 \in 1..(n + 1)
        BY <1>3, <2>1
      <4> QED BY <1>3, <1>4, <1>5, <2>1, <4>1
    <3> QED BY <3>1
  <2>2. CASE i # n + 1
    <3>1. i \in 1..n /\ i + 1 \in 1..(n + 1)
      BY <1>3, <2>2
    <3>2. r[i] = q[i] /\ o[i] = p[i] /\ o[i + 1] = p[i + 1]
      BY <1>3, <1>5, <3>1
    <3> QED BY <1>4, <3>1, <3>2
  <2> QED BY <2>1, <2>2
<1>7. o[1] = a /\ o[(n + 1) + 1] = c /\ (n + 1) + 1 = n + 2
  BY <1>3, <1>4, <1>5
<1>8. Marks(w, r, o, a, c)
  BY <1>3, <1>5, <1>6, <1>7 DEF Marks
<1>9. Queued(w, r, a, c)
  BY <1>3, <1>8 DEF Queued
<1> QED BY <1>9 DEF r

LEMMA QueuedTaken ==
    ASSUME NEW w, NEW q, NEW a, NEW b, Queued(w, q, a, b), q # <<>>
    PROVE  \E m : Covers(w, Head(q), a, m) /\ Queued(w, Tail(q), m, b)
<1>1. PICK p : Marks(w, q, p, a, b)
  BY DEF Queued
<1>2. q \in Seq(Seq(Unit))
  BY DEF Queued
<1> DEFINE n == Len(q)
           r == Tail(q)
           o == [i \in 1..n |-> p[i + 1]]
<1>3. n \in Nat /\ n > 0 /\ Head(q) = q[1]
  BY <1>2
<1>4. r \in Seq(Seq(Unit)) /\ Len(r) = n - 1 /\ \A i \in 1..(n - 1) : r[i] = q[i + 1]
  <2> DEFINE T == Seq(Unit)
  <2>1. q \in Seq(T)
    BY <1>2
  <2> HIDE DEF T
  <2>2. r \in Seq(T) /\ Len(r) = n - 1 /\ \A i \in 1..(n - 1) : r[i] = q[i + 1]
    BY <2>1
  <2> QED BY <2>2 DEF T
<1>5. p \in [1..(n + 1) -> Nat] /\ p[1] = a /\ p[n + 1] = b
      /\ \A i \in 1..n : Covers(w, q[i], p[i], p[i + 1])
  BY <1>1 DEF Marks
<1> HIDE DEF n, r
<1>6. o \in [1..n -> Nat] /\ \A i \in 1..n : o[i] = p[i + 1]
  <2>1. \A i \in 1..n : i + 1 \in 1..(n + 1)
    BY <1>3
  <2> QED BY <1>5, <2>1
<1> HIDE DEF o
<1>7. ASSUME NEW i \in 1..(n - 1) PROVE Covers(w, r[i], o[i], o[i + 1])
  <2>1. i \in 1..n /\ i + 1 \in 1..n
    BY <1>3
  <2>2. r[i] = q[i + 1] /\ o[i] = p[i + 1] /\ o[i + 1] = p[(i + 1) + 1]
    BY <1>4, <1>6, <2>1
  <2> QED BY <1>5, <2>1, <2>2
<1>8. (n - 1) + 1 = n /\ 1 \in 1..n /\ n \in 1..n
  BY <1>3
<1>9. o[1] = p[2] /\ o[n] = b
  BY <1>5, <1>6, <1>8
<1>10. Marks(w, r, o, p[2], b)
  BY <1>4, <1>6, <1>7, <1>8, <1>9 DEF Marks
<1>11. Queued(w, r, p[2], b)
  BY <1>4, <1>10 DEF Queued
<1>12. Covers(w, Head(q), a, p[2])
  <2>1. Covers(w, q[1], p[1], p[1 + 1])
    BY <1>5, <1>8
  <2> QED BY <1>3, <1>5, <2>1
<1> QED BY <1>11, <1>12 DEF r

-----------------------------------------------------------------------------
(* Messages, as units and as bodies. *)

Messages(ms) == [i \in 1..Len(ms) |-> Units(ms[i])]

LEMMA SeqAsFunction ==
    ASSUME NEW T, NEW q \in Seq(T)
    PROVE  DOMAIN q = 1..Len(q) /\ q = [i \in 1..Len(q) |-> q[i]] /\ Len(q) \in Nat
  OBVIOUS

LEMMA AppendedSeq ==
    ASSUME NEW T, NEW q \in Seq(T), NEW x \in T
    PROVE  /\ Append(q, x) \in Seq(T) /\ Len(Append(q, x)) = Len(q) + 1
           /\ Append(q, x)[Len(q) + 1] = x
           /\ \A i \in 1..Len(q) : Append(q, x)[i] = q[i]
  OBVIOUS

LEMMA UnitsJoined ==
    ASSUME NEW a \in Seq(Nat), NEW b \in Seq(Nat)
    PROVE  Units(a \o b) = Units(a) \o Units(b)
<1> DEFINE p == Units(a)
           q == Units(b)
           r == a \o b
           z == p \o q
<1>1. /\ p \in Seq([data : Nat]) /\ q \in Seq([data : Nat]) /\ r \in Seq(Nat)
      /\ Len(p) = Len(a) /\ Len(q) = Len(b) /\ Len(r) = Len(a) + Len(b)
      /\ Len(a) \in Nat /\ Len(b) \in Nat
  BY UnitsTyped
<1>2. /\ \A i \in 1..Len(a) : p[i] = Payload(a[i])
      /\ \A i \in 1..Len(b) : q[i] = Payload(b[i])
  BY UnitsTyped
<1>3. \A i \in 1..(Len(a) + Len(b)) : r[i] = IF i <= Len(a) THEN a[i] ELSE b[i - Len(a)]
  BY OneAfterOther
<1> HIDE DEF p, q, r
<1>4. /\ z \in Seq([data : Nat]) /\ Len(z) = Len(p) + Len(q)
      /\ \A i \in 1..(Len(p) + Len(q)) : z[i] = IF i <= Len(p) THEN p[i] ELSE q[i - Len(p)]
  <2>1. p \in Seq([data : Nat]) /\ q \in Seq([data : Nat])
    BY <1>1
  <2> QED BY <2>1, OneAfterOther
<1> HIDE DEF z
<1>5. Units(r) \in Seq([data : Nat]) /\ Len(Units(r)) = Len(r)
      /\ \A i \in 1..Len(r) : Units(r)[i] = Payload(r[i])
  BY <1>1, UnitsTyped
<1>6. ASSUME NEW i \in 1..(Len(a) + Len(b)) PROVE Units(r)[i] = z[i]
  <2>1. Units(r)[i] = Payload(r[i])
    BY <1>1, <1>5
  <2>2. CASE i <= Len(a)
    <3>1. i \in 1..Len(a)
      BY <1>1, <2>2
    <3>2. r[i] = a[i] /\ z[i] = p[i]
      BY <1>1, <1>3, <1>4, <2>2
    <3> QED BY <1>2, <2>1, <3>1, <3>2
  <2>3. CASE ~(i <= Len(a))
    <3>1. i - Len(a) \in 1..Len(b)
      BY <1>1, <2>3
    <3>2. r[i] = b[i - Len(a)]
      BY <1>3, <2>3
    <3>3. z[i] = q[i - Len(a)]
      BY <1>1, <1>4, <2>3
    <3> QED BY <1>2, <2>1, <3>1, <3>2, <3>3
  <2> QED BY <2>2, <2>3
<1>7. Len(Units(r)) = Len(z) /\ Len(z) = Len(a) + Len(b)
  BY <1>1, <1>4, <1>5
<1>8. Units(r) = z
  <2> DEFINE u == Units(r)
  <2>1. /\ u \in Seq([data : Nat]) /\ z \in Seq([data : Nat]) /\ Len(u) = Len(z)
        /\ \A i \in 1..Len(z) : u[i] = z[i]
    BY <1>4, <1>5, <1>6, <1>7
  <2> HIDE DEF u
  <2>2. u = [i \in 1..Len(z) |-> u[i]] /\ z = [i \in 1..Len(z) |-> z[i]]
    BY <2>1, SeqAsFunction
  <2>3. u = z
    BY <2>1, <2>2
  <2> QED BY <2>3 DEF u
<1> QED BY <1>8 DEF p, q, r, z

LEMMA NoUnits == Units(<<>>) = <<>> /\ Messages(<<>>) = <<>>
  BY DEF Units, Messages

LEMMA SomeUnits ==
    ASSUME NEW a \in Seq(Nat), a # <<>>
    PROVE  Units(a) # <<>>
<1>1. Len(a) \in Nat /\ Len(a) # 0 /\ Len(Units(a)) = Len(a)
  BY UnitsTyped
<1>2. Len(<<>>) = 0
  OBVIOUS
<1> QED BY <1>1, <1>2

LEMMA MessagesAppended ==
    ASSUME NEW ms \in Seq(Seq(Nat)), NEW m \in Seq(Nat)
    PROVE  Messages(Append(ms, m)) = Append(Messages(ms), Units(m))
<1> DEFINE n == Len(ms)
           r == Append(ms, m)
           z == Append(Messages(ms), Units(m))
           V == Seq([data : Nat])
<1>1. n \in Nat /\ Len(r) = n + 1 /\ r[n + 1] = m /\ \A i \in 1..n : r[i] = ms[i]
  OBVIOUS
<1>2. \A i \in 1..n : ms[i] \in Seq(Nat) /\ Units(ms[i]) \in V
  BY UnitsTyped
<1>3. Units(m) \in V
  BY UnitsTyped
<1>4. Messages(ms) \in Seq(V) /\ Len(Messages(ms)) = n
      /\ \A i \in 1..n : Messages(ms)[i] = Units(ms[i])
  <2> HIDE DEF V
  <2> QED BY <1>1, <1>2 DEF Messages
<1>5. /\ DOMAIN z = 1..(n + 1) /\ z = [i \in DOMAIN z |-> z[i]]
      /\ z[n + 1] = Units(m) /\ \A i \in 1..n : z[i] = Units(ms[i])
  <2> DEFINE p == Messages(ms)
             u == Units(m)
  <2>1. p \in Seq(V) /\ Len(p) = n /\ u \in V /\ n \in Nat
    BY <1>1, <1>3, <1>4
  <2> HIDE DEF p, u, V, n
  <2>2. /\ Append(p, u) \in Seq(V) /\ Len(Append(p, u)) = n + 1
        /\ Append(p, u)[n + 1] = u /\ \A i \in 1..n : Append(p, u)[i] = p[i]
    BY <2>1, AppendedSeq
  <2>3. z = Append(p, u)
    BY DEF p, u
  <2>4. z \in Seq(V) /\ Len(z) = n + 1
    BY <2>2, <2>3
  <2>5. DOMAIN z = 1..Len(z) /\ z = [i \in 1..Len(z) |-> z[i]]
    <3> HIDE DEF z
    <3> QED BY <2>4, SeqAsFunction
  <2>6. \A i \in 1..n : p[i] = Units(ms[i])
    BY <1>4 DEF p
  <2>7. z[n + 1] = Units(m)
    BY <2>2, <2>3 DEF u
  <2>8. \A i \in 1..n : z[i] = Units(ms[i])
    BY <2>2, <2>3, <2>6
  <2> HIDE DEF z
  <2> QED BY <2>4, <2>5, <2>7, <2>8
<1> HIDE DEF n, r, z
<1>6. Messages(r) = [i \in 1..(n + 1) |-> Units(r[i])]
  BY <1>1 DEF Messages
<1>7. ASSUME NEW i \in 1..(n + 1) PROVE Units(r[i]) = z[i]
  <2>1. i = n + 1 \/ i \in 1..n
    BY <1>1
  <2> QED BY <1>1, <1>5, <2>1
<1> DEFINE G(i) == Units(r[i])
<1>8. z = [i \in 1..(n + 1) |-> G(i)]
  <2> HIDE DEF G
  <2>1. \A i \in 1..(n + 1) : G(i) = z[i]
    BY <1>7 DEF G
  <2>2. z = [i \in 1..(n + 1) |-> z[i]]
    BY <1>5
  <2> QED BY <2>1, <2>2
<1>9. Messages(r) = z
  BY <1>6, <1>8
<1> QED BY <1>9 DEF r, z

\* The services see the bodies that were sent.
LEMMA BodiesOfMessages ==
    ASSUME NEW ms \in Seq(Seq(Nat))
    PROVE  [i \in DOMAIN Messages(ms) |-> Bodies(Messages(ms)[i])] = ms
<1>1. Len(ms) \in Nat /\ DOMAIN ms = 1..Len(ms) /\ ms = [i \in 1..Len(ms) |-> ms[i]]
  OBVIOUS
<1>2. DOMAIN Messages(ms) = 1..Len(ms)
      /\ \A i \in 1..Len(ms) : Messages(ms)[i] = Units(ms[i])
  BY DEF Messages
<1>3. ASSUME NEW b \in Seq(Nat) PROVE Bodies(Units(b)) = b
  <2>1. b = [i \in 1..Len(b) |-> b[i]]
    OBVIOUS
  <2>2. DOMAIN Units(b) = 1..Len(b)
    BY DEF Units
  <2>3. \A i \in 1..Len(b) : Units(b)[i].data = b[i]
    BY DEF Units, Payload
  <2>4. Bodies(Units(b)) = [i \in 1..Len(b) |-> Units(b)[i].data]
    BY <2>2 DEF Bodies
  <2> QED BY <2>1, <2>3, <2>4
<1>4. \A i \in 1..Len(ms) : Bodies(Messages(ms)[i]) = ms[i]
  <2>1. \A i \in 1..Len(ms) : ms[i] \in Seq(Nat)
    OBVIOUS
  <2> QED BY <1>2, <1>3, <2>1
<1> QED BY <1>1, <1>2, <1>4

-----------------------------------------------------------------------------
(* What the assembler holds after k frames. *)

PartialAt(s, k) == [c \in Channel |-> Units(Joined(s, c)[k].part)]
DeliveredAt(s, k) == [c \in Channel |-> Messages(Joined(s, c)[k].whole)]

LEMMA AssembleJoins ==
    ASSUME NEW s \in Seq(Frames), NEW k \in Nat, k + 1 \in 1..Len(s),
           partial = PartialAt(s, k), delivered = DeliveredAt(s, k),
           NEW h, h.ch = s[k + 1].ch, h.first = s[k + 1].first, h.last = s[k + 1].last,
           Assemble(h, Units(s[k + 1].body))
    PROVE  partial' = PartialAt(s, k + 1) /\ delivered' = DeliveredAt(s, k + 1)
<1> DEFINE f == s[k + 1]
<1>0. f \in Frames /\ f.ch \in Channel /\ f.body \in Seq(Nat) /\ f.body # <<>>
      /\ f.first \in BOOLEAN /\ f.last \in BOOLEAN
  <2>1. f \in Frames
    OBVIOUS
  <2> QED BY <2>1, FrameTyped
<1> DEFINE j(c) == Joined(s, c)[k]
           all(c) == (IF f.first THEN <<>> ELSE j(c).part) \o f.body
<1>1. ASSUME NEW c \in Channel
      PROVE  /\ j(c).whole \in Seq(Seq(Nat)) /\ j(c).part \in Seq(Nat) /\ j(c) \in Acc
             /\ Joined(s, c)[k + 1] = Join(c, j(c), f)
             /\ all(c) \in Seq(Nat) /\ all(c) # <<>>
             /\ Units(all(c)) = (IF f.first THEN <<>> ELSE Units(j(c).part)) \o Units(f.body)
  <2>1. k \in 0..Len(s) /\ (k + 1) - 1 = k
    OBVIOUS
  <2>2. j(c) \in Acc
    BY <2>1, JoinedSteps
  <2>3. j(c).whole \in Seq(Seq(Nat)) /\ j(c).part \in Seq(Nat)
    BY <2>2 DEF Acc
  <2>4. Joined(s, c)[k + 1] = Join(c, j(c), f)
    BY <2>1, JoinedSteps
  <2> DEFINE before == IF f.first THEN <<>> ELSE j(c).part
  <2>5. before \in Seq(Nat)
    BY <2>3
  <2>6. Units(before) = IF f.first THEN <<>> ELSE Units(j(c).part)
    BY NoUnits
  <2> HIDE DEF before, j, f
  <2>7. before \o f.body \in Seq(Nat) /\ before \o f.body # <<>>
    <3>1. Len(f.body) \in Nat /\ Len(f.body) # 0
      BY <1>0
    <3>2. Len(before) \in Nat /\ Len(before \o f.body) = Len(before) + Len(f.body)
          /\ before \o f.body \in Seq(Nat)
      BY <1>0, <2>5
    <3>3. Len(before \o f.body) # 0 /\ Len(<<>>) = 0
      BY <3>1, <3>2
    <3> QED BY <3>2, <3>3
  <2>8. Units(before \o f.body) = Units(before) \o Units(f.body)
    BY <1>0, <2>5, UnitsJoined
  <2> QED BY <2>2, <2>3, <2>4, <2>6, <2>7, <2>8 DEF before
<1>2. ASSUME NEW c \in Channel
      PROVE  Joined(s, c)[k + 1] =
                IF f.ch # c THEN j(c)
                ELSE IF f.last THEN [whole |-> Append(j(c).whole, all(c)), part |-> <<>>]
                ELSE [j(c) EXCEPT !.part = all(c)]
  <2> HIDE DEF f, j
  <2> QED BY <1>1 DEF Join
<1> DEFINE old == partial[f.ch]
           whole == (IF f.first THEN <<>> ELSE old) \o Units(f.body)
<1>3. whole = Units(all(f.ch)) /\ whole # <<>>
  <2>1. old = Units(j(f.ch).part)
    BY <1>0 DEF PartialAt
  <2>2. Units(all(f.ch)) # <<>>
    <3> HIDE DEF all, f
    <3> QED BY <1>0, <1>1, SomeUnits
  <2> HIDE DEF f, j, old
  <2> QED BY <1>0, <1>1, <2>1, <2>2
<1>4. /\ partial' = [partial EXCEPT ![f.ch] = IF f.last THEN <<>> ELSE whole]
      /\ delivered' = IF f.last THEN [delivered EXCEPT ![f.ch] = Append(@, whole)]
                                ELSE delivered
  <2> HIDE DEF f
  <2>1. h.ch = f.ch /\ h.first = f.first /\ h.last = f.last /\ Assemble(h, Units(f.body))
    BY DEF f
  <2> QED BY <1>3, <2>1 DEF Assemble
<1> HIDE DEF f, j, all, whole, old
<1>5. ASSUME NEW c \in Channel
      PROVE  /\ Units(Joined(s, c)[k + 1].part) =
                   IF c = f.ch THEN (IF f.last THEN <<>> ELSE whole) ELSE partial[c]
             /\ Messages(Joined(s, c)[k + 1].whole) =
                   IF c = f.ch /\ f.last THEN Append(delivered[c], whole) ELSE delivered[c]
  <2>1. partial[c] = Units(j(c).part) /\ delivered[c] = Messages(j(c).whole)
    BY DEF PartialAt, DeliveredAt, j
  <2>2. CASE f.ch # c
    <3>1. Joined(s, c)[k + 1] = j(c)
      BY <1>2, <2>2
    <3> QED BY <2>1, <2>2, <3>1
  <2>3. CASE f.ch = c /\ f.last
    <3>1. Joined(s, c)[k + 1] = [whole |-> Append(j(c).whole, all(c)), part |-> <<>>]
      BY <1>2, <2>3
    <3>2. Joined(s, c)[k + 1].part = <<>>
          /\ Joined(s, c)[k + 1].whole = Append(j(c).whole, all(c))
      BY <3>1
    <3>3. Messages(Append(j(c).whole, all(c))) = Append(Messages(j(c).whole), Units(all(c)))
      BY <1>1, MessagesAppended
    <3>4. Units(all(c)) = whole
      BY <1>3, <2>3
    <3> QED BY <2>1, <2>3, <3>2, <3>3, <3>4, NoUnits
  <2>4. CASE f.ch = c /\ ~f.last
    <3>1. Joined(s, c)[k + 1] = [j(c) EXCEPT !.part = all(c)]
      BY <1>2, <2>4
    <3>2. j(c) \in Acc
      BY <1>1
    <3>3. Joined(s, c)[k + 1].part = all(c) /\ Joined(s, c)[k + 1].whole = j(c).whole
      BY <3>1, <3>2 DEF Acc
    <3>4. Units(all(c)) = whole
      BY <1>3, <2>4
    <3> QED BY <2>1, <2>4, <3>3, <3>4
  <2> QED BY <2>2, <2>3, <2>4
<1>6. DOMAIN partial = Channel /\ DOMAIN delivered = Channel
  BY DEF PartialAt, DeliveredAt
<1>7. partial' = PartialAt(s, k + 1)
  <2>1. partial' = [c \in Channel |->
                      IF c = f.ch THEN (IF f.last THEN <<>> ELSE whole) ELSE partial[c]]
    BY <1>4, <1>6
  <2> QED BY <1>5, <2>1 DEF PartialAt
<1>8. delivered' = DeliveredAt(s, k + 1)
  <2>1. delivered' = [c \in Channel |->
                        IF c = f.ch /\ f.last THEN Append(delivered[c], whole)
                                              ELSE delivered[c]]
    <3>1. delivered = [c \in Channel |-> delivered[c]]
      BY DEF DeliveredAt
    <3> QED BY <1>4, <1>6, <3>1
  <2> QED BY <1>5, <2>1 DEF DeliveredAt
<1> QED BY <1>7, <1>8

-----------------------------------------------------------------------------
(* The invariant of the stream. *)

\* The frames as units, all of them in a row, and where each one begins.
Codes(s) == [i \in DOMAIN s |-> Encoded(s[i])]
Sending(s) == FlattenSeq(Codes(s))
Start(s) == CHOOSE at : Laid(Codes(s), at)

LEMMA StreamLaid ==
    ASSUME NEW s \in Seq(Frames)
    PROVE  /\ Len(s) \in Nat /\ Sending(s) \in Seq(Unit) /\ Len(Sending(s)) \in Nat
           /\ Start(s) \in [0..Len(s) -> Nat]
           /\ Start(s)[0] = 0 /\ Start(s)[Len(s)] = Len(Sending(s))
           /\ \A k \in 0..Len(s) : Start(s)[k] <= Len(Sending(s))
           /\ \A k \in 1..Len(s) :
                 /\ Start(s)[k] = Start(s)[k - 1] + Len(Encoded(s[k]))
                 /\ \A j \in 1..Len(Encoded(s[k])) :
                       Sending(s)[Start(s)[k - 1] + j] = Encoded(s[k])[j]
<1> DEFINE q == Codes(s)
<1>1. DOMAIN s = 1..Len(s) /\ Len(s) \in Nat /\ \A i \in 1..Len(s) : s[i] \in Frames
  OBVIOUS
<1>2. \A i \in 1..Len(s) : Encoded(s[i]) \in Seq(Unit)
  BY <1>1, EncodedTyped
<1> DEFINE E(i) == Encoded(s[i])
<1>3. q = [i \in 1..Len(s) |-> E(i)]
  BY <1>1 DEF Codes
<1>4. q \in Seq(Seq(Unit)) /\ Len(q) = Len(s) /\ \A i \in 1..Len(s) : q[i] = E(i)
  <2> DEFINE V == Seq(Unit)
  <2>1. \A i \in 1..Len(s) : E(i) \in V
    BY <1>2
  <2> HIDE DEF q, E, V
  <2>2. q \in Seq(V) /\ Len(q) = Len(s) /\ \A i \in 1..Len(s) : q[i] = E(i)
    BY <1>1, <1>3, <2>1
  <2> QED BY <2>2 DEF V
<1> HIDE DEF q
<1>5. FlattenSeq(q) \in Seq(Unit) /\ \E at : Laid(q, at)
  BY <1>4, FlatLaid
<1> DEFINE a == CHOOSE at : Laid(q, at)
<1>6. Laid(q, a)
  BY <1>5
<1>7. Start(s) = a /\ Sending(s) = FlattenSeq(q)
  BY DEF Start, Sending, q
<1> HIDE DEF a, E
<1>8. Len(FlattenSeq(q)) \in Nat
  BY <1>5
<1>9. /\ a \in [0..Len(s) -> Nat] /\ a[0] = 0 /\ a[Len(s)] = Len(FlattenSeq(q))
      /\ \A k \in 0..Len(s) : a[k] <= Len(FlattenSeq(q))
  BY <1>4, <1>6 DEF Laid
<1>10. ASSUME NEW k \in 1..Len(s)
       PROVE  /\ a[k] = a[k - 1] + Len(E(k))
              /\ \A j \in 1..Len(E(k)) : FlattenSeq(q)[a[k - 1] + j] = E(k)[j]
  <2>1. k \in 1..Len(q) /\ q[k] = E(k)
    BY <1>4
  <2>2. /\ a[k] = a[k - 1] + Len(q[k])
        /\ \A j \in 1..Len(q[k]) : FlattenSeq(q)[a[k - 1] + j] = q[k][j]
    BY <1>6, <2>1, Zenon DEF Laid
  <2> QED BY <2>1, <2>2
<1> QED BY <1>1, <1>5, <1>7, <1>8, <1>9, <1>10 DEF E

\* The units of the chunk that is posted, and of the one that has been read.
Posted == IF due = <<>> \/ due = <<Failure>> \/ due = <<Aborted>> THEN <<>> ELSE due[1]
Got == IF result = Failure THEN <<>> ELSE result

\* k frames have been handled; the buffer of the Framer begins with the next one.
Handled(k, b) ==
    /\ k \in 0..Len(stream)
    /\ partial = PartialAt(stream, k) /\ delivered = DeliveredAt(stream, k)
    /\ Covers(Sending(stream), recv, Start(stream)[k], b)

\* What has been read and not been posted, and what will be read, is the rest.
Rest(d) ==
    \E e, g : /\ Queued(Sending(stream), rx, d, e)
              /\ Covers(Sending(stream), Got, e, g)
              /\ Covers(Sending(stream), wire, g, Len(Sending(stream)))

\* The buffer of the Framer, the posted chunk, the queue, the last read and the wire
\* follow each other, from the frame that is handled next to the end of the stream.
Contiguous ==
    \E k, b, d : /\ Handled(k, b)
                 /\ Covers(Sending(stream), Posted, b, d)
                 /\ ~closed => Rest(d)

\* Until a chunk is dropped or a fragment not decrypted, nothing is missing or moved.
StreamInv ==
    /\ stream \in Streams
    /\ under # "done" => result = <<>>
    /\ ~lost => Contiguous

LEMMA StreamTyped ==
    ASSUME StreamInv
    PROVE  stream \in Seq(Frames) /\ Sending(stream) \in Seq(Unit)
           /\ Len(Sending(stream)) \in Nat
           /\ \A i \in 1..Len(stream) : Len(stream[i].body) <= MaxLength
<1>1. stream \in Seq(Frames) /\ \A i \in DOMAIN stream : Len(stream[i].body) <= MaxLength
  BY StreamAssumption DEF StreamInv
<1> QED BY <1>1, StreamLaid

LEMMA NoData == <<>> # Failure /\ <<>> # Aborted
<1>1. Len(<<>>) = 0 /\ Len(Failure) = 1 /\ Len(Aborted) = 1
  BY DEF Failure, Aborted
<1> QED BY <1>1

LEMMA PostedOnly ==
    ASSUME NEW x, due = <<x>>
    PROVE  /\ x # Failure /\ x # Aborted => Posted = x
           /\ x = Failure \/ x = Aborted => Posted = <<>>
<1>1. due[1] = x /\ due # <<>>
  OBVIOUS
<1>2. \A y : <<x>> = <<y>> => x = y
  OBVIOUS
<1> QED BY <1>1, <1>2 DEF Posted

LEMMA PostedNothing == due = <<>> => Posted = <<>>
  BY DEF Posted

LEMMA ContiguousAgain ==
    ASSUME NEW k, NEW b, NEW d, Handled(k, b)', Covers(Sending(stream), Posted, b, d)',
           ~closed' => Rest(d)'
    PROVE  Contiguous'
  BY Zenon DEF Contiguous

-----------------------------------------------------------------------------
(* The actions, for the stream. *)

\* What is read next follows what was read before.
LEMMA UnderlyingReadStream ==
    ASSUME IInv, StreamInv, UnderlyingRead
    PROVE  StreamInv'
<1> DEFINE w == Sending(stream)
<1>0. /\ UNCHANGED <<stream, rx, due, closed, lost, recv, partial, delivered>>
      /\ under = "reading" /\ ~closed /\ under' = "done"
  BY DEF UnderlyingRead, sessionVars
<1>1. SUFFICES ASSUME ~lost PROVE Contiguous'
  BY <1>0 DEF StreamInv
<1>2. PICK k, b, d : Handled(k, b) /\ Covers(w, Posted, b, d) /\ Rest(d)
  BY <1>0, <1>1 DEF StreamInv, Contiguous
<1>3. PICK e, g : Queued(w, rx, d, e) /\ Covers(w, Got, e, g) /\ Covers(w, wire, g, Len(w))
  BY <1>2 DEF Rest
<1>4. Got = <<>>
  BY <1>0, NoData DEF StreamInv, Got
<1>5. e = g
  BY <1>3, <1>4, CoversNothing
<1>6. w \in Seq(Unit) /\ w' = w
  BY <1>0, StreamTyped
<1>7. Handled(k, b)' /\ Covers(w, Posted, b, d)'
  BY <1>0, <1>2 DEF Handled, Posted
<1>8. Rest(d)'
  <2>1. CASE \E n \in 1..Len(wire) : /\ n <= MaxChunk
                                     /\ result' = SubSeq(wire, 1, n)
                                     /\ wire' = SubSeq(wire, n + 1, Len(wire))
    <3>1. PICK n \in 1..Len(wire) : /\ result' = SubSeq(wire, 1, n)
                                    /\ wire' = SubSeq(wire, n + 1, Len(wire))
      BY <2>1
    <3>2. n \in Nat /\ n <= Len(wire)
      OBVIOUS
    <3> HIDE DEF w
    <3>3. Covers(w, result', g, g + n) /\ Covers(w, wire', g + n, Len(w))
      BY <1>3, <1>6, <3>1, <3>2, CoversSplit
    <3>4. Got' = result'
      BY <3>3, CoversIsData DEF Got
    <3>5. Queued(w, rx', d, g) /\ Covers(w, Got', g, g + n)
      BY <1>0, <1>3, <1>5, <3>3, <3>4
    <3> QED BY <1>6, <3>3, <3>5 DEF Rest, w
  <2>2. CASE result' = Failure /\ UNCHANGED wire
    <3>1. Got' = <<>>
      BY <2>2 DEF Got
    <3>2. Queued(w, rx', d, e) /\ Covers(w, Got', e, g) /\ Covers(w, wire', g, Len(w))
      BY <1>0, <1>3, <1>4, <2>2, <3>1
    <3> QED BY <1>6, <3>2 DEF Rest
  <2> QED BY <2>1, <2>2 DEF UnderlyingRead
<1> QED BY <1>7, <1>8, ContiguousAgain

\* A chunk goes to a parked reader, when the queue is empty, or behind the queue.
LEMMA OnUnderlyingReadStream ==
    ASSUME IInv, StreamInv, OnUnderlyingRead
    PROVE  StreamInv'
<1> DEFINE w == Sending(stream)
<1>0. /\ UNCHANGED <<stream, wire, closed, recv, partial, delivered>>
      /\ under = "done" /\ ~feeding /\ result' = <<>>
  BY DEF OnUnderlyingRead, sessionVars
<1>1. SUFFICES ASSUME ~lost' PROVE Contiguous'
  BY <1>0 DEF StreamInv
<1>2. ~lost
  BY <1>1 DEF OnUnderlyingRead, Buffer
<1>3. PICK k, b, d : /\ Handled(k, b) /\ Covers(w, Posted, b, d)
                     /\ ~closed => Rest(d)
  BY <1>2 DEF StreamInv, Contiguous
<1>4. w \in Seq(Unit) /\ w' = w
  BY <1>0, StreamTyped
<1>5. Handled(k, b)' /\ Got' = <<>>
  BY <1>0, <1>3, NoData DEF Handled, Got
<1>6. CASE closed
  <2>1. due' = due
    BY <1>6 DEF OnUnderlyingRead
  <2>2. Posted' = Posted
    BY <2>1 DEF Posted
  <2> QED BY <1>0, <1>3, <1>4, <1>5, <1>6, <2>2, ContiguousAgain
<1>7. CASE ~closed
  <2>1. PICK e, g : /\ Queued(w, rx, d, e) /\ Covers(w, Got, e, g)
                    /\ Covers(w, wire, g, Len(w))
    BY <1>3, <1>7 DEF Rest
  <2>2. g \in Nat /\ g <= Len(w)
    BY <2>1 DEF Covers
  <2> HIDE DEF w
  <2>3. Covers(w, <<>>, g, g)
    BY <1>4, <2>2, CoversNone
  <2>4. CASE result = Failure
    <3>1. OnError /\ rx' = rx
      BY <1>7, <2>4 DEF OnUnderlyingRead
    <3>2. Posted' = Posted
      <4>1. CASE parked
        <5>1. due = <<>> /\ due' = <<Failure>>
          BY <3>1, <4>1 DEF OnError, InvokeHandler, IInv, ReadInv
        <5> QED BY <5>1 DEF Posted
      <4>2. CASE ~parked
        BY <3>1, <4>2 DEF OnError, Posted
      <4> QED BY <4>1, <4>2
    <3>3. Got = <<>>
      BY <2>4 DEF Got
    <3>4. Queued(w, rx', d, e) /\ Covers(w, Got', e, g) /\ Covers(w, wire', g, Len(w))
      BY <1>0, <1>5, <2>1, <3>1, <3>3
    <3>5. Rest(d)'
      BY <1>4, <3>4 DEF Rest, w
    <3>6. Covers(w', Posted', b, d)
      BY <1>3, <1>4, <3>2
    <3> QED BY <1>5, <3>5, <3>6, ContiguousAgain DEF w
  <2>5. CASE result # Failure
    <3>1. Covers(w, result, e, g)
      BY <2>1, <2>5 DEF Got
    <3>2. CASE parked
      <4>1. due = <<>> /\ rx = <<>>
        BY <3>2 DEF IInv, ReadInv, QueueInv
      <4>2. due' = <<result>> /\ rx' = rx
        BY <1>7, <2>5, <3>2 DEF OnUnderlyingRead, InvokeHandler
      <4>3. b = d /\ d = e
        BY <1>3, <2>1, <4>1, PostedNothing, CoversNothing, QueuedNothing DEF w
      <4>4. result # Failure /\ result # Aborted
        BY <3>1, CoversIsData
      <4>5. Posted' = result
        <5> DEFINE r == result
        <5>1. due' = <<r>> /\ due'[1] = r /\ due' # <<>>
          BY <4>2
        <5>2. \A y : <<r>> = <<y>> => r = y
          OBVIOUS
        <5> HIDE DEF r
        <5>3. due' # <<Failure>> /\ due' # <<Aborted>>
          BY <4>4, <5>1, <5>2 DEF r
        <5> QED BY <5>1, <5>3 DEF Posted, r
      <4>6. Covers(w, Posted', b, g)
        BY <3>1, <4>3, <4>5
      <4>7. Queued(w, rx', g, g)
        BY <2>2, <4>1, <4>2, QueuedNone
      <4>8. Covers(w, Got', g, g) /\ Covers(w, wire', g, Len(w))
        BY <1>0, <1>5, <2>1, <2>3
      <4>9. Rest(g)'
        BY <1>4, <4>7, <4>8 DEF Rest, w
      <4>10. Covers(w', Posted', b, g)
        BY <1>4, <4>6
      <4> QED BY <1>5, <4>9, <4>10, ContiguousAgain DEF w
    <3>3. CASE ~parked
      <4>1. Buffer(result) /\ due' = due
        BY <1>7, <2>5, <3>3 DEF OnUnderlyingRead
      <4>2. rx' = Append(rx, result)
        BY <1>1, <4>1 DEF Buffer
      <4>3. Queued(w, rx', d, g)
        BY <2>1, <3>1, <4>2, QueuedAppended
      <4>4. Covers(w, Got', g, g) /\ Covers(w, wire', g, Len(w))
        BY <1>0, <1>5, <2>1, <2>3
      <4>5. Rest(d)'
        BY <1>4, <4>3, <4>4 DEF Rest, w
      <4>6. Covers(w', Posted', b, d)
        BY <1>3, <1>4, <4>1 DEF Posted
      <4> QED BY <1>5, <4>5, <4>6, ContiguousAgain DEF w
    <3> QED BY <3>2, <3>3
  <2> QED BY <2>4, <2>5
<1> QED BY <1>6, <1>7

\* async_read, by a session without a read: the next chunk is the one that follows.
LEMMA StartReadStream ==
    ASSUME IInv, StreamInv, due = <<>>, StartRead,
           UNCHANGED <<stream, wire, under, result, closed, lost, recv, partial, delivered>>
    PROVE  StreamInv'
<1> DEFINE w == Sending(stream)
<1>1. SUFFICES ASSUME ~lost PROVE Contiguous'
  BY DEF StreamInv
<1>2. PICK k, b, d : /\ Handled(k, b) /\ Covers(w, Posted, b, d)
                     /\ ~closed => Rest(d)
  BY <1>1 DEF StreamInv, Contiguous
<1>3. Handled(k, b)' /\ w' = w /\ Got' = Got
  BY <1>2 DEF Handled, Got
<1>4. CASE closed
  <2>1. UNCHANGED <<rx, due>>
    BY <1>4 DEF StartRead
  <2>2. Covers(w', Posted', b, d)
    BY <1>2, <1>3, <2>1 DEF Posted
  <2> QED BY <1>3, <1>4, <2>2, ContiguousAgain
<1>5. CASE ~closed
  <2>1. AsyncRead
    BY <1>5 DEF StartRead
  <2>2. PICK e, g : /\ Queued(w, rx, d, e) /\ Covers(w, Got, e, g)
                    /\ Covers(w, wire, g, Len(w))
    BY <1>2, <1>5 DEF Rest
  <2>3. b = d /\ Posted = <<>>
    BY <1>2, PostedNothing, CoversNothing
  <2>4. CASE rx # <<>> /\ due' = <<Head(rx)>> /\ rx' = Tail(rx)
    <3>1. PICK m : Covers(w, Head(rx), d, m) /\ Queued(w, Tail(rx), m, e)
      <4> HIDE DEF w
      <4> QED BY <2>2, <2>4, QueuedTaken
    <3> DEFINE x == Head(rx)
    <3>2. x # Failure /\ x # Aborted
      <4> HIDE DEF w
      <4> QED BY <3>1, CoversIsData
    <3>3. due' = <<x>>
      BY <2>4
    <3>4. Posted' = x
      <4>1. due'[1] = x /\ due' # <<>>
        BY <3>3
      <4>2. \A y : <<x>> = <<y>> => x = y
        OBVIOUS
      <4>3. due' # <<Failure>> /\ due' # <<Aborted>>
        BY <3>2, <3>3, <4>2
      <4> QED BY <4>1, <4>3 DEF Posted
    <3>5. Covers(w', Posted', b, m)
      BY <1>3, <2>3, <3>1, <3>4
    <3>6. Rest(m)'
      BY <1>3, <2>2, <2>4, <3>1 DEF Rest
    <3> QED BY <1>3, <3>5, <3>6, ContiguousAgain
  <2>5. CASE rx' = rx /\ (due' = <<Failure>> \/ due' = due)
    <3>1. Posted' = <<>>
      BY <2>5 DEF Posted
    <3>2. Covers(w', Posted', b, d)
      BY <1>2, <1>3, <2>3, <3>1
    <3>3. Rest(d)'
      BY <1>3, <2>2, <2>5 DEF Rest
    <3> QED BY <1>3, <3>2, <3>3, ContiguousAgain
  <2> QED BY <2>1, <2>4, <2>5 DEF AsyncRead, InvokeHandler
<1> QED BY <1>4, <1>5

LEMMA SessionStartStream ==
    ASSUME IInv, StreamInv, SessionStart
    PROVE  StreamInv'
<1>1. /\ due = <<>> /\ StartRead
      /\ UNCHANGED <<stream, wire, under, result, closed, lost, recv, partial, delivered>>
  BY DEF SessionStart, sessionVars, IInv, ReadInv
<1> QED BY <1>1, StartReadStream

LEMMA EndFeedStream ==
    ASSUME IInv, StreamInv, EndFeed
    PROVE  StreamInv'
<1>1. /\ due = <<>> /\ StartRead
      /\ UNCHANGED <<stream, wire, under, result, closed, lost, recv, partial, delivered>>
  BY DEF EndFeed, IInv, ReadInv
<1> QED BY <1>1, StartReadStream

\* The posted chunk follows what the Framer has.
LEMMA OnReadCompleteStream ==
    ASSUME IInv, StreamInv, OnReadComplete
    PROVE  StreamInv'
<1> DEFINE w == Sending(stream)
<1>0. /\ due # <<>> /\ due' = <<>>
      /\ UNCHANGED <<stream, wire, result, lost, partial, delivered>>
  BY DEF OnReadComplete
<1>1. under' # "done" => result' = <<>>
  BY <1>0 DEF OnReadComplete, Close, StreamInv
<1>2. SUFFICES ASSUME ~lost PROVE Contiguous'
  BY <1>0, <1>1 DEF StreamInv
<1>3. PICK k, b, d : /\ Handled(k, b) /\ Covers(w, Posted, b, d)
                     /\ ~closed => Rest(d)
  BY <1>2 DEF StreamInv, Contiguous
<1>4. PICK x : due = <<x>>
  BY <1>0 DEF IInv, ReadInv
<1>5. due[1] = x
  BY <1>4
<1>6. Posted' = <<>> /\ w' = w /\ Got' = Got
  BY <1>0, PostedNothing DEF Posted, Got
<1>7. w \in Seq(Unit)
  BY StreamTyped
<1>8. CASE x = Failure \/ x = Aborted
  <2>1. recv' = recv /\ (closed' \/ UNCHANGED <<rx, closed>>)
    BY <1>5, <1>8 DEF OnReadComplete, Close
  <2>2. Posted = <<>>
    BY <1>4, <1>8, PostedOnly
  <2>3. Handled(k, b)' /\ Covers(w', Posted', b, d)
    BY <1>0, <1>3, <1>6, <2>1, <2>2 DEF Handled
  <2>4. ~closed' => Rest(d)'
    BY <1>0, <1>3, <1>6, <2>1 DEF Rest
  <2> QED BY <2>3, <2>4, ContiguousAgain
<1>9. CASE x # Failure /\ x # Aborted
  <2>1. recv' = recv \o x /\ UNCHANGED <<rx, closed>>
    BY <1>5, <1>9 DEF OnReadComplete, Feed
  <2>2. Posted = x
    BY <1>4, <1>9, PostedOnly
  <2>3. Covers(w, recv, Start(stream)[k], b) /\ Covers(w, x, b, d)
    BY <1>3, <2>2 DEF Handled
  <2>4. Covers(w, recv', Start(stream)[k], d)
    <3> HIDE DEF w
    <3> QED BY <1>7, <2>1, <2>3, CoversJoined
  <2>5. Handled(k, d)'
    BY <1>0, <1>3, <1>6, <2>4 DEF Handled
  <2>6. Covers(w', Posted', d, d)
    <3>1. d \in Nat /\ d <= Len(w)
      BY <2>3 DEF Covers
    <3> HIDE DEF w
    <3> QED BY <1>6, <1>7, <3>1, CoversNone
  <2>7. ~closed' => Rest(d)'
    BY <1>0, <1>3, <1>6, <2>1 DEF Rest
  <2> QED BY <2>5, <2>6, <2>7, ContiguousAgain
<1> QED BY <1>8, <1>9

LEMMA SessionEndsStream ==
    ASSUME IInv, StreamInv, SessionEnds
    PROVE  StreamInv'
<1>0. /\ closed' /\ (due' = due \/ (due = <<>> /\ due' = <<Aborted>>))
      /\ UNCHANGED <<stream, result, lost, recv, partial, delivered>>
  BY DEF SessionEnds, Close, InvokeHandler, sessionVars, IInv, ReadInv
<1>1. under' # "done" => result' = <<>>
  BY <1>0 DEF SessionEnds, Close, StreamInv
<1>2. SUFFICES ASSUME ~lost PROVE Contiguous'
  BY <1>0, <1>1 DEF StreamInv
<1>3. PICK k, b, d : Handled(k, b) /\ Covers(Sending(stream), Posted, b, d)
  BY <1>2 DEF StreamInv, Contiguous
<1>4. Posted' = Posted
  BY <1>0 DEF Posted
<1>5. Handled(k, b)' /\ Covers(Sending(stream), Posted, b, d)'
  BY <1>0, <1>3, <1>4 DEF Handled
<1> QED BY <1>0, <1>5, ContiguousAgain

-----------------------------------------------------------------------------
(* A fragment. *)

LEMMA Sliced ==
    ASSUME NEW T, NEW x \in Seq(T), NEW m \in Nat, NEW n \in Nat, m + n <= Len(x)
    PROVE  SubSeq(x, m + 1, m + n) = [j \in 1..n |-> x[m + j]]
<1>1. Len(x) \in Nat /\ (m + n) - (m + 1) + 1 = n
  OBVIOUS
<1>2. SubSeq(x, m + 1, m + n) = [i \in 1..n |-> x[i + (m + 1) - 1]]
  BY <1>1
<1>3. \A i \in 1..n : i + (m + 1) - 1 = m + i
  OBVIOUS
<1> QED BY <1>2, <1>3

\* While nothing is lost, the first two units of the buffer are the header of the
\* next frame, and when all of it is there its payload is the frame's.
LEMMA HeaderIsNext ==
    ASSUME StreamInv, NEW k, NEW b, Handled(k, b), Len(recv) >= HeaderSize,
           NEW h \in HeaderRead
    PROVE  /\ k \in Nat /\ k + 1 \in 1..Len(stream)
           /\ h.ch = stream[k + 1].ch /\ h.first = stream[k + 1].first
           /\ h.last = stream[k + 1].last /\ h.len = Len(stream[k + 1].body)
           /\ FrameSize(h) = Len(Encoded(stream[k + 1]))
<1> DEFINE w == Sending(stream)
           at == Start(stream)
           n == Len(stream)
           f == stream[k + 1]
<1>1. stream \in Seq(Frames) /\ w \in Seq(Unit) /\ Len(w) \in Nat
  BY StreamTyped
<1>2. n \in Nat /\ k \in 0..n /\ Covers(w, recv, at[k], b)
  BY <1>1 DEF Handled
<1>3. at \in [0..n -> Nat] /\ at[n] = Len(w)
  BY <1>1, StreamLaid
<1>4. recv \in Seq(Unit) /\ at[k] + Len(recv) = b /\ b <= Len(w) /\ b \in Nat
      /\ at[k] \in Nat /\ \A i \in 1..Len(recv) : recv[i] = w[at[k] + i]
  BY <1>2 DEF Covers
<1>5. Len(recv) \in Nat /\ Len(recv) >= 2
  BY <1>4 DEF HeaderSize
<1> HIDE DEF w, at, n
<1>6. k # n
  <2>1. \A l \in Nat : l >= 2 /\ at[k] + l = b => at[k] # Len(w)
    BY <1>1, <1>4
  <2> QED BY <1>3, <1>4, <1>5, <2>1
<1>7. k \in Nat /\ k + 1 \in 1..n /\ (k + 1) - 1 = k
  BY <1>2, <1>6
<1>8. f \in Frames
  BY <1>1, <1>7 DEF n
<1>9. \A j \in 1..Len(Encoded(f)) : w[at[k] + j] = Encoded(f)[j]
  <2>1. \A i \in 1..n : \A j \in 1..Len(Encoded(stream[i])) :
            w[at[i - 1] + j] = Encoded(stream[i])[j]
    BY <1>1, StreamLaid DEF w, at, n
  <2> QED BY <1>7, <2>1
<1>10. /\ Len(Encoded(f)) = HeaderSize + Extra(f) + Len(f.body)
       /\ Encoded(f)[1] = Flags(f) /\ Encoded(f)[2] = Size(Len(f.body))
       /\ Extra(f) \in {0, 1} /\ Len(f.body) \in Nat /\ HeaderSize = 2
  BY <1>8, EncodedTyped, ExtraTyped, FrameTyped DEF HeaderSize
<1> HIDE DEF f
<1>11. 1 \in 1..Len(Encoded(f)) /\ 2 \in 1..Len(Encoded(f))
       /\ 1 \in 1..Len(recv) /\ 2 \in 1..Len(recv)
  BY <1>5, <1>10
<1>12. recv[1] = Flags(f) /\ recv[2] = Size(Len(f.body))
  BY <1>4, <1>9, <1>10, <1>11
<1>13. recv[1] = Flags(h) /\ recv[2] = Size(h.len)
  <2>1. "ch" \in DOMAIN recv[1] /\ "len" \in DOMAIN recv[2]
    BY <1>12 DEF Flags, Size
  <2> QED BY <2>1 DEF HeaderRead
<1>14. h.ch = f.ch /\ h.first = f.first /\ h.last = f.last
  BY <1>12, <1>13 DEF Flags
<1>15. h.len = Len(f.body)
  BY <1>12, <1>13 DEF Size
<1>16. FrameSize(h) = Len(Encoded(f))
  BY <1>10, <1>14, <1>15 DEF FrameSize, Extra
<1> QED BY <1>7, <1>14, <1>15, <1>16 DEF n, f

LEMMA PayloadIsNext ==
    ASSUME StreamInv, NEW k \in Nat, NEW b, Handled(k, b), k + 1 \in 1..Len(stream),
           Len(Encoded(stream[k + 1])) <= Len(recv)
    PROVE  LET f == stream[k + 1]
               l == Len(Encoded(f))
           IN  /\ SubSeq(recv, l - Len(f.body) + 1, l) = Units(f.body)
               /\ Covers(Sending(stream), SubSeq(recv, l + 1, Len(recv)),
                         Start(stream)[k + 1], b)
<1> DEFINE w == Sending(stream)
           at == Start(stream)
           f == stream[k + 1]
           l == Len(Encoded(f))
           m == HeaderSize + Extra(f)
           n == Len(f.body)
<1>1. stream \in Seq(Frames) /\ w \in Seq(Unit)
  BY StreamTyped
<1>2. Covers(w, recv, at[k], b)
  BY DEF Handled
<1>3. f \in Frames
  BY <1>1
<1>4. l = m + n /\ m \in Nat /\ n \in Nat /\ \A j \in 1..n : Encoded(f)[m + j] = Payload(f.body[j])
  <2>1. Extra(f) \in {0, 1} /\ HeaderSize = 2 /\ n \in Nat
    BY <1>3, ExtraTyped, FrameTyped DEF HeaderSize
  <2> QED BY <1>3, <2>1, EncodedTyped
<1>5. (k + 1) - 1 = k
  OBVIOUS
<1>6. at[k + 1] = at[k] + l /\ \A j \in 1..l : w[at[k] + j] = Encoded(f)[j]
  <2>1. \A i \in 1..Len(stream) :
           /\ at[i] = at[i - 1] + Len(Encoded(stream[i]))
           /\ \A j \in 1..Len(Encoded(stream[i])) :
                 w[at[i - 1] + j] = Encoded(stream[i])[j]
    BY <1>1, StreamLaid
  <2> HIDE DEF w, at
  <2> QED BY <1>5, <2>1
<1>7. recv \in Seq(Unit) /\ \A i \in 1..Len(recv) : recv[i] = w[at[k] + i]
  BY <1>2 DEF Covers
<1>8. Len(recv) \in Nat /\ l \in Nat /\ l <= Len(recv)
  BY <1>4, <1>7
<1> HIDE DEF w, at, f, l, m, n
<1>9. Covers(w, SubSeq(recv, l + 1, Len(recv)), at[k + 1], b)
  BY <1>1, <1>2, <1>6, <1>8, CoversSplit
<1>10. SubSeq(recv, m + 1, m + n) = [j \in 1..n |-> recv[m + j]]
  BY <1>4, <1>7, <1>8, Sliced
<1>11. ASSUME NEW j \in 1..n PROVE recv[m + j] = Payload(f.body[j])
  <2>1. m + j \in 1..l /\ m + j \in 1..Len(recv)
    BY <1>4, <1>8
  <2>2. recv[m + j] = w[at[k] + (m + j)]
    BY <1>7, <2>1
  <2>3. w[at[k] + (m + j)] = Encoded(f)[m + j]
    BY <1>6, <2>1
  <2> QED BY <1>4, <2>2, <2>3
<1>12. Units(f.body) = [j \in 1..n |-> Payload(f.body[j])]
  BY DEF Units, n
<1>13. SubSeq(recv, m + 1, m + n) = Units(f.body)
  BY <1>10, <1>11, <1>12
<1>14. l - n + 1 = m + 1
  BY <1>4
<1>15. SubSeq(recv, l - n + 1, l) = Units(f.body)
  BY <1>4, <1>13, <1>14
<1> QED BY <1>9, <1>15 DEF w, at, f, l, n

\* A fragment that is decrypted is one frame more.
LEMMA ParseFragmentStream ==
    ASSUME IInv, StreamInv, ParseFragment
    PROVE  StreamInv'
<1> DEFINE w == Sending(stream)
<1>0. UNCHANGED <<stream, wire, result, due>> /\ Len(recv) >= HeaderSize
  BY DEF ParseFragment
<1>1. under' # "done" => result' = <<>>
  BY <1>0 DEF ParseFragment, CannotDecrypt, Close, StreamInv
<1>2. SUFFICES ASSUME ~lost' PROVE Contiguous'
  BY <1>0, <1>1 DEF StreamInv
<1>3. PICK h \in HeaderRead :
         /\ FrameSize(h) <= Len(recv)
         /\ recv' = SubSeq(recv, FrameSize(h) + 1, Len(recv))
         /\ Assemble(h, SubSeq(recv, FrameSize(h) - h.len + 1, FrameSize(h)))
         /\ UNCHANGED <<under, rx, parked, closed, lost>>
  BY <1>2 DEF ParseFragment, CannotDecrypt
<1>4. PICK k, b, d : /\ Handled(k, b) /\ Covers(w, Posted, b, d)
                     /\ ~closed => Rest(d)
  BY <1>2, <1>3 DEF StreamInv, Contiguous
<1> DEFINE f == stream[k + 1]
           l == Len(Encoded(f))
<1>5. /\ k \in Nat /\ k + 1 \in 1..Len(stream)
      /\ h.ch = f.ch /\ h.first = f.first /\ h.last = f.last /\ h.len = Len(f.body)
      /\ FrameSize(h) = l
  BY <1>0, <1>4, HeaderIsNext
<1>6. /\ SubSeq(recv, l - Len(f.body) + 1, l) = Units(f.body)
      /\ Covers(w, SubSeq(recv, l + 1, Len(recv)), Start(stream)[k + 1], b)
  <2>1. l <= Len(recv)
    BY <1>3, <1>5
  <2> QED BY <1>4, <1>5, <2>1, PayloadIsNext
<1>7. Assemble(h, Units(f.body)) /\ Covers(w, recv', Start(stream)[k + 1], b)
  <2> HIDE DEF f, l, w
  <2> QED BY <1>3, <1>5, <1>6
<1>8. partial' = PartialAt(stream, k + 1) /\ delivered' = DeliveredAt(stream, k + 1)
  <2>1. stream \in Seq(Frames) /\ partial = PartialAt(stream, k)
        /\ delivered = DeliveredAt(stream, k)
    BY <1>4, StreamTyped DEF Handled
  <2> QED BY <1>5, <1>7, <2>1, AssembleJoins
<1>9. Handled(k + 1, b)'
  <2>1. k + 1 \in 0..Len(stream)
    BY <1>5
  <2> QED BY <1>0, <1>7, <1>8, <2>1 DEF Handled
<1>10. Covers(w', Posted', b, d)
  BY <1>0, <1>4 DEF Posted
<1>11. ~closed' => Rest(d)'
  BY <1>0, <1>3, <1>4 DEF Rest, Got
<1> QED BY <1>9, <1>10, <1>11, ContiguousAgain

LEMMA StreamInit == Init => StreamInv
<1> SUFFICES ASSUME Init PROVE StreamInv
  OBVIOUS
<1> DEFINE w == Sending(stream)
<1>1. stream \in Streams /\ stream \in Seq(Frames)
  BY StreamAssumption DEF Init
<1>2. /\ wire = w /\ result = <<>> /\ rx = <<>> /\ due = <<>> /\ recv = <<>>
      /\ partial = [c \in Channel |-> <<>>] /\ delivered = [c \in Channel |-> <<>>]
  BY DEF Init, Sending, Codes
<1>3. w \in Seq(Unit) /\ Len(w) \in Nat /\ Start(stream)[0] = 0 /\ Len(stream) \in Nat
  BY <1>1, StreamLaid
<1> HIDE DEF w
<1>4. Covers(w, <<>>, 0, 0) /\ Covers(w, w, 0, Len(w)) /\ Queued(w, <<>>, 0, 0)
  BY <1>3, CoversNone, CoversAll, QueuedNone
<1>5. partial = PartialAt(stream, 0) /\ delivered = DeliveredAt(stream, 0)
  <2>1. \A c \in Channel : Joined(stream, c)[0] = Nothing
    BY <1>1, JoinedSteps
  <2>2. \A c \in Channel : Units(Joined(stream, c)[0].part) = <<>>
                           /\ Messages(Joined(stream, c)[0].whole) = <<>>
    BY <2>1, NoUnits DEF Nothing
  <2> QED BY <1>2, <2>2 DEF PartialAt, DeliveredAt
<1>6. Handled(0, 0)
  BY <1>2, <1>3, <1>4, <1>5 DEF Handled, w
<1>7. Posted = <<>> /\ Got = <<>>
  BY <1>2, NoData DEF Posted, Got
<1>8. Rest(0)
  BY <1>2, <1>4, <1>7 DEF Rest, w
<1>9. Contiguous
  BY <1>4, <1>6, <1>7, <1>8 DEF Contiguous, w
<1> QED BY <1>1, <1>2, <1>9 DEF StreamInv

\* Between two chunks the Framer has no frame that is complete.
FedInv ==
    /\ closed => ~parked
    /\ ~feeding /\ Len(recv) >= HeaderSize => \E h \in HeaderRead : FrameSize(h) > Len(recv)

LEMMA FedStep ==
    ASSUME IInv, FedInv, [Next]_vars
    PROVE  FedInv'
<1>1. CASE /\ UNCHANGED recv /\ (feeding' = feeding)
           /\ closed' => ~parked'
  BY <1>1 DEF FedInv, HeaderRead
<1>2. ASSUME StartRead, closed' = closed PROVE closed' => ~parked'
  BY <1>2 DEF StartRead, FedInv
<1>3. CASE UNCHANGED vars
  BY <1>1, <1>3 DEF vars, bufferVars, sessionVars, FedInv
<1>4. CASE UnderlyingRead
  BY <1>1, <1>4 DEF UnderlyingRead, sessionVars, FedInv
<1>5. CASE OnUnderlyingRead
  <2>1. closed' = closed /\ (parked' = parked \/ ~parked')
    BY <1>5 DEF OnUnderlyingRead, OnError
  <2> QED BY <1>1, <1>5, <2>1 DEF OnUnderlyingRead, sessionVars, FedInv
<1>6. CASE SessionStart
  BY <1>1, <1>2, <1>6 DEF SessionStart, sessionVars
<1>7. CASE OnReadComplete
  <2>1. closed' => ~parked'
    BY <1>7 DEF OnReadComplete, Close, FedInv
  <2>2. CASE UNCHANGED <<recv, feeding>>
    BY <1>1, <2>1, <2>2
  <2>3. CASE feeding' = TRUE
    BY <2>1, <2>3 DEF FedInv
  <2> QED BY <1>7, <2>2, <2>3 DEF OnReadComplete, Feed
<1>8. CASE SessionEnds
  BY <1>1, <1>8 DEF SessionEnds, Close, sessionVars
<1>9. CASE ParseFragment
  <2>1. feeding'
    BY <1>9 DEF ParseFragment
  <2>2. closed' => ~parked'
    BY <1>9 DEF ParseFragment, CannotDecrypt, Close, FedInv
  <2> QED BY <2>1, <2>2 DEF FedInv
<1>10. CASE EndFeed
  <2>1. closed' => ~parked'
    BY <1>2, <1>10 DEF EndFeed
  <2>2. recv' = recv /\ (Len(recv) >= HeaderSize => \E h \in HeaderRead : FrameSize(h) > Len(recv))
    BY <1>10 DEF EndFeed
  <2>3. HeaderRead' = HeaderRead
    BY <2>2 DEF HeaderRead
  <2>4. \A h : FrameSize(h)' = FrameSize(h)
    BY DEF FrameSize
  <2> QED BY <2>1, <2>2, <2>3, <2>4 DEF FedInv
<1> QED BY <1>3, <1>4, <1>5, <1>6, <1>7, <1>8, <1>9, <1>10 DEF Next

LEMMA StreamInductive == Spec => [](IInv /\ StreamInv /\ FedInv)
<1>1. IInv /\ StreamInv /\ [Next]_vars => StreamInv'
  <2> SUFFICES ASSUME IInv, StreamInv, [Next]_vars PROVE StreamInv'
    OBVIOUS
  <2>1. CASE UNCHANGED vars
    <3>1. UNCHANGED <<stream, wire, under, result, rx, due, closed, lost, recv, partial,
                      delivered>>
      BY <2>1 DEF vars, bufferVars, sessionVars
    <3>2. SUFFICES ASSUME ~lost PROVE Contiguous'
      BY <3>1 DEF StreamInv
    <3>3. PICK k, b, d : /\ Handled(k, b) /\ Covers(Sending(stream), Posted, b, d)
                         /\ ~closed => Rest(d)
      BY <3>2 DEF StreamInv, Contiguous
    <3>4. Handled(k, b)' /\ Covers(Sending(stream), Posted, b, d)'
      BY <3>1, <3>3 DEF Handled, Posted
    <3>5. ~closed' => Rest(d)'
      BY <3>1, <3>3 DEF Rest, Got
    <3> QED BY <3>4, <3>5, ContiguousAgain
  <2> QED BY <2>1, UnderlyingReadStream, OnUnderlyingReadStream, SessionStartStream,
             OnReadCompleteStream, SessionEndsStream, ParseFragmentStream, EndFeedStream
          DEF Next
<1>2. Init => FedInv
  <2> SUFFICES ASSUME Init PROVE FedInv
    OBVIOUS
  <2>1. recv = <<>> /\ parked = FALSE /\ closed = FALSE
    BY DEF Init
  <2>2. Len(recv) = 0 /\ ~(0 >= HeaderSize)
    BY <2>1 DEF HeaderSize
  <2> QED BY <2>1, <2>2 DEF FedInv
<1>3. IInv /\ FedInv /\ [Next]_vars => FedInv'
  BY FedStep
<1> QED BY <1>1, <1>2, <1>3, StreamInit, Inductive, PTL DEF Spec

\* When all has been read and the session waits, the last frame has been handled.
LEMMA DrainedIsHandled ==
    ASSUME IInv, StreamInv, FedInv, Drained, NEW k, NEW b, NEW d, Handled(k, b),
           Covers(Sending(stream), Posted, b, d), ~closed => Rest(d)
    PROVE  k = Len(stream)
<1> DEFINE w == Sending(stream)
           at == Start(stream)
           n == Len(stream)
           l == Len(Encoded(stream[k + 1]))
<1>1. due = <<>> /\ rx = <<>> /\ ~feeding /\ ~closed /\ result = <<>> /\ wire = <<>>
  BY DEF Drained, IInv, ReadInv, QueueInv, FedInv
<1>2. Got = <<>> /\ Posted = <<>>
  BY <1>1, NoData, PostedNothing DEF Got
<1>3. PICK e, g : Queued(w, <<>>, d, e) /\ Covers(w, <<>>, e, g) /\ Covers(w, <<>>, g, Len(w))
  BY <1>1, <1>2 DEF Rest
<1>4. Covers(w, <<>>, b, d) /\ Covers(w, recv, at[k], b)
  BY <1>2 DEF Handled
<1> HIDE DEF w, at
<1>5. b = Len(w)
  BY <1>3, <1>4, CoversNothing, QueuedNothing
<1>6. stream \in Seq(Frames) /\ n \in Nat /\ k \in 0..n
  BY StreamTyped, StreamLaid DEF Handled
<1> SUFFICES ASSUME k # n PROVE FALSE
  OBVIOUS
<1>7. k + 1 \in 1..n /\ k + 1 \in 0..n /\ (k + 1) - 1 = k /\ stream[k + 1] \in Frames
  BY <1>6
<1>8. at[k + 1] = at[k] + l /\ at[k + 1] <= Len(w) /\ Len(w) \in Nat
  <2>1. /\ \A i \in 0..n : at[i] <= Len(w)
        /\ \A i \in 1..n : at[i] = at[i - 1] + Len(Encoded(stream[i]))
        /\ Len(w) \in Nat
    BY <1>6, StreamLaid DEF at, w
  <2> HIDE DEF n
  <2> QED BY <1>7, <2>1
<1>9. at[k] \in Nat /\ at[k] + Len(recv) = Len(w) /\ Len(recv) \in Nat
  <2>1. recv \in Seq(Unit)
    BY <1>4 DEF Covers
  <2> QED BY <1>4, <1>5, <2>1 DEF Covers
<1>10. l \in Nat /\ l >= 2
  <2>1. l = HeaderSize + Extra(stream[k + 1]) + Len(stream[k + 1].body)
    BY <1>7, EncodedTyped
  <2>2. Extra(stream[k + 1]) \in {0, 1} /\ HeaderSize = 2 /\ Len(stream[k + 1].body) \in Nat
    BY <1>7, ExtraTyped, FrameTyped DEF HeaderSize
  <2> HIDE DEF l
  <2> QED BY <2>1, <2>2
<1> HIDE DEF l
<1>11. l <= Len(recv)
  BY <1>8, <1>9, <1>10
<1>12. Len(recv) >= HeaderSize
  BY <1>9, <1>10, <1>11 DEF HeaderSize
<1>13. PICK h \in HeaderRead : FrameSize(h) > Len(recv)
  BY <1>1, <1>12 DEF FedInv
<1>14. FrameSize(h) = l
  BY <1>12, HeaderIsNext DEF l
<1> QED BY <1>9, <1>10, <1>11, <1>13, <1>14

-----------------------------------------------------------------------------
(* The session never has two reads, parked, completed or being fed, and    *)
(* BufferedTransport never keeps more than kMaxQueuedReads chunks, however *)
(* reads, errors, feeding and the session's end interleave.                *)
THEOREM TypeCorrect == Spec => []TypeOK
<1>1. IInv => TypeOK
  <2> SUFFICES ASSUME IInv PROVE TypeOK
    OBVIOUS
  <2>1. Len(due) + (IF parked THEN 1 ELSE 0) + (IF feeding THEN 1 ELSE 0) <= 1
    <3>1. due = <<>> => Len(due) = 0
      OBVIOUS
    <3>2. (\E x : due = <<x>>) => Len(due) = 1 /\ due # <<>>
      OBVIOUS
    <3>3. Len(due) = 0 \/ (Len(due) = 1 /\ ~parked /\ ~feeding)
      BY <3>1, <3>2, Zenon DEF IInv, ReadInv
    <3>4. ~parked \/ ~feeding
      BY DEF IInv, ReadInv
    <3> DEFINE p == IF parked THEN 1 ELSE 0
               f == IF feeding THEN 1 ELSE 0
    <3>5. (p = 0 \/ p = 1) /\ (f = 0 \/ f = 1) /\ (~parked => p = 0) /\ (~feeding => f = 0)
      BY Zenon
    <3>6. p = 0 \/ f = 0
      BY <3>4, <3>5, Zenon
    <3>7. Len(due) = 0 \/ (Len(due) = 1 /\ p = 0 /\ f = 0)
      BY <3>3, <3>5, Zenon
    <3> HIDE DEF p, f
    <3>8. Len(due) \in Int /\ p \in Int /\ f \in Int
      BY <3>5, <3>7
    <3>9. Len(due) + p + f <= 1
      BY <3>5, <3>6, <3>7, <3>8
    <3> QED BY <3>9 DEF p, f
  <2>2. {parked, deferred, closed, lost, starting, feeding} \subseteq BOOLEAN
    BY Zenon DEF IInv, Flagged
  <2>3. under \in {"reading", "done", "idle"} /\ Len(rx) <= MaxQueued
    BY DEF IInv, Flagged, QueueInv
  <2> QED BY <2>1, <2>2, <2>3, Zenon DEF TypeOK
<1> QED BY <1>1, Inductive, PTL

(* A transport error that reaches the session is the end of what was read: *)
(* no chunk that BufferedTransport has read before it is still queued.     *)
THEOREM NoErrorBeforeData == Spec => []ErrorAfterData
<1>1. IInv => ErrorAfterData
  BY DEF IInv, ErrorInv, ErrorAfterData
<1> QED BY <1>1, Inductive, PTL

(* Whatever the streams, the boundaries of the chunks and the bound of the *)
(* queue: BufferedTransport, Framer and InboundMessageAssembler hand the   *)
(* session the messages of each channel whole, as they were sent and in    *)
(* order, and all of them once the session waits for more, until the queue *)
(* drops a chunk or a fragment is not decrypted.                           *)
THEOREM MessagesFaithful == Spec => []Faithful
<1>1. IInv /\ StreamInv /\ FedInv => Faithful
  <2> DEFINE got(c) == [i \in DOMAIN delivered[c] |-> Bodies(delivered[c][i])]
  <2> SUFFICES ASSUME IInv, StreamInv, FedInv, ~lost, NEW c \in Channel
               PROVE  IsPrefix(got(c), Sent(stream, c)) /\ (Drained => got(c) = Sent(stream, c))
    BY DEF Faithful
  <2>1. stream \in Seq(Frames)
    BY StreamTyped
  <2>2. PICK k, b, d : /\ Handled(k, b) /\ Covers(Sending(stream), Posted, b, d)
                       /\ ~closed => Rest(d)
    BY DEF StreamInv, Contiguous
  <2>3. k \in 0..Len(stream) /\ delivered = DeliveredAt(stream, k)
    BY <2>2 DEF Handled
  <2> DEFINE ms == Joined(stream, c)[k].whole
  <2>4. delivered[c] = Messages(ms)
    BY <2>3 DEF DeliveredAt
  <2>5. ms \in Seq(Seq(Nat))
    BY <2>1, <2>3, JoinedSteps DEF Acc
  <2>6. IsPrefix(ms, Sent(stream, c))
    BY <2>1, <2>3, JoinedGrows DEF Sent
  <2>7. Drained => ms = Sent(stream, c)
    BY <2>2, DrainedIsHandled DEF Sent
  <2> HIDE DEF ms
  <2>8. got(c) = ms
    BY <2>4, <2>5, BodiesOfMessages
  <2> QED BY <2>6, <2>7, <2>8
<1> QED BY <1>1, StreamInductive, PTL
=============================================================================
