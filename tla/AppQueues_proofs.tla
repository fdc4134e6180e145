-------------------------- MODULE AppQueues_proofs --------------------------
(***************************************************************************)
(* More proofs about AppSessions, for any number of sessions and phones:   *)
(* what the calls and callbacks that wait will bring about.  Once they     *)
(* have run, no session plays behind the application's back, the session   *)
(* on the screen is seen, and a USB session that failed is forgotten.      *)
(* Each session of the engine implements Lifecycle.                        *)
(***************************************************************************)
EXTENDS AppSessions_proofs

-----------------------------------------------------------------------------
(* Whether something is on once a queue has run: calls of `on' turn it on,  *)
(* those of `off' turn it off, and `now' is what it is before.              *)

Ends(q, on, off, now) ==
    \/ \E i \in 1..Len(q) : q[i] \in on /\ \A j \in (i + 1)..Len(q) : q[j] \notin off
    \/ now /\ \A j \in 1..Len(q) : q[j] \notin off

LEMMA InToSet ==
    ASSUME NEW T, NEW q \in Seq(T)
    PROVE  /\ \A i \in 1..Len(q) : q[i] \in ToSet(q)
           /\ \A x \in ToSet(q) : x \in T /\ \E i \in 1..Len(q) : q[i] = x
BY DEF ToSet

LEMMA Joined ==
    ASSUME NEW T, NEW q \in Seq(T), NEW r \in Seq(T)
    PROVE  /\ q \o r \in Seq(T) /\ Len(q \o r) = Len(q) + Len(r)
           /\ Len(q) \in Nat /\ Len(r) \in Nat
           /\ \A i \in 1..Len(q) : (q \o r)[i] = q[i]
           /\ \A i \in (Len(q) + 1)..(Len(q) + Len(r)) :
                 i - Len(q) \in 1..Len(r) /\ (q \o r)[i] = r[i - Len(q)]
           /\ \A i \in 1..Len(r) :
                 Len(q) + i \in (Len(q) + 1)..(Len(q) + Len(r)) /\ (q \o r)[Len(q) + i] = r[i]
OBVIOUS

LEMMA JoinedTwice ==
    ASSUME NEW T, NEW p \in Seq(T), NEW q \in Seq(T), NEW r \in Seq(T)
    PROVE  p \o q \o r = p \o (q \o r)
OBVIOUS

LEMMA JoinedSet ==
    ASSUME NEW T, NEW q \in Seq(T), NEW r \in Seq(T)
    PROVE  ToSet(q \o r) = ToSet(q) \cup ToSet(r)
<1>1. ASSUME NEW x \in ToSet(q \o r) PROVE x \in ToSet(q) \cup ToSet(r)
  <2>1. PICK i \in 1..(Len(q) + Len(r)) : (q \o r)[i] = x
    <3>1. q \o r \in Seq(T) /\ Len(q \o r) = Len(q) + Len(r)
      BY Joined
    <3> DEFINE t == q \o r
    <3>2. t \in Seq(T) /\ x \in ToSet(t)
      BY <3>1
    <3> HIDE DEF t
    <3>3. \E i \in 1..Len(t) : t[i] = x
      BY <3>2, InToSet
    <3> QED BY <3>1, <3>3 DEF t
  <2>2. CASE i \in 1..Len(q)
    <3>1. q[i] = x
      BY <2>1, <2>2, Joined
    <3> QED BY <2>2, <3>1, InToSet
  <2>3. CASE i \in (Len(q) + 1)..(Len(q) + Len(r))
    <3>1. i - Len(q) \in 1..Len(r) /\ r[i - Len(q)] = x
      BY <2>1, <2>3, Joined
    <3> QED BY <3>1, InToSet
  <2> QED BY <2>1, <2>2, <2>3, Joined
<1>2. ASSUME NEW x \in ToSet(q) PROVE x \in ToSet(q \o r)
  <2>1. PICK i \in 1..Len(q) : q[i] = x
    BY InToSet
  <2>2. i \in 1..Len(q \o r) /\ (q \o r)[i] = x
    BY <2>1, Joined
  <2> QED BY <2>2, Joined, InToSet
<1>3. ASSUME NEW x \in ToSet(r) PROVE x \in ToSet(q \o r)
  <2>1. PICK i \in 1..Len(r) : r[i] = x
    BY InToSet
  <2>2. Len(q) + i \in 1..Len(q \o r) /\ (q \o r)[Len(q) + i] = x
    BY <2>1, Joined
  <2> QED BY <2>2, Joined, InToSet
<1> QED BY <1>1, <1>2, <1>3

LEMMA OneSet ==
    ASSUME NEW x
    PROVE  ToSet(<<x>>) = {x}
BY DEF ToSet

LEMMA NoneSet == ToSet(<<>>) = {}
BY DEF ToSet

LEMMA AppendedSet ==
    ASSUME NEW T, NEW q \in Seq(T), NEW x \in T
    PROVE  ToSet(Append(q, x)) = ToSet(q) \cup {x}
<1>1. Append(q, x) = q \o <<x>> /\ <<x>> \in Seq(T)
  OBVIOUS
<1>2. ToSet(q \o <<x>>) = ToSet(q) \cup ToSet(<<x>>)
  BY <1>1, JoinedSet
<1> QED BY <1>1, <1>2, OneSet

LEMMA HeadAndTail ==
    ASSUME NEW T, NEW q \in Seq(T), q # <<>>
    PROVE  /\ Len(q) \in Nat \ {0} /\ Head(q) = q[1] /\ Head(q) \in T
           /\ Tail(q) \in Seq(T) /\ Len(Tail(q)) = Len(q) - 1
           /\ \A i \in 1..(Len(q) - 1) : Tail(q)[i] = q[i + 1]
           /\ \A i \in 2..Len(q) : i - 1 \in 1..(Len(q) - 1) /\ Tail(q)[i - 1] = q[i]
OBVIOUS

LEMMA TailSet ==
    ASSUME NEW T, NEW q \in Seq(T), q # <<>>
    PROVE  ToSet(q) = {Head(q)} \cup ToSet(Tail(q))
<1>1. ASSUME NEW x \in ToSet(q) PROVE x \in {Head(q)} \cup ToSet(Tail(q))
  <2>1. PICK i \in 1..Len(q) : q[i] = x
    BY InToSet
  <2>2. CASE i = 1
    BY <2>1, <2>2, HeadAndTail
  <2>3. CASE i \in 2..Len(q)
    <3>1. i - 1 \in 1..Len(Tail(q)) /\ Tail(q)[i - 1] = x /\ Tail(q) \in Seq(T)
      BY <2>1, <2>3, HeadAndTail
    <3> QED BY <3>1, InToSet
  <2> QED BY <2>1, <2>2, <2>3, HeadAndTail
<1>2. Head(q) \in ToSet(q)
  BY HeadAndTail, InToSet
<1>3. ASSUME NEW x \in ToSet(Tail(q)) PROVE x \in ToSet(q)
  <2>1. PICK i \in 1..(Len(q) - 1) : Tail(q)[i] = x
    <3>1. Tail(q) \in Seq(T) /\ Len(Tail(q)) = Len(q) - 1
      BY HeadAndTail
    <3> DEFINE t == Tail(q)
    <3>2. t \in Seq(T) /\ x \in ToSet(t)
      BY <3>1
    <3> HIDE DEF t
    <3>3. \E i \in 1..Len(t) : t[i] = x
      BY <3>2, InToSet
    <3> QED BY <3>1, <3>3 DEF t
  <2>2. i + 1 \in 1..Len(q) /\ q[i + 1] = x
    BY <2>1, HeadAndTail
  <2> QED BY <2>2, InToSet
<1> QED BY <1>1, <1>2, <1>3

\* Calls that turn nothing on leave on only what was on.
LEMMA EndsBefore ==
    ASSUME NEW T, NEW q \in Seq(T), NEW r \in Seq(T), NEW on, NEW off, NEW now,
           \A x \in ToSet(r) : x \notin on, Ends(q \o r, on, off, now)
    PROVE  Ends(q, on, off, now)
<1>1. CASE \E i \in 1..Len(q \o r) :
              (q \o r)[i] \in on /\ \A j \in (i + 1)..Len(q \o r) : (q \o r)[j] \notin off
  <2>1. PICK i \in 1..(Len(q) + Len(r)) :
              (q \o r)[i] \in on
              /\ \A j \in (i + 1)..(Len(q) + Len(r)) : (q \o r)[j] \notin off
    BY <1>1, Joined
  <2>2. i \in 1..Len(q)
    <3>1. i \notin (Len(q) + 1)..(Len(q) + Len(r))
      BY <2>1, Joined, InToSet
    <3> QED BY <2>1, <3>1, Joined
  <2>3. q[i] \in on /\ \A j \in (i + 1)..Len(q) : q[j] \notin off
    BY <2>1, <2>2, Joined
  <2> QED BY <2>2, <2>3 DEF Ends
<1>2. CASE now /\ \A j \in 1..Len(q \o r) : (q \o r)[j] \notin off
  <2>1. \A j \in 1..Len(q) : j \in 1..Len(q \o r) /\ (q \o r)[j] = q[j]
    BY Joined
  <2> QED BY <1>2, <2>1 DEF Ends
<1> QED BY <1>1, <1>2 DEF Ends

\* Calls that turn nothing off leave it on.
LEMMA EndsAfter ==
    ASSUME NEW T, NEW q \in Seq(T), NEW r \in Seq(T), NEW on, NEW off, NEW now,
           \A x \in ToSet(r) : x \notin off, Ends(q, on, off, now)
    PROVE  Ends(q \o r, on, off, now)
<1>1. \A j \in 1..Len(q \o r) : j \notin 1..Len(q) => (q \o r)[j] \notin off
  <2>1. ASSUME NEW j \in 1..(Len(q) + Len(r)), j \notin 1..Len(q)
        PROVE  (q \o r)[j] \notin off
    <3>1. j \in (Len(q) + 1)..(Len(q) + Len(r))
      BY <2>1, Joined
    <3> QED BY <3>1, Joined, InToSet
  <2> QED BY <2>1, Joined
<1>2. CASE \E i \in 1..Len(q) : q[i] \in on /\ \A j \in (i + 1)..Len(q) : q[j] \notin off
  <2>1. PICK i \in 1..Len(q) : q[i] \in on /\ \A j \in (i + 1)..Len(q) : q[j] \notin off
    BY <1>2
  <2>2. i \in 1..Len(q \o r) /\ (q \o r)[i] \in on
    BY <2>1, Joined
  <2>3. ASSUME NEW j \in (i + 1)..Len(q \o r) PROVE (q \o r)[j] \notin off
    <3>1. j \in 1..Len(q \o r) /\ (j \in 1..Len(q) => j \in (i + 1)..Len(q))
      BY <2>1, Joined
    <3> QED BY <1>1, <2>1, <3>1, Joined
  <2> QED BY <2>2, <2>3 DEF Ends
<1>3. CASE now /\ \A j \in 1..Len(q) : q[j] \notin off
  <2>1. \A j \in 1..Len(q \o r) : (q \o r)[j] \notin off
    BY <1>1, <1>3, Joined
  <2> QED BY <1>3, <2>1 DEF Ends
<1> QED BY <1>2, <1>3 DEF Ends

\* A call that turns it on, and none that turns it off.
LEMMA EndsOn ==
    ASSUME NEW T, NEW q \in Seq(T), NEW r \in Seq(T), NEW on, NEW off, NEW now,
           \A x \in ToSet(r) : x \notin off, \E x \in ToSet(r) : x \in on
    PROVE  Ends(q \o r, on, off, now)
<1>1. PICK i \in 1..Len(r) : r[i] \in on
  BY InToSet
<1>2. Len(q) + i \in 1..Len(q \o r) /\ (q \o r)[Len(q) + i] \in on
  BY <1>1, Joined
<1>3. ASSUME NEW j \in (Len(q) + i + 1)..Len(q \o r) PROVE (q \o r)[j] \notin off
  <2>1. j \in (Len(q) + 1)..(Len(q) + Len(r))
    BY <1>1, Joined
  <2> QED BY <2>1, Joined, InToSet
<1> QED BY <1>2, <1>3 DEF Ends

\* A call that turns it off, and none that turns it on.
LEMMA EndsOff ==
    ASSUME NEW T, NEW q \in Seq(T), NEW r \in Seq(T), NEW on, NEW off, NEW now,
           \A x \in ToSet(r) : x \notin on, \E x \in ToSet(r) : x \in off
    PROVE  ~Ends(q \o r, on, off, now)
<1> SUFFICES ASSUME Ends(q \o r, on, off, now) PROVE FALSE
  OBVIOUS
<1>1. PICK k \in 1..Len(r) : r[k] \in off
  BY InToSet
<1>2. Len(q) + k \in 1..Len(q \o r) /\ (q \o r)[Len(q) + k] \in off
  BY <1>1, Joined
<1>3. PICK i \in 1..(Len(q) + Len(r)) :
            (q \o r)[i] \in on
            /\ \A j \in (i + 1)..(Len(q) + Len(r)) : (q \o r)[j] \notin off
  <2>1. \E i \in 1..Len(q \o r) :
            (q \o r)[i] \in on /\ \A j \in (i + 1)..Len(q \o r) : (q \o r)[j] \notin off
    BY <1>2 DEF Ends
  <2> QED BY <2>1, Joined
<1>4. i \in 1..Len(q)
  <2>1. i \notin (Len(q) + 1)..(Len(q) + Len(r))
    BY <1>3, Joined, InToSet
  <2> QED BY <1>3, <2>1, Joined
<1>5. Len(q) + k \in (i + 1)..(Len(q) + Len(r))
  BY <1>1, <1>4, Joined
<1> QED BY <1>2, <1>3, <1>5

\* The head of the queue is run: what it did was to come.
LEMMA EndsRun ==
    ASSUME NEW T, NEW q \in Seq(T), q # <<>>, NEW on, NEW off,
           NEW now, NEW then, then => Head(q) \in on \/ (now /\ Head(q) \notin off),
           Ends(Tail(q), on, off, then)
    PROVE  Ends(q, on, off, now)
<1>1. CASE \E i \in 1..Len(Tail(q)) :
              Tail(q)[i] \in on /\ \A j \in (i + 1)..Len(Tail(q)) : Tail(q)[j] \notin off
  <2>1. PICK i \in 1..(Len(q) - 1) :
              Tail(q)[i] \in on /\ \A j \in (i + 1)..(Len(q) - 1) : Tail(q)[j] \notin off
    BY <1>1, HeadAndTail
  <2>2. i + 1 \in 1..Len(q) /\ q[i + 1] \in on
    BY <2>1, HeadAndTail
  <2>3. ASSUME NEW j \in (i + 2)..Len(q) PROVE q[j] \notin off
    <3>1. j \in 2..Len(q) /\ j - 1 \in (i + 1)..(Len(q) - 1)
      BY <2>1, HeadAndTail
    <3> QED BY <2>1, <3>1, HeadAndTail
  <2>4. \A j \in ((i + 1) + 1)..Len(q) : q[j] \notin off
    BY <2>1, <2>3
  <2> QED BY <2>2, <2>4 DEF Ends
<1>2. CASE then /\ \A j \in 1..Len(Tail(q)) : Tail(q)[j] \notin off
  <2>1. \A j \in 2..Len(q) : q[j] \notin off
    BY <1>2, HeadAndTail
  <2>2. CASE Head(q) \in on
    <3>1. 1 \in 1..Len(q) /\ q[1] \in on /\ \A j \in (1 + 1)..Len(q) : q[j] \notin off
      BY <2>1, <2>2, HeadAndTail
    <3> QED BY <3>1 DEF Ends
  <2>3. CASE now /\ Head(q) \notin off
    <3>1. \A j \in 1..Len(q) : j = 1 \/ j \in 2..Len(q)
      BY HeadAndTail
    <3>2. \A j \in 1..Len(q) : q[j] \notin off
      BY <2>1, <2>3, <3>1, HeadAndTail
    <3> QED BY <2>3, <3>2 DEF Ends
  <2> QED BY <1>2, <2>2, <2>3
<1> QED BY <1>1, <1>2 DEF Ends

\* The head of the queue is run: what is to come is not disturbed.
LEMMA EndsStill ==
    ASSUME NEW T, NEW q \in Seq(T), q # <<>>, NEW on, NEW off,
           NEW now, NEW then, Head(q) \in on \/ (now /\ Head(q) \notin off) => then,
           Ends(q, on, off, now)
    PROVE  Ends(Tail(q), on, off, then)
<1>1. CASE \E i \in 1..Len(q) : q[i] \in on /\ \A j \in (i + 1)..Len(q) : q[j] \notin off
  <2>1. PICK i \in 1..Len(q) : q[i] \in on /\ \A j \in (i + 1)..Len(q) : q[j] \notin off
    BY <1>1
  <2>2. CASE i = 1
    <3>1. \A j \in 1..(Len(q) - 1) : j + 1 \in (i + 1)..Len(q) /\ Tail(q)[j] = q[j + 1]
      BY <2>2, HeadAndTail
    <3>2. \A j \in 1..Len(Tail(q)) : Tail(q)[j] \notin off
      BY <2>1, <3>1, HeadAndTail
    <3>3. then
      BY <2>1, <2>2, HeadAndTail
    <3> QED BY <3>2, <3>3 DEF Ends
  <2>3. CASE i \in 2..Len(q)
    <3>1. i - 1 \in 1..Len(Tail(q)) /\ Tail(q)[i - 1] \in on
      BY <2>1, <2>3, HeadAndTail
    <3>2. ASSUME NEW j \in ((i - 1) + 1)..Len(Tail(q)) PROVE Tail(q)[j] \notin off
      <4>1. j \in 1..(Len(q) - 1) /\ j + 1 \in (i + 1)..Len(q)
        BY <2>3, HeadAndTail
      <4> QED BY <2>1, <4>1, HeadAndTail
    <3> QED BY <3>1, <3>2 DEF Ends
  <2> QED BY <2>1, <2>2, <2>3
<1>2. CASE now /\ \A j \in 1..Len(q) : q[j] \notin off
  <2>1. \A j \in 1..(Len(q) - 1) : j + 1 \in 1..Len(q)
    BY HeadAndTail
  <2>2. \A j \in 1..Len(Tail(q)) : Tail(q)[j] \notin off
    BY <1>2, <2>1, HeadAndTail
  <2>3. then
    BY <1>2, HeadAndTail
  <2> QED BY <2>2, <2>3 DEF Ends
<1> QED BY <1>1, <1>2 DEF Ends

-----------------------------------------------------------------------------
(* What the application posts. *)

LEMMA AllOfThem ==
    ASSUME NEW S \in SUBSET Sid
    PROVE  SetToSeq(S) \in Seq(Sid) /\ ToSet(SetToSeq(S)) = S
<1> DEFINE n == Cardinality(S)
           f == SetToSeq(S)
<1>1. f \in Seq(Sid) /\ IsFiniteSet(S)
  BY SeqOfSids
<1>2. n \in Nat /\ ExistsBijection(1..n, S)
  BY <1>1, FS_CardinalityType
<1>3. \E g \in [1..n -> S] : IsInjective(g)
  BY <1>2 DEF ExistsBijection, Bijection, Injection
<1>4. f \in [1..n -> S] /\ IsInjective(f)
  BY <1>3 DEF SetToSeq
<1> HIDE DEF f
<1>5. f \in Injection(1..n, S)
  BY <1>4 DEF Injection
<1>6. Cardinality(1..n) = n
  BY <1>2, FS_Interval
<1>7. f \in Surjection(1..n, S)
  BY <1>1, <1>5, <1>6, FS_Injection
<1>8. ToSet(f) = S
  BY <1>4, <1>7 DEF Surjection, ToSet
<1> QED BY <1>1, <1>8 DEF f

\* Which calls tell sessions and kinds apart.
LEMMA CallNames ==
    /\ \A s : /\ StartCall(s).call = "start_session" /\ StartCall(s).sid = s
              /\ StopCall(s).call = "stop_session" /\ StopCall(s).sid = s
              /\ AttachCall(s).call = "attach_all_sinks" /\ AttachCall(s).sid = s
              /\ DetachCall(s).call = "detach_all_sinks" /\ DetachCall(s).sid = s
    /\ \A s, p : /\ FocusCall(s, p).call = "set_video_focus"
                 /\ FocusCall(s, p).sid = s /\ FocusCall(s, p).projected = p
BY DEF StartCall, StopCall, AttachCall, DetachCall, FocusCall

LEMMA StopCallsSet ==
    ASSUME NEW S \in SUBSET Sid
    PROVE  ToSet(StopCalls(S)) = {StopCall(s) : s \in S}
<1> DEFINE q == SetToSeq(S)
<1>1. q \in Seq(Sid) /\ ToSet(q) = S
  BY AllOfThem
<1>2. StopCalls(S) = [i \in DOMAIN q |-> StopCall(q[i])]
  BY DEF StopCalls
<1> HIDE DEF q
<1>3. ToSet(StopCalls(S)) = {StopCall(q[i]) : i \in DOMAIN q}
  BY <1>2 DEF ToSet
<1> QED BY <1>1, <1>3 DEF ToSet

LEMMA DemoteCallsSet ==
    ASSUME NEW states, NEW keep,
           NEW D, D = {s \in Sid \ {keep} : states[s] \in Playing}
    PROVE  ToSet(DemoteCalls(states, keep))
             = {FocusCall(s, FALSE) : s \in D} \cup {DetachCall(s) : s \in D}
<1> DEFINE q == SetToSeq({s \in Sid \ {keep} : states[s] \in Playing})
           c(i) == IF i % 2 = 1 THEN FocusCall(q[(i + 1) \div 2], FALSE)
                   ELSE DetachCall(q[i \div 2])
<1>1. q \in Seq(Sid) /\ ToSet(q) = D
  BY AllOfThem
<1>2. DemoteCalls(states, keep) = [i \in 1..(2 * Len(q)) |-> c(i)]
  BY DEF DemoteCalls
<1> HIDE DEF q
<1>3. Len(q) \in Nat /\ 2 * Len(q) \in Nat /\ DOMAIN q = 1..Len(q)
  BY <1>1
<1>4. ToSet(DemoteCalls(states, keep)) = {c(i) : i \in 1..(2 * Len(q))}
  <2> HIDE DEF c
  <2> QED BY <1>2 DEF ToSet
<1>5. ASSUME NEW i \in 1..(2 * Len(q))
      PROVE  c(i) \in {FocusCall(s, FALSE) : s \in D} \cup {DetachCall(s) : s \in D}
  <2>1. CASE i % 2 = 1
    <3>1. (i + 1) \div 2 \in 1..Len(q)
      BY <1>3, <2>1
    <3>2. q[(i + 1) \div 2] \in D
      BY <1>1, <1>3, <3>1 DEF ToSet
    <3> QED BY <2>1, <3>2
  <2>2. CASE i % 2 # 1
    <3>1. i \div 2 \in 1..Len(q)
      BY <1>3, <2>2
    <3>2. q[i \div 2] \in D
      BY <1>1, <1>3, <3>1 DEF ToSet
    <3> QED BY <2>2, <3>2
  <2> QED BY <2>1, <2>2
<1>6. ASSUME NEW s \in D
      PROVE  /\ \E i \in 1..(2 * Len(q)) : c(i) = FocusCall(s, FALSE)
             /\ \E i \in 1..(2 * Len(q)) : c(i) = DetachCall(s)
  <2>1. PICK k \in 1..Len(q) : q[k] = s
    BY <1>1, <1>3 DEF ToSet
  <2>2. /\ 2 * k - 1 \in 1..(2 * Len(q)) /\ (2 * k - 1) % 2 = 1
        /\ ((2 * k - 1) + 1) \div 2 = k
    BY <1>3
  <2>3. 2 * k \in 1..(2 * Len(q)) /\ (2 * k) % 2 # 1 /\ (2 * k) \div 2 = k
    BY <1>3
  <2>4. c(2 * k - 1) = FocusCall(s, FALSE) /\ c(2 * k) = DetachCall(s)
    BY <2>1, <2>2, <2>3
  <2> HIDE DEF c
  <2> QED BY <2>2, <2>3, <2>4
<1> HIDE DEF c
<1> QED BY <1>4, <1>5, <1>6

LEMMA NativeCallsSet ==
    ASSUME NEW S \in SUBSET Sid,
           NEW q, q = SetToSeq(S)
    PROVE  /\ [i \in DOMAIN q |-> FocusCall(q[i], FALSE)] \in Seq(Call)
           /\ ToSet([i \in DOMAIN q |-> FocusCall(q[i], FALSE)])
                = {FocusCall(s, FALSE) : s \in S}
<1> DEFINE c(i) == FocusCall(q[i], FALSE)
<1>1. q \in Seq(Sid) /\ ToSet(q) = S
  BY AllOfThem
<1>2. DOMAIN q = 1..Len(q) /\ Len(q) \in Nat /\ \A i \in 1..Len(q) : q[i] \in Sid
  BY <1>1
<1>3. \A i \in 1..Len(q) : c(i) \in Call
  BY <1>2, CallsTyped
<1>4. {c(i) : i \in 1..Len(q)} = {FocusCall(s, FALSE) : s \in S}
  <2>1. \A i \in 1..Len(q) : q[i] \in S
    BY <1>1, <1>2 DEF ToSet
  <2>2. \A s \in S : \E i \in 1..Len(q) : q[i] = s
    BY <1>1, <1>2 DEF ToSet
  <2> QED BY <2>1, <2>2
<1> HIDE DEF c
<1>5. [i \in DOMAIN q |-> c(i)] \in Seq(Call)
  BY <1>2, <1>3
<1>6. ToSet([i \in DOMAIN q |-> c(i)]) = {c(i) : i \in 1..Len(q)}
  BY <1>2 DEF ToSet
<1> QED BY <1>4, <1>5, <1>6 DEF c

LEMMA SurfaceReadySet ==
    ASSUME NEW states, NEW live, NEW c \in ToSet(SurfaceReadyCalls(states, live))
    PROVE  \E s \in Actives(states) : c = FocusCall(s, TRUE)
<1>1. Actives(states) # {} => Min(Actives(states)) \in Actives(states)
  BY MinOfSids DEF Actives
<1>2. CASE live /\ Actives(states) # {}
  <2>1. SurfaceReadyCalls(states, live) = <<FocusCall(Min(Actives(states)), TRUE)>>
    BY <1>2, Zenon DEF SurfaceReadyCalls
  <2>2. c = FocusCall(Min(Actives(states)), TRUE)
    BY <2>1, OneSet
  <2> QED BY <1>1, <1>2, <2>2
<1>3. CASE ~(live /\ Actives(states) # {})
  <2>1. SurfaceReadyCalls(states, live) = <<>>
    BY <1>3, Zenon DEF SurfaceReadyCalls
  <2> QED BY <2>1, NoneSet
<1> QED BY <1>2, <1>3

-----------------------------------------------------------------------------
(* The invariant. *)

\* The elements of kinds are the first of their sessions in a queue.
First(q, kinds) ==
    \A i, j \in 1..Len(q) : i < j /\ q[j] \in kinds => q[i].sid # q[j].sid

Starts == {StartCall(s) : s \in Sid}
Identifications == {IdentifiedTask(s) : s \in Sid}

\* A session with a number has been made or is about to be, before any other call for it.
NumberInv ==
    /\ \A c \in ToSet(posted) : c.sid < nextSid
    /\ First(posted, Starts)
    /\ \A s \in Sid : StartCall(s) \in ToSet(posted) <=> s < nextSid /\ session[s] = "none"
    /\ \A s \in Sid : s >= nextSid => session[s] = "none" /\ entry[s] = "absent"
    /\ bt.op = "create" => \A s \in bt.sids : s < nextSid /\ entry[s] = "absent"
    /\ bt.op = "stop" => \A s \in bt.sids : s < nextSid

\* It will not be running once the calls have run.
Doomed(s) == session[s] \in {"stopping", "gone"} \/ StopCall(s) \in ToSet(posted)

\* The application knows the phone of a session, and will not be told of it again.
Known(s) == s \in discovered /\ IdentifiedTask(s) \notin ToSet(tasks)

Identified == {"CONNECTED", "BACKGROUND", "ACTIVE"}

\* A session's callbacks come in the order of its phases, and roles after the phone.
PhaseInv ==
    /\ \A s \in discovered : session[s] \in {"running", "stopping", "gone"}
    /\ \A s \in reported : s \in Sid /\ session[s] = "gone"
    /\ \A t \in ToSet(tasks) : IF t.task = "onSessionError" THEN t.sid \in reported
                               ELSE t.sid \in discovered
    /\ First(tasks, Identifications)
    /\ \A s \in Sid : entry[s] \in Identified => Known(s)
    /\ main # Idle => Known(main.sid) /\ (entry[main.sid] # "absent" \/ Doomed(main.sid))

QueueInv == IInv /\ NumberInv /\ PhaseInv

\* A USB session that has failed is forgotten, or is about to be.
ErrorInv ==
    \A s \in Sid :
        s \in reported /\ label[s] = "USB" =>
            entry[s] = "absent" \/ ErrorTask(s) \in ToSet(tasks)

\* The sinks of a session once the calls that wait have run.
Hears(s) == Ends(posted, {AttachCall(s)}, {DetachCall(s)}, s \in audio)
Sees(s) == Ends(posted, {AttachCall(s), FocusCall(s, TRUE)},
                        {DetachCall(s), FocusCall(s, FALSE)}, s \in video)

HearInv == \A s \in Sid : Hears(s) => entry[s] \in Playing \/ Doomed(s)

\* A phone that has asked for its native screen takes the role from its session.
SeeInv ==
    \A s \in Actives(entry) :
        Sees(s) \/ FocusTask(s, FALSE) \in ToSet(tasks) \/ session[s] = "gone"

-----------------------------------------------------------------------------
(* Elements that come first. *)

LEMMA FirstJoined ==
    ASSUME NEW T, NEW q \in Seq(T), NEW r \in Seq(T), NEW kinds, First(q, kinds),
           \A x \in ToSet(r) : x \notin kinds
    PROVE  First(q \o r, kinds)
<1> SUFFICES ASSUME NEW i \in 1..Len(q \o r), NEW j \in 1..Len(q \o r), i < j,
                    (q \o r)[j] \in kinds
             PROVE  (q \o r)[i].sid # (q \o r)[j].sid
  BY DEF First
<1>1. i \in 1..(Len(q) + Len(r)) /\ j \in 1..(Len(q) + Len(r))
  BY Joined
<1>2. j \in 1..Len(q)
  <2>1. j \notin (Len(q) + 1)..(Len(q) + Len(r))
    BY Joined, InToSet
  <2> QED BY <1>1, <2>1, Joined
<1>3. i \in 1..Len(q) /\ (q \o r)[i] = q[i] /\ (q \o r)[j] = q[j]
  BY <1>1, <1>2, Joined
<1> QED BY <1>2, <1>3 DEF First

LEMMA FirstAppended ==
    ASSUME NEW T, NEW q \in Seq(T), NEW x \in T, NEW kinds, First(q, kinds),
           \/ x \notin kinds
           \/ \A y \in ToSet(q) : y.sid # x.sid
    PROVE  First(Append(q, x), kinds)
<1> SUFFICES ASSUME NEW i \in 1..(Len(q) + 1), NEW j \in 1..(Len(q) + 1), i < j,
                    Append(q, x)[j] \in kinds
             PROVE  Append(q, x)[i].sid # Append(q, x)[j].sid
  BY DEF First
<1>1. i \in 1..Len(q) /\ Append(q, x)[i] = q[i]
  OBVIOUS
<1>2. CASE j \in 1..Len(q)
  <2>1. Append(q, x)[j] = q[j]
    BY <1>2
  <2> QED BY <1>1, <1>2, <2>1 DEF First
<1>3. CASE j = Len(q) + 1
  <2>1. Append(q, x)[j] = x
    BY <1>3
  <2> QED BY <1>1, <2>1, InToSet
<1> QED BY <1>2, <1>3

LEMMA FirstTail ==
    ASSUME NEW T, NEW q \in Seq(T), q # <<>>, NEW kinds, First(q, kinds)
    PROVE  /\ First(Tail(q), kinds)
           /\ \A x \in ToSet(Tail(q)) : x \in kinds => Head(q).sid # x.sid
<1>1. First(Tail(q), kinds)
  <2> SUFFICES ASSUME NEW i \in 1..Len(Tail(q)), NEW j \in 1..Len(Tail(q)), i < j,
                      Tail(q)[j] \in kinds
               PROVE  Tail(q)[i].sid # Tail(q)[j].sid
    BY DEF First
  <2>1. /\ i + 1 \in 1..Len(q) /\ j + 1 \in 1..Len(q) /\ i + 1 < j + 1
        /\ Tail(q)[i] = q[i + 1] /\ Tail(q)[j] = q[j + 1]
    BY HeadAndTail
  <2> QED BY <2>1 DEF First
<1>2. ASSUME NEW x \in ToSet(Tail(q)), x \in kinds PROVE Head(q).sid # x.sid
  <2> DEFINE t == Tail(q)
  <2>1. t \in Seq(T) /\ x \in ToSet(t) /\ Len(t) = Len(q) - 1
    BY <1>2, HeadAndTail
  <2>2. PICK i \in 1..Len(t) : t[i] = x
    <3> HIDE DEF t
    <3> QED BY <2>1, InToSet
  <2>3. 1 \in 1..Len(q) /\ i + 1 \in 1..Len(q) /\ 1 < i + 1 /\ q[i + 1] = x /\ Head(q) = q[1]
    BY <2>1, <2>2, HeadAndTail
  <2> QED BY <1>2, <2>3 DEF First
<1> QED BY <1>1, <1>2

-----------------------------------------------------------------------------
(* A step of the application that starts no session: what it posts, what it *)
(* makes of the entries, which callbacks it takes, and who goes on.         *)

Posts(r) ==
    /\ posted' = posted \o r
    /\ UNCHANGED <<engineState, nextSid>>
    /\ \A c \in ToSet(r) : c \notin Starts /\ c.sid < nextSid

Enters(s) ==
    entry[s] = "absent" /\ entry'[s] # "absent" =>
        /\ entry'[s] = "CONNECTING" /\ label'[s] = "Wireless"
        /\ bt.op = "create" /\ s \in bt.sids /\ bt'.op = "idle"

Leaves(s, r) ==
    /\ entry[s] # "absent" /\ entry'[s] = "absent" =>
          StopCall(s) \in ToSet(r) \/ session[s] = "gone"
    /\ entry[s] \in Playing /\ entry'[s] \notin Playing =>
          entry'[s] = "absent" \/ DetachCall(s) \in ToSet(r)

Attaches(s, r) ==
    AttachCall(s) \in ToSet(r) =>
        /\ DetachCall(s) \notin ToSet(r)
        /\ entry'[s] \in Playing \/ Doomed(s)

Entries(r) ==
    \A s \in Sid : /\ Enters(s) /\ Leaves(s, r) /\ Attaches(s, r)
                   /\ label'[s] = "USB" => label[s] = "USB"

Shown(r) ==
    \A s \in Actives(entry') :
        /\ FocusCall(s, FALSE) \notin ToSet(r) /\ DetachCall(s) \notin ToSet(r)
        /\ entry[s] = "ACTIVE" \/ AttachCall(s) \in ToSet(r)

Callbacks ==
    /\ ToSet(tasks') \subseteq ToSet(tasks) /\ First(tasks', Identifications)
    /\ \A s \in Sid :
          /\ FocusTask(s, FALSE) \in ToSet(tasks) =>
                FocusTask(s, FALSE) \in ToSet(tasks') \/ entry'[s] # "ACTIVE"
          /\ ErrorTask(s) \in ToSet(tasks) =>
                ErrorTask(s) \in ToSet(tasks') \/ entry'[s] = "absent"
          /\ entry'[s] \in Identified => Known(s)'

GoesOn ==
    /\ main' # Idle => main' = main \/ (main'.sid \in Sid /\ entry'[main'.sid] \in Identified)
    /\ bt'.op = "create" => bt' = bt
    /\ bt'.op = "stop" => \A s \in bt'.sids : s < nextSid

Moves(r) == Posts(r) /\ Entries(r) /\ Callbacks /\ GoesOn /\ (AsksNative(tasks) => Shown(r))

LEMMA PostsMore ==
    ASSUME QueueInv, NEW r \in Seq(Call), Posts(r)
    PROVE  /\ ToSet(posted') = ToSet(posted) \cup ToSet(r)
           /\ UNCHANGED <<session, video, audio, discovered, reported, nextSid>>
           /\ \A s : Doomed(s) \/ StopCall(s) \in ToSet(r) => Doomed(s)'
<1>1. posted \in Seq(Call)
  BY DEF QueueInv, IInv, EngineInv
<1>2. ToSet(posted \o r) = ToSet(posted) \cup ToSet(r)
  BY <1>1, JoinedSet
<1> QED BY <1>2 DEF Posts, engineState, Doomed

LEMMA MovesNumber ==
    ASSUME QueueInv, NEW r \in Seq(Call), Moves(r)
    PROVE  NumberInv'
<1>0. /\ posted \in Seq(Call) /\ First(posted, Starts)
      /\ bt \in [op : {"idle", "create", "stop"}, sids : SUBSET Sid]
  BY DEF QueueInv, IInv, EngineInv, AppInv, NumberInv
<1>1. /\ ToSet(posted') = ToSet(posted) \cup ToSet(r)
      /\ UNCHANGED <<session, nextSid>> /\ posted' = posted \o r
      /\ \A c \in ToSet(r) : c \notin Starts /\ c.sid < nextSid
  BY PostsMore DEF Moves, Posts
<1>2. First(posted', Starts)
  BY <1>0, <1>1, FirstJoined
<1>3. \A c \in ToSet(posted') : c.sid < nextSid'
  BY <1>1 DEF QueueInv, NumberInv
<1>4. \A s \in Sid : StartCall(s) \in ToSet(posted') <=> s < nextSid' /\ session'[s] = "none"
  BY <1>1 DEF QueueInv, NumberInv, Starts
<1>5. \A s \in Sid : Enters(s)
  BY DEF Moves, Entries
<1>6. ASSUME NEW s \in Sid, s >= nextSid PROVE session'[s] = "none" /\ entry'[s] = "absent"
  <2>1. ~(bt.op = "create" /\ s \in bt.sids)
    BY <1>6 DEF QueueInv, NumberInv, IInv, AppInv, Sid
  <2> QED BY <1>1, <1>5, <1>6, <2>1 DEF QueueInv, NumberInv, Enters
<1>7. bt'.op = "create" => \A s \in bt'.sids : s < nextSid' /\ entry'[s] = "absent"
  BY <1>0, <1>1, <1>5 DEF Moves, GoesOn, QueueInv, NumberInv, Enters
<1>8. bt'.op = "stop" => \A s \in bt'.sids : s < nextSid'
  BY <1>1 DEF Moves, GoesOn
<1> QED BY <1>1, <1>2, <1>3, <1>4, <1>6, <1>7, <1>8 DEF NumberInv

LEMMA MovesPhase ==
    ASSUME QueueInv, NEW r \in Seq(Call), Moves(r)
    PROVE  PhaseInv'
<1>1. /\ UNCHANGED <<session, discovered, reported>>
      /\ \A s : Doomed(s) \/ StopCall(s) \in ToSet(r) => Doomed(s)'
  BY PostsMore DEF Moves
<1>2. /\ \A s \in discovered' : session'[s] \in {"running", "stopping", "gone"}
      /\ \A s \in reported' : s \in Sid /\ session'[s] = "gone"
  BY <1>1 DEF QueueInv, PhaseInv
<1>3. \A t \in ToSet(tasks') : IF t.task = "onSessionError" THEN t.sid \in reported'
                               ELSE t.sid \in discovered'
  BY <1>1 DEF Moves, Callbacks, QueueInv, PhaseInv
<1>4. First(tasks', Identifications) /\ \A s \in Sid : entry'[s] \in Identified => Known(s)'
  BY DEF Moves, Callbacks
<1>5. ASSUME main' # Idle, NEW m, m = main'.sid
      PROVE  Known(m)' /\ (entry'[m] # "absent" \/ Doomed(m)')
  <2>1. CASE m \in Sid /\ entry'[m] \in Identified
    BY <1>4, <2>1 DEF Identified
  <2>2. CASE main' = main
    <3>1. m \in Sid /\ Known(m) /\ (entry[m] # "absent" \/ Doomed(m))
      BY <1>5, <2>2 DEF QueueInv, PhaseInv, IInv, AppInv
    <3>2. Known(m)'
      BY <1>1, <3>1 DEF Known, Moves, Callbacks
    <3>3. entry[m] # "absent" /\ entry'[m] = "absent" =>
              StopCall(m) \in ToSet(r) \/ session[m] = "gone"
      BY <3>1 DEF Moves, Entries, Leaves
    <3>4. session[m] = "gone" => Doomed(m)
      BY DEF Doomed
    <3> QED BY <1>1, <3>1, <3>2, <3>3, <3>4
  <2> QED BY <1>5, <2>1, <2>2 DEF Moves, GoesOn
<1> QED BY <1>2, <1>3, <1>4, <1>5 DEF PhaseInv, Known, Doomed

LEMMA MovesError ==
    ASSUME QueueInv, ErrorInv, NEW r \in Seq(Call), Moves(r)
    PROVE  ErrorInv'
<1>1. reported' = reported
  BY PostsMore DEF Moves
<1> QED BY <1>1 DEF ErrorInv, Moves, Entries, Enters, Callbacks

LEMMA MovesHear ==
    ASSUME QueueInv, HearInv, NEW r \in Seq(Call), Moves(r)
    PROVE  HearInv'
<1>0. posted \in Seq(Call)
  BY DEF QueueInv, IInv, EngineInv
<1>1. /\ posted' = posted \o r /\ audio' = audio
      /\ \A s \in Sid : Doomed(s) \/ StopCall(s) \in ToSet(r) => Doomed(s)'
  BY PostsMore DEF Moves, Posts
<1> SUFFICES ASSUME NEW s \in Sid, Hears(s)'
             PROVE  entry'[s] \in Playing \/ Doomed(s)'
  BY DEF HearInv, Hears, Doomed
<1>2. Ends(posted \o r, {AttachCall(s)}, {DetachCall(s)}, s \in audio)
  BY <1>1 DEF Hears
<1>3. CASE AttachCall(s) \in ToSet(r)
  BY <1>1, <1>3 DEF Moves, Entries, Attaches
<1>4. CASE AttachCall(s) \notin ToSet(r)
  <2>1. Hears(s)
    BY <1>0, <1>2, <1>4, EndsBefore DEF Hears
  <2>2. DetachCall(s) \notin ToSet(r)
    BY <1>0, <1>2, <1>4, EndsOff
  <2>3. entry[s] \in Playing /\ entry'[s] \notin Playing => entry'[s] = "absent"
    BY <2>2 DEF Moves, Entries, Leaves
  <2>4. entry[s] # "absent" /\ entry'[s] = "absent" => Doomed(s)'
    BY <1>1 DEF Moves, Entries, Leaves, Doomed
  <2>5. entry[s] \in Playing \/ Doomed(s)
    BY <2>1 DEF HearInv
  <2> QED BY <1>1, <2>3, <2>4, <2>5 DEF Playing
<1> QED BY <1>3, <1>4

LEMMA MovesSee ==
    ASSUME QueueInv, SeeInv, NEW r \in Seq(Call), Moves(r), AsksNative(tasks)
    PROVE  SeeInv'
<1>0. posted \in Seq(Call)
  BY DEF QueueInv, IInv, EngineInv
<1>1. posted' = posted \o r /\ video' = video /\ session' = session
  BY PostsMore DEF Moves, Posts
<1> SUFFICES ASSUME NEW s \in Sid, entry'[s] = "ACTIVE"
             PROVE  \/ Sees(s)' \/ FocusTask(s, FALSE) \in ToSet(tasks')
                    \/ session'[s] = "gone"
  BY DEF SeeInv, Actives, Sees
<1>2. /\ FocusCall(s, FALSE) \notin ToSet(r) /\ DetachCall(s) \notin ToSet(r)
      /\ entry[s] = "ACTIVE" \/ AttachCall(s) \in ToSet(r)
  BY DEF Moves, Shown, Actives
<1> DEFINE on == {AttachCall(s), FocusCall(s, TRUE)}
           off == {DetachCall(s), FocusCall(s, FALSE)}
<1>3. \A x \in ToSet(r) : x \notin off
  BY <1>2
<1>4. CASE AttachCall(s) \in ToSet(r)
  <2>1. \E x \in ToSet(r) : x \in on
    BY <1>4
  <2> HIDE DEF on, off
  <2>2. Ends(posted \o r, on, off, s \in video)
    BY <1>0, <1>3, <2>1, EndsOn
  <2> QED BY <1>1, <2>2 DEF Sees, on, off
<1>5. CASE entry[s] = "ACTIVE" /\ Sees(s)
  <2>1. Ends(posted, on, off, s \in video)
    BY <1>5 DEF Sees
  <2> HIDE DEF on, off
  <2>2. Ends(posted \o r, on, off, s \in video)
    BY <1>0, <1>3, <2>1, EndsAfter
  <2> QED BY <1>1, <2>2 DEF Sees, on, off
<1>6. CASE entry[s] = "ACTIVE" /\ ~Sees(s)
  BY <1>1, <1>6 DEF SeeInv, Actives, Moves, Callbacks
<1> QED BY <1>2, <1>4, <1>5, <1>6

-----------------------------------------------------------------------------
(* Each step of the application is such a move. *)

\* A step that takes no callback.
LEMMA NoCallback ==
    ASSUME QueueInv, UNCHANGED <<tasks, discovered>>,
           \A s \in Sid : entry'[s] \in Identified => entry[s] \in Identified \/ Known(s)
    PROVE  Callbacks
BY DEF QueueInv, PhaseInv, Callbacks, Known

\* A step that posts nothing.
LEMMA PostsNothing ==
    ASSUME QueueInv, UNCHANGED <<posted, engineState, nextSid>>
    PROVE  <<>> \in Seq(Call) /\ Posts(<<>>) /\ \A c : c \notin ToSet(<<>>)
<1>1. posted \in Seq(Call) /\ posted \o <<>> = posted
  BY DEF QueueInv, IInv, EngineInv
<1> QED BY <1>1, NoneSet DEF Posts

\* The one that is removed with a call, or after its error.
LEMMA RemovesOnly ==
    ASSUME QueueInv, NEW S \in SUBSET Sid, RemoveSessions(S), UNCHANGED label,
           NEW r,
           \A s \in S : entry[s] # "absent" => StopCall(s) \in ToSet(r) \/ session[s] = "gone",
           \A s \in Sid : AttachCall(s) \notin ToSet(r) /\ DetachCall(s) \notin ToSet(r)
                          /\ FocusCall(s, FALSE) \notin ToSet(r)
    PROVE  /\ Entries(r) /\ Shown(r)
           /\ \A s \in Sid : entry'[s] = IF s \in S THEN "absent" ELSE entry[s]
<1>1. \A s \in Sid : entry'[s] = IF s \in S THEN "absent" ELSE entry[s]
  BY DEF RemoveSessions
<1>2. Entries(r)
  BY <1>1 DEF Entries, Enters, Leaves, Attaches, Playing
<1>3. Shown(r)
  BY <1>1 DEF Shown, Actives
<1> QED BY <1>1, <1>2, <1>3

LEMMA StopsOnly ==
    ASSUME NEW C, \A c \in C : c.call = "stop_session"
    PROVE  \A s \in Sid : /\ AttachCall(s) \notin C /\ DetachCall(s) \notin C
                          /\ FocusCall(s, FALSE) \notin C
<1> SUFFICES ASSUME NEW s \in Sid
             PROVE  /\ AttachCall(s) \notin C /\ DetachCall(s) \notin C
                    /\ FocusCall(s, FALSE) \notin C
  OBVIOUS
<1>1. /\ AttachCall(s).call # "stop_session" /\ DetachCall(s).call # "stop_session"
      /\ FocusCall(s, FALSE).call # "stop_session"
  BY DEF AttachCall, DetachCall, FocusCall
<1> QED BY <1>1

LEMMA StopMoves ==
    ASSUME QueueInv, UsbRemoved \/ \E s \in Sid : WirelessStop(s)
    PROVE  \E r \in Seq(Call) : Moves(r)
<1>1. CASE UsbRemoved
  <2> DEFINE S == WithLabel("USB")
             r == StopCalls(S)
  <2>1. S \in SUBSET Sid /\ \A s \in S : s < nextSid
    BY DEF WithLabel, QueueInv, NumberInv, IInv, AppInv, Sid
  <2>2. r \in Seq(Call) /\ ToSet(r) = {StopCall(s) : s \in S}
    BY <2>1, StopCallsTyped, StopCallsSet
  <2>3. /\ posted' = posted \o r /\ RemoveSessions(S)
        /\ UNCHANGED <<engineState, tasks, nextSid, label, main, bt>>
    BY <1>1 DEF UsbRemoved
  <2> HIDE DEF S, r
  <2>4. Posts(r)
    BY <2>1, <2>2, <2>3, CallNames DEF Posts, Starts
  <2>5. /\ Entries(r) /\ Shown(r)
        /\ \A s \in Sid : entry'[s] = IF s \in S THEN "absent" ELSE entry[s]
    <3>1. \A s \in S : StopCall(s) \in ToSet(r)
      BY <2>2
    <3>2. \A s \in Sid : AttachCall(s) \notin ToSet(r) /\ DetachCall(s) \notin ToSet(r)
                         /\ FocusCall(s, FALSE) \notin ToSet(r)
      <4>1. \A c \in ToSet(r) : c.call = "stop_session"
        BY <2>2, CallNames
      <4> QED BY <4>1, StopsOnly
    <3> QED BY <2>1, <2>3, <3>1, <3>2, RemovesOnly
  <2>6. Callbacks
    BY <2>3, <2>5, NoCallback DEF engineState, Identified
  <2>7. GoesOn
    BY <2>3 DEF GoesOn, QueueInv, NumberInv
  <2> QED BY <2>2, <2>4, <2>5, <2>6, <2>7 DEF Moves
<1>2. ASSUME NEW e \in Sid, WirelessStop(e) PROVE \E r \in Seq(Call) : Moves(r)
  <2> DEFINE r == <<StopCall(e)>>
  <2>1. r \in Seq(Call) /\ ToSet(r) = {StopCall(e)}
    <3>1. StopCall(e) \in Call
      BY CallsTyped
    <3> QED BY <3>1, OneSet
  <2>2. posted \in Seq(Call)
    BY DEF QueueInv, IInv, EngineInv
  <2>3. /\ posted' = posted \o r /\ RemoveSessions({e}) /\ e < nextSid
        /\ UNCHANGED <<engineState, tasks, nextSid, label, main>>
    BY <1>2, <2>2 DEF WirelessStop, QueueInv, NumberInv
  <2> HIDE DEF r
  <2>4. Posts(r)
    BY <2>1, <2>3, CallNames DEF Posts, Starts
  <2>5. /\ Entries(r) /\ Shown(r)
        /\ \A s \in Sid : entry'[s] = IF s = e THEN "absent" ELSE entry[s]
    <3>1. \A s \in Sid : AttachCall(s) \notin ToSet(r) /\ DetachCall(s) \notin ToSet(r)
                         /\ FocusCall(s, FALSE) \notin ToSet(r)
      <4>1. \A c \in ToSet(r) : c.call = "stop_session"
        BY <2>1, CallNames
      <4> QED BY <4>1, StopsOnly
    <3>2. /\ {e} \in SUBSET Sid /\ UNCHANGED label
          /\ \A s \in {e} : entry[s] # "absent" => StopCall(s) \in ToSet(r) \/ session[s] = "gone"
      BY <2>1, <2>3
    <3>3. /\ Entries(r) /\ Shown(r)
          /\ \A s \in Sid : entry'[s] = IF s \in {e} THEN "absent" ELSE entry[s]
      BY <2>3, <3>1, <3>2, RemovesOnly
    <3> QED BY <3>3
  <2>6. Callbacks
    BY <2>3, <2>5, NoCallback DEF engineState, Identified
  <2>7. bt'.op # "create" /\ (bt'.op = "stop" => bt'.sids \subseteq bt.sids /\ bt.op = "stop")
    BY <1>2 DEF WirelessStop, QueueInv, IInv, AppInv
  <2>8. GoesOn
    BY <2>3, <2>7 DEF GoesOn, QueueInv, NumberInv
  <2> QED BY <2>1, <2>4, <2>5, <2>6, <2>8 DEF Moves
<1> QED BY <1>1, <1>2

LEMMA WirelessMoves ==
    ASSUME QueueInv, WirelessCreate \/ WirelessDisconnected \/ UNCHANGED vars
    PROVE  \E r \in Seq(Call) : Moves(r)
<1>1. /\ <<>> \in Seq(Call) /\ Posts(<<>>) /\ \A c : c \notin ToSet(<<>>)
      /\ UNCHANGED <<tasks, discovered, main>>
  <2>1. UNCHANGED <<posted, engineState, nextSid, tasks, discovered, main>>
    BY DEF WirelessCreate, WirelessDisconnected, vars, engineVars, appVars, engineState
  <2> QED BY <2>1, PostsNothing
<1>2. CASE WirelessCreate
  <2>1. PICK e \in bt.sids : CreateSession(e, "Wireless")
    BY <1>2 DEF WirelessCreate
  <2>2. /\ bt.op = "create" /\ bt' = [op |-> "idle", sids |-> {}]
        /\ e \in Sid /\ entry[e] = "absent"
        /\ entry' = [entry EXCEPT ![e] = "CONNECTING"]
        /\ label' = [label EXCEPT ![e] = "Wireless"]
    BY <1>2, <2>1 DEF WirelessCreate, CreateSession, QueueInv, NumberInv, IInv, AppInv
  <2>3. \A s \in Sid : \/ s = e /\ entry'[s] = "CONNECTING" /\ label'[s] = "Wireless"
                       \/ s # e /\ entry'[s] = entry[s] /\ label'[s] = label[s]
    BY <2>2 DEF QueueInv, IInv, AppInv
  <2>4. Entries(<<>>) /\ Shown(<<>>)
    BY <1>1, <2>1, <2>2, <2>3 DEF Entries, Enters, Leaves, Attaches, Shown, Actives, Playing
  <2>5. Callbacks
    BY <1>1, <2>3, NoCallback DEF Identified
  <2>6. GoesOn
    BY <1>1, <2>2 DEF GoesOn
  <2> QED BY <1>1, <2>4, <2>5, <2>6 DEF Moves
<1>3. CASE WirelessDisconnected \/ UNCHANGED vars
  <2>1. /\ UNCHANGED <<entry, label>>
        /\ UNCHANGED bt \/ bt' = [op |-> "stop", sids |-> WithLabel("Wireless")]
    BY <1>3 DEF WirelessDisconnected, vars, appVars
  <2>2. Entries(<<>>) /\ Shown(<<>>)
    BY <1>1, <2>1 DEF Entries, Enters, Leaves, Attaches, Shown, Actives
  <2>3. Callbacks
    BY <1>1, <2>1, NoCallback
  <2>4. GoesOn
    <3>1. \A s \in WithLabel("Wireless") : s < nextSid
      BY DEF WithLabel, QueueInv, NumberInv, IInv, AppInv, Sid
    <3> QED BY <1>1, <2>1, <3>1 DEF GoesOn, QueueInv, NumberInv
  <2> QED BY <1>1, <2>2, <2>3, <2>4 DEF Moves
<1> QED BY <1>2, <1>3

\* The first half of an activation posts r: those who play are demoted, all but one.
Demotes(s, calls, states, r) ==
    /\ posted' = posted \o r
    /\ ToSet(calls) \subseteq ToSet(r)
    /\ \A c \in ToSet(r) :
          \/ c \in ToSet(calls)
          \/ \E e \in Sid : /\ states[e] \in Playing /\ entry'[e] = "CONNECTED"
                            /\ c \in {FocusCall(e, FALSE), DetachCall(e)}
    /\ \A e \in Sid :
          \/ entry'[e] = states[e]
          \/ /\ states[e] \in Playing /\ entry'[e] = "CONNECTED"
             /\ DetachCall(e) \in ToSet(r)
    /\ \/ main' = main
       \/ main'.sid = s /\ entry'[s] \in Identified

LEMMA ActivatePosts ==
    ASSUME QueueInv, NEW s \in Sid, NEW role \in Playing, NEW calls \in Seq(Call),
           NEW states \in [Sid -> {"absent", "CONNECTING", "CONNECTED", "BACKGROUND", "ACTIVE"}],
           Activate(s, role, states, calls)
    PROVE  \E r \in Seq(Call) : Demotes(s, calls, states, r)
<1>0. posted \in Seq(Call)
  BY DEF QueueInv, IInv, EngineInv
<1>1. CASE states[s] \in {"absent", "CONNECTING"}
  <2>1. entry' = states /\ posted' = posted \o calls /\ main' = main
    BY <1>1 DEF Activate
  <2> QED BY <2>1 DEF Demotes
<1>2. CASE states[s] \notin {"absent", "CONNECTING"}
  <2> DEFINE D == {e \in Sid \ {s} : states[e] \in Playing}
             d == DemoteCalls(states, s)
             r == calls \o d
  <2>1. /\ entry' = Demoted(states, s)
        /\ posted' = posted \o calls \o d
        /\ main' = [op |-> role, sid |-> s]
    BY <1>2 DEF Activate
  <2>2. d \in Seq(Call) /\ ToSet(d) = {FocusCall(e, FALSE) : e \in D} \cup {DetachCall(e) : e \in D}
    BY DemoteCallsTyped, DemoteCallsSet
  <2>3. /\ \A e \in Sid : entry'[e] = IF e \in D THEN "CONNECTED" ELSE states[e]
        /\ \A e \in D : e \in Sid /\ states[e] \in Playing
        /\ s \notin D
    BY <2>1 DEF Demoted
  <2> HIDE DEF D, d
  <2>4. r \in Seq(Call) /\ ToSet(r) = ToSet(calls) \cup ToSet(d) /\ posted' = posted \o r
    <3>1. r \in Seq(Call) /\ posted' = posted \o r
      <4>1. calls \o d \in Seq(Call)
        BY <2>2, Joined
      <4>2. posted \o calls \o d = posted \o (calls \o d)
        BY <1>0, <2>2, JoinedTwice
      <4> QED BY <2>1, <4>1, <4>2
    <3>2. ToSet(calls \o d) = ToSet(calls) \cup ToSet(d)
      BY <2>2, JoinedSet
    <3> QED BY <3>1, <3>2
  <2> HIDE DEF r
  <2>5. \A c \in ToSet(r) :
            \/ c \in ToSet(calls)
            \/ \E e \in Sid : /\ states[e] \in Playing /\ entry'[e] = "CONNECTED"
                              /\ c \in {FocusCall(e, FALSE), DetachCall(e)}
    BY <2>2, <2>3, <2>4
  <2>6. \A e \in Sid :
            \/ entry'[e] = states[e]
            \/ states[e] \in Playing /\ entry'[e] = "CONNECTED" /\ DetachCall(e) \in ToSet(r)
    BY <2>2, <2>3, <2>4
  <2>7. main'.sid = s /\ entry'[s] \in Identified
    BY <1>2, <2>1, <2>3 DEF Identified
  <2> QED BY <2>4, <2>5, <2>6, <2>7 DEF Demotes
<1> QED BY <1>1, <1>2

\* One call is not another.
LEMMA FocusIs ==
    ASSUME NEW e, NEW p
    PROVE  /\ FocusCall(e, p) \notin Starts /\ FocusCall(e, p).sid = e
           /\ \A s : /\ FocusCall(e, p) # AttachCall(s) /\ FocusCall(e, p) # DetachCall(s)
                     /\ FocusCall(e, p) = FocusCall(s, p) => s = e
<1>1. FocusCall(e, p).call = "set_video_focus" /\ FocusCall(e, p).sid = e
  BY CallNames
<1>2. FocusCall(e, p) \notin Starts
  BY <1>1, CallNames DEF Starts
<1>3. ASSUME NEW s PROVE FocusCall(e, p) # AttachCall(s) /\ FocusCall(e, p) # DetachCall(s)
  BY <1>1, CallNames
<1>4. ASSUME NEW s, FocusCall(e, p) = FocusCall(s, p) PROVE s = e
  BY <1>1, <1>4, CallNames
<1> QED BY <1>1, <1>2, <1>3, <1>4

LEMMA NotNative ==
    ASSUME NEW e, NEW s
    PROVE  FocusCall(e, TRUE) # FocusCall(s, FALSE)
<1>1. FocusCall(e, TRUE).projected = TRUE /\ FocusCall(s, FALSE).projected = FALSE
  BY DEF FocusCall
<1> QED BY <1>1

LEMMA SinksAre ==
    ASSUME NEW e
    PROVE  /\ AttachCall(e) \notin Starts /\ AttachCall(e).sid = e
           /\ DetachCall(e) \notin Starts /\ DetachCall(e).sid = e
           /\ \A s : /\ AttachCall(e) # DetachCall(s)
                     /\ AttachCall(e) = AttachCall(s) => s = e
                     /\ DetachCall(e) = DetachCall(s) => s = e
<1>1. /\ AttachCall(e).call = "attach_all_sinks" /\ AttachCall(e).sid = e
      /\ DetachCall(e).call = "detach_all_sinks" /\ DetachCall(e).sid = e
  BY CallNames
<1>2. AttachCall(e) \notin Starts /\ DetachCall(e) \notin Starts
  BY <1>1, CallNames DEF Starts
<1>3. ASSUME NEW s
      PROVE  /\ AttachCall(e) # DetachCall(s)
             /\ AttachCall(e) = AttachCall(s) => s = e
             /\ DetachCall(e) = DetachCall(s) => s = e
  BY <1>1, CallNames
<1> QED BY <1>1, <1>2, <1>3

\* A session that is known has its number.
LEMMA KnownNumber ==
    ASSUME QueueInv, NEW s \in Sid, s \in discovered \/ entry[s] # "absent"
    PROVE  s < nextSid
BY DEF QueueInv, NumberInv, PhaseInv, IInv, AppInv, Sid

LEMMA UserMoves ==
    ASSUME QueueInv, NEW s \in Sid, ActivateSession(s) \/ ActivateBackground(s)
    PROVE  \E r \in Seq(Call) : Moves(r)
<1>0. /\ entry \in [Sid -> {"absent", "CONNECTING", "CONNECTED", "BACKGROUND", "ACTIVE"}]
      /\ <<>> \in Seq(Call) /\ \A c : c \notin ToSet(<<>>)
  BY NoneSet DEF QueueInv, IInv, AppInv
<1>1. PICK role \in Playing : Activate(s, role, entry, <<>>)
  BY DEF ActivateSession, ActivateBackground, Playing
<1>2. PICK r \in Seq(Call) :
          /\ posted' = posted \o r
          /\ \A c \in ToSet(r) :
                \E e \in Sid : /\ entry[e] \in Playing /\ entry'[e] = "CONNECTED"
                               /\ c \in {FocusCall(e, FALSE), DetachCall(e)}
          /\ \A e \in Sid :
                \/ entry'[e] = entry[e]
                \/ /\ entry[e] \in Playing /\ entry'[e] = "CONNECTED"
                   /\ DetachCall(e) \in ToSet(r)
          /\ \/ main' = main
             \/ main'.sid = s /\ entry'[s] \in Identified
  <2> DEFINE none == <<>>
  <2>0. none \in Seq(Call) /\ Activate(s, role, entry, none) /\ \A c : c \notin ToSet(none)
    BY <1>0, <1>1
  <2> HIDE DEF none
  <2>1. PICK r \in Seq(Call) : Demotes(s, none, entry, r)
    BY <1>0, <2>0, ActivatePosts
  <2> QED BY <2>0, <2>1 DEF Demotes
<1>3. UNCHANGED <<engineState, tasks, nextSid, label, bt>>
  BY DEF ActivateSession, ActivateBackground
<1>4. Posts(r)
  <2>1. ASSUME NEW c \in ToSet(r) PROVE c \notin Starts /\ c.sid < nextSid
    <3>1. PICK e \in Sid : entry[e] \in Playing /\ c \in {FocusCall(e, FALSE), DetachCall(e)}
      BY <1>2
    <3>2. e < nextSid
      BY <3>1, KnownNumber DEF Playing
    <3> QED BY <3>1, <3>2, FocusIs, SinksAre
  <2> QED BY <1>2, <1>3, <2>1 DEF Posts
<1>5. ASSUME NEW e \in Sid
      PROVE  /\ AttachCall(e) \notin ToSet(r)
             /\ entry'[e] = "ACTIVE" => /\ FocusCall(e, FALSE) \notin ToSet(r)
                                        /\ DetachCall(e) \notin ToSet(r)
  <2>1. AttachCall(e) \notin ToSet(r)
    <3> SUFFICES ASSUME AttachCall(e) \in ToSet(r) PROVE FALSE
      OBVIOUS
    <3>1. PICK k \in Sid : AttachCall(e) \in {FocusCall(k, FALSE), DetachCall(k)}
      BY <1>2
    <3> QED BY <3>1, FocusIs, SinksAre
  <2>2. ASSUME DetachCall(e) \in ToSet(r) \/ FocusCall(e, FALSE) \in ToSet(r)
        PROVE  entry'[e] = "CONNECTED"
    <3>1. PICK c \in ToSet(r) : c = DetachCall(e) \/ c = FocusCall(e, FALSE)
      BY <2>2
    <3>2. PICK k \in Sid : entry'[k] = "CONNECTED" /\ c \in {FocusCall(k, FALSE), DetachCall(k)}
      BY <1>2
    <3>3. k = e
      <4>1. CASE c = DetachCall(e)
        BY <3>2, <4>1, FocusIs, SinksAre
      <4>2. CASE c = FocusCall(e, FALSE)
        BY <3>2, <4>2, FocusIs
      <4> QED BY <3>1, <4>1, <4>2
    <3> QED BY <3>2, <3>3
  <2> QED BY <2>1, <2>2
<1>6. Entries(r) /\ Shown(r)
  BY <1>2, <1>3, <1>5 DEF Entries, Enters, Leaves, Attaches, Shown, Actives, Playing
<1>7. Callbacks
  BY <1>2, <1>3, NoCallback DEF engineState, Identified, Playing
<1>8. GoesOn
  BY <1>2, <1>3 DEF GoesOn, QueueInv, NumberInv
<1> QED BY <1>4, <1>6, <1>7, <1>8 DEF Moves

LEMMA SurfaceMoves ==
    ASSUME QueueInv, SurfaceCreated \/ SurfaceDestroyed
    PROVE  \E r \in Seq(Call) : Moves(r)
<1>0. entry \in [Sid -> {"absent", "CONNECTING", "CONNECTED", "BACKGROUND", "ACTIVE"}]
  BY DEF QueueInv, IInv, AppInv
<1>1. UNCHANGED <<engineState, tasks, nextSid, label, main, bt>>
  BY DEF SurfaceCreated, SurfaceDestroyed
<1>2. GoesOn
  BY <1>1 DEF GoesOn, QueueInv, NumberInv
<1>3. CASE SurfaceCreated
  <2> DEFINE r == SurfaceReadyCalls(entry, TRUE)
  <2>1. r \in Seq(Call) /\ \A c \in ToSet(r) : \E e \in Actives(entry) : c = FocusCall(e, TRUE)
    BY SurfaceReadyCallsTyped, SurfaceReadySet
  <2>2. posted' = posted \o r /\ UNCHANGED entry
    BY <1>3 DEF SurfaceCreated
  <2> HIDE DEF r
  <2>3. Posts(r)
    <3>1. ASSUME NEW c \in ToSet(r) PROVE c \notin Starts /\ c.sid < nextSid
      <4>1. PICK e \in Sid : entry[e] = "ACTIVE" /\ c = FocusCall(e, TRUE)
        BY <2>1 DEF Actives
      <4>2. e < nextSid
        BY <4>1, KnownNumber
      <4> QED BY <4>1, <4>2, FocusIs
    <3> QED BY <1>1, <2>2, <3>1 DEF Posts
  <2>4. ASSUME NEW s \in Sid
        PROVE  /\ AttachCall(s) \notin ToSet(r) /\ DetachCall(s) \notin ToSet(r)
               /\ FocusCall(s, FALSE) \notin ToSet(r)
    <3>1. ASSUME NEW e, NEW c, c = FocusCall(e, TRUE)
          PROVE  c # DetachCall(s) /\ c # FocusCall(s, FALSE) /\ c # AttachCall(s)
      BY <3>1, FocusIs, NotNative
    <3> QED BY <2>1, <3>1
  <2>5. Entries(r) /\ Shown(r)
    BY <1>1, <2>2, <2>4 DEF Entries, Enters, Leaves, Attaches, Shown, Actives
  <2>6. Callbacks
    BY <1>1, <2>2, NoCallback DEF engineState
  <2> QED BY <1>2, <2>1, <2>3, <2>5, <2>6 DEF Moves
<1>4. CASE SurfaceDestroyed
  <2> DEFINE q == SetToSeq(Actives(entry))
             r == [i \in DOMAIN q |-> FocusCall(q[i], FALSE)]
  <2>1. r \in Seq(Call) /\ ToSet(r) = {FocusCall(e, FALSE) : e \in Actives(entry)}
    <3>1. Actives(entry) \in SUBSET Sid
      BY DEF Actives
    <3> QED BY <3>1, NativeCallsSet
  <2>2. /\ posted' = posted \o r
        /\ \A s \in Sid : entry'[s] = IF entry[s] = "ACTIVE" THEN "BACKGROUND" ELSE entry[s]
    BY <1>4 DEF SurfaceDestroyed
  <2> HIDE DEF q, r
  <2>3. Posts(r)
    <3>1. ASSUME NEW c \in ToSet(r) PROVE c \notin Starts /\ c.sid < nextSid
      <4>1. PICK e \in Sid : entry[e] = "ACTIVE" /\ c = FocusCall(e, FALSE)
        BY <2>1 DEF Actives
      <4>2. e < nextSid
        BY <4>1, KnownNumber
      <4> QED BY <4>1, <4>2, FocusIs
    <3> QED BY <1>1, <2>2, <3>1 DEF Posts
  <2>4. \A s \in Sid : AttachCall(s) \notin ToSet(r)
    BY <2>1, FocusIs
  <2>5. Entries(r) /\ Shown(r)
    BY <1>0, <1>1, <2>2, <2>4 DEF Entries, Enters, Leaves, Attaches, Shown, Actives, Playing
  <2>6. Callbacks
    BY <1>0, <1>1, <2>2, NoCallback DEF engineState, Identified
  <2> QED BY <1>2, <2>1, <2>3, <2>5, <2>6 DEF Moves
<1> QED BY <1>3, <1>4

LEMMA FinishMoves ==
    ASSUME QueueInv, FinishActivation
    PROVE  \E r \in Seq(Call) : Moves(r)
<1> DEFINE m == main.sid
           shown == IF main.op = "ACTIVE" THEN SurfaceReadyCalls(entry', surfaceLive) ELSE <<>>
           r == <<AttachCall(m)>> \o shown
<1>1. /\ m \in Sid /\ main.op \in Playing /\ Known(m) /\ m < nextSid
      /\ entry[m] # "absent" \/ Doomed(m)
      /\ entry \in [Sid -> {"absent", "CONNECTING", "CONNECTED", "BACKGROUND", "ACTIVE"}]
      /\ posted \in Seq(Call)
  <2>1. /\ m \in Sid /\ main.op \in Playing /\ Known(m)
        /\ entry[m] # "absent" \/ Doomed(m)
    BY DEF FinishActivation, QueueInv, PhaseInv, IInv, AppInv
  <2>2. m < nextSid
    BY <2>1, KnownNumber DEF Known
  <2> QED BY <2>1, <2>2 DEF QueueInv, IInv, EngineInv, AppInv
<1>2. /\ UNCHANGED <<engineState, tasks, nextSid, label, bt>> /\ main' = Idle
      /\ \A s \in Sid : entry'[s] = IF s = m /\ entry[m] # "absent" THEN main.op ELSE entry[s]
  BY <1>1 DEF FinishActivation
<1>3. /\ shown \in Seq(Call)
      /\ \A c \in ToSet(shown) : \E e \in Actives(entry') : c = FocusCall(e, TRUE)
  <2>1. CASE main.op = "ACTIVE"
    <3>1. PICK states : states = entry'
      OBVIOUS
    <3>2. /\ SurfaceReadyCalls(states, surfaceLive) \in Seq(Call)
          /\ \A c \in ToSet(SurfaceReadyCalls(states, surfaceLive)) :
                \E e \in Actives(states) : c = FocusCall(e, TRUE)
      BY SurfaceReadyCallsTyped, SurfaceReadySet
    <3>3. shown = SurfaceReadyCalls(states, surfaceLive)
      BY <2>1, <3>1
    <3> HIDE DEF shown
    <3> QED BY <3>1, <3>2, <3>3
  <2>2. CASE main.op # "ACTIVE"
    <3>1. shown = <<>> /\ <<>> \in Seq(Call)
      BY <2>2
    <3> HIDE DEF shown
    <3> QED BY <3>1, NoneSet
  <2> QED BY <2>1, <2>2
<1>4. posted' = posted \o <<AttachCall(m)>> \o shown
  BY DEF FinishActivation
<1>5. <<AttachCall(m)>> \in Seq(Call)
  <2>1. AttachCall(m) \in Call
    BY <1>1, CallsTyped
  <2> QED BY <2>1
<1> HIDE DEF m, shown
<1>6. /\ r \in Seq(Call) /\ posted' = posted \o r
      /\ \A c \in ToSet(r) : c = AttachCall(m) \/ \E e \in Actives(entry') : c = FocusCall(e, TRUE)
      /\ AttachCall(m) \in ToSet(r)
  <2>1. r \in Seq(Call) /\ posted' = posted \o r
    <3> DEFINE a == <<AttachCall(m)>>
    <3>1. a \in Seq(Call) /\ shown \in Seq(Call) /\ posted \in Seq(Call)
      BY <1>1, <1>3, <1>5
    <3> HIDE DEF a
    <3>2. a \o shown \in Seq(Call)
      BY <3>1, Joined
    <3>3. posted \o a \o shown = posted \o (a \o shown)
      BY <3>1, JoinedTwice
    <3> QED BY <1>4, <3>2, <3>3 DEF a
  <2>2. ToSet(r) = {AttachCall(m)} \cup ToSet(shown)
    <3> DEFINE a == <<AttachCall(m)>>
    <3>1. a \in Seq(Call) /\ shown \in Seq(Call) /\ ToSet(a) = {AttachCall(m)}
      BY <1>3, <1>5, OneSet
    <3> HIDE DEF a
    <3>2. ToSet(a \o shown) = ToSet(a) \cup ToSet(shown)
      BY <3>1, JoinedSet
    <3> QED BY <3>1, <3>2 DEF a
  <2> HIDE DEF r
  <2> QED BY <1>3, <2>1, <2>2
<1> HIDE DEF r
<1>7. Posts(r)
  <2>1. ASSUME NEW c \in ToSet(r) PROVE c \notin Starts /\ c.sid < nextSid
    <3>1. CASE c = AttachCall(m)
      BY <1>1, <3>1, SinksAre
    <3>2. ASSUME NEW e \in Sid, entry'[e] = "ACTIVE", c = FocusCall(e, TRUE)
          PROVE  c \notin Starts /\ c.sid < nextSid
      <4>1. e < nextSid
        <5>1. CASE e = m
          BY <1>1, <5>1
        <5>2. CASE e # m
          BY <1>2, <3>2, <5>2, KnownNumber
        <5> QED BY <5>1, <5>2
      <4> QED BY <3>2, <4>1, FocusIs
    <3> QED BY <1>6, <3>1, <3>2 DEF Actives
  <2> QED BY <1>2, <1>6, <2>1 DEF Posts
<1>8. ASSUME NEW s \in Sid
      PROVE  /\ AttachCall(s) \in ToSet(r) <=> s = m
             /\ DetachCall(s) \notin ToSet(r) /\ FocusCall(s, FALSE) \notin ToSet(r)
  <2>1. ASSUME NEW c \in ToSet(r)
        PROVE  /\ c # DetachCall(s) /\ c # FocusCall(s, FALSE)
               /\ c = AttachCall(s) => s = m
    <3>1. CASE c = AttachCall(m)
      BY <3>1, FocusIs, SinksAre
    <3>2. ASSUME NEW e, c = FocusCall(e, TRUE)
          PROVE  c # DetachCall(s) /\ c # FocusCall(s, FALSE) /\ c # AttachCall(s)
      BY <3>2, FocusIs, NotNative
    <3> QED BY <1>6, <3>1, <3>2
  <2> QED BY <1>6, <2>1
<1>9. Entries(r) /\ Shown(r)
  BY <1>1, <1>2, <1>8 DEF Entries, Enters, Leaves, Attaches, Shown, Actives, Playing
<1>10. Callbacks
  BY <1>1, <1>2, NoCallback DEF engineState, Identified
<1>11. GoesOn
  BY <1>2 DEF GoesOn, QueueInv, NumberInv
<1> QED BY <1>6, <1>7, <1>9, <1>10, <1>11 DEF Moves

\* A callback is taken: those of the same session behind it are not its identification.
LEMMA TakesCallback ==
    ASSUME QueueInv, RunTask, NEW t, t = Head(tasks),
           \A s \in Sid : /\ t = FocusTask(s, FALSE) => entry'[s] # "ACTIVE"
                          /\ t = ErrorTask(s) => entry'[s] = "absent"
                          /\ entry'[s] \in Identified =>
                                entry[s] \in Identified \/ (s = t.sid /\ s \in discovered)
    PROVE  Callbacks
<1>1. tasks \in Seq(Task) /\ tasks # <<>> /\ tasks' = Tail(tasks) /\ discovered' = discovered
  BY DEF QueueInv, IInv, EngineInv, TasksOf, RunTask, engineState
<1>2. /\ ToSet(tasks) = {t} \cup ToSet(tasks')
      /\ First(tasks', Identifications)
      /\ \A x \in ToSet(tasks') : x \in Identifications => t.sid # x.sid
  <2>1. First(tasks, Identifications)
    BY DEF QueueInv, PhaseInv
  <2> QED BY <1>1, <2>1, TailSet, FirstTail
<1>3. ASSUME NEW s \in Sid, entry'[s] \in Identified PROVE Known(s)'
  <2>1. CASE entry[s] \in Identified
    BY <1>1, <1>2, <2>1 DEF QueueInv, PhaseInv, Known
  <2>2. CASE s = t.sid /\ s \in discovered
    <3>1. IdentifiedTask(s) \in Identifications /\ IdentifiedTask(s).sid = s
      BY DEF Identifications, IdentifiedTask
    <3> QED BY <1>1, <1>2, <2>2, <3>1 DEF Known
  <2> QED BY <1>3, <2>1, <2>2
<1> QED BY <1>2, <1>3 DEF Callbacks

LEMMA IdentifiedMoves ==
    ASSUME QueueInv, RunTask, NEW e \in Sid, e \in discovered, IdentifiedTask(e) = Head(tasks),
           OnPhoneIdentified(e)
    PROVE  \E r \in Seq(Call) : Moves(r)
<1> DEFINE same == {x \in named \ {e} : phone[x] = phone[e]}
           old == IF same = {} THEN {} ELSE {Min(same)}
           states == [x \in Sid |-> IF x \in old \/ entry[x] = "absent" THEN "absent"
                                    ELSE IF x = e THEN "CONNECTED" ELSE entry[x]]
           calls == StopCalls(old)
<1>0. /\ entry \in [Sid -> {"absent", "CONNECTING", "CONNECTED", "BACKGROUND", "ACTIVE"}]
      /\ named \subseteq {x \in discovered : entry[x] # "absent"}
      /\ discovered \subseteq Sid /\ posted \in Seq(Call)
      /\ tasks \in Seq(Task) /\ tasks # <<>>
  BY DEF QueueInv, IInv, AppInv, EngineInv, TasksOf, RunTask
<1>1. old \in SUBSET named /\ e \notin old
  <2>1. same \in SUBSET Sid /\ same \subseteq named /\ e \notin same
    BY <1>0
  <2>2. same # {} => Min(same) \in same
    BY <2>1, MinOfSids
  <2> HIDE DEF same
  <2> QED BY <2>1, <2>2
<1>2. old \in SUBSET Sid /\ \A s \in old : s < nextSid
  BY <1>0, <1>1, KnownNumber
<1>3. entry[e] \notin Identified
  <2>1. IdentifiedTask(e) \in ToSet(tasks)
    BY <1>0, TailSet
  <2> QED BY <2>1 DEF QueueInv, PhaseInv, Known
<1>4. calls \in Seq(Call) /\ ToSet(calls) = {StopCall(s) : s \in old}
  BY <1>2, StopCallsTyped, StopCallsSet
<1>5. \/ entry' = states /\ posted' = posted \o calls /\ UNCHANGED main
      \/ Activate(e, "ACTIVE", states, calls)
  BY DEF OnPhoneIdentified
<1>6. /\ states \in [Sid -> {"absent", "CONNECTING", "CONNECTED", "BACKGROUND", "ACTIVE"}]
      /\ \A s \in Sid : states[s] = IF s \in old \/ entry[s] = "absent" THEN "absent"
                                    ELSE IF s = e THEN "CONNECTED" ELSE entry[s]
  <2> HIDE DEF old
  <2> QED BY <1>0
<1>7. UNCHANGED <<engineState, nextSid, label, bt>>
  BY DEF OnPhoneIdentified, RunTask
<1> HIDE DEF states, calls, old, same
<1>8. PICK r \in Seq(Call) : Demotes(e, calls, states, r)
  <2>1. CASE entry' = states /\ posted' = posted \o calls /\ UNCHANGED main
    <3>1. Demotes(e, calls, states, calls)
      BY <2>1 DEF Demotes
    <3> QED BY <1>4, <3>1
  <2>2. CASE Activate(e, "ACTIVE", states, calls)
    <3>1. "ACTIVE" \in Playing
      BY DEF Playing
    <3> QED BY <1>4, <1>6, <2>2, <3>1, ActivatePosts
  <2> QED BY <1>5, <2>1, <2>2
<1>9. /\ posted' = posted \o r
      /\ \A s \in old : StopCall(s) \in ToSet(r)
      /\ \A c \in ToSet(r) :
            \/ \E s \in old : c = StopCall(s)
            \/ \E s \in Sid : /\ states[s] \in Playing /\ entry'[s] = "CONNECTED"
                              /\ c \in {FocusCall(s, FALSE), DetachCall(s)}
      /\ \A s \in Sid :
            \/ entry'[s] = states[s]
            \/ /\ states[s] \in Playing /\ entry'[s] = "CONNECTED"
               /\ DetachCall(s) \in ToSet(r)
      /\ main' = main \/ (main'.sid = e /\ entry'[e] \in Identified)
  BY <1>4, <1>8 DEF Demotes
<1>10. Posts(r)
  <2>1. ASSUME NEW c \in ToSet(r) PROVE c \notin Starts /\ c.sid < nextSid
    <3>1. ASSUME NEW s \in old, c = StopCall(s) PROVE c \notin Starts /\ c.sid < nextSid
      BY <1>2, <3>1, CallNames DEF Starts
    <3>2. ASSUME NEW s \in Sid, states[s] \in Playing, c \in {FocusCall(s, FALSE), DetachCall(s)}
          PROVE  c \notin Starts /\ c.sid < nextSid
      <4>1. s < nextSid
        BY <1>6, <3>2, KnownNumber DEF Playing
      <4> QED BY <3>2, <4>1, FocusIs, SinksAre
    <3> QED BY <1>9, <3>1, <3>2
  <2> QED BY <1>7, <1>9, <2>1 DEF Posts
<1>11. ASSUME NEW s \in Sid
       PROVE  /\ AttachCall(s) \notin ToSet(r)
              /\ entry'[s] = "ACTIVE" => /\ FocusCall(s, FALSE) \notin ToSet(r)
                                         /\ DetachCall(s) \notin ToSet(r)
  <2>1. ASSUME NEW c \in ToSet(r)
        PROVE  /\ c # AttachCall(s)
               /\ c = DetachCall(s) \/ c = FocusCall(s, FALSE) => entry'[s] = "CONNECTED"
    <3>1. ASSUME NEW k \in old, c = StopCall(k)
          PROVE  c # AttachCall(s) /\ c # DetachCall(s) /\ c # FocusCall(s, FALSE)
      <4>1. \A x \in {c} : x.call = "stop_session"
        BY <3>1, CallNames
      <4> QED BY <4>1, StopsOnly
    <3>2. ASSUME NEW k \in Sid, entry'[k] = "CONNECTED", c = FocusCall(k, FALSE)
          PROVE  /\ c # AttachCall(s) /\ c # DetachCall(s)
                 /\ c = FocusCall(s, FALSE) => entry'[s] = "CONNECTED"
      BY <3>2, FocusIs
    <3>3. ASSUME NEW k \in Sid, entry'[k] = "CONNECTED", c = DetachCall(k)
          PROVE  /\ c # AttachCall(s) /\ c # FocusCall(s, FALSE)
                 /\ c = DetachCall(s) => entry'[s] = "CONNECTED"
      BY <3>3, FocusIs, SinksAre
    <3> QED BY <1>9, <3>1, <3>2, <3>3
  <2> QED BY <2>1
<1>12. Entries(r) /\ Shown(r)
  <2>1. ASSUME NEW s \in Sid
        PROVE  /\ Enters(s) /\ Leaves(s, r) /\ Attaches(s, r)
               /\ label'[s] = "USB" => label[s] = "USB"
    BY <1>3, <1>6, <1>7, <1>9, <1>11 DEF Enters, Leaves, Attaches, Playing, Identified
  <2>2. ASSUME NEW s \in Sid, entry'[s] = "ACTIVE" PROVE entry[s] = "ACTIVE"
    BY <1>6, <1>9, <2>2
  <2> QED BY <1>11, <2>1, <2>2 DEF Entries, Shown, Actives
<1>13. Callbacks
  <2>1. \A s \in Sid : entry'[s] \in Identified => entry[s] \in Identified \/ s = e
    BY <1>6, <1>9 DEF Identified, Playing
  <2>2. /\ IdentifiedTask(e).sid = e
        /\ \A s : IdentifiedTask(e) # FocusTask(s, FALSE) /\ IdentifiedTask(e) # ErrorTask(s)
    <3>1. IdentifiedTask(e).task = "onPhoneIdentified" /\ IdentifiedTask(e).sid = e
      BY DEF IdentifiedTask
    <3>2. \A s : /\ FocusTask(s, FALSE).task = "onVideoFocusChanged"
                 /\ ErrorTask(s).task = "onSessionError"
      BY DEF FocusTask, ErrorTask
    <3> QED BY <3>1, <3>2
  <2> QED BY <2>1, <2>2, TakesCallback
<1>14. GoesOn
  BY <1>7, <1>9 DEF GoesOn, QueueInv, NumberInv
<1> QED BY <1>10, <1>12, <1>13, <1>14 DEF Moves

LEMMA TaskMoves ==
    ASSUME QueueInv, RunTask
    PROVE  \E r \in Seq(Call) : Moves(r)
<1> DEFINE t == Head(tasks)
<1>0. /\ entry \in [Sid -> {"absent", "CONNECTING", "CONNECTED", "BACKGROUND", "ACTIVE"}]
      /\ tasks \in Seq(Task) /\ tasks # <<>>
  BY DEF QueueInv, IInv, AppInv, EngineInv, TasksOf, RunTask
<1>1. /\ t \in Task /\ t \in ToSet(tasks) /\ UNCHANGED engineState
      /\ \/ t.task = "onSessionError" /\ OnSessionError(t.sid)
         \/ t.task = "onPhoneIdentified" /\ OnPhoneIdentified(t.sid)
         \/ t.task = "onVideoFocusChanged" /\ OnVideoFocusChanged(t.sid, t.projected)
      /\ AsksNative(tasks) => (t.task = "onVideoFocusChanged" => ~t.projected)
  BY <1>0, TailSet, HeadAndTail, NativeShrinks DEF RunTask
<1> HIDE DEF t
<1>2. /\ t.sid \in Sid
      /\ IF t.task = "onSessionError" THEN t.sid \in reported ELSE t.sid \in discovered
  BY <1>1 DEF Task, QueueInv, PhaseInv
<1>3. CASE t.task = "onSessionError" /\ OnSessionError(t.sid)
  <2>1. UNCHANGED <<posted, engineState, nextSid, label, main, bt>> /\ RemoveSessions({t.sid})
    BY <1>1, <1>3 DEF OnSessionError
  <2>2. <<>> \in Seq(Call) /\ Posts(<<>>) /\ \A c : c \notin ToSet(<<>>)
    BY <2>1, PostsNothing
  <2>3. session[t.sid] = "gone"
    BY <1>2, <1>3 DEF QueueInv, PhaseInv
  <2>4. /\ Entries(<<>>) /\ Shown(<<>>)
        /\ \A s \in Sid : entry'[s] = IF s \in {t.sid} THEN "absent" ELSE entry[s]
    <3>1. {t.sid} \in SUBSET Sid /\ UNCHANGED label
      BY <1>2, <2>1
    <3>2. \A s \in {t.sid} :
              entry[s] # "absent" => StopCall(s) \in ToSet(<<>>) \/ session[s] = "gone"
      BY <2>3
    <3>3. \A s \in Sid : AttachCall(s) \notin ToSet(<<>>) /\ DetachCall(s) \notin ToSet(<<>>)
                         /\ FocusCall(s, FALSE) \notin ToSet(<<>>)
      BY <2>2
    <3> QED BY <2>1, <3>1, <3>2, <3>3, RemovesOnly
  <2>5. Callbacks
    <3>1. ASSUME NEW s \in Sid
          PROVE  /\ t = FocusTask(s, FALSE) => entry'[s] # "ACTIVE"
                 /\ t = ErrorTask(s) => entry'[s] = "absent"
                 /\ entry'[s] \in Identified => entry[s] \in Identified
      <4>1. t # FocusTask(s, FALSE)
        BY <1>3 DEF FocusTask
      <4>2. t = ErrorTask(s) => s = t.sid
        BY DEF ErrorTask
      <4> QED BY <2>4, <4>1, <4>2 DEF Identified
    <3> QED BY <3>1, TakesCallback DEF t
  <2>6. GoesOn
    BY <2>1 DEF GoesOn, QueueInv, NumberInv
  <2> QED BY <2>2, <2>4, <2>5, <2>6 DEF Moves
<1>4. CASE t.task = "onPhoneIdentified" /\ OnPhoneIdentified(t.sid)
  <2>1. t = IdentifiedTask(t.sid)
    BY <1>1, <1>4 DEF Task, IdentifiedTask
  <2>2. t.sid \in discovered
    BY <1>2, <1>4
  <2> QED BY <1>2, <1>4, <2>1, <2>2, IdentifiedMoves DEF t
<1>5. CASE t.task = "onVideoFocusChanged" /\ OnVideoFocusChanged(t.sid, t.projected)
  <2>1. /\ UNCHANGED <<posted, engineState, nextSid, label, main, bt>>
        /\ \A s \in Sid : entry'[s] = IF s # t.sid \/ entry[s] = "absent" THEN entry[s]
                                      ELSE IF t.projected THEN "ACTIVE" ELSE "BACKGROUND"
    BY <1>0, <1>1, <1>2, <1>5 DEF OnVideoFocusChanged
  <2>2. <<>> \in Seq(Call) /\ Posts(<<>>) /\ \A c : c \notin ToSet(<<>>)
    BY <2>1, PostsNothing
  <2>3. Entries(<<>>)
    BY <2>1, <2>2 DEF Entries, Enters, Leaves, Attaches, Playing
  <2>4. AsksNative(tasks) => Shown(<<>>)
    BY <1>1, <1>5, <2>1, <2>2 DEF Shown, Actives
  <2>5. Callbacks
    <3>1. ASSUME NEW s \in Sid
          PROVE  /\ t = FocusTask(s, FALSE) => entry'[s] # "ACTIVE"
                 /\ t = ErrorTask(s) => entry'[s] = "absent"
                 /\ entry'[s] \in Identified =>
                       entry[s] \in Identified \/ (s = t.sid /\ s \in discovered)
      <4>1. t = FocusTask(s, FALSE) => s = t.sid /\ ~t.projected
        BY DEF FocusTask
      <4>2. t # ErrorTask(s)
        BY <1>5 DEF ErrorTask
      <4>3. t.sid \in discovered
        BY <1>2, <1>5
      <4> QED BY <2>1, <4>1, <4>2, <4>3
    <3> QED BY <3>1, TakesCallback DEF t
  <2>6. GoesOn
    BY <2>1 DEF GoesOn, QueueInv, NumberInv
  <2> QED BY <2>2, <2>3, <2>4, <2>5, <2>6 DEF Moves
<1> QED BY <1>1, <1>3, <1>4, <1>5

-----------------------------------------------------------------------------
(* A session is started: its number is new, and nothing is known of it. *)

LEMMA StartQueue ==
    ASSUME QueueInv, UsbReady \/ WirelessReady
    PROVE  /\ nextSid \in Sid /\ session[nextSid] = "none" /\ entry[nextSid] = "absent"
           /\ posted' = posted \o <<StartCall(nextSid)>> /\ nextSid' = nextSid + 1
           /\ <<StartCall(nextSid)>> \in Seq(Call)
           /\ ToSet(posted') = ToSet(posted) \cup {StartCall(nextSid)}
           /\ First(posted', Starts)
           /\ UNCHANGED <<session, video, audio, discovered, reported, tasks, main>>
<1>1. nextSid \in Sid /\ nextSid >= nextSid /\ nextSid' = nextSid + 1
  BY EngineAssumption DEF UsbReady, WirelessReady, QueueInv, IInv, AppInv, Sid
<1>2. StartCall(nextSid) \in Call /\ posted \in Seq(Call) /\ First(posted, Starts)
  BY <1>1, CallsTyped DEF QueueInv, IInv, EngineInv, NumberInv
<1>3. posted' = Append(posted, StartCall(nextSid))
  BY DEF UsbReady, WirelessReady
<1>4. ToSet(posted') = ToSet(posted) \cup {StartCall(nextSid)}
  BY <1>2, <1>3, AppendedSet
<1>5. \A y \in ToSet(posted) : y.sid # StartCall(nextSid).sid
  BY <1>1, CallNames DEF QueueInv, NumberInv, Sid
<1>6. First(posted', Starts)
  BY <1>2, <1>3, <1>5, FirstAppended
<1>7. posted' = posted \o <<StartCall(nextSid)>> /\ <<StartCall(nextSid)>> \in Seq(Call)
  BY <1>2, <1>3
<1>8. UNCHANGED <<session, video, audio, discovered, reported, tasks, main>>
  BY DEF UsbReady, WirelessReady, engineState
<1>9. session[nextSid] = "none" /\ entry[nextSid] = "absent"
  BY <1>1 DEF QueueInv, NumberInv
<1> QED BY <1>1, <1>4, <1>6, <1>7, <1>8, <1>9

\* What becomes of the entries and of the Bluetooth thread.
LEMMA StartEntries ==
    ASSUME QueueInv, UsbReady \/ WirelessReady
    PROVE  /\ \A s \in Sid : s # nextSid => entry'[s] = entry[s] /\ label'[s] = label[s]
           /\ entry'[nextSid] \in {"absent", "CONNECTING"}
           /\ \/ UNCHANGED bt
              \/ bt' = [op |-> "create", sids |-> {nextSid}] /\ entry'[nextSid] = "absent"
<1>1. nextSid \in Sid /\ entry[nextSid] = "absent"
  BY StartQueue
<1> QED BY <1>1 DEF UsbReady, WirelessReady, CreateSession, QueueInv, IInv, AppInv

LEMMA StartKeeps ==
    ASSUME QueueInv, ErrorInv, HearInv, UsbReady \/ WirelessReady
    PROVE  NumberInv' /\ PhaseInv' /\ ErrorInv' /\ HearInv'
<1> DEFINE n == nextSid
<1>0. /\ n \in Sid /\ n \in Nat /\ \A s \in Sid : s \in Nat
      /\ posted \in Seq(Call)
      /\ bt \in [op : {"idle", "create", "stop"}, sids : SUBSET Sid]
  BY StartQueue DEF QueueInv, IInv, EngineInv, AppInv, Sid
<1>1. NumberInv'
  <2>1. \A c \in ToSet(posted') : c.sid < nextSid'
    <3>1. ASSUME NEW c \in ToSet(posted) PROVE c.sid < n /\ c.sid \in Nat
      <4>1. c \in Call
        BY <1>0, <3>1, InToSet
      <4>2. c.sid \in Sid
        BY <4>1 DEF Call
      <4>3. c.sid < n
        BY <3>1 DEF QueueInv, NumberInv
      <4> QED BY <1>0, <4>2, <4>3
    <3>2. StartCall(n).sid = n
      BY CallNames
    <3>3. ASSUME NEW c \in ToSet(posted') PROVE c.sid < n + 1
      <4>1. c \in ToSet(posted) \/ c = StartCall(n)
        BY <3>3, StartQueue
      <4> QED BY <1>0, <3>1, <3>2, <4>1
    <3> QED BY <3>3, StartQueue
  <2>2. \A s \in Sid : StartCall(s) \in ToSet(posted') <=> s < nextSid' /\ session'[s] = "none"
    <3>1. ASSUME NEW s \in Sid
          PROVE  StartCall(s) \in ToSet(posted') <=> s < n + 1 /\ session[s] = "none"
      <4>1. CASE s = n
        BY <1>0, <4>1, StartQueue
      <4>2. CASE s # n
        <5>1. StartCall(s) # StartCall(n)
          BY <4>2, CallNames
        <5>2. s < n + 1 <=> s < n
          BY <1>0, <4>2
        <5> QED BY <5>1, <5>2, StartQueue DEF QueueInv, NumberInv
      <4> QED BY <4>1, <4>2
    <3> QED BY <3>1, StartQueue
  <2>3. ASSUME NEW s \in Sid, s >= nextSid' PROVE session'[s] = "none" /\ entry'[s] = "absent"
    <3>1. s >= n + 1
      BY <2>3, StartQueue
    <3>2. s # n /\ s >= n
      BY <1>0, <3>1
    <3> QED BY <3>2, StartQueue, StartEntries DEF QueueInv, NumberInv
  <2>4. ASSUME NEW s \in bt'.sids, bt'.op = "create" PROVE s < n + 1 /\ entry'[s] = "absent"
    <3>1. CASE bt' = [op |-> "create", sids |-> {n}] /\ entry'[n] = "absent"
      BY <1>0, <2>4, <3>1
    <3>2. CASE bt' = bt
      <4>1. s \in Sid /\ s < n /\ entry[s] = "absent"
        BY <1>0, <2>4, <3>2 DEF QueueInv, NumberInv
      <4> QED BY <1>0, <4>1, StartEntries
    <3> QED BY <3>1, <3>2, StartEntries
  <2>5. ASSUME NEW s \in bt'.sids, bt'.op = "stop" PROVE s < n + 1
    <3>1. bt' = bt
      BY <2>5, StartEntries
    <3> QED BY <1>0, <2>5, <3>1 DEF QueueInv, NumberInv
  <2> QED BY <2>1, <2>2, <2>3, <2>4, <2>5, StartQueue DEF NumberInv
<1>2. ASSUME NEW s, Doomed(s) PROVE Doomed(s)'
  BY <1>2, StartQueue DEF Doomed
<1>3. \A s \in Sid : entry'[s] = entry[s] \/ (entry[s] = "absent" /\ entry'[s] = "CONNECTING")
  BY <1>0, StartQueue, StartEntries
<1>4. PhaseInv'
  <2>1. /\ \A s \in discovered' : session'[s] \in {"running", "stopping", "gone"}
        /\ \A s \in reported' : s \in Sid /\ session'[s] = "gone"
        /\ \A t \in ToSet(tasks') : IF t.task = "onSessionError" THEN t.sid \in reported'
                                    ELSE t.sid \in discovered'
        /\ First(tasks', Identifications)
    BY StartQueue DEF QueueInv, PhaseInv
  <2>2. \A s \in Sid : entry'[s] \in Identified => Known(s)'
    BY <1>3, StartQueue DEF QueueInv, PhaseInv, Known, Identified
  <2>3. ASSUME main' # Idle, NEW m, m = main'.sid
        PROVE  Known(m)' /\ (entry'[m] # "absent" \/ Doomed(m)')
    <3>1. m \in Sid /\ Known(m) /\ (entry[m] # "absent" \/ Doomed(m))
      BY <2>3, StartQueue DEF QueueInv, PhaseInv, IInv, AppInv
    <3>2. Known(m)'
      BY <3>1, StartQueue DEF Known
    <3> QED BY <1>2, <1>3, <3>1, <3>2
  <2> QED BY <2>1, <2>2, <2>3 DEF PhaseInv, Known, Doomed
<1>5. ErrorInv'
  <2>1. n \notin reported
    BY StartQueue DEF QueueInv, PhaseInv
  <2> QED BY <2>1, StartQueue, StartEntries DEF ErrorInv
<1>6. HearInv'
  <2> SUFFICES ASSUME NEW s \in Sid, Hears(s)'
               PROVE  entry'[s] \in Playing \/ Doomed(s)'
    BY DEF HearInv, Hears, Doomed
  <2>1. StartCall(n) # AttachCall(s)
    BY CallNames
  <2>2. \A x \in ToSet(<<StartCall(n)>>) : x \notin {AttachCall(s)}
    BY <2>1, OneSet
  <2>3. Ends(posted \o <<StartCall(n)>>, {AttachCall(s)}, {DetachCall(s)}, s \in audio)
    BY StartQueue DEF Hears
  <2>4. Hears(s)
    BY <1>0, <2>2, <2>3, StartQueue, EndsBefore DEF Hears
  <2> QED BY <1>2, <1>3, <2>4 DEF HearInv, Playing
<1> QED BY <1>1, <1>4, <1>5, <1>6

LEMMA StartSees ==
    ASSUME QueueInv, SeeInv, UsbReady \/ WirelessReady
    PROVE  SeeInv'
<1> SUFFICES ASSUME NEW s \in Sid, entry'[s] = "ACTIVE"
             PROVE  \/ Sees(s)' \/ FocusTask(s, FALSE) \in ToSet(tasks')
                    \/ session'[s] = "gone"
  BY DEF SeeInv, Actives, Sees
<1>1. entry[s] = "ACTIVE"
  BY StartQueue, StartEntries
<1>2. CASE Sees(s)
  <2> DEFINE on == {AttachCall(s), FocusCall(s, TRUE)}
             off == {DetachCall(s), FocusCall(s, FALSE)}
             r == <<StartCall(nextSid)>>
  <2>1. posted \in Seq(Call) /\ r \in Seq(Call) /\ posted' = posted \o r /\ video' = video
    BY StartQueue DEF QueueInv, IInv, EngineInv
  <2>2. \A x \in ToSet(r) : x \notin off
    <3>1. StartCall(nextSid).call # DetachCall(s).call
          /\ StartCall(nextSid).call # FocusCall(s, FALSE).call
      BY DEF StartCall, DetachCall, FocusCall
    <3>2. ToSet(r) = {StartCall(nextSid)}
      BY OneSet
    <3> HIDE DEF r
    <3> QED BY <3>1, <3>2
  <2>3. Ends(posted, on, off, s \in video)
    BY <1>2 DEF Sees
  <2> HIDE DEF on, off, r
  <2>4. Ends(posted \o r, on, off, s \in video)
    BY <2>1, <2>2, <2>3, EndsAfter
  <2> QED BY <2>1, <2>4 DEF Sees, on, off
<1>3. CASE ~Sees(s)
  BY <1>1, <1>3, StartQueue DEF SeeInv, Actives
<1> QED BY <1>2, <1>3

-----------------------------------------------------------------------------
(* A step of the engine: which phases sessions go through, which calls it   *)
(* runs, and what it tells the application.                                 *)

Runs == posted # <<>> /\ posted' = Tail(posted)

Advances(s) ==
    /\ session[s] \in {"running", "stopping", "gone"} =>
          session'[s] \in {"running", "stopping", "gone"}
    /\ session[s] \in {"stopping", "gone"} => session'[s] \in {"stopping", "gone"}
    /\ session[s] = "gone" => session'[s] = "gone"
    /\ session'[s] = "none" <=> session[s] = "none" /\ ~(Runs /\ Head(posted) = StartCall(s))
    /\ Runs /\ Head(posted) = StopCall(s) => session'[s] \in {"stopping", "gone"}

Tells ==
    \/ UNCHANGED <<tasks, reported, discovered>>
    \/ \E s \in Sid : /\ tasks' = Append(tasks, ErrorTask(s)) /\ session'[s] = "gone"
                      /\ reported' = reported \cup {s} /\ discovered' = discovered
    \/ \E s \in Sid : /\ tasks' = Append(tasks, IdentifiedTask(s))
                      /\ s \notin discovered /\ discovered' = discovered \cup {s}
                      /\ session[s] \in {"running", "stopping"}
                      /\ UNCHANGED <<session, reported>>
    \/ \E s \in Sid, p \in BOOLEAN :
          /\ tasks' = Append(tasks, FocusTask(s, p)) /\ s \in discovered
          /\ UNCHANGED <<reported, discovered>>

\* The head of the queue: a session is started once, and stopped after it.
LEMMA HeadOfCalls ==
    ASSUME QueueInv, posted # <<>>
    PROVE  /\ Head(posted) \in Call /\ Head(posted).sid \in Sid
           /\ \A s \in Sid : Head(posted) = StartCall(s) => session[s] = "none"
           /\ \A s \in Sid : Head(posted).sid = s /\ session[s] = "none" =>
                    Head(posted) = StartCall(s)
           /\ \A s \in Sid : Head(posted) = StartCall(s) =>
                    StartCall(s) \notin ToSet(Tail(posted))
<1> DEFINE h == Head(posted)
<1>1. /\ posted \in Seq(Call) /\ h \in Call /\ ToSet(posted) = {h} \cup ToSet(Tail(posted))
      /\ \A x \in ToSet(Tail(posted)) : x \in Starts => h.sid # x.sid
  <2>1. posted \in Seq(Call) /\ First(posted, Starts)
    BY DEF QueueInv, IInv, EngineInv, NumberInv
  <2> QED BY <2>1, HeadAndTail, TailSet, FirstTail
<1> HIDE DEF h
<1>2. h.sid \in Sid
  BY <1>1 DEF Call
<1>3. h.sid < nextSid
  BY <1>1 DEF QueueInv, NumberInv
<1>4. \A s \in Sid : h = StartCall(s) => session[s] = "none"
  BY <1>1 DEF QueueInv, NumberInv
<1>5. ASSUME NEW s \in Sid, h.sid = s, session[s] = "none" PROVE h = StartCall(s)
  <2>1. StartCall(s) \in ToSet(posted)
    BY <1>3, <1>5 DEF QueueInv, NumberInv
  <2>2. StartCall(s) \in Starts /\ StartCall(s).sid = s
    BY CallNames DEF Starts
  <2> QED BY <1>1, <1>5, <2>1, <2>2
<1>6. ASSUME NEW s \in Sid, h = StartCall(s) PROVE StartCall(s) \notin ToSet(Tail(posted))
  BY <1>1, <1>6 DEF Starts
<1> QED BY <1>1, <1>2, <1>4, <1>5, <1>6 DEF h

\* A step that runs no call.
LEMMA PhonesAdvance ==
    ASSUME QueueInv, NEW e \in Sid,
           \/ Established(e) \/ PhoneIdentified(e) \/ FocusRequested(e)
           \/ PhoneLeaves(e) \/ SessionFails(e) \/ Disconnected(e)
    PROVE  /\ posted' = posted /\ ~Runs /\ Tells
           /\ \A s \in Sid : Advances(s)
           /\ audio' \subseteq audio
           /\ \A s \in Sid : s \in video =>
                 \/ s \in video' \/ session'[s] = "gone"
                 \/ FocusTask(s, FALSE) \in ToSet(tasks')
<1>0. /\ session \in [Sid -> Phase] /\ posted \in Seq(Call) /\ tasks \in Seq(Task)
  BY DEF QueueInv, IInv, EngineInv, TasksOf
<1>1. posted' = posted
  BY DEF Established, PhoneIdentified, FocusRequested, PhoneLeaves, SessionFails, Disconnected
<1>2. ~Runs
  <2>1. posted # <<>> => Tail(posted) # posted
    BY <1>0, HeadAndTail
  <2> QED BY <1>1, <2>1 DEF Runs
<1>3. CASE Established(e) \/ PhoneLeaves(e)
  BY <1>0, <1>1, <1>2, <1>3 DEF Established, PhoneLeaves, SetPhase, Tells, Advances, Phase
<1>4. CASE SessionFails(e)
  BY <1>0, <1>1, <1>2, <1>4
     DEF SessionFails, Fail, CleanupSession, Live, Tells, Advances, Phase
<1>5. CASE Disconnected(e)
  BY <1>0, <1>1, <1>2, <1>5 DEF Disconnected, CleanupSession, Tells, Advances, Phase
<1>6. CASE PhoneIdentified(e)
  BY <1>0, <1>1, <1>2, <1>6
     DEF PhoneIdentified, SendServiceDiscoveryResponse, Tells, Advances, Phase
<1>7. CASE FocusRequested(e)
  <2>1. PICK p \in BOOLEAN :
              /\ video' = (IF p THEN video \cup {e} ELSE video \ {e})
              /\ tasks' = Append(tasks, FocusTask(e, p))
    BY <1>7, EngineAssumption DEF FocusRequested
  <2>2. UNCHANGED <<session, audio, discovered, reported>> /\ e \in discovered
    BY <1>7 DEF FocusRequested
  <2>3. Tells
    BY <2>1, <2>2 DEF Tells
  <2>4. FocusTask(e, p) \in Task
    BY DEF FocusTask, Task
  <2>5. FocusTask(e, p) \in ToSet(tasks')
    BY <1>0, <2>1, <2>4, AppendedSet
  <2>6. p \/ FocusTask(e, FALSE) \in ToSet(tasks')
    BY <2>5
  <2> QED BY <1>0, <1>1, <1>2, <2>1, <2>2, <2>3, <2>6 DEF Advances, Phase
<1> QED BY <1>3, <1>4, <1>5, <1>6, <1>7

\* A step that runs one.
LEMMA CallsAdvance ==
    ASSUME QueueInv, RunCall
    PROVE  /\ Runs /\ Tells
           /\ \A s \in Sid : Advances(s)
           /\ \A s \in Sid : s \in audio' =>
                 Head(posted) = AttachCall(s) \/ (s \in audio /\ Head(posted) # DetachCall(s))
           /\ \A s \in Sid : Live(s) =>
                 \/ session'[s] = "gone" \/ s \in video'
                 \/ ~(\/ Head(posted) \in {AttachCall(s), FocusCall(s, TRUE)}
                      \/ s \in video
                         /\ Head(posted) \notin {DetachCall(s), FocusCall(s, FALSE)})
<1> DEFINE h == Head(posted)
           e == h.sid
<1>0. /\ session \in [Sid -> Phase] /\ posted # <<>> /\ Runs /\ discovered' = discovered
      /\ audio \subseteq {s \in Sid : Live(s)}
      /\ DoCall(h)
  BY DEF QueueInv, IInv, EngineInv, RunCall, Runs
<1>1. /\ h \in Call /\ e \in Sid
      /\ \A s \in Sid : h = StartCall(s) => session[s] = "none"
      /\ \A s \in Sid : e = s /\ session[s] = "none" => h = StartCall(s)
  BY <1>0, HeadOfCalls
<1> HIDE DEF h
<1>2. \A s \in Sid : Advances(s) <=>
          /\ session[s] \in {"running", "stopping", "gone"} =>
                session'[s] \in {"running", "stopping", "gone"}
          /\ session[s] \in {"stopping", "gone"} => session'[s] \in {"stopping", "gone"}
          /\ session[s] = "gone" => session'[s] = "gone"
          /\ session'[s] = "none" <=> session[s] = "none" /\ h # StartCall(s)
          /\ h = StopCall(s) => session'[s] \in {"stopping", "gone"}
  BY <1>0 DEF Advances, h
<1>3. ASSUME NEW s \in Sid
      PROVE  /\ h \in {StartCall(s), StopCall(s), AttachCall(s), DetachCall(s),
                       FocusCall(s, TRUE), FocusCall(s, FALSE)} => e = s
             /\ h = StartCall(s) => h.call = "start_session"
             /\ h = StopCall(s) => h.call = "stop_session"
             /\ h = AttachCall(s) => h.call = "attach_all_sinks"
             /\ h = DetachCall(s) => h.call = "detach_all_sinks"
             /\ h = FocusCall(s, TRUE) => h.call = "set_video_focus" /\ h.projected
             /\ h = FocusCall(s, FALSE) => h.call = "set_video_focus" /\ ~h.projected
  <2>1. /\ StartCall(s).call = "start_session" /\ StartCall(s).sid = s
        /\ StopCall(s).call = "stop_session" /\ StopCall(s).sid = s
        /\ AttachCall(s).call = "attach_all_sinks" /\ AttachCall(s).sid = s
        /\ DetachCall(s).call = "detach_all_sinks" /\ DetachCall(s).sid = s
    BY CallNames
  <2>2. /\ FocusCall(s, TRUE).call = "set_video_focus" /\ FocusCall(s, TRUE).sid = s
        /\ FocusCall(s, FALSE).call = "set_video_focus" /\ FocusCall(s, FALSE).sid = s
    BY DEF FocusCall
  <2>3. FocusCall(s, TRUE).projected /\ ~FocusCall(s, FALSE).projected
    BY DEF FocusCall
  <2> QED BY <2>1, <2>2, <2>3
<1>4. CASE h.call = "start_session"
  <2>1. h = StartCall(e)
    BY <1>1, <1>4 DEF Call, StartCall
  <2>2. session[e] = "none"
    BY <1>1, <2>1
  <2>3. \A s \in Sid : h = StartCall(s) <=> s = e
    BY <1>3, <2>1
  <2>4. DoStart(e)
    BY <1>0, <1>4 DEF DoCall
  <2>5. CASE MakeSession(e)
    <3>1. /\ session' = [session EXCEPT ![e] = "starting"]
          /\ UNCHANGED <<video, audio, reported, tasks>>
      BY <2>5 DEF MakeSession, SetPhase
    <3>2. \A s \in Sid : Advances(s)
      BY <1>0, <1>2, <1>3, <1>4, <2>2, <2>3, <3>1
    <3> QED BY <1>0, <1>3, <1>4, <3>1, <3>2 DEF Tells, h
  <2>6. CASE Fail(e)
    <3>1. /\ session' = [session EXCEPT ![e] = "gone"]
          /\ video' = video \ {e} /\ audio' = audio \ {e}
          /\ reported' = reported \cup {e} /\ tasks' = Append(tasks, ErrorTask(e))
      BY <2>6 DEF Fail, CleanupSession
    <3>2. \A s \in Sid : Advances(s)
      BY <1>0, <1>2, <1>3, <1>4, <2>2, <2>3, <3>1
    <3>3. Tells
      BY <1>0, <1>1, <3>1 DEF Tells
    <3> QED BY <1>0, <1>3, <1>4, <2>2, <3>1, <3>2, <3>3 DEF Live, h
  <2> QED BY <2>4, <2>5, <2>6 DEF DoStart
<1>5. CASE h.call # "start_session"
  <2>1. session[e] # "none" /\ \A s \in Sid : h # StartCall(s)
    BY <1>1, <1>3, <1>5
  <2>2. CASE ~Live(e)
    <3>1. session[e] = "gone"
      BY <1>0, <1>1, <2>1, <2>2 DEF Phase, Live
    <3>2. UNCHANGED <<session, video, audio, reported, tasks>>
      BY <1>0, <1>1, <1>5, <2>2, <3>1 DEF DoCall, DoStop
    <3>3. \A s \in Sid : Advances(s)
      BY <1>0, <1>2, <1>3, <2>1, <3>1, <3>2
    <3>4. e \notin audio
      BY <1>0, <2>2
    <3> QED BY <1>0, <1>3, <2>2, <3>2, <3>3, <3>4 DEF Tells, h
  <2>3. CASE Live(e) /\ h.call = "stop_session"
    <3>1. DoStop(e)
      BY <1>0, <2>3 DEF DoCall
    <3>2. CASE session[e] = "running" /\ SetPhase(e, "stopping")
      <4>1. /\ session' = [session EXCEPT ![e] = "stopping"]
            /\ UNCHANGED <<video, audio, reported, tasks>>
        BY <3>2 DEF SetPhase
      <4>2. \A s \in Sid : Advances(s)
        BY <1>0, <1>2, <1>3, <2>1, <3>2, <4>1
      <4> QED BY <1>0, <1>3, <2>3, <4>1, <4>2 DEF Tells, h
    <3>3. CASE session[e] \in {"starting", "stopping"} /\ Fail(e)
      <4>1. /\ session' = [session EXCEPT ![e] = "gone"]
            /\ video' = video \ {e} /\ audio' = audio \ {e}
            /\ reported' = reported \cup {e} /\ tasks' = Append(tasks, ErrorTask(e))
        BY <3>3 DEF Fail, CleanupSession
      <4>2. \A s \in Sid : Advances(s)
        BY <1>0, <1>2, <1>3, <2>1, <3>3, <4>1
      <4>3. Tells
        BY <1>0, <1>1, <4>1 DEF Tells
      <4> QED BY <1>0, <1>1, <1>3, <2>3, <4>1, <4>2, <4>3 DEF h
    <3> QED BY <3>1, <3>2, <3>3 DEF DoStop
  <2>4. CASE Live(e) /\ h.call # "stop_session"
    <3>1. /\ UNCHANGED <<session, reported, tasks>>
          /\ \/ h.call = "attach_all_sinks" /\ video' = video \cup {e} /\ audio' = audio \cup {e}
             \/ h.call = "detach_all_sinks" /\ video' = video \ {e} /\ audio' = audio \ {e}
             \/ /\ h.call = "set_video_focus" /\ audio' = audio
                /\ video' = IF h.projected THEN video \cup {e} ELSE video \ {e}
      BY <1>0, <1>5, <2>4 DEF DoCall, SetSinks
    <3>2. \A s \in Sid : Advances(s)
      BY <1>0, <1>2, <1>3, <2>1, <2>4, <3>1
    <3>3. h.call = "attach_all_sinks" => h = AttachCall(e)
      BY <1>1 DEF Call, AttachCall
    <3>4. h.call = "detach_all_sinks" => h = DetachCall(e)
      BY <1>1 DEF Call, DetachCall
    <3>5. h.call = "set_video_focus" /\ h.projected => h = FocusCall(e, TRUE)
      BY <1>1 DEF Call, FocusCall
    <3>6. h.call = "set_video_focus" /\ ~h.projected => h = FocusCall(e, FALSE)
      BY <1>1 DEF Call, FocusCall
    <3>7. Tells
      BY <1>0, <3>1 DEF Tells
    <3>8. ASSUME NEW s \in Sid, s \in audio'
          PROVE  h = AttachCall(s) \/ (s \in audio /\ h # DetachCall(s))
      BY <1>3, <3>1, <3>3, <3>4, <3>8
    <3>9. ASSUME NEW s \in Sid,
                 \/ h \in {AttachCall(s), FocusCall(s, TRUE)}
                 \/ s \in video /\ h \notin {DetachCall(s), FocusCall(s, FALSE)}
          PROVE  s \in video'
      BY <1>3, <3>1, <3>3, <3>4, <3>5, <3>6, <3>9
    <3> QED BY <1>0, <3>2, <3>7, <3>8, <3>9 DEF h
  <2> QED BY <2>2, <2>3, <2>4
<1> QED BY <1>4, <1>5

-----------------------------------------------------------------------------
(* The invariant, through a step of the engine. *)

\* What every step of the engine does: it runs a call or none, and tells of it.
LEMMA EngineSteps ==
    ASSUME QueueInv, EngineNext
    PROVE  /\ Tells /\ \A s \in Sid : Advances(s)
           /\ Runs \/ (posted' = posted /\ ~Runs)
<1>1. CASE RunCall
  BY <1>1, CallsAdvance
<1>2. CASE ~RunCall
  <2>1. PICK e \in Sid : \/ Established(e) \/ PhoneIdentified(e) \/ FocusRequested(e)
                         \/ PhoneLeaves(e) \/ SessionFails(e) \/ Disconnected(e)
    BY <1>2 DEF EngineNext
  <2> QED BY <2>1, PhonesAdvance
<1> QED BY <1>1, <1>2

\* A session that is doomed stays so, and callbacks are only added.
LEMMA EngineKeeps ==
    ASSUME QueueInv, EngineNext
    PROVE  /\ \A s \in Sid : Doomed(s) => Doomed(s)'
           /\ ToSet(tasks) \subseteq ToSet(tasks')
           /\ ToSet(posted') \subseteq ToSet(posted)
<1>0. /\ posted \in Seq(Call) /\ tasks \in Seq(Task)
      /\ Runs \/ posted' = posted
      /\ Tells /\ \A s \in Sid : Advances(s)
  BY EngineSteps DEF QueueInv, IInv, EngineInv, TasksOf
<1>1. ASSUME Runs
      PROVE  ToSet(posted) = {Head(posted)} \cup ToSet(posted')
  BY <1>0, <1>1, TailSet DEF Runs
<1>2. \A s \in Sid : Doomed(s) => Doomed(s)'
  BY <1>0, <1>1 DEF Doomed, Advances
<1>3. \A s \in Sid : ErrorTask(s) \in Task /\ IdentifiedTask(s) \in Task
  BY DEF ErrorTask, IdentifiedTask, Task
<1>4. \A s \in Sid, p \in BOOLEAN : FocusTask(s, p) \in Task
  BY DEF FocusTask, Task
<1>5. \A t \in Task : tasks' = Append(tasks, t) => ToSet(tasks) \subseteq ToSet(tasks')
  BY <1>0, AppendedSet
<1>6. ToSet(tasks) \subseteq ToSet(tasks')
  BY <1>0, <1>3, <1>4, <1>5 DEF Tells
<1> QED BY <1>0, <1>1, <1>2, <1>6

LEMMA EngineNumber ==
    ASSUME QueueInv, EngineNext, UNCHANGED appVars
    PROVE  NumberInv'
<1>0. /\ posted \in Seq(Call) /\ First(posted, Starts)
      /\ UNCHANGED <<nextSid, entry, bt>>
      /\ Runs \/ (posted' = posted /\ ~Runs)
      /\ \A s \in Sid : session'[s] = "none" <=>
            session[s] = "none" /\ ~(Runs /\ Head(posted) = StartCall(s))
      /\ ToSet(posted') \subseteq ToSet(posted)
  BY EngineSteps, EngineKeeps DEF QueueInv, IInv, EngineInv, NumberInv, Advances, appVars
<1>1. First(posted', Starts)
  BY <1>0, FirstTail DEF Runs
<1>2. \A c \in ToSet(posted') : c.sid < nextSid'
  BY <1>0 DEF QueueInv, NumberInv
<1>3. ASSUME NEW s \in Sid
      PROVE  StartCall(s) \in ToSet(posted') <=> s < nextSid /\ session'[s] = "none"
  <2>1. StartCall(s) \in ToSet(posted) <=> s < nextSid /\ session[s] = "none"
    BY DEF QueueInv, NumberInv
  <2>2. CASE Runs
    <3>1. /\ ToSet(posted) = {Head(posted)} \cup ToSet(posted')
          /\ Head(posted) = StartCall(s) => StartCall(s) \notin ToSet(posted')
      BY <1>0, <2>2, TailSet, HeadOfCalls DEF Runs
    <3> QED BY <1>0, <2>1, <2>2, <3>1
  <2>3. CASE ~Runs
    BY <1>0, <2>1, <2>3
  <2> QED BY <2>2, <2>3
<1>4. ASSUME NEW s \in Sid, s >= nextSid PROVE session'[s] = "none" /\ entry'[s] = "absent"
  <2>1. session[s] = "none" /\ entry[s] = "absent"
    BY <1>4 DEF QueueInv, NumberInv
  <2>2. ~(Runs /\ Head(posted) = StartCall(s))
    <3>1. StartCall(s) \notin ToSet(posted)
      BY <1>4 DEF QueueInv, NumberInv, IInv, AppInv, Sid
    <3>2. posted # <<>> => Head(posted) \in ToSet(posted)
      BY <1>0, TailSet
    <3> QED BY <3>1, <3>2 DEF Runs
  <2> QED BY <1>0, <2>1, <2>2
<1> QED BY <1>0, <1>1, <1>2, <1>3, <1>4 DEF QueueInv, NumberInv

LEMMA EnginePhase ==
    ASSUME QueueInv, EngineNext, UNCHANGED appVars
    PROVE  PhaseInv'
<1>0. /\ tasks \in Seq(Task) /\ First(tasks, Identifications) /\ discovered \subseteq Sid
      /\ UNCHANGED <<entry, main>>
      /\ Tells /\ \A s \in Sid : Advances(s)
      /\ \A s \in Sid : Doomed(s) => Doomed(s)'
      /\ \A t \in Task : tasks' = Append(tasks, t) => ToSet(tasks') = ToSet(tasks) \cup {t}
  <2>1. /\ tasks \in Seq(Task) /\ First(tasks, Identifications) /\ discovered \subseteq Sid
        /\ UNCHANGED <<entry, main>>
    BY DEF QueueInv, IInv, EngineInv, TasksOf, PhaseInv, appVars
  <2>2. \A t \in Task : tasks' = Append(tasks, t) => ToSet(tasks') = ToSet(tasks) \cup {t}
    BY <2>1, AppendedSet
  <2> QED BY <2>1, <2>2, EngineSteps, EngineKeeps
<1>1. /\ \A s \in discovered : session[s] \in {"running", "stopping", "gone"}
      /\ \A s \in reported : s \in Sid /\ session[s] = "gone"
      /\ \A t \in ToSet(tasks) : IF t.task = "onSessionError" THEN t.sid \in reported
                                 ELSE t.sid \in discovered
  BY DEF QueueInv, PhaseInv
<1>2. \A s \in Sid :
          /\ ErrorTask(s) \in Task /\ ErrorTask(s).sid = s
          /\ ErrorTask(s).task = "onSessionError"
          /\ IdentifiedTask(s) \in Task /\ IdentifiedTask(s).sid = s
          /\ IdentifiedTask(s).task = "onPhoneIdentified"
  BY DEF ErrorTask, IdentifiedTask, Task
<1>3. \A s \in Sid, p \in BOOLEAN :
          /\ FocusTask(s, p) \in Task /\ FocusTask(s, p).sid = s
          /\ FocusTask(s, p).task = "onVideoFocusChanged"
  BY DEF FocusTask, Task
<1>4. \A t : t.task # "onPhoneIdentified" => t \notin Identifications
  BY DEF Identifications, IdentifiedTask
<1>5. \A s \in discovered' : s \in discovered \/ session[s] \in {"running", "stopping"}
  BY <1>0 DEF Tells
<1>6. discovered' \subseteq Sid
  BY <1>0 DEF Tells
<1>7. \A s \in discovered' : session'[s] \in {"running", "stopping", "gone"}
  BY <1>0, <1>1, <1>5, <1>6 DEF Advances
<1>8. \A s \in reported' : s \in Sid /\ session'[s] = "gone"
  BY <1>0, <1>1 DEF Tells, Advances
<1>9. /\ \A t \in ToSet(tasks') : IF t.task = "onSessionError" THEN t.sid \in reported'
                                  ELSE t.sid \in discovered'
      /\ First(tasks', Identifications)
      /\ \A s \in Sid : Known(s) => Known(s)'
  <2>1. CASE UNCHANGED <<tasks, reported, discovered>>
    BY <1>0, <1>1, <2>1 DEF Known
  <2>2. CASE \E s \in Sid : /\ tasks' = Append(tasks, ErrorTask(s))
                            /\ reported' = reported \cup {s} /\ discovered' = discovered
    <3>1. PICK e \in Sid : /\ tasks' = Append(tasks, ErrorTask(e))
                           /\ reported' = reported \cup {e} /\ discovered' = discovered
      BY <2>2
    <3>2. ToSet(tasks') = ToSet(tasks) \cup {ErrorTask(e)}
      BY <1>0, <1>2, <3>1
    <3>3. First(tasks', Identifications)
      BY <1>0, <1>2, <1>4, <3>1, FirstAppended
    <3>4. \A s \in Sid : IdentifiedTask(s) # ErrorTask(e)
      BY <1>2
    <3> QED BY <1>1, <1>2, <3>1, <3>2, <3>3, <3>4 DEF Known
  <2>3. CASE \E s \in Sid : /\ tasks' = Append(tasks, IdentifiedTask(s))
                            /\ s \notin discovered /\ discovered' = discovered \cup {s}
                            /\ session[s] \in {"running", "stopping"}
                            /\ reported' = reported
    <3>1. PICK e \in Sid : /\ tasks' = Append(tasks, IdentifiedTask(e))
                           /\ e \notin discovered /\ discovered' = discovered \cup {e}
                           /\ session[e] \in {"running", "stopping"}
                           /\ reported' = reported
      BY <2>3
    <3>2. ToSet(tasks') = ToSet(tasks) \cup {IdentifiedTask(e)}
      BY <1>0, <1>2, <3>1
    <3>3. \A y \in ToSet(tasks) : y.sid # e
      BY <1>1, <3>1
    <3>4. First(tasks', Identifications)
      <4>1. \A y \in ToSet(tasks) : y.sid # IdentifiedTask(e).sid
        BY <1>2, <3>3
      <4> QED BY <1>0, <1>2, <3>1, <4>1, FirstAppended
    <3>5. \A s \in Sid : s # e => IdentifiedTask(s) # IdentifiedTask(e)
      BY <1>2
    <3>6. ASSUME NEW s \in Sid, Known(s) PROVE Known(s)'
      BY <3>1, <3>2, <3>5, <3>6 DEF Known
    <3>7. ASSUME NEW t \in ToSet(tasks')
          PROVE  IF t.task = "onSessionError" THEN t.sid \in reported'
                 ELSE t.sid \in discovered'
      BY <1>1, <1>2, <3>1, <3>2
    <3> QED BY <3>4, <3>6, <3>7
  <2>4. CASE \E s \in Sid, p \in BOOLEAN :
                /\ tasks' = Append(tasks, FocusTask(s, p)) /\ s \in discovered
                /\ UNCHANGED <<reported, discovered>>
    <3>1. PICK e \in Sid, p \in BOOLEAN :
                /\ tasks' = Append(tasks, FocusTask(e, p)) /\ e \in discovered
                /\ UNCHANGED <<reported, discovered>>
      BY <2>4
    <3> DEFINE x == FocusTask(e, p)
    <3>2. x \in Task /\ x.sid = e /\ x.task = "onVideoFocusChanged" /\ x \notin Identifications
      BY <1>3, <1>4
    <3>3. tasks' = Append(tasks, x)
      BY <3>1
    <3> HIDE DEF x
    <3>4. ToSet(tasks') = ToSet(tasks) \cup {x}
      BY <1>0, <3>2, <3>3
    <3>5. First(tasks', Identifications)
      BY <1>0, <3>2, <3>3, FirstAppended
    <3>6. \A s \in Sid : IdentifiedTask(s) # x
      BY <1>2, <3>2
    <3> QED BY <1>1, <3>1, <3>2, <3>4, <3>5, <3>6 DEF Known
  <2> QED BY <1>0, <2>1, <2>2, <2>3, <2>4 DEF Tells
<1>10. \A s \in Sid : entry'[s] \in Identified => Known(s)'
  BY <1>0, <1>9 DEF QueueInv, PhaseInv
<1>11. ASSUME main' # Idle, NEW m, m = main'.sid
       PROVE  Known(m)' /\ (entry'[m] # "absent" \/ Doomed(m)')
  <2>1. m \in Sid /\ Known(m) /\ (entry[m] # "absent" \/ Doomed(m))
    BY <1>0, <1>11 DEF QueueInv, PhaseInv, IInv, AppInv
  <2> QED BY <1>0, <1>9, <2>1
<1> QED BY <1>7, <1>8, <1>9, <1>10, <1>11 DEF PhaseInv, Known, Doomed

LEMMA EngineError ==
    ASSUME QueueInv, ErrorInv, EngineNext, UNCHANGED appVars
    PROVE  ErrorInv'
<1>1. /\ Tells /\ ToSet(tasks) \subseteq ToSet(tasks') /\ UNCHANGED <<entry, label>>
      /\ tasks \in Seq(Task)
  BY EngineSteps, EngineKeeps DEF appVars, QueueInv, IInv, EngineInv, TasksOf
<1>2. ASSUME NEW s \in Sid, s \in reported', s \notin reported
      PROVE  ErrorTask(s) \in ToSet(tasks')
  <2>1. tasks' = Append(tasks, ErrorTask(s))
    BY <1>1, <1>2 DEF Tells
  <2>2. ErrorTask(s) \in Task
    BY DEF ErrorTask, Task
  <2> QED BY <1>1, <2>1, <2>2, AppendedSet
<1> QED BY <1>1, <1>2 DEF ErrorInv

LEMMA EngineHear ==
    ASSUME QueueInv, HearInv, EngineNext, UNCHANGED appVars
    PROVE  HearInv'
<1> SUFFICES ASSUME NEW s \in Sid, Hears(s)'
             PROVE  entry'[s] \in Playing \/ Doomed(s)'
  BY DEF HearInv, Hears, Doomed
<1>0. posted \in Seq(Call) /\ entry' = entry /\ (Doomed(s) => Doomed(s)')
  BY EngineKeeps DEF QueueInv, IInv, EngineInv, appVars
<1> DEFINE on == {AttachCall(s)}
           off == {DetachCall(s)}
<1>1. CASE RunCall
  <2> DEFINE then == s \in audio'
  <2>1. posted # <<>> /\ posted' = Tail(posted)
    BY <1>1, CallsAdvance DEF Runs
  <2>2. then => Head(posted) \in on \/ (s \in audio /\ Head(posted) \notin off)
    BY <1>1, CallsAdvance
  <2>3. Ends(Tail(posted), on, off, then)
    BY <2>1 DEF Hears
  <2> HIDE DEF then, on, off
  <2>4. Ends(posted, on, off, s \in audio)
    BY <1>0, <2>1, <2>2, <2>3, EndsRun
  <2> QED BY <1>0, <2>4 DEF HearInv, Hears, on, off
<1>2. CASE ~RunCall
  <2>1. posted' = posted /\ audio' \subseteq audio
    BY <1>2, PhonesAdvance DEF EngineNext
  <2>2. Hears(s)
    BY <2>1 DEF Hears, Ends
  <2> QED BY <1>0, <2>2 DEF HearInv
<1> QED BY <1>1, <1>2

LEMMA EngineSee ==
    ASSUME QueueInv, SeeInv, EngineNext, UNCHANGED appVars
    PROVE  SeeInv'
<1> SUFFICES ASSUME NEW s \in Sid, entry'[s] = "ACTIVE", session'[s] # "gone",
                    FocusTask(s, FALSE) \notin ToSet(tasks')
             PROVE  Sees(s)'
  BY DEF SeeInv, Actives, Sees
<1>0. /\ posted \in Seq(Call) /\ entry' = entry
      /\ session[s] \in {"running", "stopping"} /\ Live(s)
  <2>1. entry' = entry /\ entry[s] \in Identified
    BY DEF appVars, Identified
  <2>2. session[s] \in {"running", "stopping", "gone"}
    BY <2>1 DEF QueueInv, PhaseInv, Known
  <2>3. session[s] # "gone"
    BY EngineSteps DEF Advances
  <2> QED BY <2>1, <2>2, <2>3 DEF Live, QueueInv, IInv, EngineInv
<1>1. Sees(s)
  <2>1. FocusTask(s, FALSE) \notin ToSet(tasks)
    BY EngineKeeps
  <2> QED BY <1>0, <2>1 DEF SeeInv, Actives
<1> DEFINE on == {AttachCall(s), FocusCall(s, TRUE)}
           off == {DetachCall(s), FocusCall(s, FALSE)}
<1>2. Ends(posted, on, off, s \in video)
  BY <1>1 DEF Sees
<1>3. CASE RunCall
  <2> DEFINE then == s \in video'
  <2>1. posted # <<>> /\ posted' = Tail(posted)
    BY <1>3, CallsAdvance DEF Runs
  <2>2. Head(posted) \in on \/ (s \in video /\ Head(posted) \notin off) => then
    BY <1>0, <1>3, CallsAdvance
  <2> HIDE DEF then, on, off
  <2>3. Ends(Tail(posted), on, off, then)
    BY <1>0, <1>2, <2>1, <2>2, EndsStill
  <2> QED BY <2>1, <2>3 DEF Sees, then, on, off
<1>4. CASE ~RunCall
  <2>1. posted' = posted /\ (s \in video => s \in video')
    BY <1>4, PhonesAdvance DEF EngineNext
  <2> QED BY <1>2, <2>1 DEF Sees, Ends
<1> QED BY <1>3, <1>4

-----------------------------------------------------------------------------
(* The invariant is inductive, and what it means once everything has run. *)

LEMMA QueueInit ==
    ASSUME Init
    PROVE  QueueInv /\ ErrorInv /\ HearInv /\ SeeInv
<1>1. IInv
  BY EngineAssumption
     DEF Init, EngineInit, IInv, EngineInv, AppInv, Idle, Phase, TasksOf, Live
<1>2. /\ posted = <<>> /\ tasks = <<>> /\ ToSet(posted) = {} /\ ToSet(tasks) = {}
      /\ video = {} /\ audio = {} /\ discovered = {} /\ reported = {}
      /\ main = Idle /\ bt.op = "idle" /\ nextSid = 1
      /\ \A s \in Sid : session[s] = "none" /\ entry[s] = "absent" /\ s \in Nat /\ s >= 1
  BY NoneSet, EngineAssumption DEF Init, EngineInit, Sid
<1>3. First(posted, Starts) /\ First(tasks, Identifications)
  BY <1>2 DEF First
<1>4. NumberInv
  BY <1>2, <1>3 DEF NumberInv
<1>5. PhaseInv
  BY <1>2, <1>3 DEF PhaseInv, Identified
<1>6. ErrorInv /\ SeeInv
  BY <1>2 DEF ErrorInv, SeeInv, Actives
<1>7. HearInv
  BY <1>2 DEF HearInv, Hears, Ends
<1> QED BY <1>1, <1>4, <1>5, <1>6, <1>7 DEF QueueInv

\* A step is one of the engine, starts a session, or moves.
LEMMA StepKinds ==
    ASSUME QueueInv, [Next]_vars
    PROVE  \/ EngineNext /\ UNCHANGED appVars
           \/ UsbReady \/ WirelessReady
           \/ \E r \in Seq(Call) : Moves(r)
<1>1. CASE UsbRemoved \/ \E s \in Sid : WirelessStop(s)
  BY <1>1, StopMoves
<1>2. CASE WirelessCreate \/ WirelessDisconnected \/ UNCHANGED vars
  BY <1>2, WirelessMoves
<1>3. CASE \E s \in Sid : ActivateSession(s) \/ ActivateBackground(s)
  BY <1>3, UserMoves
<1>4. CASE SurfaceCreated \/ SurfaceDestroyed
  BY <1>4, SurfaceMoves
<1>5. CASE FinishActivation
  BY <1>5, FinishMoves
<1>6. CASE RunTask
  BY <1>6, TaskMoves
<1> QED BY <1>1, <1>2, <1>3, <1>4, <1>5, <1>6 DEF Next

LEMMA QueueStep ==
    ASSUME QueueInv, ErrorInv, HearInv, [Next]_vars
    PROVE  QueueInv' /\ ErrorInv' /\ HearInv'
<1>1. IInv'
  BY InductiveStep DEF QueueInv
<1>2. CASE EngineNext /\ UNCHANGED appVars
  BY <1>1, <1>2, EngineNumber, EnginePhase, EngineError, EngineHear DEF QueueInv
<1>3. CASE UsbReady \/ WirelessReady
  BY <1>1, <1>3, StartKeeps DEF QueueInv
<1>4. CASE \E r \in Seq(Call) : Moves(r)
  BY <1>1, <1>4, MovesNumber, MovesPhase, MovesError, MovesHear DEF QueueInv
<1> QED BY <1>2, <1>3, <1>4, StepKinds

LEMMA SeeStep ==
    ASSUME QueueInv, SeeInv, AsksNative(tasks), [Next]_vars
    PROVE  SeeInv'
<1>1. CASE EngineNext /\ UNCHANGED appVars
  BY <1>1, EngineSee
<1>2. CASE UsbReady \/ WirelessReady
  BY <1>2, StartSees
<1>3. CASE \E r \in Seq(Call) : Moves(r)
  BY <1>3, MovesSee
<1> QED BY <1>1, <1>2, <1>3, StepKinds

\* UsbSessionCoordinator's sessions: one whose error the engine has reported is no
\* session of the application once its onSessionError has run, and no later message
\* (a role, the phone's name, the surface, the Bluetooth thread) brings it back.
THEOREM FailuresAreForgotten == Spec => []FailedIsForgotten
<1> DEFINE Inv == QueueInv /\ ErrorInv /\ HearInv
<1>1. Init => Inv
  BY QueueInit
<1>2. Inv /\ [Next]_vars => Inv'
  BY QueueStep
<1>3. Inv => FailedIsForgotten
  <2> SUFFICES ASSUME Inv, Quiet, NEW s \in reported, label[s] = "USB"
               PROVE  entry[s] = "absent"
    BY DEF FailedIsForgotten
  <2>1. s \in Sid /\ ToSet(tasks) = {}
    BY NoneSet DEF Quiet, QueueInv, PhaseInv
  <2> QED BY <2>1 DEF ErrorInv
<1> QED BY <1>1, <1>2, <1>3, PTL DEF Spec

\* SessionManager attaches the sinks when it activates a session and detaches them when
\* it demotes one: whatever the order of the calls in the engine's queue, when all have
\* run a running session whose audio reaches the application is one it plays.
THEOREM SinksFollowRoles == Spec => []NoStraySinks
<1> DEFINE Inv == QueueInv /\ ErrorInv /\ HearInv
<1>1. Init => Inv
  BY QueueInit
<1>2. Inv /\ [Next]_vars => Inv'
  BY QueueStep
<1>3. Inv => NoStraySinks
  <2> SUFFICES ASSUME Inv, Quiet, NEW s \in audio, session[s] = "running"
               PROVE  entry[s] \in Playing
    BY DEF NoStraySinks
  <2>1. s \in Sid /\ ToSet(posted) = {} /\ posted = <<>>
    BY NoneSet DEF Quiet, QueueInv, IInv, EngineInv
  <2>2. Hears(s)
    BY <2>1 DEF Hears, Ends
  <2>3. ~Doomed(s)
    BY <2>1 DEF Doomed
  <2> QED BY <2>1, <2>2, <2>3 DEF HearInv
<1> QED BY <1>1, <1>2, <1>3, PTL DEF Spec

\* activateSession and onSurfaceReady: with phones that ask for their native screen only,
\* a running ACTIVE session has its video on once everything has run, for a phone that
\* takes its screen back has taken the role from its session.
THEOREM ActiveSends ==
    ASSUME FocusRequests \subseteq {FALSE}
    PROVE  Spec => []ActiveIsShown
<1> DEFINE Inv == QueueInv /\ ErrorInv /\ HearInv /\ SeeInv /\ RoleInv
<1>1. Init => Inv
  <2>1. Init => RoleInv
    BY DEF Init, EngineInit, RoleInv, AsksNative, Actives, Idle
  <2> QED BY <2>1, QueueInit
<1>2. Inv /\ [Next]_vars => Inv'
  <2> SUFFICES ASSUME Inv, [Next]_vars PROVE Inv'
    OBVIOUS
  <2>1. RoleInv'
    BY RoleStep DEF QueueInv
  <2>2. SeeInv'
    BY SeeStep DEF RoleInv
  <2> QED BY <2>1, <2>2, QueueStep
<1>3. Inv => ActiveIsShown
  <2> SUFFICES ASSUME Inv, Quiet, NEW s \in Actives(entry), session[s] = "running"
               PROVE  s \in video
    BY DEF ActiveIsShown
  <2>1. posted = <<>> /\ ToSet(tasks) = {}
    BY NoneSet DEF Quiet
  <2>2. Sees(s)
    BY <2>1 DEF SeeInv
  <2> QED BY <2>1, <2>2 DEF Sees, Ends
<1> QED BY <1>1, <1>2, <1>3, PTL DEF Spec

-----------------------------------------------------------------------------
(* Each session of the engine goes through the states of Lifecycle.  Its    *)
(* phases are the coarse view of what Session is shown to do.               *)

\* What the application is told of session s: its state, and its errors.
ToldState(s) ==
    CASE session[s] = "none" -> "Idle"
      [] session[s] = "starting" -> "VersionExchange"
      [] session[s] = "running" -> "Running"
      [] session[s] = "stopping" -> "Disconnecting"
      [] OTHER -> IF s \in reported THEN "Error" ELSE "Disconnected"

ToldErrors(s) == IF s \in reported THEN 1 ELSE 0

Observed(s) == INSTANCE Lifecycle WITH state <- ToldState(s), errors <- ToldErrors(s)

\* A session that is not gone has reported nothing.
LEMMA LiveIsUnreported ==
    ASSUME QueueInv, NEW s \in Sid, session[s] # "gone"
    PROVE  s \notin reported
  BY DEF QueueInv, PhaseInv

\* A failure is the step to Error, of a session that has not ended.
LEMMA FailIsTold ==
    ASSUME QueueInv, NEW s \in Sid, NEW e \in Sid, session[e] # "gone", Fail(e)
    PROVE  Observed(s)!Fail \/ UNCHANGED <<ToldState(s), ToldErrors(s)>>
<1>1. /\ session \in [Sid -> Phase] /\ reported' = reported \cup {e}
      /\ session' = [session EXCEPT ![e] = "gone"]
  BY DEF Fail, CleanupSession, QueueInv, IInv, EngineInv
<1>2. CASE s = e
  <2>1. s \notin reported /\ s \in reported' /\ session'[s] = "gone"
    BY <1>1, <1>2, LiveIsUnreported
  <2>2. ToldErrors(s) = 0 /\ ToldErrors(s)' = 1 /\ ToldState(s)' = "Error"
    BY <2>1 DEF ToldErrors, ToldState
  <2>3. ToldState(s) \notin {"Disconnected", "Error"}
    BY <1>1, <1>2 DEF ToldState, Phase
  <2> QED BY <2>2, <2>3 DEF Observed!Fail, Observed!Ended
<1>3. CASE s # e
  BY <1>1, <1>3 DEF ToldState, ToldErrors
<1> QED BY <1>2, <1>3

\* A step to another phase that reports nothing.
LEMMA PhaseIsTold ==
    ASSUME QueueInv, NEW s \in Sid, NEW e \in Sid, NEW phase,
           session' = [session EXCEPT ![e] = phase], reported' = reported,
           \/ session[e] = "none" /\ phase = "starting"
           \/ session[e] = "starting" /\ phase = "running"
           \/ session[e] = "running" /\ phase = "stopping"
           \/ session[e] = "stopping" /\ phase = "gone"
    PROVE  Observed(s)!Next \/ UNCHANGED <<ToldState(s), ToldErrors(s)>>
<1>1. session \in [Sid -> Phase] /\ ToldErrors(s)' = ToldErrors(s)
  BY DEF QueueInv, IInv, EngineInv, ToldErrors
<1>2. CASE s = e
  <2>1. session'[s] = phase /\ s \notin reported /\ s \notin reported'
    BY <1>1, <1>2, LiveIsUnreported
  <2>2. \/ ToldState(s) = "Idle" /\ ToldState(s)' = "VersionExchange"
        \/ ToldState(s) = "VersionExchange" /\ ToldState(s)' = "Running"
        \/ ToldState(s) = "Running" /\ ToldState(s)' = "Disconnecting"
        \/ ToldState(s) = "Disconnecting" /\ ToldState(s)' = "Disconnected"
    BY <1>2, <2>1 DEF ToldState
  <2> QED
    BY <1>1, <2>2 DEF Observed!Next, Observed!Forward, Observed!Open, Observed!Establish,
                      Observed!Stop, Observed!Disconnect
<1>3. CASE s # e
  BY <1>1, <1>3 DEF ToldState
<1> QED BY <1>2, <1>3

\* A step that leaves the sessions alone.
LEMMA NothingIsTold ==
    ASSUME NEW s, UNCHANGED <<session, reported>>
    PROVE  UNCHANGED <<ToldState(s), ToldErrors(s)>>
  BY DEF ToldState, ToldErrors

LEMMA CallIsTold ==
    ASSUME QueueInv, NEW s \in Sid, RunCall
    PROVE  Observed(s)!Next \/ UNCHANGED <<ToldState(s), ToldErrors(s)>>
<1> DEFINE h == Head(posted)
<1>1. h \in Call /\ h.sid \in Sid /\ DoCall(h)
  BY HeadOfCalls DEF RunCall
<1>2. h.call = "start_session" => session[h.sid] = "none"
  <2>1. h.call = "start_session" => h = StartCall(h.sid)
    BY <1>1 DEF Call, StartCall
  <2> QED BY <1>1, <2>1, HeadOfCalls DEF RunCall
<1> HIDE DEF h
<1>3. CASE h.call = "start_session" /\ DoStart(h.sid)
  <2>1. CASE MakeSession(h.sid)
    BY <1>1, <1>2, <1>3, <2>1, PhaseIsTold DEF MakeSession, SetPhase
  <2>2. CASE Fail(h.sid)
    BY <1>1, <1>2, <1>3, <2>2, FailIsTold DEF Observed!Next
  <2> QED BY <1>3, <2>1, <2>2 DEF DoStart
<1>4. CASE DoStop(h.sid)
  <2>1. CASE session[h.sid] = "running" /\ SetPhase(h.sid, "stopping")
    BY <1>1, <2>1, PhaseIsTold DEF SetPhase
  <2>2. CASE session[h.sid] \in {"starting", "stopping"} /\ Fail(h.sid)
    BY <1>1, <2>2, FailIsTold DEF Observed!Next
  <2> QED BY <1>4, <2>1, <2>2 DEF DoStop
<1>5. CASE UNCHANGED <<session, reported>>
  BY <1>5, NothingIsTold
<1> QED BY <1>1, <1>3, <1>4, <1>5 DEF DoCall, SetSinks

LEMMA EngineIsTold ==
    ASSUME QueueInv, NEW s \in Sid, EngineNext
    PROVE  Observed(s)!Next \/ UNCHANGED <<ToldState(s), ToldErrors(s)>>
<1>1. CASE RunCall
  BY <1>1, CallIsTold
<1>2. CASE \E e \in Sid : Established(e) \/ PhoneLeaves(e) \/ Disconnected(e)
  <2>1. PICK e \in Sid : Established(e) \/ PhoneLeaves(e) \/ Disconnected(e)
    BY <1>2
  <2> QED
    BY <2>1, PhaseIsTold DEF Established, PhoneLeaves, Disconnected, SetPhase, CleanupSession
<1>3. CASE \E e \in Sid : SessionFails(e)
  <2>1. PICK e \in Sid : SessionFails(e)
    BY <1>3
  <2>2. session[e] # "gone" /\ Fail(e)
    BY <2>1 DEF SessionFails, Live
  <2> QED BY <2>2, FailIsTold DEF Observed!Next
<1>4. CASE \E e \in Sid : PhoneIdentified(e) \/ FocusRequested(e)
  BY <1>4, NothingIsTold DEF PhoneIdentified, FocusRequested
<1> QED BY <1>1, <1>2, <1>3, <1>4 DEF EngineNext

\* Engine::do_start_session and the session's observer: each session number is used for
\* one session, which goes forward through the states of Lifecycle, ends for good and
\* reports an error at most once, and never without the state Error; no call that comes
\* late (a stop before the start, a second stop, sinks of a session that is gone) brings
\* it back.
THEOREM EngineImplementsLifecycle ==
    ASSUME NEW s \in Sid
    PROVE  Spec => Observed(s)!Spec
<1> DEFINE Inv == QueueInv /\ ErrorInv /\ HearInv
<1>1. Init => Inv
  BY QueueInit
<1>2. Inv /\ [Next]_vars => Inv'
  BY QueueStep
<1>3. Init => Observed(s)!Init
  BY DEF Init, EngineInit, Observed!Init, ToldState, ToldErrors
<1>4. Inv /\ [Next]_vars => [Observed(s)!Next]_<<ToldState(s), ToldErrors(s)>>
  <2> SUFFICES ASSUME Inv, [Next]_vars
               PROVE  Observed(s)!Next \/ UNCHANGED <<ToldState(s), ToldErrors(s)>>
    OBVIOUS
  <2>1. CASE EngineNext
    BY <2>1, EngineIsTold
  <2>2. CASE UsbReady \/ WirelessReady
    BY <2>2, StartQueue, NothingIsTold
  <2>3. CASE \E r \in Seq(Call) : Moves(r)
    BY <2>3, NothingIsTold DEF Moves, Posts, engineState
  <2> QED BY <2>1, <2>2, <2>3, StepKinds
<1> QED BY <1>1, <1>2, <1>3, <1>4, PTL DEF Spec, Observed!Spec
=============================================================================
