-------------------------- MODULE UsbMonitor_proofs --------------------------
(***************************************************************************)
(* Proofs about UsbMonitor for any number of phones, enumerations and      *)
(* mishaps: type correctness, that nothing is held of a device that has    *)
(* left, and that one phone at a time is switched to accessory mode.       *)
(***************************************************************************)
EXTENDS UsbMonitor, FiniteSetTheorems, TLAPS

-----------------------------------------------------------------------------
(* The inductive invariant. *)

News == [what : {"attached", "detached"}, dev : 1 .. enums]
Attached(i) == news[i].what = "attached"
Detached(i) == news[i].what = "detached"

Types ==
  /\ enums \in 0 .. MaxEnum /\ bus \in [Phone -> 0 .. enums] /\ aoa \subseteq 1 .. enums
  /\ switched \subseteq Phone
  /\ news \in Seq(News)
  /\ place \in {"new", "registered", "running", "stopped"} /\ todo \subseteq 1 .. enums
  /\ pendingDevice \in {None} \cup aoa /\ aoaSwitchInProgress \in BOOLEAN
  /\ sessions \in [Enum -> 0 .. 2]
  /\ mishaps \in 0 .. MaxMishaps

\* A number stands for one phone; a phone that is switched is not in accessory mode yet;
\* only what was opened in accessory mode has sessions.
BusInv ==
  /\ \A p, q \in Phone : bus[p] = bus[q] /\ bus[p] # None => p = q
  /\ \A p \in switched : bus[p] \notin aoa
  /\ \A e \in Enum : sessions[e] > 0 => e \in aoa

\* Before start() nothing is held; outside start() and stop() nothing is received.
PlaceInv ==
  /\ place \in {"new", "registered"} =>
        /\ pendingDevice = None /\ switched = {} /\ todo = {} /\ aoa \subseteq {1}
        /\ \A e \in Enum : sessions[e] = 0
  /\ place \in {"new", "stopped"} => news = <<>>
  /\ place # "running" => todo = {}

\* How often a device can still be opened: at most twice in all.
SeenInv ==
  /\ \A i, j \in 1 .. Len(news) :
        Attached(i) /\ Attached(j) /\ news[i].dev = news[j].dev => i = j
  /\ \A e \in todo : sessions[e] <= 1
  /\ \A i \in 1 .. Len(news) : Attached(i) =>
        sessions[news[i].dev] <= (IF news[i].dev \in todo THEN 0 ELSE 1)

\* What is held, or is about to be opened, is on the bus or will be heard to leave it.
Leaves(q, e, i) == \E j \in 1 .. Len(q) : j > i /\ q[j].what = "detached" /\ q[j].dev = e

LeaveInv ==
  /\ place = "running" =>
        \A e \in Enum : e \in todo \/ sessions[e] > 0 \/ pendingDevice = e
                          => e \in Present \/ Leaves(news, e, 0)
  /\ \A i \in 1 .. Len(news) :
        Attached(i) => news[i].dev \in Present \/ Leaves(news, news[i].dev, i)

\* While a phone is being switched, or has come back and not been seen, the flag is set,
\* and there is no second one.
SwitchInv ==
  1 \notin aoa =>
    /\ ~aoaSwitchInProgress =>
          switched = {} /\ \A i \in 1 .. Len(news) : Attached(i) => news[i].dev \notin aoa
    /\ \A p, q \in switched : p = q
    /\ \A i \in 1 .. Len(news) : Attached(i) /\ news[i].dev \in aoa =>
          /\ switched = {}
          /\ \A j \in 1 .. Len(news) : Attached(j) /\ news[j].dev \in aoa => i = j
    /\ todo \cap aoa = {}

IInv == Types /\ BusInv /\ PlaceInv /\ SeenInv /\ LeaveInv /\ SwitchInv

-----------------------------------------------------------------------------
(* The queue of broadcasts. *)

LEMMA NewsGrows ==
  ASSUME NEW S, NEW q \in Seq(S), NEW m
  PROVE  /\ Len(q) \in Nat /\ Len(Append(q, m)) = Len(q) + 1
         /\ \A i \in 1 .. Len(q) : Append(q, m)[i] = q[i]
         /\ Append(q, m)[Len(q) + 1] = m
<1>1. q \in Seq(S \cup {m}) /\ m \in S \cup {m}
  OBVIOUS
<1> QED BY <1>1

LEMMA NewsShrinks ==
  ASSUME NEW S, NEW q \in Seq(S), q # <<>>
  PROVE  /\ Len(q) \in Nat \ {0} /\ Head(q) = q[1] /\ q[1] \in S
         /\ Tail(q) \in Seq(S) /\ Len(Tail(q)) = Len(q) - 1
         /\ \A i \in 1 .. (Len(q) - 1) : Tail(q)[i] = q[i + 1]
  OBVIOUS

LEMMA NewsTyped ==
  ASSUME IInv
  PROVE  /\ Len(news) \in Nat
         /\ \A i \in 1 .. Len(news) : news[i] \in News /\ news[i].dev \in 1 .. enums
<1>1. news \in Seq(News)
  BY DEF IInv, Types
<1>2. Len(news) \in Nat /\ \A i \in 1 .. Len(news) : news[i] \in News
  BY <1>1
<1> QED BY <1>2 DEF News

\* A broadcast is queued while somebody receives, and only then.
LEMMA BroadcastShape ==
  ASSUME IInv, NEW what \in {"attached", "detached"}, NEW n \in Nat, NEW e \in 1 .. n,
         enums <= n, news' = Broadcast(what, e)
  PROVE  /\ news' \in Seq([what : {"attached", "detached"}, dev : 1 .. n])
         /\ \/ place \in {"new", "stopped"} /\ news' = news /\ Len(news') = 0
            \/ /\ place \in {"registered", "running"}
               /\ Len(news) \in Nat /\ Len(news') = Len(news) + 1
               /\ \A i \in 1 .. Len(news) : news'[i] = news[i]
               /\ news'[Len(news) + 1] = [what |-> what, dev |-> e]
<1> DEFINE N == [what : {"attached", "detached"}, dev : 1 .. n]
           m == [what |-> what, dev |-> e]
<1>1. news \in Seq(N) /\ m \in N
  <2>1. enums \in Nat /\ 1 .. enums \subseteq 1 .. n
    BY UsbAssumption DEF IInv, Types
  <2>2. News \subseteq N
    BY <2>1 DEF News
  <2>3. news \in Seq(News)
    BY DEF IInv, Types
  <2> HIDE DEF N
  <2>4. news \in Seq(N)
    BY <2>2, <2>3
  <2> QED BY <2>4 DEF N
<1>2. CASE place \in {"new", "stopped"}
  BY <1>1, <1>2 DEF Broadcast, IInv, PlaceInv
<1>3. CASE place \notin {"new", "stopped"}
  <2>1. news' = Append(news, m)
    BY <1>3 DEF Broadcast
  <2> HIDE DEF N, m
  <2>2. news' \in Seq(N) /\ Len(news) \in Nat /\ Len(news') = Len(news) + 1
        /\ (\A i \in 1 .. Len(news) : news'[i] = news[i])
        /\ news'[Len(news) + 1] = m
    BY <1>1, <2>1, NewsGrows
  <2> QED BY <1>3, <2>2 DEF IInv, Types, N, m
<1> QED BY <1>2, <1>3

-----------------------------------------------------------------------------
(* A device appears. *)

LEMMA AppearStep ==
  ASSUME IInv, NEW p \in Phone, NEW accessory \in BOOLEAN, Appear(p, accessory),
         accessory <=> p \in switched, switched' = switched \ {p},
         UNCHANGED <<place, todo, monitorVars, sessions, mishaps>>
  PROVE  IInv'
<1> DEFINE n == enums + 1
           m == [what |-> "attached", dev |-> n]
<1>0. /\ enums \in Nat /\ MaxEnum \in Nat /\ enums' = n /\ n \in Nat /\ n \in 1 .. MaxEnum
      /\ bus' = [bus EXCEPT ![p] = n] /\ bus[p] = None
      /\ bus \in [Phone -> 0 .. enums]
      /\ aoa' = (IF accessory THEN aoa \cup {n} ELSE aoa) /\ aoa \subseteq 1 .. enums
      /\ n \notin aoa /\ n \notin todo /\ todo \subseteq 1 .. enums
      /\ news' = Broadcast("attached", n)
      /\ news \in Seq(News)
  <2>1. MaxEnum \in Nat /\ enums \in Nat
    BY UsbAssumption DEF IInv, Types
  <2> QED BY <2>1 DEF Appear, IInv, Types
<1>1. /\ news' \in Seq([what : {"attached", "detached"}, dev : 1 .. n])
      /\ \/ place \in {"new", "stopped"} /\ news' = news /\ Len(news') = 0
         \/ /\ place \in {"registered", "running"}
            /\ Len(news) \in Nat /\ Len(news') = Len(news) + 1
            /\ \A i \in 1 .. Len(news) : news'[i] = news[i]
            /\ news'[Len(news) + 1] = m
  <2>1. n \in Nat /\ n \in 1 .. n /\ enums <= n /\ "attached" \in {"attached", "detached"}
    BY <1>0
  <2>2. news' = Broadcast("attached", n)
    BY <1>0
  <2> HIDE DEF n
  <2> QED BY <2>1, <2>2, BroadcastShape
<1>2. \A i \in 1 .. Len(news) : news[i] \in News /\ news[i].dev \in 1 .. enums
  BY NewsTyped
<1>3. Types'
  <2>1. enums' \in 0 .. MaxEnum /\ bus' \in [Phone -> 0 .. enums'] /\ aoa' \subseteq 1 .. enums'
    BY <1>0
  <2>2. news' \in Seq(News')
    BY <1>0, <1>1 DEF News
  <2>3. /\ switched' \subseteq Phone /\ place' \in {"new", "registered", "running", "stopped"}
        /\ aoaSwitchInProgress' \in BOOLEAN
        /\ sessions' \in [Enum -> 0 .. 2] /\ mishaps' \in 0 .. MaxMishaps
    BY DEF IInv, Types, monitorVars
  <2>4. todo' \subseteq 1 .. enums' /\ pendingDevice' \in {None} \cup aoa'
    BY <1>0 DEF IInv, Types, monitorVars
  <2> QED BY <2>1, <2>2, <2>3, <2>4 DEF Types
<1>4. BusInv'
  BY <1>0 DEF IInv, Types, BusInv, None, Enum
<1>5. PlaceInv'
  BY <1>0, <1>1 DEF IInv, PlaceInv, monitorVars
<1>6. SeenInv'
  <2>1. n \in Enum /\ sessions[n] = 0
    BY <1>0 DEF IInv, Types, BusInv, Enum
  <2>2. CASE place \in {"new", "stopped"}
    BY <1>1, <2>2 DEF IInv, SeenInv
  <2>3. CASE place \in {"registered", "running"}
    <3>1. \A i \in 1 .. Len(news') :
             \/ i \in 1 .. Len(news) /\ news'[i] = news[i]
             \/ i = Len(news) + 1 /\ news'[i] = m
      <4> HIDE DEF m, n
      <4>1. place \notin {"new", "stopped"}
        BY <2>3
      <4>2. /\ Len(news) \in Nat /\ Len(news') = Len(news) + 1
            /\ \A i \in 1 .. Len(news) : news'[i] = news[i]
            /\ news'[Len(news) + 1] = m
        BY <1>1, <4>1, Zenon
      <4> QED BY <4>2
    <3>2. \A i, j \in 1 .. Len(news') :
             Attached(i)' /\ Attached(j)' /\ news'[i].dev = news'[j].dev => i = j
      BY <1>0, <1>2, <3>1 DEF IInv, SeenInv, Attached
    <3>3. \A i \in 1 .. Len(news') : Attached(i)' =>
             sessions[news'[i].dev] <= (IF news'[i].dev \in todo THEN 0 ELSE 1)
      BY <1>0, <1>2, <2>1, <3>1 DEF IInv, SeenInv, Attached
    <3> QED BY <3>2, <3>3 DEF IInv, SeenInv
  <2> QED BY <1>1, <2>2, <2>3
<1>7. LeaveInv'
  <2>1. Present' = Present \cup {n}
    BY <1>0 DEF Present, None
  <2>2. CASE place \in {"new", "stopped"}
    BY <1>1, <2>2 DEF LeaveInv
  <2>3. CASE place \in {"registered", "running"}
    <3>1. ASSUME NEW e, NEW i \in Nat, Leaves(news, e, i) PROVE Leaves(news', e, i)
      BY <1>1, <2>3, <3>1 DEF Leaves
    <3>2. ASSUME NEW i \in 1 .. Len(news'), Attached(i)'
          PROVE  news'[i].dev \in Present' \/ Leaves(news', news'[i].dev, i)
      <4>1. CASE i \in 1 .. Len(news)
        BY <1>1, <2>1, <2>3, <3>1, <3>2, <4>1 DEF IInv, LeaveInv, Attached
      <4>2. CASE i = Len(news) + 1
        BY <1>1, <2>1, <2>3, <4>2 DEF m
      <4> QED BY <1>1, <2>3, <4>1, <4>2
    <3>3. ASSUME place' = "running", NEW e \in Enum,
                 e \in todo' \/ sessions'[e] > 0 \/ pendingDevice' = e
          PROVE  e \in Present' \/ Leaves(news', e, 0)
      BY <2>1, <3>1, <3>3 DEF IInv, LeaveInv, monitorVars
    <3> QED BY <3>2, <3>3 DEF LeaveInv
  <2> QED BY <1>1, <2>2, <2>3
<1>8. SwitchInv'
  <2> SUFFICES ASSUME 1 \notin aoa' PROVE SwitchInv'
    BY DEF SwitchInv
  <2>1. 1 \notin aoa
    BY <1>0
  <2>2. todo' \cap aoa' = {} /\ \A a, b \in switched' : a = b
    BY <1>0, <2>1 DEF IInv, SwitchInv
  <2>3. accessory => switched' = {} /\ aoaSwitchInProgress'
                     /\ \A i \in 1 .. Len(news) : Attached(i) => news[i].dev \notin aoa
    BY <1>0, <2>1 DEF IInv, SwitchInv, Types, monitorVars
  <2>4. ~accessory => switched' = switched
    OBVIOUS
  <2>5. CASE place \in {"new", "stopped"}
    BY <1>0, <1>1, <2>1, <2>2, <2>3, <2>4, <2>5 DEF IInv, SwitchInv, monitorVars
  <2>6. CASE place \in {"registered", "running"}
    <3>1. ASSUME NEW i \in 1 .. Len(news'), Attached(i)', news'[i].dev \in aoa'
          PROVE  \/ i \in 1 .. Len(news) /\ Attached(i) /\ news[i].dev \in aoa /\ ~accessory
                 \/ i = Len(news) + 1 /\ accessory
      <4>1. CASE i \in 1 .. Len(news)
        BY <1>0, <1>1, <1>2, <2>3, <2>6, <3>1, <4>1 DEF Attached
      <4>2. CASE i = Len(news) + 1
        BY <1>0, <1>1, <2>6, <3>1, <4>2 DEF m
      <4> QED BY <1>1, <2>6, <4>1, <4>2
    <3> QED BY <2>1, <2>2, <2>3, <2>4, <3>1 DEF IInv, SwitchInv, monitorVars
  <2> QED BY <1>1, <2>5, <2>6
<1> QED BY <1>3, <1>4, <1>5, <1>6, <1>7, <1>8 DEF IInv

-----------------------------------------------------------------------------
(* A device disappears, or a switched phone is pulled before it is back. *)

LEMMA DisappearStep ==
  ASSUME IInv, NEW p \in Phone, Disappear(p),
         switched' \subseteq switched, mishaps' \in 0 .. MaxMishaps,
         UNCHANGED <<place, todo, monitorVars, sessions>>
  PROVE  IInv'
<1> DEFINE d == bus[p]
           m == [what |-> "detached", dev |-> d]
<1>0. /\ enums \in Nat /\ enums' = enums /\ aoa' = aoa /\ aoa \subseteq 1 .. enums
      /\ bus' = [bus EXCEPT ![p] = 0] /\ d # 0 /\ d \in 1 .. enums
      /\ bus \in [Phone -> 0 .. enums]
      /\ news' = Broadcast("detached", d)
      /\ news \in Seq(News)
  <2>1. MaxEnum \in Nat /\ enums \in Nat
    BY UsbAssumption DEF IInv, Types
  <2> QED BY <2>1 DEF Disappear, IInv, Types, None
<1>1. /\ news' \in Seq([what : {"attached", "detached"}, dev : 1 .. enums])
      /\ \/ place \in {"new", "stopped"} /\ news' = news /\ Len(news') = 0
         \/ /\ place \in {"registered", "running"}
            /\ Len(news) \in Nat /\ Len(news') = Len(news) + 1
            /\ \A i \in 1 .. Len(news) : news'[i] = news[i]
            /\ news'[Len(news) + 1] = m
  <2>1. enums <= enums /\ "detached" \in {"attached", "detached"}
    BY <1>0
  <2> HIDE DEF d
  <2> QED BY <1>0, <2>1, BroadcastShape
<1>2. \A i \in 1 .. Len(news) : news[i] \in News /\ news[i].dev \in 1 .. enums
  BY NewsTyped
<1>3. Types'
  <2>1. enums' \in 0 .. MaxEnum /\ bus' \in [Phone -> 0 .. enums'] /\ aoa' \subseteq 1 .. enums'
    BY <1>0 DEF IInv, Types
  <2>2. news' \in Seq(News')
    BY <1>0, <1>1 DEF News
  <2>3. /\ switched' \subseteq Phone /\ place' \in {"new", "registered", "running", "stopped"}
        /\ aoaSwitchInProgress' \in BOOLEAN
        /\ sessions' \in [Enum -> 0 .. 2] /\ mishaps' \in 0 .. MaxMishaps
        /\ todo' \subseteq 1 .. enums' /\ pendingDevice' \in {None} \cup aoa'
    BY <1>0 DEF IInv, Types, monitorVars
  <2> QED BY <2>1, <2>2, <2>3 DEF Types
<1>4. BusInv'
  BY <1>0 DEF IInv, Types, BusInv, None, Enum
<1>5. PlaceInv'
  BY <1>0, <1>1 DEF IInv, PlaceInv, monitorVars
<1>6. ASSUME place \in {"registered", "running"}
      PROVE  /\ Len(news) \in Nat /\ Len(news') = Len(news) + 1
             /\ \A i \in 1 .. Len(news) : news'[i] = news[i]
             /\ \A i \in 1 .. Len(news') : Attached(i)' => i \in 1 .. Len(news) /\ Attached(i)
             /\ news'[Len(news) + 1] = m
  <2>1. place \notin {"new", "stopped"}
    BY <1>6
  <2> HIDE DEF m
  <2>2. /\ Len(news) \in Nat /\ Len(news') = Len(news) + 1
        /\ \A i \in 1 .. Len(news) : news'[i] = news[i]
        /\ news'[Len(news) + 1] = m
    BY <1>1, <2>1, Zenon
  <2>3. m.what # "attached"
    BY DEF m
  <2> QED BY <2>2, <2>3 DEF Attached
<1>7. SeenInv'
  <2>1. CASE place \in {"new", "stopped"}
    BY <1>1, <2>1 DEF IInv, SeenInv
  <2>2. CASE place \in {"registered", "running"}
    <3> HIDE DEF m, d
    <3>1. \A i \in 1 .. Len(news') :
             Attached(i)' => i \in 1 .. Len(news) /\ Attached(i) /\ news'[i] = news[i]
      BY <1>6, <2>2
    <3> QED BY <3>1 DEF IInv, SeenInv
  <2> QED BY <1>1, <2>1, <2>2
<1>8. LeaveInv'
  <2>1. \A e : e \in Present => e \in Present' \/ e = d
    BY <1>0 DEF Present, None
  <2>2. CASE place \in {"new", "stopped"}
    BY <1>1, <2>2 DEF LeaveInv
  <2>3. CASE place \in {"registered", "running"}
    <3>1. ASSUME NEW e, NEW i \in Nat, Leaves(news, e, i) PROVE Leaves(news', e, i)
      BY <1>6, <2>3, <3>1 DEF Leaves
    <3>2. ASSUME NEW i \in 0 .. Len(news) PROVE Leaves(news', d, i)
      BY <1>6, <2>3, <3>2 DEF Leaves
    <3>3. ASSUME NEW i \in 1 .. Len(news'), Attached(i)'
          PROVE  news'[i].dev \in Present' \/ Leaves(news', news'[i].dev, i)
      BY <1>6, <2>1, <2>3, <3>1, <3>2, <3>3 DEF IInv, LeaveInv
    <3>4. ASSUME place' = "running", NEW e \in Enum,
                 e \in todo' \/ sessions'[e] > 0 \/ pendingDevice' = e
          PROVE  e \in Present' \/ Leaves(news', e, 0)
      <4>1. e \in Present \/ Leaves(news, e, 0)
        BY <3>4 DEF IInv, LeaveInv, monitorVars
      <4> QED BY <1>6, <2>1, <2>3, <3>1, <3>2, <4>1
    <3> QED BY <3>3, <3>4 DEF LeaveInv
  <2> QED BY <1>1, <2>2, <2>3
<1>9. SwitchInv'
  <2>1. CASE place \in {"new", "stopped"}
    BY <1>0, <1>1, <2>1 DEF IInv, SwitchInv, monitorVars
  <2>2. CASE place \in {"registered", "running"}
    <3> SUFFICES ASSUME 1 \notin aoa PROVE SwitchInv'
      BY <1>0 DEF SwitchInv
    <3>1. todo' \cap aoa = {} /\ (\A a, b \in switched' : a = b)
          /\ aoaSwitchInProgress' = aoaSwitchInProgress
      BY DEF IInv, SwitchInv, monitorVars
    <3>2. ASSUME NEW i \in 1 .. Len(news'), Attached(i)'
          PROVE  i \in 1 .. Len(news) /\ Attached(i) /\ news'[i] = news[i]
      BY <1>6, <2>2, <3>2
    <3> HIDE DEF m, d
    <3> QED BY <1>0, <3>1, <3>2 DEF IInv, SwitchInv
  <2> QED BY <1>1, <2>1, <2>2
<1> QED BY <1>3, <1>4, <1>5, <1>7, <1>8, <1>9 DEF IInv

LEMMA PulledStep ==
  ASSUME IInv, switched' \subseteq switched, mishaps' \in 0 .. MaxMishaps,
         UNCHANGED <<busVars, news, place, todo, monitorVars, sessions>>
  PROVE  IInv'
<1>1. Types'
  BY DEF IInv, Types, News, busVars, monitorVars
<1>2. BusInv'
  BY DEF IInv, BusInv, busVars
<1>3. PlaceInv'
  BY DEF IInv, PlaceInv, busVars, monitorVars
<1>4. SeenInv'
  BY DEF IInv, SeenInv, Attached
<1>5. LeaveInv'
  BY DEF IInv, LeaveInv, Attached, Present, busVars, monitorVars
<1>6. SwitchInv'
  BY DEF IInv, SwitchInv, Attached, busVars, monitorVars
<1> QED BY <1>1, <1>2, <1>3, <1>4, <1>5, <1>6 DEF IInv

-----------------------------------------------------------------------------
(* The main thread looks at a device. *)

Looked(e) ==
  /\ sessions' \in [Enum -> 0 .. 2]
  /\ \A x \in Enum : x # e => sessions'[x] = sessions[x]
  /\ sessions'[e] <= sessions[e] + 1
  /\ sessions'[e] > sessions[e] => e \in aoa
  /\ pendingDevice' = pendingDevice \/ (pendingDevice' = e /\ e \in aoa)
  /\ mishaps' \in 0 .. MaxMishaps
  /\ \/ e \in aoa /\ aoaSwitchInProgress' = FALSE /\ switched' = switched
     \/ /\ e \notin aoa /\ aoaSwitchInProgress
        /\ aoaSwitchInProgress' = aoaSwitchInProgress /\ switched' = switched
     \/ /\ e \notin aoa /\ ~aoaSwitchInProgress
        /\ aoaSwitchInProgress' = TRUE
        /\ switched' \subseteq switched \cup {q \in Phone : bus[q] = e}

LEMMA AttachedShape ==
  ASSUME IInv, NEW e \in 1 .. enums, sessions[e] <= 1, OnDeviceAttached(e)
  PROVE  Looked(e)
<1>0. /\ enums \in Nat /\ MaxEnum \in Nat /\ MaxMishaps \in Nat /\ enums <= MaxEnum
      /\ e \in Enum /\ sessions \in [Enum -> 0 .. 2] /\ mishaps \in 0 .. MaxMishaps
  BY UsbAssumption DEF IInv, Types, Enum
<1>1. CASE e \in aoa
  <2>1. aoaSwitchInProgress' = FALSE /\ RequestPermissionAndOpen(e)
    BY <1>1 DEF OnDeviceAttached
  <2>2. pendingDevice' = e /\ switched' = switched /\ mishaps' \in 0 .. MaxMishaps
    BY <1>0, <2>1 DEF RequestPermissionAndOpen, Mishap
  <2>3. sessions' = sessions \/ sessions' = [sessions EXCEPT ![e] = @ + 1]
    BY <2>1 DEF RequestPermissionAndOpen
  <2>4. /\ sessions' \in [Enum -> 0 .. 2] /\ sessions'[e] <= sessions[e] + 1
        /\ \A x \in Enum : x # e => sessions'[x] = sessions[x]
    BY <1>0, <2>3
  <2> QED BY <1>1, <2>1, <2>2, <2>4 DEF Looked
<1>2. CASE e \notin aoa /\ aoaSwitchInProgress
  BY <1>0, <1>2 DEF OnDeviceAttached, monitorVars, Looked
<1>3. CASE e \notin aoa /\ ~aoaSwitchInProgress
  <2>1. aoaSwitchInProgress' = TRUE /\ PerformAoaSwitch(e)
    BY <1>3 DEF OnDeviceAttached
  <2>2. /\ pendingDevice' = pendingDevice /\ sessions' = sessions
        /\ mishaps' \in 0 .. MaxMishaps
        /\ switched' \subseteq switched \cup {q \in Phone : bus[q] = e}
    BY <1>0, <2>1 DEF PerformAoaSwitch, Mishap
  <2>3. /\ sessions' \in [Enum -> 0 .. 2] /\ sessions'[e] <= sessions[e] + 1
        /\ (sessions'[e] > sessions[e] => e \in aoa)
        /\ \A x \in Enum : x # e => sessions'[x] = sessions[x]
    BY <1>0, <2>2
  <2> QED BY <1>3, <2>1, <2>2, <2>3, Zenon DEF Looked
<1> QED BY <1>1, <1>2, <1>3

\* What the state variables are after a look, whatever becomes of the queue.
LEMMA LookedTypes ==
  ASSUME IInv, NEW e \in 1 .. enums, Looked(e),
         UNCHANGED <<busVars, place>>
  PROVE  /\ BusInv'
         /\ pendingDevice' \in {None} \cup aoa' /\ aoaSwitchInProgress' \in BOOLEAN
         /\ switched' \subseteq Phone
<1>0. e \in Enum /\ e # None /\ sessions \in [Enum -> 0 .. 2] /\ sessions' \in [Enum -> 0 .. 2]
  BY UsbAssumption DEF IInv, Types, Enum, None, Looked
<1>1. \A x \in Enum : sessions'[x] > 0 => x \in aoa
  BY <1>0 DEF Looked, IInv, BusInv
<1>2. switched' \subseteq Phone /\ \A p \in switched' : bus[p] \notin aoa
  <2>1. \A p \in switched : p \in Phone /\ bus[p] \notin aoa
    BY DEF IInv, Types, BusInv
  <2>2. switched' = switched \/ (e \notin aoa /\ switched' \subseteq switched \cup {q \in Phone : bus[q] = e})
    BY Zenon DEF Looked
  <2> QED BY <2>1, <2>2
<1>3. aoaSwitchInProgress' \in BOOLEAN
  <2>1. aoaSwitchInProgress \in BOOLEAN
    BY DEF IInv, Types
  <2>2. aoaSwitchInProgress' \in {TRUE, FALSE} \/ aoaSwitchInProgress' = aoaSwitchInProgress
    BY Zenon DEF Looked
  <2> QED BY <2>1, <2>2, Zenon
<1>4. BusInv'
  BY <1>1, <1>2 DEF IInv, BusInv, busVars
<1>5. pendingDevice' \in {None} \cup aoa'
  BY DEF IInv, Types, Looked, busVars
<1> QED BY <1>2, <1>3, <1>4, <1>5

LEMMA LookAtStep ==
  ASSUME IInv, NEW e \in Enum, LookAt(e)
  PROVE  IInv'
<1>0. /\ e \in todo /\ todo' = todo \ {e} /\ OnDeviceAttached(e)
      /\ UNCHANGED <<busVars, news, place>>
      /\ place = "running" /\ e \in 1 .. enums /\ sessions[e] <= 1
  BY DEF LookAt, IInv, PlaceInv, SeenInv, Types
<1>1. Looked(e)
  BY <1>0, AttachedShape
<1>2. /\ BusInv'
      /\ pendingDevice' \in {None} \cup aoa' /\ aoaSwitchInProgress' \in BOOLEAN
      /\ switched' \subseteq Phone
  BY <1>0, <1>1, LookedTypes
<1>3. \A i \in 1 .. Len(news) : news[i] \in News /\ news[i].dev \in 1 .. enums
  BY NewsTyped
<1>4. Types'
  BY <1>0, <1>1, <1>2 DEF IInv, Types, News, busVars, Looked
<1>5. PlaceInv'
  BY <1>0 DEF PlaceInv, IInv
<1>6. enums \in Nat /\ 1 .. enums \subseteq Enum /\ sessions \in [Enum -> 0 .. 2]
  BY UsbAssumption DEF IInv, Types, Enum
<1>7. SeenInv'
  <2>1. /\ sessions' \in [Enum -> 0 .. 2]
        /\ \A x \in Enum : x # e => sessions'[x] = sessions[x]
        /\ sessions'[e] <= sessions[e] + 1
    BY <1>1 DEF Looked
  <2>2. \A x \in todo' : sessions'[x] <= 1
    <3>1. \A x \in todo : x \in Enum /\ sessions[x] <= 1
      BY <1>6 DEF IInv, Types, SeenInv
    <3> QED BY <1>0, <2>1, <3>1
  <2>3. \A i \in 1 .. Len(news) : Attached(i) =>
           sessions'[news[i].dev] <= (IF news[i].dev \in todo' THEN 0 ELSE 1)
    <3> SUFFICES ASSUME NEW i \in 1 .. Len(news), Attached(i)
                 PROVE  sessions'[news[i].dev] <= (IF news[i].dev \in todo' THEN 0 ELSE 1)
      OBVIOUS
    <3>1. news[i].dev \in Enum
      BY <1>3, <1>6
    <3>2. sessions[news[i].dev] <= (IF news[i].dev \in todo THEN 0 ELSE 1)
      BY DEF IInv, SeenInv
    <3>3. CASE news[i].dev = e
      <4>1. sessions[e] <= 0
        BY <1>0, <3>2, <3>3
      <4> QED BY <1>0, <1>6, <2>1, <3>3, <4>1
    <3>4. CASE news[i].dev # e
      <4>1. sessions'[news[i].dev] = sessions[news[i].dev]
        BY <2>1, <3>1, <3>4
      <4>2. news[i].dev \in todo' <=> news[i].dev \in todo
        BY <1>0, <3>4
      <4> QED BY <3>2, <4>1, <4>2
    <3> QED BY <3>3, <3>4
  <2> QED BY <1>0, <2>2, <2>3 DEF IInv, SeenInv, Attached
<1>8. LeaveInv'
  <2>1. Present' = Present
    BY <1>0 DEF Present, busVars
  <2>2. \A x \in Enum : x \in todo' \/ sessions'[x] > 0 \/ pendingDevice' = x
                        => x \in todo \/ sessions[x] > 0 \/ pendingDevice = x
    BY <1>0, <1>1 DEF Looked
  <2> QED BY <1>0, <2>1, <2>2 DEF IInv, LeaveInv, Attached
<1>9. SwitchInv'
  <2> SUFFICES ASSUME 1 \notin aoa PROVE SwitchInv'
    BY <1>0 DEF SwitchInv, busVars
  <2>1. e \notin aoa
    BY <1>0 DEF IInv, SwitchInv
  <2>2. todo' \cap aoa = {}
    BY <1>0 DEF IInv, SwitchInv
  <2>3. CASE aoaSwitchInProgress
    <3>1. switched' = switched /\ aoaSwitchInProgress'
      BY <1>1, <2>1, <2>3, Zenon DEF Looked
    <3> QED BY <1>0, <2>2, <3>1 DEF IInv, SwitchInv, Attached, busVars
  <2>4. CASE ~aoaSwitchInProgress
    <3>1. /\ switched' \subseteq switched \cup {q \in Phone : bus[q] = e}
          /\ aoaSwitchInProgress'
      BY <1>1, <2>1, <2>4, Zenon DEF Looked
    <3>2. switched = {} /\ \A i \in 1 .. Len(news) : Attached(i) => news[i].dev \notin aoa
      BY <2>4 DEF IInv, SwitchInv
    <3>3. \A p, q \in switched' : p = q
      BY <1>0, <3>1, <3>2 DEF IInv, BusInv, None
    <3> QED BY <1>0, <2>2, <3>1, <3>2, <3>3 DEF SwitchInv, Attached, busVars
  <2> QED BY <2>3, <2>4
<1> QED BY <1>2, <1>4, <1>5, <1>7, <1>8, <1>9 DEF IInv

-----------------------------------------------------------------------------
(* The main thread receives a broadcast. *)

LEMMA ReceivedShape ==
  ASSUME IInv, OnReceive
  PROVE  /\ place = "running" /\ place' = place /\ todo = {} /\ todo' = {}
         /\ UNCHANGED busVars
         /\ Len(news) \in Nat \ {0} /\ Head(news) = news[1] /\ 1 \in 1 .. Len(news)
         /\ news' \in Seq(News) /\ Len(news') = Len(news) - 1
         /\ \A i \in 1 .. Len(news') : i + 1 \in 1 .. Len(news) /\ news'[i] = news[i + 1]
         /\ IF Attached(1) THEN OnDeviceAttached(news[1].dev) ELSE OnDeviceDetached
<1>1. /\ place = "running" /\ place' = place /\ todo = {} /\ todo' = {}
      /\ UNCHANGED busVars /\ news # <<>> /\ news' = Tail(news)
      /\ IF Head(news).what = "attached" THEN OnDeviceAttached(Head(news).dev) ELSE OnDeviceDetached
  BY DEF OnReceive
<1>2. news \in Seq(News)
  BY DEF IInv, Types
<1>3. /\ Len(news) \in Nat \ {0} /\ Head(news) = news[1]
      /\ Tail(news) \in Seq(News) /\ Len(Tail(news)) = Len(news) - 1
      /\ \A i \in 1 .. (Len(news) - 1) : Tail(news)[i] = news[i + 1]
  BY <1>1, <1>2, NewsShrinks
<1>4. /\ news' \in Seq(News) /\ Len(news') = Len(news) - 1 /\ 1 \in 1 .. Len(news)
      /\ \A i \in 1 .. Len(news') : i + 1 \in 1 .. Len(news) /\ news'[i] = news[i + 1]
  BY <1>1, <1>3
<1> QED BY <1>1, <1>3, <1>4 DEF Attached

\* What is said of the rest of the queue stays true of it.
LEMMA ReceivedRest ==
  ASSUME IInv, OnReceive
  PROVE  /\ PlaceInv'
         /\ \A e : \A i \in Nat : Leaves(news, e, i + 1) => Leaves(news', e, i)
         /\ \A i \in 1 .. Len(news') : Attached(i)' => news'[i].dev \in Present \/ Leaves(news', news'[i].dev, i)
         /\ \A i, j \in 1 .. Len(news') :
               Attached(i)' /\ Attached(j)' /\ news'[i].dev = news'[j].dev => i = j
<1>1. /\ place = "running" /\ place' = place
      /\ Len(news) \in Nat \ {0}
      /\ Len(news') = Len(news) - 1
      /\ \A i \in 1 .. Len(news') : i + 1 \in 1 .. Len(news) /\ news'[i] = news[i + 1]
  BY ReceivedShape
<1>2. ASSUME NEW e, NEW i \in Nat, Leaves(news, e, i + 1)
      PROVE  Leaves(news', e, i)
  <2>1. PICK j \in 1 .. Len(news) : j > i + 1 /\ news[j].what = "detached" /\ news[j].dev = e
    BY <1>2 DEF Leaves
  <2>2. j - 1 \in 1 .. Len(news') /\ news'[j - 1] = news[j] /\ j - 1 > i
    BY <1>1, <2>1
  <2> QED BY <2>1, <2>2 DEF Leaves
<1>3. ASSUME NEW i \in 1 .. Len(news'), Attached(i)'
      PROVE  news'[i].dev \in Present \/ Leaves(news', news'[i].dev, i)
  <2>1. i + 1 \in 1 .. Len(news) /\ news'[i] = news[i + 1] /\ Attached(i + 1) /\ i \in Nat
    BY <1>1, <1>3 DEF Attached
  <2>2. news[i + 1].dev \in Present \/ Leaves(news, news[i + 1].dev, i + 1)
    BY <2>1 DEF IInv, LeaveInv
  <2> QED BY <1>2, <2>1, <2>2
<1>4. ASSUME NEW i \in 1 .. Len(news'), NEW j \in 1 .. Len(news'),
             Attached(i)', Attached(j)', news'[i].dev = news'[j].dev
      PROVE  i = j
  <2>1. i + 1 = j + 1
    BY <1>1, <1>4 DEF IInv, SeenInv, Attached
  <2> QED BY <1>1, <2>1
<1>5. PlaceInv'
  BY <1>1, ReceivedShape DEF PlaceInv
<1> QED BY <1>2, <1>3, <1>4, <1>5

LEMMA ReceiveAttachedStep ==
  ASSUME IInv, OnReceive, Attached(1)
  PROVE  IInv'
<1> DEFINE e == news[1].dev
<1>0. /\ place = "running" /\ place' = place /\ todo = {} /\ todo' = {}
      /\ UNCHANGED busVars
      /\ Len(news) \in Nat \ {0} /\ 1 \in 1 .. Len(news)
      /\ news' \in Seq(News) /\ Len(news') = Len(news) - 1
      /\ \A i \in 1 .. Len(news') : i + 1 \in 1 .. Len(news) /\ news'[i] = news[i + 1]
      /\ OnDeviceAttached(e)
  BY ReceivedShape
<1>1. \A i \in 1 .. Len(news) : news[i] \in News /\ news[i].dev \in 1 .. enums
  BY NewsTyped
<1>2. e \in 1 .. enums /\ sessions[e] <= 1
  BY <1>0, <1>1 DEF IInv, SeenInv
<1>3. Looked(e)
  BY <1>0, <1>2, AttachedShape
<1>4. /\ BusInv'
      /\ pendingDevice' \in {None} \cup aoa' /\ aoaSwitchInProgress' \in BOOLEAN
      /\ switched' \subseteq Phone
  BY <1>0, <1>2, <1>3, LookedTypes
<1>5. enums \in Nat /\ 1 .. enums \subseteq Enum /\ sessions \in [Enum -> 0 .. 2]
  BY UsbAssumption DEF IInv, Types, Enum
<1>6. Types'
  BY <1>0, <1>3, <1>4 DEF IInv, Types, News, busVars, Looked
<1>7. \A i \in 1 .. Len(news') : Attached(i)' =>
         Attached(i + 1) /\ news'[i].dev \in 1 .. enums /\ news'[i].dev # e
  <2>1. SUFFICES ASSUME NEW i \in 1 .. Len(news'), Attached(i)'
                 PROVE  Attached(i + 1) /\ news'[i].dev \in 1 .. enums /\ news'[i].dev # e
    OBVIOUS
  <2>2. i + 1 \in 1 .. Len(news) /\ news'[i] = news[i + 1] /\ i + 1 # 1
    BY <1>0
  <2> QED BY <1>0, <1>1, <2>1, <2>2 DEF IInv, SeenInv, Attached
<1>8. SeenInv'
  <2>1. /\ sessions' \in [Enum -> 0 .. 2]
        /\ \A x \in Enum : x # e => sessions'[x] = sessions[x]
    BY <1>3 DEF Looked
  <2>2. ASSUME NEW i \in 1 .. Len(news'), Attached(i)'
        PROVE  sessions'[news'[i].dev] <= 1
    <3>1. sessions'[news'[i].dev] = sessions[news'[i].dev]
      BY <1>5, <1>7, <2>1, <2>2
    <3>2. sessions[news[i + 1].dev] <= 1
      BY <1>0, <1>7, <2>2 DEF IInv, SeenInv
    <3> QED BY <1>0, <3>1, <3>2
  <2> QED BY <1>0, <2>2, ReceivedRest DEF SeenInv
<1>9. LeaveInv'
  <2>1. Present' = Present
    BY <1>0 DEF Present, busVars
  <2>2. ASSUME NEW x \in Enum, x \in todo' \/ sessions'[x] > 0 \/ pendingDevice' = x
        PROVE  x \in Present' \/ Leaves(news', x, 0)
    <3>1. x = e \/ sessions[x] > 0 \/ pendingDevice = x
      BY <1>0, <1>3, <2>2 DEF Looked
    <3>2. x \in Present \/ Leaves(news, x, 1)
      <4>1. CASE x = e
        BY <1>0, <4>1 DEF IInv, LeaveInv
      <4>2. CASE x # e
        <5>1. x \in Present \/ Leaves(news, x, 0)
          BY <1>0, <3>1, <4>2 DEF IInv, LeaveInv
        <5> QED BY <1>0, <5>1 DEF Leaves, Attached
      <4> QED BY <4>1, <4>2
    <3>3. Leaves(news, x, 0 + 1) => Leaves(news', x, 0)
      BY ReceivedRest
    <3> QED BY <2>1, <3>2, <3>3
  <2> QED BY <1>0, <2>1, <2>2, ReceivedRest DEF LeaveInv
<1>10. SwitchInv'
  <2> SUFFICES ASSUME 1 \notin aoa PROVE SwitchInv'
    BY <1>0 DEF SwitchInv, busVars
  <2>1. \A i \in 1 .. Len(news') : Attached(i)' => Attached(i + 1) /\ i + 1 \in 1 .. Len(news)
                                              /\ news'[i] = news[i + 1] /\ i + 1 # 1 /\ i \in Nat
    BY <1>0, <1>7
  <2>2. CASE e \in aoa
    <3>1. switched' = switched /\ aoaSwitchInProgress' = FALSE
      BY <1>3, <2>2, Zenon DEF Looked
    <3>2. switched = {} /\ \A i \in 1 .. Len(news) : Attached(i) /\ news[i].dev \in aoa => i = 1
      BY <1>0, <2>2 DEF IInv, SwitchInv
    <3>3. \A i \in 1 .. Len(news') : Attached(i)' => news'[i].dev \notin aoa
      BY <2>1, <3>2
    <3> QED BY <1>0, <3>1, <3>2, <3>3 DEF SwitchInv, busVars
  <2>3. CASE e \notin aoa /\ aoaSwitchInProgress
    <3>1. switched' = switched /\ aoaSwitchInProgress'
      BY <1>3, <2>3, Zenon DEF Looked
    <3>2. \A p, q \in switched : p = q
      BY DEF IInv, SwitchInv
    <3>3. ASSUME NEW i \in 1 .. Len(news'), Attached(i)', news'[i].dev \in aoa
          PROVE  switched = {} /\ \A j \in 1 .. Len(news') : Attached(j)' /\ news'[j].dev \in aoa => i = j
      BY <2>1, <3>3 DEF IInv, SwitchInv
    <3> QED BY <1>0, <3>1, <3>2, <3>3 DEF SwitchInv, busVars
  <2>4. CASE e \notin aoa /\ ~aoaSwitchInProgress
    <3>1. /\ switched' \subseteq switched \cup {q \in Phone : bus[q] = e}
          /\ aoaSwitchInProgress'
      BY <1>3, <2>4, Zenon DEF Looked
    <3>2. switched = {} /\ \A i \in 1 .. Len(news) : Attached(i) => news[i].dev \notin aoa
      BY <2>4 DEF IInv, SwitchInv
    <3>3. e # 0
      BY <1>2
    <3>4. \A p, q \in switched' : p = q
      BY <3>1, <3>2, <3>3 DEF IInv, BusInv, None
    <3>5. \A i \in 1 .. Len(news') : Attached(i)' => news'[i].dev \notin aoa
      BY <2>1, <3>2
    <3> QED BY <1>0, <3>1, <3>4, <3>5 DEF SwitchInv, busVars
  <2> QED BY <2>2, <2>3, <2>4
<1> QED BY <1>4, <1>6, <1>8, <1>9, <1>10, ReceivedRest DEF IInv

LEMMA ReceiveDetachedStep ==
  ASSUME IInv, OnReceive, ~Attached(1)
  PROVE  IInv'
<1>0. /\ place = "running" /\ place' = place /\ todo = {} /\ todo' = {}
      /\ UNCHANGED busVars
      /\ Len(news) \in Nat \ {0}
      /\ news' \in Seq(News) /\ Len(news') = Len(news) - 1
      /\ \A i \in 1 .. Len(news') : i + 1 \in 1 .. Len(news) /\ news'[i] = news[i + 1]
      /\ OnDeviceDetached
  BY ReceivedShape
<1>1. /\ pendingDevice' = None /\ sessions' = [e \in Enum |-> 0]
      /\ UNCHANGED <<switched, aoaSwitchInProgress, mishaps>>
  BY <1>0 DEF OnDeviceDetached
<1>2. Types'
  BY <1>0, <1>1 DEF IInv, Types, News, busVars
<1>3. BusInv'
  BY <1>0, <1>1 DEF IInv, BusInv, busVars
<1>4. \A i \in 1 .. Len(news') : Attached(i)' => news'[i].dev \in Enum
  <2>1. \A i \in 1 .. Len(news) : news[i] \in News /\ news[i].dev \in 1 .. enums
    BY NewsTyped
  <2>2. 1 .. enums \subseteq Enum
    BY UsbAssumption DEF IInv, Types, Enum
  <2> QED BY <1>0, <2>1, <2>2
<1>5. SeenInv'
  <2>1. \A i \in 1 .. Len(news') : Attached(i)' => sessions'[news'[i].dev] = 0
    BY <1>1, <1>4
  <2>2. \A i \in 1 .. Len(news') : Attached(i)' =>
           sessions'[news'[i].dev] <= (IF news'[i].dev \in todo' THEN 0 ELSE 1)
    BY <2>1
  <2>3. \A i, j \in 1 .. Len(news') :
           Attached(i)' /\ Attached(j)' /\ news'[i].dev = news'[j].dev => i = j
    BY ReceivedRest
  <2> QED BY <1>0, <2>2, <2>3 DEF SeenInv
<1>6. LeaveInv'
  <2>1. Present' = Present
    BY <1>0 DEF Present, busVars
  <2>2. \A e \in Enum : ~(e \in todo' \/ sessions'[e] > 0 \/ pendingDevice' = e)
    BY <1>0, <1>1 DEF None, Enum
  <2> QED BY <2>1, <2>2, ReceivedRest DEF LeaveInv
<1>7. SwitchInv'
  <2> SUFFICES ASSUME 1 \notin aoa PROVE SwitchInv'
    BY <1>0 DEF SwitchInv, busVars
  <2>1. \A i \in 1 .. Len(news') : Attached(i)' => Attached(i + 1) /\ i + 1 \in 1 .. Len(news)
                                              /\ news'[i] = news[i + 1] /\ i \in Nat
    BY <1>0 DEF Attached
  <2>2. ASSUME NEW i \in 1 .. Len(news'), Attached(i)', news'[i].dev \in aoa
        PROVE  /\ switched = {} /\ aoaSwitchInProgress
               /\ \A j \in 1 .. Len(news') : Attached(j)' /\ news'[j].dev \in aoa => i = j
    BY <2>1, <2>2 DEF IInv, SwitchInv
  <2>3. (~aoaSwitchInProgress => switched = {}) /\ \A p, q \in switched : p = q
    BY DEF IInv, SwitchInv
  <2> QED BY <1>0, <1>1, <2>2, <2>3 DEF SwitchInv, busVars
<1> QED BY <1>2, <1>3, <1>5, <1>6, <1>7, ReceivedRest DEF IInv

-----------------------------------------------------------------------------
(* start(), shutdown(), and a session's error. *)

LEMMA RegisterStep ==
  ASSUME IInv, Register
  PROVE  IInv'
<1>0. /\ place = "new" /\ place' = "registered" /\ news = <<>>
      /\ UNCHANGED <<busVars, switched, news, todo, monitorVars, sessions, mishaps>>
  BY DEF Register, IInv, PlaceInv
<1>1. Types' /\ BusInv'
  BY <1>0 DEF IInv, Types, News, BusInv, busVars, monitorVars
<1>2. PlaceInv' /\ SeenInv'
  BY <1>0 DEF IInv, PlaceInv, SeenInv, Attached, busVars, monitorVars
<1>3. LeaveInv'
  BY <1>0 DEF IInv, LeaveInv, Attached, Present, busVars, monitorVars
<1>4. SwitchInv'
  BY <1>0 DEF IInv, SwitchInv, Attached, busVars, monitorVars
<1> QED BY <1>1, <1>2, <1>3, <1>4 DEF IInv

LEMMA ListDevicesStep ==
  ASSUME IInv, ListDevices
  PROVE  IInv'
<1>0. /\ place = "registered" /\ place' = "running" /\ todo' = Present
      /\ UNCHANGED <<busVars, switched, news, monitorVars, sessions, mishaps>>
      /\ pendingDevice = None /\ switched = {} /\ aoa \subseteq {1}
      /\ \A e \in Enum : sessions[e] = 0
  BY DEF ListDevices, IInv, PlaceInv
<1>1. enums \in Nat /\ 1 .. enums \subseteq Enum /\ Present \subseteq 1 .. enums
  BY UsbAssumption DEF IInv, Types, Enum, Present, None
<1>2. \A i \in 1 .. Len(news) : news[i] \in News /\ news[i].dev \in 1 .. enums
  BY NewsTyped
<1>3. Types' /\ BusInv'
  BY <1>0, <1>1 DEF IInv, Types, News, BusInv, busVars, monitorVars
<1>4. PlaceInv'
  BY <1>0 DEF PlaceInv
<1>5. SeenInv'
  <2>1. \A e \in 1 .. enums : sessions[e] = 0
    BY <1>0, <1>1
  <2>2. \A i \in 1 .. Len(news) : sessions[news[i].dev] = 0
    BY <1>2, <2>1
  <2> QED BY <1>0, <1>1, <2>1, <2>2 DEF IInv, SeenInv, Attached
<1>6. LeaveInv'
  <2>1. \A e \in Enum : e \in todo' \/ sessions'[e] > 0 \/ pendingDevice' = e => e \in Present
    BY <1>0 DEF None, Enum, monitorVars
  <2>2. Present' = Present
    BY <1>0 DEF Present, busVars
  <2> QED BY <1>0, <2>1, <2>2 DEF IInv, LeaveInv, Attached
<1>7. SwitchInv'
  BY <1>0 DEF IInv, SwitchInv, Attached, busVars, monitorVars
<1> QED BY <1>3, <1>4, <1>5, <1>6, <1>7 DEF IInv

LEMMA StopStep ==
  ASSUME IInv, Stop
  PROVE  IInv'
<1>0. /\ place' = "stopped" /\ news' = <<>> /\ todo = {} /\ Mishap
      /\ UNCHANGED <<busVars, switched, todo, monitorVars, sessions>>
  BY DEF Stop
<1>1. mishaps' \in 0 .. MaxMishaps
  BY <1>0, UsbAssumption DEF Mishap, IInv, Types
<1>2. Len(news') = 0 /\ news' \in Seq(News)
  BY <1>0
<1>3. Types' /\ BusInv'
  BY <1>0, <1>1, <1>2 DEF IInv, Types, News, BusInv, busVars, monitorVars
<1>4. PlaceInv' /\ SeenInv' /\ LeaveInv'
  BY <1>0, <1>2 DEF IInv, PlaceInv, SeenInv, LeaveInv
<1>5. SwitchInv'
  BY <1>0, <1>2 DEF IInv, SwitchInv, busVars, monitorVars
<1> QED BY <1>3, <1>4, <1>5 DEF IInv

LEMMA SessionFailsStep ==
  ASSUME IInv, NEW e \in Enum, SessionFails(e)
  PROVE  IInv'
<1>0. /\ sessions[e] > 0 /\ sessions' = [sessions EXCEPT ![e] = @ - 1]
      /\ sessions \in [Enum -> 0 .. 2]
      /\ UNCHANGED <<busVars, switched, news, place, todo, monitorVars>>
  BY DEF SessionFails, IInv, Types
<1>1. mishaps' \in 0 .. MaxMishaps
  BY UsbAssumption DEF SessionFails, Mishap, IInv, Types
<1>2. sessions' \in [Enum -> 0 .. 2] /\ \A x \in Enum : sessions'[x] <= sessions[x]
  BY <1>0
<1>3. \A x \in 1 .. enums : x \in Enum
  BY UsbAssumption DEF IInv, Types, Enum
<1>4. Types'
  BY <1>0, <1>1, <1>2 DEF IInv, Types, News, busVars, monitorVars
<1>5. BusInv'
  BY <1>0, <1>2 DEF IInv, BusInv, busVars
<1>6. PlaceInv'
  BY <1>0 DEF IInv, PlaceInv, busVars, monitorVars
<1>7. SeenInv'
  <2>1. \A i \in 1 .. Len(news) : news[i].dev \in Enum
    BY <1>3, NewsTyped
  <2>2. \A x \in todo : x \in Enum
    BY <1>3 DEF IInv, Types
  <2>3. \A x \in todo : sessions'[x] <= 1
    <3>1. \A x \in todo : sessions[x] <= 1 /\ sessions'[x] <= sessions[x]
                            /\ sessions[x] \in Nat /\ sessions'[x] \in Nat
      BY <1>0, <1>2, <2>2 DEF IInv, SeenInv
    <3> QED BY <3>1
  <2>4. \A i \in 1 .. Len(news) : Attached(i) =>
           sessions'[news[i].dev] <= (IF news[i].dev \in todo THEN 0 ELSE 1)
    <3> SUFFICES ASSUME NEW i \in 1 .. Len(news), Attached(i)
                 PROVE  sessions'[news[i].dev] <= (IF news[i].dev \in todo THEN 0 ELSE 1)
      OBVIOUS
    <3>1. sessions[news[i].dev] <= (IF news[i].dev \in todo THEN 0 ELSE 1)
      BY DEF IInv, SeenInv
    <3>2. sessions'[news[i].dev] <= sessions[news[i].dev]
          /\ sessions[news[i].dev] \in Nat /\ sessions'[news[i].dev] \in Nat
      BY <1>0, <1>2, <2>1
    <3> QED BY <3>1, <3>2
  <2> QED BY <1>0, <2>3, <2>4 DEF IInv, SeenInv, Attached
<1>8. LeaveInv'
  BY <1>0, <1>2 DEF IInv, LeaveInv, Attached, Present, busVars, monitorVars
<1>9. SwitchInv'
  BY <1>0 DEF IInv, SwitchInv, Attached, busVars, monitorVars
<1> QED BY <1>4, <1>5, <1>6, <1>7, <1>8, <1>9 DEF IInv

LEMMA StutterStep ==
  ASSUME IInv, UNCHANGED vars
  PROVE  IInv'
<1>1. UNCHANGED <<busVars, news, place, todo, monitorVars, sessions>>
      /\ switched' \subseteq switched /\ mishaps' \in 0 .. MaxMishaps
  BY DEF vars, IInv, Types
<1> QED BY <1>1, PulledStep

-----------------------------------------------------------------------------
LEMMA InitInv == Init => IInv
<1> SUFFICES ASSUME Init PROVE IInv
  OBVIOUS
<1>1. PICK left \in SUBSET Phone :
         /\ Cardinality(left) <= 1
         /\ bus = [p \in Phone |-> IF p \in left THEN 1 ELSE None]
         /\ enums = Cardinality(left) /\ aoa = 1 .. enums
  BY DEF Init
<1>2. IsFiniteSet(left) /\ Cardinality(left) \in Nat
  BY UsbAssumption, FS_Subset, FS_CardinalityType
<1>3. (enums = 0 /\ left = {}) \/ (enums = 1 /\ \E p : left = {p})
  <2>1. enums = Cardinality(left)
    BY <1>1, Zenon
  <2>2. CASE enums = 0
    <3>1. left = {}
      BY <1>2, <2>1, <2>2, FS_EmptySet, Zenon
    <3> QED BY <2>2, <3>1, Zenon
  <2>3. CASE enums = 1
    <3>1. \E p : left = {p}
      BY <1>2, <2>1, <2>3, FS_Singleton, Zenon
    <3> QED BY <2>3, <3>1, Zenon
  <2>4. Cardinality(left) <= 1
    BY <1>1, Zenon
  <2>5. enums = 0 \/ enums = 1
    BY <1>2, <2>1, <2>4
  <2> QED BY <2>2, <2>3, <2>5, Zenon
<1>4. /\ switched = {} /\ news = <<>> /\ place = "new" /\ todo = {}
      /\ pendingDevice = None /\ aoaSwitchInProgress = FALSE
      /\ sessions = [e \in Enum |-> 0] /\ mishaps = 0
  BY DEF Init
<1>5. Len(news) = 0 /\ news \in Seq(News)
  BY <1>4
<1>6. MaxEnum \in Nat /\ MaxEnum > 0 /\ MaxMishaps \in Nat
  BY UsbAssumption
<1>7. Types
  <2>1. enums \in 0 .. MaxEnum /\ enums \in Nat /\ (enums = 0 => left = {}) /\ aoa \subseteq 1 .. enums
    <3>1. enums = 0 \/ enums = 1
      BY <1>3, Zenon
    <3>2. enums = 0 => left = {}
      BY <1>3
    <3>3. aoa = 1 .. enums
      BY <1>1, Zenon
    <3> QED BY <1>6, <3>1, <3>2, <3>3
  <2>3. bus \in [Phone -> 0 .. enums]
    <3>1. \A p \in Phone : (IF p \in left THEN 1 ELSE None) \in 0 .. enums
      BY <1>3 DEF None
    <3>2. bus = [p \in Phone |-> IF p \in left THEN 1 ELSE None]
      BY <1>1, Zenon
    <3> QED BY <3>1, <3>2
  <2>2. sessions \in [Enum -> 0 .. 2] /\ mishaps \in 0 .. MaxMishaps
    BY <1>4, <1>6
  <2> QED BY <1>4, <1>5, <2>1, <2>2, <2>3 DEF Types
<1>8. BusInv
  BY <1>1, <1>3, <1>4 DEF BusInv, None
<1>9. PlaceInv
  BY <1>1, <1>3, <1>4 DEF PlaceInv
<1>10. SeenInv /\ LeaveInv /\ SwitchInv
  BY <1>4, <1>5 DEF SeenInv, LeaveInv, SwitchInv
<1> QED BY <1>7, <1>8, <1>9, <1>10 DEF IInv

LEMMA NextInv == IInv /\ [Next]_vars => IInv'
<1> SUFFICES ASSUME IInv, [Next]_vars PROVE IInv'
  OBVIOUS
<1>0. mishaps \in 0 .. MaxMishaps /\ MaxMishaps \in Nat
  BY UsbAssumption DEF IInv, Types
<1>1. CASE Register
  BY <1>1, RegisterStep
<1>2. CASE ListDevices
  BY <1>2, ListDevicesStep
<1>3. CASE OnReceive
  BY <1>3, ReceiveAttachedStep, ReceiveDetachedStep
<1>4. ASSUME NEW e \in Enum, LookAt(e) PROVE IInv'
  BY <1>4, LookAtStep
<1>5. CASE Stop
  BY <1>5, StopStep
<1>6. ASSUME NEW p \in Phone, Plug(p) PROVE IInv'
  <2>1. /\ Appear(p, FALSE) /\ FALSE \in BOOLEAN /\ p \notin switched /\ switched' = switched \ {p}
        /\ UNCHANGED <<place, todo, monitorVars, sessions, mishaps>>
    BY <1>6 DEF Plug
  <2> DEFINE acc == p \in switched
  <2>2. acc = FALSE
    BY <2>1
  <2>3. Appear(p, acc) /\ acc \in BOOLEAN
    BY <2>1, <2>2, Zenon
  <2> HIDE DEF acc
  <2>4. acc <=> p \in switched
    BY DEF acc
  <2> QED BY <2>1, <2>3, <2>4, AppearStep
<1>7. ASSUME NEW p \in Phone, Unplug(p) PROVE IInv'
  <2>1. /\ mishaps' \in 0 .. MaxMishaps /\ switched' \subseteq switched
        /\ UNCHANGED <<place, todo, monitorVars, sessions>>
    BY <1>0, <1>7 DEF Unplug, Mishap
  <2>2. CASE Disappear(p)
    BY <2>1, <2>2, DisappearStep
  <2>3. CASE UNCHANGED <<busVars, news>>
    BY <2>1, <2>3, PulledStep
  <2> QED BY <1>7, <2>2, <2>3 DEF Unplug
<1>8. ASSUME NEW p \in Phone, Leave(p) PROVE IInv'
  <2>1. /\ Disappear(p) /\ mishaps' \in 0 .. MaxMishaps /\ switched' \subseteq switched
        /\ UNCHANGED <<place, todo, monitorVars, sessions>>
    BY <1>0, <1>8 DEF Leave
  <2> QED BY <2>1, DisappearStep
<1>9. ASSUME NEW p \in Phone, Return(p) PROVE IInv'
  <2>1. /\ Appear(p, TRUE) /\ p \in switched /\ switched' = switched \ {p}
        /\ UNCHANGED <<place, todo, monitorVars, sessions, mishaps>>
    BY <1>9 DEF Return
  <2> DEFINE acc == p \in switched
  <2>2. acc = TRUE
    BY <2>1
  <2>3. Appear(p, acc) /\ acc \in BOOLEAN
    BY <2>1, <2>2, Zenon
  <2> HIDE DEF acc
  <2>4. acc <=> p \in switched
    BY DEF acc
  <2> QED BY <2>1, <2>3, <2>4, AppearStep
<1>10. ASSUME NEW e \in Enum, SessionFails(e) PROVE IInv'
  BY <1>10, SessionFailsStep
<1>11. CASE UNCHANGED vars
  BY <1>11, StutterStep
<1> QED BY <1>1, <1>2, <1>3, <1>4, <1>5, <1>6, <1>7, <1>8, <1>9, <1>10, <1>11
        DEF Next, MainThread, Obeys

\* The invariant holds of every behaviour.
LEMMA Inductive == Spec => []IInv
<1> QED BY InitInv, NextInv, PTL DEF Spec

-----------------------------------------------------------------------------
(* UsbMonitor's fields, the broadcasts it has still to receive and the     *)
(* sessions it opened keep their types: no device number stands for two    *)
(* phones, nothing but a device in accessory mode is ever opened, and none *)
(* more than twice, however start() and the broadcasts interleave.         *)
THEOREM TypeCorrect == Spec => []TypeOK
<1>1. IInv => TypeOK
  BY DEF IInv, Types, BusInv, TypeOK, News
<1> QED BY <1>1, Inductive, PTL

(* What start() and the broadcasts made the application hold, a session or *)
(* the pending device, is of a device on the bus, or onDeviceDetached is   *)
(* still to be called for it: no detach is lost between registering the    *)
(* receiver, listing the devices and looking at them.                      *)
THEOREM NothingHeldOfTheGone == Spec => []HeldIsPresent
<1>1. IInv => HeldIsPresent
  <2> SUFFICES ASSUME IInv, place = "running", NEW e \in Enum,
                      sessions[e] > 0 \/ pendingDevice = e, e \notin Present
               PROVE  \E i \in 1 .. Len(news) : news[i] = [what |-> "detached", dev |-> e]
    BY DEF HeldIsPresent
  <2>1. PICK i \in 1 .. Len(news) : news[i].what = "detached" /\ news[i].dev = e
    BY DEF IInv, LeaveInv, Leaves
  <2>2. news[i] \in News
    BY NewsTyped
  <2>3. news[i] = [what |-> "detached", dev |-> e]
    BY <2>1, <2>2 DEF News
  <2> QED BY <2>3
<1> QED BY <1>1, Inductive, PTL

(* aoaSwitchInProgress does what it is for: whatever number of phones is   *)
(* plugged in and pulled, no second one is told to leave for accessory     *)
(* mode before the first is back and has been seen.                        *)
THEOREM OneAtATime == Spec => []OneSwitch
<1>1. IInv => OneSwitch
  <2> SUFFICES ASSUME IInv, 1 \notin aoa PROVE Cardinality(switched) <= 1
    BY DEF OneSwitch
  <2>1. \A p, q \in switched : p = q
    BY DEF IInv, SwitchInv
  <2>2. switched = {} \/ \E p : switched = {p}
    BY <2>1
  <2>3. Cardinality({}) = 0 /\ \A p : Cardinality({p}) = 1
    BY FS_EmptySet, FS_Singleton, Zenon
  <2>4. CASE switched = {}
    <3>1. Cardinality(switched) = 0
      BY <2>3, <2>4, Zenon
    <3> QED BY <3>1
  <2>5. CASE switched # {}
    <3>1. Cardinality(switched) = 1
      BY <2>2, <2>3, <2>5, Zenon
    <3> QED BY <3>1
  <2> QED BY <2>4, <2>5
<1> QED BY <1>1, Inductive, PTL
=============================================================================
