-------------------------- MODULE AppSessions_proofs --------------------------
(***************************************************************************)
(* Proofs about AppSessions for any number of sessions and phones: type    *)
(* correctness, and that phones which ask for their native screen only     *)
(* leave at most one session ACTIVE.                                       *)
(***************************************************************************)
EXTENDS AppSessions, FiniteSetTheorems, TLAPS

-----------------------------------------------------------------------------
(* What waits in the two queues. *)

Call ==
    [call : {"start_session", "stop_session", "attach_all_sinks", "detach_all_sinks"},
     sid : Sid]
    \cup [call : {"set_video_focus"}, sid : Sid, projected : BOOLEAN]

Task == [task : {"onSessionError", "onPhoneIdentified"}, sid : Sid]
        \cup [task : {"onVideoFocusChanged"}, sid : Sid, projected : BOOLEAN]

\* A phone that a callback identifies has been discovered.
TasksOf(q, phones) ==
    /\ q \in Seq(Task)
    /\ \A i \in 1..Len(q) : q[i].task = "onPhoneIdentified" => q[i].sid \in phones

EngineInv ==
    /\ session \in [Sid -> Phase]
    /\ video \cup audio \subseteq {s \in Sid : Live(s)}
    /\ discovered \subseteq Sid
    /\ posted \in Seq(Call)
    /\ TasksOf(tasks, discovered)

AppInv ==
    /\ entry \in [Sid -> {"absent", "CONNECTING", "CONNECTED", "BACKGROUND", "ACTIVE"}]
    /\ label \in [Sid -> {"none", "USB", "Wireless"}]
    /\ named \subseteq {s \in discovered : entry[s] # "absent"}
    /\ main \in {Idle} \cup [op : Playing, sid : Sid]
    /\ decoder => surfaceLive
    /\ nextSid \in 1..(MaxSid + 1)
    /\ bt \in [op : {"idle", "create", "stop"}, sids : SUBSET Sid]

IInv == EngineInv /\ AppInv

\* The invariant is more than the types the runs check.
LEMMA IInvTypes == IInv => TypeOK
  BY DEF IInv, EngineInv, AppInv, TypeOK

-----------------------------------------------------------------------------
(* Sets as sequences. *)

LEMMA SeqOfSet ==
    ASSUME NEW S, IsFiniteSet(S)
    PROVE  SetToSeq(S) \in Seq(S)
<1>1. Cardinality(S) \in Nat /\ ExistsBijection(1..Cardinality(S), S)
  BY FS_CardinalityType
<1>2. \E f \in [1..Cardinality(S) -> S] : IsInjective(f)
  BY <1>1 DEF ExistsBijection, Bijection, Injection
<1>3. SetToSeq(S) \in [1..Cardinality(S) -> S]
  BY <1>2 DEF SetToSeq
<1> QED BY <1>1, <1>3

LEMMA SeqOfSids ==
    ASSUME NEW S \in SUBSET Sid
    PROVE  /\ IsFiniteSet(S)
           /\ SetToSeq(S) \in Seq(Sid)
<1>1. IsFiniteSet(Sid)
  BY EngineAssumption, FS_Interval DEF Sid
<1>2. IsFiniteSet(S)
  BY <1>1, FS_Subset
<1>3. SetToSeq(S) \in Seq(S)
  BY <1>2, SeqOfSet
<1> QED BY <1>2, <1>3

\* The least of a set of numbers is one of them.
LEMMA MinOfSet ==
    ASSUME NEW S \in SUBSET Nat, S # {}
    PROVE  Min(S) \in S
<1> DEFINE R == OpToRel(<, Nat)
<1>1. IsWellFoundedOn(R, Nat)
  BY NatLessThanWellFounded
<1>2. \E x \in S : \A y \in S : ~(<<y, x>> \in R)
  <2> HIDE DEF R
  <2> QED BY <1>1, WFMin
<1>3. \A a, b \in Nat : a < b => <<a, b>> \in R
  BY Zenon DEF OpToRel
<1> HIDE DEF R
<1>4. PICK x \in S : \A y \in S : ~(<<y, x>> \in R)
  BY <1>2
<1>5. ASSUME NEW y \in S PROVE x <= y
  <2>1. ~(<<y, x>> \in R) /\ x \in Nat /\ y \in Nat
    BY <1>4
  <2>2. ~(y < x)
    BY <1>3, <2>1, Zenon
  <2> QED BY <2>1, <2>2
<1> QED BY <1>5 DEF Min

LEMMA MinOfSids ==
    ASSUME NEW S \in SUBSET Sid, S # {}
    PROVE  Min(S) \in S
<1>1. S \in SUBSET Nat
  BY EngineAssumption DEF Sid
<1> QED BY <1>1, MinOfSet

-----------------------------------------------------------------------------
(* Calls and callbacks are well formed. *)

LEMMA CallsTyped ==
    ASSUME NEW s \in Sid
    PROVE  /\ StartCall(s) \in Call /\ StopCall(s) \in Call
           /\ AttachCall(s) \in Call /\ DetachCall(s) \in Call
           /\ FocusCall(s, TRUE) \in Call /\ FocusCall(s, FALSE) \in Call
  BY DEF Call, StartCall, StopCall, AttachCall, DetachCall, FocusCall

LEMMA StopCallsTyped ==
    ASSUME NEW S \in SUBSET Sid
    PROVE  StopCalls(S) \in Seq(Call)
<1> DEFINE q == SetToSeq(S)
<1>1. q \in Seq(Sid)
  BY SeqOfSids
<1>2. StopCalls(S) = [i \in DOMAIN q |-> StopCall(q[i])]
  BY DEF StopCalls
<1> HIDE DEF q
<1>3. DOMAIN q = 1..Len(q) /\ Len(q) \in Nat /\ \A i \in 1..Len(q) : q[i] \in Sid
  BY <1>1
<1>4. \A i \in 1..Len(q) : StopCall(q[i]) \in Call
  BY <1>3, CallsTyped
<1> QED BY <1>2, <1>3, <1>4

LEMMA DemoteCallsTyped ==
    ASSUME NEW states, NEW keep
    PROVE  DemoteCalls(states, keep) \in Seq(Call)
<1> DEFINE q == SetToSeq({s \in Sid \ {keep} : states[s] \in Playing})
           c(i) == IF i % 2 = 1 THEN FocusCall(q[(i + 1) \div 2], FALSE)
                   ELSE DetachCall(q[i \div 2])
<1>1. q \in Seq(Sid)
  BY SeqOfSids
<1>2. DemoteCalls(states, keep) = [i \in 1..(2 * Len(q)) |-> c(i)]
  BY DEF DemoteCalls
<1> HIDE DEF q
<1>3. Len(q) \in Nat /\ 2 * Len(q) \in Nat /\ \A i \in 1..Len(q) : q[i] \in Sid
  BY <1>1
<1>4. ASSUME NEW i \in 1..(2 * Len(q)) PROVE c(i) \in Call
  <2>1. CASE i % 2 = 1
    <3>1. (i + 1) \div 2 \in 1..Len(q)
      BY <1>3, <2>1
    <3> QED BY <1>3, <2>1, <3>1, CallsTyped
  <2>2. CASE i % 2 # 1
    <3>1. i \div 2 \in 1..Len(q)
      BY <1>3, <2>2
    <3> QED BY <1>3, <2>2, <3>1, CallsTyped
  <2> QED BY <2>1, <2>2
<1> HIDE DEF c
<1> QED BY <1>2, <1>3, <1>4

LEMMA SurfaceReadyCallsTyped ==
    ASSUME NEW states, NEW live
    PROVE  SurfaceReadyCalls(states, live) \in Seq(Call)
<1>1. ASSUME Actives(states) # {} PROVE FocusCall(Min(Actives(states)), TRUE) \in Call
  <2>1. Min(Actives(states)) \in Sid
    BY <1>1, MinOfSids DEF Actives
  <2> QED BY <2>1, CallsTyped
<1> DEFINE f == FocusCall(Min(Actives(states)), TRUE)
<1>2. \/ SurfaceReadyCalls(states, live) = <<>>
      \/ Actives(states) # {} /\ SurfaceReadyCalls(states, live) = <<f>>
  BY Zenon DEF SurfaceReadyCalls
<1>3. Actives(states) # {} => f \in Call
  BY <1>1
<1> HIDE DEF f
<1>4. Actives(states) # {} => <<f>> \in Seq(Call)
  BY <1>3
<1>5. <<>> \in Seq(Call)
  OBVIOUS
<1> QED BY <1>2, <1>4, <1>5, Zenon

LEMMA TasksGrow ==
    ASSUME NEW q, NEW known, NEW known2, TasksOf(q, known), known \subseteq known2,
           NEW t \in Task, t.task = "onPhoneIdentified" => t.sid \in known2
    PROVE  TasksOf(Append(q, t), known2)
<1>1. /\ q \in Seq(Task) /\ Len(q) \in Nat
      /\ Append(q, t) \in Seq(Task) /\ Len(Append(q, t)) = Len(q) + 1
      /\ \A i \in 1..Len(q) : Append(q, t)[i] = q[i]
      /\ Append(q, t)[Len(q) + 1] = t
  BY DEF TasksOf
<1>2. ASSUME NEW i \in 1..(Len(q) + 1), Append(q, t)[i].task = "onPhoneIdentified"
      PROVE  Append(q, t)[i].sid \in known2
  <2>1. CASE i \in 1..Len(q)
    BY <1>1, <1>2, <2>1 DEF TasksOf
  <2>2. CASE i = Len(q) + 1
    BY <1>1, <1>2, <2>2
  <2> QED BY <1>1, <2>1, <2>2
<1> QED BY <1>1, <1>2 DEF TasksOf

LEMMA TasksShrink ==
    ASSUME NEW q, NEW known, TasksOf(q, known), q # <<>>
    PROVE  /\ TasksOf(Tail(q), known)
           /\ Head(q) \in Task
           /\ Head(q).task = "onPhoneIdentified" => Head(q).sid \in known
<1>1. /\ q \in Seq(Task) /\ Len(q) \in Nat \ {0} /\ Head(q) = q[1]
      /\ Tail(q) \in Seq(Task) /\ Len(Tail(q)) = Len(q) - 1
      /\ \A i \in 1..(Len(q) - 1) : Tail(q)[i] = q[i + 1]
  BY DEF TasksOf
<1> QED BY <1>1 DEF TasksOf

-----------------------------------------------------------------------------
(* A step of the engine. *)

LiveInv ==
    /\ session \in [Sid -> Phase]
    /\ video \cup audio \subseteq {s \in Sid : Live(s)}

LEMMA SetPhaseKeeps ==
    ASSUME LiveInv, NEW s \in Sid, NEW phase \in {"starting", "running", "stopping"},
           SetPhase(s, phase)
    PROVE  LiveInv'
  BY DEF LiveInv, SetPhase, Phase, Live

LEMMA CleanupKeeps ==
    ASSUME LiveInv, NEW s \in Sid, CleanupSession(s)
    PROVE  LiveInv'
  BY DEF LiveInv, CleanupSession, Phase, Live

LEMMA FailKeeps ==
    ASSUME LiveInv, TasksOf(tasks, discovered), NEW s \in Sid, Fail(s),
           UNCHANGED discovered
    PROVE  LiveInv' /\ TasksOf(tasks, discovered)'
<1>1. LiveInv'
  BY CleanupKeeps DEF Fail
<1>2. ErrorTask(s) \in Task /\ ErrorTask(s).task # "onPhoneIdentified"
  BY DEF ErrorTask, Task
<1>3. TasksOf(Append(tasks, ErrorTask(s)), discovered)
  BY <1>2, TasksGrow
<1> QED BY <1>1, <1>3 DEF Fail, TasksOf

LEMMA EngineStep ==
    ASSUME EngineInv, EngineNext
    PROVE  EngineInv' /\ discovered \subseteq discovered'
<1>0. LiveInv /\ TasksOf(tasks, discovered) /\ discovered \subseteq Sid
      /\ posted \in Seq(Call)
  BY DEF EngineInv, LiveInv
<1>1. CASE RunCall
  <2> DEFINE c == Head(posted)
  <2>1. c \in Call /\ posted' \in Seq(Call) /\ UNCHANGED discovered /\ DoCall(c)
    BY <1>0, <1>1 DEF RunCall
  <2> HIDE DEF c
  <2>2. c.sid \in Sid
    BY <2>1 DEF Call
  <2>3. LiveInv' /\ TasksOf(tasks, discovered)'
    <3>1. ASSUME NEW phase \in {"starting", "running", "stopping"}, SetPhase(c.sid, phase)
          PROVE  LiveInv' /\ TasksOf(tasks, discovered)'
      BY <1>0, <2>1, <2>2, <3>1, SetPhaseKeeps DEF SetPhase, TasksOf
    <3>2. CASE Fail(c.sid)
      BY <1>0, <2>1, <2>2, <3>2, FailKeeps
    <3>3. CASE DoStart(c.sid) \/ DoStop(c.sid)
      BY <3>1, <3>2, <3>3 DEF DoStart, MakeSession, DoStop
    <3>4. ASSUME NEW v, NEW a, SetSinks(v, a), v \cup a \subseteq {s \in Sid : Live(s)}
          PROVE  LiveInv' /\ TasksOf(tasks, discovered)'
      BY <1>0, <2>1, <3>4 DEF SetSinks, LiveInv, Live, TasksOf
    <3>5. CASE /\ Live(c.sid)
               /\ \/ SetSinks(video \cup {c.sid}, audio \cup {c.sid})
                  \/ SetSinks(video \ {c.sid}, audio \ {c.sid})
                  \/ SetSinks(video \cup {c.sid}, audio)
                  \/ SetSinks(video \ {c.sid}, audio)
      BY <1>0, <2>2, <3>4, <3>5 DEF LiveInv
    <3>6. CASE UNCHANGED <<session, video, audio, tasks>>
      BY <1>0, <2>1, <3>6 DEF LiveInv, Live, TasksOf
    <3> QED BY <2>1, <3>3, <3>5, <3>6 DEF DoCall
  <2> QED BY <1>0, <2>1, <2>3 DEF EngineInv, LiveInv
<1>2. ASSUME NEW s \in Sid, Established(s) \/ PhoneLeaves(s)
      PROVE  EngineInv' /\ discovered \subseteq discovered'
  <2>1. LiveInv'
    BY <1>0, <1>2, SetPhaseKeeps DEF Established, PhoneLeaves
  <2> QED BY <1>0, <1>2, <2>1
          DEF Established, PhoneLeaves, SetPhase, EngineInv, LiveInv, TasksOf
<1>3. ASSUME NEW s \in Sid, PhoneIdentified(s)
      PROVE  EngineInv' /\ discovered \subseteq discovered'
  <2>1. IdentifiedTask(s) \in Task /\ IdentifiedTask(s).sid = s
    BY DEF IdentifiedTask, Task
  <2>2. TasksOf(Append(tasks, IdentifiedTask(s)), discovered \cup {s})
    BY <1>0, <2>1, TasksGrow
  <2> QED BY <1>0, <1>3, <2>2
          DEF PhoneIdentified, SendServiceDiscoveryResponse, EngineInv, LiveInv, Live,
              TasksOf
<1>4. ASSUME NEW s \in Sid, FocusRequested(s)
      PROVE  EngineInv' /\ discovered \subseteq discovered'
  <2>1. PICK p \in FocusRequests :
            /\ video' = IF p THEN video \cup {s} ELSE video \ {s}
            /\ tasks' = Append(tasks, FocusTask(s, p))
    BY <1>4 DEF FocusRequested
  <2>2. FocusTask(s, p) \in Task /\ FocusTask(s, p).task # "onPhoneIdentified"
    BY EngineAssumption DEF FocusTask, Task
  <2>3. TasksOf(tasks', discovered)
    BY <1>0, <2>1, <2>2, TasksGrow
  <2>4. LiveInv'
    BY <1>0, <1>4, <2>1 DEF FocusRequested, LiveInv, Live
  <2> QED BY <1>0, <1>4, <2>3, <2>4 DEF FocusRequested, EngineInv, LiveInv, TasksOf
<1>5. ASSUME NEW s \in Sid, SessionFails(s)
      PROVE  EngineInv' /\ discovered \subseteq discovered'
  BY <1>0, <1>5, FailKeeps DEF SessionFails, EngineInv, LiveInv
<1>6. ASSUME NEW s \in Sid, Disconnected(s)
      PROVE  EngineInv' /\ discovered \subseteq discovered'
  <2>1. LiveInv'
    BY <1>0, <1>6, CleanupKeeps DEF Disconnected
  <2> QED BY <1>0, <1>6, <2>1 DEF Disconnected, EngineInv, LiveInv, TasksOf
<1> QED BY <1>1, <1>2, <1>3, <1>4, <1>5, <1>6 DEF EngineNext

-----------------------------------------------------------------------------
(* A step of the application. *)

LEMMA EngineFrame ==
    ASSUME EngineInv, UNCHANGED engineState, posted' \in Seq(Call),
           TasksOf(tasks', discovered)
    PROVE  EngineInv'
  BY DEF EngineInv, engineState, Live, TasksOf

LEMMA RemoveKeeps ==
    ASSUME IInv, NEW sids \in SUBSET Sid, RemoveSessions(sids),
           UNCHANGED <<discovered, label, main, nextSid, surfaceLive>>,
           bt' \in [op : {"idle", "create", "stop"}, sids : SUBSET Sid]
    PROVE  AppInv'
<1>1. /\ entry' \in [Sid -> {"absent", "CONNECTING", "CONNECTED", "BACKGROUND", "ACTIVE"}]
      /\ named' \subseteq {s \in discovered' : entry'[s] # "absent"}
  BY DEF IInv, AppInv, EngineInv, RemoveSessions
<1>2. decoder' => surfaceLive'
  BY DEF IInv, AppInv, RemoveSessions
<1> QED BY <1>1, <1>2 DEF IInv, AppInv

LEMMA HotPlugStep ==
    ASSUME IInv,
           \/ UsbReady \/ UsbRemoved \/ WirelessReady \/ WirelessCreate
           \/ WirelessDisconnected \/ \E s \in Sid : WirelessStop(s)
    PROVE  IInv'
<1>0. /\ EngineInv /\ posted \in Seq(Call) /\ TasksOf(tasks, discovered)
      /\ nextSid \in 1..(MaxSid + 1) /\ MaxSid \in Nat
      /\ (nextSid <= MaxSid => nextSid \in Sid /\ nextSid + 1 \in 1..(MaxSid + 1))
  BY EngineAssumption DEF IInv, EngineInv, AppInv, Sid
<1>1. CASE UsbReady
  <2>0. nextSid \in Sid /\ StartCall(nextSid) \in Call
    BY <1>0, <1>1, CallsTyped DEF UsbReady
  <2>1. posted' \in Seq(Call) /\ nextSid \in Sid
    BY <1>0, <1>1, <2>0 DEF UsbReady
  <2>2. EngineInv'
    BY <1>0, <1>1, <2>1, EngineFrame DEF UsbReady
  <2>3. AppInv'
    BY <1>0, <1>1, <2>1
       DEF UsbReady, CreateSession, IInv, AppInv, engineState
  <2> QED BY <2>2, <2>3 DEF IInv
<1>2. CASE UsbRemoved
  <2> DEFINE S == WithLabel("USB")
  <2>0. S \in SUBSET Sid
    BY DEF WithLabel
  <2>1. posted' \in Seq(Call)
    BY <1>0, <1>2, <2>0, StopCallsTyped DEF UsbRemoved
  <2>2. EngineInv'
    BY <1>0, <1>2, <2>1, EngineFrame DEF UsbRemoved
  <2>3. AppInv'
    BY <1>2, <2>0, RemoveKeeps DEF UsbRemoved, engineState, IInv, AppInv
  <2> QED BY <2>2, <2>3 DEF IInv
<1>3. CASE WirelessReady
  <2>0. nextSid \in Sid /\ StartCall(nextSid) \in Call
    BY <1>0, <1>3, CallsTyped DEF WirelessReady
  <2>1. posted' \in Seq(Call) /\ nextSid \in Sid
    BY <1>0, <1>3, <2>0 DEF WirelessReady
  <2>2. EngineInv'
    BY <1>0, <1>3, <2>1, EngineFrame DEF WirelessReady
  <2>3. AppInv'
    BY <1>0, <1>3, <2>1 DEF WirelessReady, IInv, AppInv, engineState
  <2> QED BY <2>2, <2>3 DEF IInv
<1>4. CASE WirelessCreate
  <2>1. EngineInv'
    BY <1>0, <1>4, EngineFrame DEF WirelessCreate, engineVars, engineState
  <2>2. PICK s \in bt.sids : CreateSession(s, "Wireless")
    BY <1>4 DEF WirelessCreate
  <2>3. s \in Sid
    BY <2>2 DEF IInv, AppInv
  <2>4. AppInv'
    BY <1>4, <2>2, <2>3 DEF WirelessCreate, CreateSession, IInv, AppInv, engineVars
  <2> QED BY <2>1, <2>4 DEF IInv
<1>5. CASE WirelessDisconnected
  <2>1. EngineInv'
    BY <1>0, <1>5, EngineFrame DEF WirelessDisconnected, engineVars, engineState
  <2>2. AppInv'
    BY <1>5 DEF WirelessDisconnected, WithLabel, IInv, AppInv, engineVars
  <2> QED BY <2>1, <2>2 DEF IInv
<1>6. ASSUME NEW s \in Sid, WirelessStop(s)
      PROVE  IInv'
  <2>1. posted' \in Seq(Call)
    <3>1. StopCall(s) \in Call
      BY CallsTyped
    <3> QED BY <1>0, <1>6, <3>1 DEF WirelessStop
  <2>2. EngineInv'
    BY <1>0, <1>6, <2>1, EngineFrame DEF WirelessStop
  <2>3. bt' \in [op : {"idle", "create", "stop"}, sids : SUBSET Sid]
    BY <1>6 DEF WirelessStop, IInv, AppInv
  <2>4. AppInv'
    BY <1>6, <2>3, RemoveKeeps DEF WirelessStop, engineState
  <2> QED BY <2>2, <2>4 DEF IInv
<1> QED BY <1>1, <1>2, <1>3, <1>4, <1>5, <1>6

\* Demotion makes no entry appear or disappear.
LEMMA DemotedTyped ==
    ASSUME NEW states \in [Sid -> {"absent", "CONNECTING", "CONNECTED", "BACKGROUND", "ACTIVE"}],
           NEW keep
    PROVE  /\ Demoted(states, keep)
                 \in [Sid -> {"absent", "CONNECTING", "CONNECTED", "BACKGROUND", "ACTIVE"}]
           /\ \A s \in Sid : Demoted(states, keep)[s] = "absent" <=> states[s] = "absent"
  BY DEF Demoted, Playing

LEMMA ActivateTyped ==
    ASSUME IInv, NEW s \in Sid, NEW role \in Playing, NEW calls \in Seq(Call),
           NEW states \in [Sid -> {"absent", "CONNECTING", "CONNECTED", "BACKGROUND", "ACTIVE"}],
           Activate(s, role, states, calls)
    PROVE  /\ posted' \in Seq(Call)
           /\ entry' \in [Sid -> {"absent", "CONNECTING", "CONNECTED", "BACKGROUND", "ACTIVE"}]
           /\ \A e \in Sid : entry'[e] = "absent" <=> states[e] = "absent"
           /\ main' \in {Idle} \cup [op : Playing, sid : Sid]
<1>0. posted \in Seq(Call) /\ main \in {Idle} \cup [op : Playing, sid : Sid]
  BY DEF IInv, EngineInv, AppInv
<1>1. CASE states[s] \in {"absent", "CONNECTING"}
  <2>1. entry' = states /\ posted' = posted \o calls /\ main' = main
    BY <1>1 DEF Activate
  <2> QED BY <1>0, <2>1
<1>2. CASE states[s] \notin {"absent", "CONNECTING"}
  <2>1. /\ entry' = Demoted(states, s)
        /\ posted' = posted \o calls \o DemoteCalls(states, s)
        /\ main' = [op |-> role, sid |-> s]
    BY <1>2 DEF Activate
  <2>2. DemoteCalls(states, s) \in Seq(Call)
    BY DemoteCallsTyped
  <2>3. posted' \in Seq(Call)
    BY <1>0, <2>1, <2>2
  <2> QED BY <2>1, <2>3, DemotedTyped
<1> QED BY <1>1, <1>2

LEMMA UserStep ==
    ASSUME IInv,
           \/ FinishActivation \/ SurfaceCreated \/ SurfaceDestroyed
           \/ \E s \in Sid : ActivateSession(s) \/ ActivateBackground(s)
    PROVE  IInv'
<1>0. EngineInv /\ posted \in Seq(Call) /\ TasksOf(tasks, discovered)
  BY DEF IInv, EngineInv
<1>1. CASE FinishActivation
  <2>1. main.sid \in Sid /\ main.op \in Playing
    BY <1>1 DEF FinishActivation, IInv, AppInv
  <2> DEFINE shown == IF main.op = "ACTIVE" THEN SurfaceReadyCalls(entry', surfaceLive)
                      ELSE <<>>
  <2>2. shown \in Seq(Call) /\ AttachCall(main.sid) \in Call
    <3>1. SurfaceReadyCalls(entry', surfaceLive) \in Seq(Call)
      BY SurfaceReadyCallsTyped
    <3>2. AttachCall(main.sid) \in Call
      BY <2>1, CallsTyped
    <3>3. <<>> \in Seq(Call)
      OBVIOUS
    <3> QED BY <3>1, <3>2, <3>3
  <2>3. posted' = posted \o <<AttachCall(main.sid)>> \o shown
    BY <1>1 DEF FinishActivation
  <2> HIDE DEF shown
  <2>4. posted' \in Seq(Call)
    BY <1>0, <2>2, <2>3
  <2>5. EngineInv'
    BY <1>0, <1>1, <2>4, EngineFrame DEF FinishActivation
  <2>6. AppInv'
    BY <1>1, <2>1 DEF FinishActivation, IInv, AppInv, EngineInv, Playing, engineState
  <2> QED BY <2>5, <2>6 DEF IInv
<1>2. CASE SurfaceCreated
  <2>1. posted' \in Seq(Call)
    <3> DEFINE shown == SurfaceReadyCalls(entry, TRUE)
    <3>1. shown \in Seq(Call)
      BY SurfaceReadyCallsTyped
    <3>2. posted' = posted \o shown
      BY <1>2 DEF SurfaceCreated
    <3> HIDE DEF shown
    <3> QED BY <1>0, <3>1, <3>2
  <2>2. EngineInv'
    BY <1>0, <1>2, <2>1, EngineFrame DEF SurfaceCreated
  <2>3. AppInv'
    BY <1>2 DEF SurfaceCreated, IInv, AppInv, engineState
  <2> QED BY <2>2, <2>3 DEF IInv
<1>3. CASE SurfaceDestroyed
  <2> DEFINE q == SetToSeq(Actives(entry))
             native(i) == FocusCall(q[i], FALSE)
             calls == [i \in DOMAIN q |-> native(i)]
  <2>1. q \in Seq(Sid)
    BY SeqOfSids DEF Actives
  <2>2. calls \in Seq(Call)
    <3> HIDE DEF q
    <3>1. DOMAIN q = 1..Len(q) /\ Len(q) \in Nat /\ \A i \in 1..Len(q) : q[i] \in Sid
      BY <2>1
    <3>2. \A i \in 1..Len(q) : native(i) \in Call
      BY <3>1, CallsTyped
    <3> HIDE DEF native
    <3> QED BY <3>1, <3>2
  <2>3. posted' = posted \o calls
    BY <1>3 DEF SurfaceDestroyed
  <2> HIDE DEF calls
  <2>4. posted' \in Seq(Call)
    BY <1>0, <2>2, <2>3
  <2>5. EngineInv'
    BY <1>0, <1>3, <2>4, EngineFrame DEF SurfaceDestroyed
  <2>6. AppInv'
    BY <1>3 DEF SurfaceDestroyed, IInv, AppInv, EngineInv, engineState
  <2> QED BY <2>5, <2>6 DEF IInv
<1>4. ASSUME NEW s \in Sid, ActivateSession(s) \/ ActivateBackground(s)
      PROVE  IInv'
  <2>1. PICK role \in Playing : Activate(s, role, entry, <<>>)
    BY <1>4 DEF ActivateSession, ActivateBackground, Playing
  <2>2. /\ posted' \in Seq(Call)
        /\ entry' \in [Sid -> {"absent", "CONNECTING", "CONNECTED", "BACKGROUND", "ACTIVE"}]
        /\ \A e \in Sid : entry'[e] = "absent" <=> entry[e] = "absent"
        /\ main' \in {Idle} \cup [op : Playing, sid : Sid]
    <3>1. /\ entry \in [Sid -> {"absent", "CONNECTING", "CONNECTED", "BACKGROUND", "ACTIVE"}]
          /\ <<>> \in Seq(Call)
      BY DEF IInv, AppInv
    <3> QED BY <2>1, <3>1, ActivateTyped
  <2>3. EngineInv'
    BY <1>0, <1>4, <2>2, EngineFrame DEF ActivateSession, ActivateBackground
  <2>4. AppInv'
    BY <1>4, <2>2 DEF ActivateSession, ActivateBackground, IInv, AppInv, EngineInv,
                      engineState
  <2> QED BY <2>3, <2>4 DEF IInv
<1> QED BY <1>1, <1>2, <1>3, <1>4

LEMMA IdentifiedKeeps ==
    ASSUME IInv, NEW s \in Sid, s \in discovered, OnPhoneIdentified(s),
           UNCHANGED <<discovered, session, video, audio, reported>>
    PROVE  AppInv' /\ posted' \in Seq(Call)
<1> DEFINE same == {e \in named \ {s} : phone[e] = phone[s]}
           old == IF same = {} THEN {} ELSE {Min(same)}
           states == [e \in Sid |-> IF e \in old \/ entry[e] = "absent" THEN "absent"
                                    ELSE IF e = s THEN "CONNECTED" ELSE entry[e]]
<1>0. /\ entry \in [Sid -> {"absent", "CONNECTING", "CONNECTED", "BACKGROUND", "ACTIVE"}]
      /\ named \subseteq {e \in discovered : entry[e] # "absent"}
      /\ discovered \subseteq Sid /\ posted \in Seq(Call)
      /\ main \in {Idle} \cup [op : Playing, sid : Sid]
  BY DEF IInv, AppInv, EngineInv
<1>1. old \in SUBSET Sid /\ s \notin old
  <2>1. same \in SUBSET Sid /\ s \notin same
    BY <1>0
  <2>2. same # {} => Min(same) \in same
    BY <2>1, MinOfSids
  <2> HIDE DEF same
  <2> QED BY <2>1, <2>2
<1>2. states \in [Sid -> {"absent", "CONNECTING", "CONNECTED", "BACKGROUND", "ACTIVE"}]
  <2> HIDE DEF old
  <2> QED BY <1>0
<1>3. StopCalls(old) \in Seq(Call)
  BY <1>1, StopCallsTyped
<1>4. /\ posted' \in Seq(Call)
      /\ entry' \in [Sid -> {"absent", "CONNECTING", "CONNECTED", "BACKGROUND", "ACTIVE"}]
      /\ \A e \in Sid : entry'[e] = "absent" <=> states[e] = "absent"
      /\ main' \in {Idle} \cup [op : Playing, sid : Sid]
  <2>1. \/ entry' = states /\ posted' = posted \o StopCalls(old) /\ UNCHANGED main
        \/ Activate(s, "ACTIVE", states, StopCalls(old))
    BY DEF OnPhoneIdentified
  <2> HIDE DEF states, old
  <2>2. CASE entry' = states /\ posted' = posted \o StopCalls(old) /\ UNCHANGED main
    BY <1>0, <1>2, <1>3, <2>2
  <2>3. CASE Activate(s, "ACTIVE", states, StopCalls(old))
    <3>1. "ACTIVE" \in Playing
      BY DEF Playing
    <3> QED BY <1>2, <1>3, <2>3, <3>1, ActivateTyped
  <2> QED BY <2>1, <2>2, <2>3
<1>5. named' = (named \ old) \cup {e \in {s} : entry[e] # "absent"}
  BY DEF OnPhoneIdentified
<1>6. \A e \in Sid : states[e] = "absent" <=> e \in old \/ entry[e] = "absent"
  <2> HIDE DEF old
  <2> QED OBVIOUS
<1>7. decoder' => decoder
  BY DEF OnPhoneIdentified
<1>8. UNCHANGED <<nextSid, label, bt, surfaceLive>>
  BY DEF OnPhoneIdentified
<1> HIDE DEF states, old, same
<1>9. named' \subseteq {e \in discovered' : entry'[e] # "absent"}
  BY <1>0, <1>1, <1>4, <1>5, <1>6
<1> QED BY <1>4, <1>7, <1>8, <1>9 DEF IInv, AppInv

LEMMA TaskStep ==
    ASSUME IInv, RunTask
    PROVE  IInv'
<1> DEFINE t == Head(tasks)
<1>0. /\ TasksOf(Tail(tasks), discovered) /\ t \in Task
      /\ t.task = "onPhoneIdentified" => t.sid \in discovered
      /\ tasks' = Tail(tasks) /\ UNCHANGED engineState /\ posted \in Seq(Call)
  BY TasksShrink DEF RunTask, IInv, EngineInv
<1>1. \/ t.task = "onSessionError" /\ OnSessionError(t.sid)
      \/ t.task = "onPhoneIdentified" /\ OnPhoneIdentified(t.sid)
      \/ t.task = "onVideoFocusChanged" /\ OnVideoFocusChanged(t.sid, t.projected)
  BY DEF RunTask
<1> HIDE DEF t
<1>2. t.sid \in Sid
  BY <1>0 DEF Task
<1>3. ASSUME AppInv', posted' \in Seq(Call) PROVE IInv'
  BY <1>0, <1>3, EngineFrame DEF IInv
<1>4. CASE OnSessionError(t.sid)
  <2>1. bt' \in [op : {"idle", "create", "stop"}, sids : SUBSET Sid]
    BY <1>4 DEF OnSessionError, IInv, AppInv
  <2>2. AppInv'
    BY <1>0, <1>2, <1>4, <2>1, RemoveKeeps DEF OnSessionError, engineState
  <2> QED BY <1>0, <1>3, <1>4, <2>2 DEF OnSessionError
<1>5. CASE t.task = "onPhoneIdentified" /\ OnPhoneIdentified(t.sid)
  BY <1>0, <1>2, <1>3, <1>5, IdentifiedKeeps DEF engineState
<1>6. CASE OnVideoFocusChanged(t.sid, t.projected)
  <2>1. AppInv'
    BY <1>0, <1>2, <1>6 DEF OnVideoFocusChanged, IInv, AppInv, EngineInv, engineState
  <2> QED BY <1>0, <1>3, <1>6, <2>1 DEF OnVideoFocusChanged
<1> QED BY <1>1, <1>4, <1>5, <1>6

LEMMA InductiveStep ==
    ASSUME IInv, [Next]_vars
    PROVE  IInv'
<1>1. CASE EngineNext /\ UNCHANGED appVars
  <2>1. EngineInv' /\ discovered \subseteq discovered'
    BY <1>1, EngineStep DEF IInv
  <2> QED BY <1>1, <2>1 DEF IInv, AppInv, appVars
<1>2. CASE UNCHANGED vars
  BY <1>2 DEF vars, engineVars, appVars, IInv, EngineInv, AppInv, Live, TasksOf
<1>3. CASE ~(EngineNext /\ UNCHANGED appVars) /\ ~UNCHANGED vars
  BY <1>3, HotPlugStep, UserStep, TaskStep DEF Next
<1> QED BY <1>1, <1>2, <1>3

\* For any number of sessions and phones, whatever phones ask and however late the calls
\* and callbacks are: only live sessions have sinks, only discovered phones have names,
\* and there is no decoder without a surface.
THEOREM TypeCorrect == Spec => []TypeOK
<1>1. Init => IInv
  BY EngineAssumption
     DEF Init, EngineInit, IInv, EngineInv, AppInv, Idle, Phase, TasksOf, Live
<1>2. IInv /\ [Next]_vars => IInv'
  BY InductiveStep
<1> QED BY <1>1, <1>2, IInvTypes, PTL DEF Spec

-----------------------------------------------------------------------------
(* At most one ACTIVE session, when phones ask for their native screen only.  An  *)
(* activation in two halves is what makes it more than the property itself: from  *)
(* its first half on nothing but the session to come may be ACTIVE.               *)

AsksNative(q) ==
    \A i \in 1..Len(q) : q[i].task = "onVideoFocusChanged" => ~q[i].projected

RoleInv ==
    /\ \A a, b \in Actives(entry) : a = b
    /\ main.op = "ACTIVE" => Actives(entry) \subseteq {main.sid}
    /\ AsksNative(tasks)

LEMMA NativeGrows ==
    ASSUME NEW q \in Seq(Task), AsksNative(q),
           NEW t \in Task, t.task = "onVideoFocusChanged" => ~t.projected
    PROVE  AsksNative(Append(q, t))
<1>1. /\ Len(q) \in Nat /\ Len(Append(q, t)) = Len(q) + 1
      /\ \A i \in 1..Len(q) : Append(q, t)[i] = q[i]
      /\ Append(q, t)[Len(q) + 1] = t
  OBVIOUS
<1>2. ASSUME NEW i \in 1..(Len(q) + 1), Append(q, t)[i].task = "onVideoFocusChanged"
      PROVE  ~Append(q, t)[i].projected
  <2>1. CASE i \in 1..Len(q)
    BY <1>1, <1>2, <2>1 DEF AsksNative
  <2>2. CASE i = Len(q) + 1
    BY <1>1, <1>2, <2>2
  <2> QED BY <1>1, <2>1, <2>2
<1> QED BY <1>1, <1>2 DEF AsksNative

LEMMA NativeShrinks ==
    ASSUME NEW q \in Seq(Task), AsksNative(q), q # <<>>
    PROVE  /\ AsksNative(Tail(q))
           /\ Head(q).task = "onVideoFocusChanged" => ~Head(q).projected
<1>1. /\ Len(q) \in Nat \ {0} /\ Head(q) = q[1]
      /\ Len(Tail(q)) = Len(q) - 1
      /\ \A i \in 1..(Len(q) - 1) : Tail(q)[i] = q[i + 1]
  OBVIOUS
<1> QED BY <1>1 DEF AsksNative

\* The engine makes no callback of a projected screen that no phone asks for.
LEMMA EngineAsksNative ==
    ASSUME IInv, AsksNative(tasks), EngineNext, FocusRequests \subseteq {FALSE}
    PROVE  AsksNative(tasks')
<1>0. tasks \in Seq(Task) /\ posted \in Seq(Call) /\ discovered \subseteq Sid
  BY DEF IInv, EngineInv, TasksOf
<1>1. ASSUME NEW s \in Sid, Fail(s) PROVE AsksNative(tasks')
  <2>1. ErrorTask(s) \in Task /\ ErrorTask(s).task # "onVideoFocusChanged"
    BY DEF ErrorTask, Task
  <2> QED BY <1>0, <1>1, <2>1, NativeGrows DEF Fail
<1>2. CASE RunCall
  <2> DEFINE c == Head(posted)
  <2>1. c \in Call /\ DoCall(c)
    BY <1>0, <1>2 DEF RunCall
  <2> HIDE DEF c
  <2>2. c.sid \in Sid
    BY <2>1 DEF Call
  <2>3. UNCHANGED tasks \/ Fail(c.sid)
    BY <2>1 DEF DoCall, DoStart, MakeSession, DoStop, SetPhase, SetSinks
  <2> QED BY <1>1, <2>2, <2>3
<1>3. ASSUME NEW s \in Sid, PhoneIdentified(s) PROVE AsksNative(tasks')
  <2>1. IdentifiedTask(s) \in Task /\ IdentifiedTask(s).task # "onVideoFocusChanged"
    BY DEF IdentifiedTask, Task
  <2> QED BY <1>0, <1>3, <2>1, NativeGrows DEF PhoneIdentified, SendServiceDiscoveryResponse
<1>4. ASSUME NEW s \in Sid, FocusRequested(s) PROVE AsksNative(tasks')
  <2>1. tasks' = Append(tasks, FocusTask(s, FALSE))
    BY <1>4 DEF FocusRequested
  <2>2. FocusTask(s, FALSE) \in Task /\ ~FocusTask(s, FALSE).projected
    BY DEF FocusTask, Task
  <2> QED BY <1>0, <2>1, <2>2, NativeGrows
<1>5. ASSUME NEW s \in Sid, Established(s) \/ PhoneLeaves(s) \/ Disconnected(s)
      PROVE  AsksNative(tasks')
  BY <1>5 DEF Established, PhoneLeaves, Disconnected, SetPhase
<1>6. ASSUME NEW s \in Sid, SessionFails(s) PROVE AsksNative(tasks')
  BY <1>1, <1>6 DEF SessionFails
<1> QED BY <1>2, <1>3, <1>4, <1>5, <1>6 DEF EngineNext

\* A step that makes no session ACTIVE.
LEMMA FewerActives ==
    ASSUME RoleInv, Actives(entry') \subseteq Actives(entry), AsksNative(tasks'),
           main' = main \/ main'.op # "ACTIVE"
    PROVE  RoleInv'
  BY DEF RoleInv, AsksNative, Actives

\* The first half of an activation leaves no other session ACTIVE.
LEMMA ActivateDemotes ==
    ASSUME IInv, RoleInv, main = Idle, AsksNative(tasks'),
           NEW s \in Sid, NEW role \in Playing, NEW calls,
           NEW states \in [Sid -> {"absent", "CONNECTING", "CONNECTED", "BACKGROUND", "ACTIVE"}],
           \A e \in Sid : states[e] = "ACTIVE" => entry[e] = "ACTIVE",
           Activate(s, role, states, calls)
    PROVE  RoleInv'
<1>1. CASE states[s] \in {"absent", "CONNECTING"}
  <2>1. entry' = states /\ main' = main
    BY <1>1 DEF Activate
  <2> QED BY <2>1, FewerActives DEF Actives
<1>2. CASE states[s] \notin {"absent", "CONNECTING"}
  <2>1. entry' = Demoted(states, s) /\ main' = [op |-> role, sid |-> s]
    BY <1>2 DEF Activate
  <2>2. Actives(entry') \subseteq {s}
    BY <2>1 DEF Actives, Demoted, Playing
  <2> QED BY <2>1, <2>2 DEF RoleInv, AsksNative, Actives
<1> QED BY <1>1, <1>2

LEMMA RoleStep ==
    ASSUME IInv, RoleInv, [Next]_vars, FocusRequests \subseteq {FALSE}
    PROVE  RoleInv'
<1>0. /\ entry \in [Sid -> {"absent", "CONNECTING", "CONNECTED", "BACKGROUND", "ACTIVE"}]
      /\ AsksNative(tasks) /\ tasks \in Seq(Task)
  BY DEF IInv, EngineInv, AppInv, RoleInv, TasksOf
<1>1. CASE EngineNext /\ UNCHANGED appVars
  BY <1>1, <1>0, EngineAsksNative, FewerActives DEF appVars
<1>2. ASSUME NEW S, RemoveSessions(S) PROVE Actives(entry') \subseteq Actives(entry)
  BY <1>2 DEF RemoveSessions, Actives
<1>3. CASE UsbReady \/ WirelessCreate
  <2>1. PICK s, transport : CreateSession(s, transport)
    BY <1>3 DEF UsbReady, WirelessCreate
  <2>2. Actives(entry') \subseteq Actives(entry)
    BY <1>0, <2>1 DEF CreateSession, Actives
  <2> QED BY <1>0, <1>3, <2>2, FewerActives DEF UsbReady, WirelessCreate, engineVars
<1>4. CASE UsbRemoved \/ \E s \in Sid : WirelessStop(s)
  BY <1>0, <1>2, <1>4, FewerActives DEF UsbRemoved, WirelessStop
<1>5. CASE WirelessReady \/ WirelessDisconnected \/ SurfaceCreated \/ UNCHANGED vars
  <2>1. UNCHANGED <<entry, tasks, main>>
    BY <1>5 DEF WirelessReady, WirelessDisconnected, SurfaceCreated, vars, engineVars,
                appVars
  <2> QED BY <1>0, <2>1, FewerActives
<1>6. CASE SurfaceDestroyed
  <2>1. Actives(entry') \subseteq Actives(entry)
    BY <1>6 DEF SurfaceDestroyed, Actives
  <2> QED BY <1>0, <1>6, <2>1, FewerActives DEF SurfaceDestroyed
<1>7. CASE FinishActivation
  <2>1. main \in [op : Playing, sid : Sid] /\ main' = Idle /\ tasks' = tasks
    BY <1>7 DEF FinishActivation, IInv, AppInv
  <2>2. CASE main.op = "ACTIVE"
    <3>1. Actives(entry') \subseteq {main.sid}
      BY <1>0, <1>7, <2>1, <2>2 DEF FinishActivation, RoleInv, Actives
    <3> QED BY <1>0, <2>1, <3>1 DEF RoleInv, Idle, AsksNative, Actives
  <2>3. CASE main.op # "ACTIVE"
    <3>1. Actives(entry') \subseteq Actives(entry)
      BY <1>0, <1>7, <2>1, <2>3 DEF FinishActivation, Actives
    <3>2. main'.op # "ACTIVE"
      BY <2>1 DEF Idle
    <3> QED BY <1>0, <2>1, <3>1, <3>2, FewerActives
  <2> QED BY <2>2, <2>3
<1>8. ASSUME NEW s \in Sid, ActivateSession(s) \/ ActivateBackground(s) PROVE RoleInv'
  <2>1. PICK role \in Playing : Activate(s, role, entry, <<>>)
    BY <1>8 DEF ActivateSession, ActivateBackground, Playing
  <2>2. main = Idle /\ tasks' = tasks
    BY <1>8 DEF ActivateSession, ActivateBackground, UserActs
  <2> QED BY <1>0, <2>1, <2>2, ActivateDemotes
<1>9. CASE RunTask
  <2> DEFINE t == Head(tasks)
  <2>1. /\ main = Idle /\ tasks' = Tail(tasks) /\ tasks # <<>>
        /\ \/ OnSessionError(t.sid)
           \/ OnPhoneIdentified(t.sid)
           \/ t.task = "onVideoFocusChanged" /\ OnVideoFocusChanged(t.sid, t.projected)
    BY <1>9 DEF RunTask
  <2>2. /\ AsksNative(tasks') /\ t.sid \in Sid
        /\ t.task = "onVideoFocusChanged" => ~t.projected
    <3>1. t \in Task
      BY <1>0, <2>1
    <3> QED BY <1>0, <2>1, <3>1, NativeShrinks DEF Task
  <2> HIDE DEF t
  <2>3. CASE OnSessionError(t.sid)
    BY <1>2, <2>2, <2>3, FewerActives DEF OnSessionError
  <2>4. CASE t.task = "onVideoFocusChanged" /\ OnVideoFocusChanged(t.sid, t.projected)
    <3>1. ~t.projected
      BY <2>2, <2>4
    <3>2. Actives(entry') \subseteq Actives(entry)
      BY <1>0, <2>4, <3>1 DEF OnVideoFocusChanged, Actives
    <3> QED BY <2>2, <2>4, <3>2, FewerActives DEF OnVideoFocusChanged
  <2>5. CASE OnPhoneIdentified(t.sid)
    <3> DEFINE same == {e \in named \ {t.sid} : phone[e] = phone[t.sid]}
               old == IF same = {} THEN {} ELSE {Min(same)}
               states == [e \in Sid |-> IF e \in old \/ entry[e] = "absent" THEN "absent"
                                        ELSE IF e = t.sid THEN "CONNECTED" ELSE entry[e]]
    <3>1. \/ entry' = states /\ UNCHANGED main
          \/ Activate(t.sid, "ACTIVE", states, StopCalls(old))
      BY <2>5 DEF OnPhoneIdentified
    <3>2. /\ states \in [Sid -> {"absent", "CONNECTING", "CONNECTED", "BACKGROUND", "ACTIVE"}]
          /\ \A e \in Sid : states[e] = "ACTIVE" => entry[e] = "ACTIVE"
      <4> HIDE DEF old
      <4> QED BY <1>0
    <3> HIDE DEF states, old, same
    <3>3. CASE entry' = states /\ UNCHANGED main
      <4>1. Actives(entry') \subseteq Actives(entry)
        BY <3>2, <3>3 DEF Actives
      <4> QED BY <2>2, <3>3, <4>1, FewerActives
    <3>4. CASE Activate(t.sid, "ACTIVE", states, StopCalls(old))
      <4>1. "ACTIVE" \in Playing
        BY DEF Playing
      <4> QED BY <2>1, <2>2, <3>2, <3>4, <4>1, ActivateDemotes
    <3> QED BY <3>1, <3>3, <3>4
  <2> QED BY <2>1, <2>3, <2>4, <2>5
<1> QED BY <1>1, <1>3, <1>4, <1>5, <1>6, <1>7, <1>8, <1>9 DEF Next

LEMMA RoleInvSingle ==
    ASSUME IInv, RoleInv
    PROVE  SingleActive
<1>1. CASE Actives(entry) = {}
  BY <1>1, FS_EmptySet DEF SingleActive
<1>2. CASE Actives(entry) # {}
  <2>1. PICK s : Actives(entry) = {s}
    BY <1>2 DEF RoleInv
  <2> QED BY <2>1, FS_Singleton DEF SingleActive
<1> QED BY <1>1, <1>2

\* SessionManager's "at most one ACTIVE session at any time", for any number of sessions
\* and phones, for phones that ask for their native screen only: whatever the Bluetooth
\* thread does between the halves of an activation and however late callbacks are.
THEOREM NativeImpliesSingleActive ==
    ASSUME FocusRequests \subseteq {FALSE}
    PROVE  Spec => []SingleActive
<1>1. Init => IInv /\ RoleInv
  <2> SUFFICES ASSUME Init PROVE IInv /\ RoleInv
    OBVIOUS
  <2>1. IInv
    BY EngineAssumption
       DEF Init, EngineInit, IInv, EngineInv, AppInv, Idle, Phase, TasksOf, Live
  <2>2. RoleInv
    BY DEF Init, EngineInit, RoleInv, AsksNative, Actives, Idle
  <2> QED BY <2>1, <2>2
<1>2. IInv /\ RoleInv /\ [Next]_vars => IInv' /\ RoleInv'
  BY InductiveStep, RoleStep
<1>3. IInv /\ RoleInv => SingleActive
  BY RoleInvSingle
<1> QED BY <1>1, <1>2, <1>3, PTL DEF Spec
=============================================================================
