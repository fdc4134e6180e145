------------------------ MODULE WirelessManager_proofs ------------------------
(***************************************************************************)
(* Proofs about WirelessManager for any number of managers, phones and     *)
(* events: type correctness, that a profile is OFF for a session's sake    *)
(* only, that a blocked phone stays quiet, that no wireless session        *)
(* outlives its thread, and that what is shown is connected.               *)
(***************************************************************************)
EXTENDS WirelessManager, TLAPS

-----------------------------------------------------------------------------
(* The inductive invariant, by the part of the state it is about. *)

ListenPlace ==
  {"none", "opening", "testing", "calling", "accepting", "joining", "done", "crashed"}
SessPlace ==
  {"none", "handshake", "ready", "starting", "joined", "keepalive", "reading",
   "restoring", "stopping"}

\* A switched radio is a broadcast, and a broadcast one configuration at most.
MainInv ==
  /\ radios \subseteq {"ap", "bt"} /\ events \in 0 .. MaxEvents /\ service \in BOOLEAN
  /\ notices \in Seq([radio : {"ap", "bt"}, on : BOOLEAN])
  /\ configs \in Nat /\ configs + Len(notices) <= events + 2
  /\ made \in 0 .. MaxManagers /\ current \in {None} \cup 1 .. made

ListenInv ==
  /\ listen \in [Manager -> ListenPlace]
  /\ \A m \in Manager : listen[m] = "none" <=> m > made
  /\ interrupted \subseteq 1 .. made
  /\ server \subseteq {m \in 1 .. made : listen[m] \notin {"opening", "done"}}

SessInv ==
  /\ sess \in [Manager -> SessPlace] /\ phone \in [Manager -> Phone \cup {"none"}]
  /\ \A m \in Manager : phone[m] \in Phone <=> sess[m] # "none"
  /\ link \subseteq {m \in Manager : sess[m] \notin {"none", "restoring", "stopping"}}
  /\ port \in {None} \cup Manager
  /\ \A m \in Manager : sess[m] = "joined" <=> port = m
  /\ entries \subseteq {m \in Manager : Alive(m)}

\* A manager that listens has no session: its listener joins the session's thread.
JoinInv ==
  \A m \in Manager :
    listen[m] \in {"none", "opening", "testing", "calling", "accepting"} => sess[m] = "none"

\* What the tracker shows has a thread that will take it back.
TrackerInv == ShownIsConnected

\* A blocked phone has a thread that will restore it.
HeldInv ==
  \A p \in blocked : \E m \in Manager :
    phone[m] = p /\ sess[m] \in {"starting", "joined", "keepalive", "reading", "restoring"}

\* A priority is OFF as long as the phone is blocked, or since it was missed.
GateInv ==
  /\ GateTypeOK
  /\ \A p \in Phone : priority[p] = "OFF" => p \in blocked \cup missed
  /\ BlockedIsQuiet

IInv == MainInv /\ ListenInv /\ SessInv /\ JoinInv /\ TrackerInv /\ HeldInv /\ GateInv

-----------------------------------------------------------------------------
(* What leaves a part of the state alone leaves its invariant alone. *)

LEMMA MainFrame ==
  ASSUME MainInv, UNCHANGED mainVars, events' \in {events, events + 1}, events' <= MaxEvents
  PROVE  MainInv'
<1>1. events \in Nat /\ MaxEvents \in Nat /\ events' \in 0 .. MaxEvents /\ events <= events'
  BY WirelessAssumption DEF MainInv
<1>2. Len(notices) \in Nat
  BY DEF MainInv
<1> QED BY <1>1, <1>2 DEF MainInv, mainVars

LEMMA ListenFrame ==
  ASSUME ListenInv, UNCHANGED <<listen, made>>, interrupted' = interrupted, server' \subseteq server
  PROVE  ListenInv'
BY DEF ListenInv

LEMMA SessFrame ==
  ASSUME SessInv, UNCHANGED <<sess, phone, port>>, link' \subseteq link, entries' \subseteq entries
  PROVE  SessInv'
BY DEF SessInv, Alive

LEMMA TrackerFrame ==
  ASSUME TrackerInv, UNCHANGED <<sess, phone>>, tracker' = tracker \/ tracker' = Nothing
  PROVE  TrackerInv'
BY DEF TrackerInv, ShownIsConnected, Nothing

LEMMA HeldFrame ==
  ASSUME HeldInv, UNCHANGED <<sess, phone>>, blocked' \subseteq blocked
  PROVE  HeldInv'
BY DEF HeldInv

LEMMA GateFrame ==
  ASSUME GateInv, UNCHANGED gateVars
  PROVE  GateInv'
BY DEF GateInv, GateTypeOK, BlockedIsQuiet, gateVars

-----------------------------------------------------------------------------
(* The gate. *)

LEMMA BlockKeeps ==
  ASSUME GateInv, NEW p \in Phone, Block(p)
  PROVE  GateInv' /\ blocked' = blocked \cup {p}
<1>1. GateTypeOK'
  BY DEF GateInv, GateTypeOK, Block, ApplyBlock, WithPriority, Disconnect, stackVars
<1>2. \A q \in Phone : priority'[q] = "OFF" => q \in blocked' \cup missed'
  BY DEF GateInv, GateTypeOK, Block, ApplyBlock, WithPriority, stackVars
<1>3. BlockedIsQuiet'
  BY DEF GateInv, GateTypeOK, BlockedIsQuiet, Block, ApplyBlock, Disconnect, stackVars
<1>4. blocked' = blocked \cup {p}
  BY DEF Block
<1> QED BY <1>1, <1>2, <1>3, <1>4 DEF GateInv

LEMMA UnblockKeeps ==
  ASSUME GateInv, NEW ps \in SUBSET Phone, Unblock(ps),
         proxies' \in {proxies, {}}, registered' \in {registered, FALSE},
         UNCHANGED media, UNCHANGED stackVars
  PROVE  GateInv' /\ blocked' = blocked \ ps
<1>1. GateTypeOK'
  BY DEF GateInv, GateTypeOK, Unblock, WithPriority, stackVars
<1>2. \A q \in Phone : priority'[q] = "OFF" => q \in blocked' \cup missed'
  BY DEF GateInv, GateTypeOK, Unblock, WithPriority
<1>3. BlockedIsQuiet'
  BY DEF GateInv, GateTypeOK, BlockedIsQuiet, Unblock, stackVars
<1>4. blocked' = blocked \ ps
  BY DEF Unblock
<1> QED BY <1>1, <1>2, <1>3, <1>4 DEF GateInv

LEMMA ProxyConnectedKeeps ==
  ASSUME GateInv, NEW profile \in Profile, ProxyConnected(profile)
  PROVE  GateInv' /\ blocked' = blocked
<1>1. GateTypeOK'
  BY DEF GateInv, GateTypeOK, ProxyConnected, ApplyBlock, WithPriority, Disconnect, Profile
<1>2. \A q \in Phone : priority'[q] = "OFF" => q \in blocked' \cup missed'
  BY DEF GateInv, GateTypeOK, ProxyConnected, ApplyBlock, WithPriority
<1>3. BlockedIsQuiet'
  BY DEF GateInv, GateTypeOK, BlockedIsQuiet, ProxyConnected, ApplyBlock, Disconnect, Profile
<1>4. blocked' = blocked
  BY DEF ProxyConnected
<1> QED BY <1>1, <1>2, <1>3, <1>4 DEF GateInv

LEMMA ReblockKeeps ==
  ASSUME GateInv, NEW p \in Phone, Reblock(p)
  PROVE  GateInv' /\ blocked' = blocked
<1>1. GateTypeOK'
  BY DEF GateInv, GateTypeOK, Reblock, ApplyBlock, WithPriority, Disconnect
<1>2. \A q \in Phone : priority'[q] = "OFF" => q \in blocked' \cup missed'
  BY DEF GateInv, GateTypeOK, Reblock, ApplyBlock, WithPriority
<1>3. BlockedIsQuiet'
  BY DEF GateInv, GateTypeOK, BlockedIsQuiet, Reblock, ApplyBlock, Disconnect
<1>4. blocked' = blocked
  BY DEF Reblock
<1> QED BY <1>1, <1>2, <1>3, <1>4 DEF GateInv

LEMMA StackKeeps ==
  ASSUME GateInv,
         \/ \E profile \in Profile : ProxyLost(profile)
         \/ \E p \in Phone : MediaConnect(p) \/ ReceiveConnected(p)
  PROVE  GateInv' /\ blocked' = blocked
<1>1. ASSUME NEW profile \in Profile, ProxyLost(profile)
      PROVE  GateInv' /\ blocked' = blocked
  BY <1>1 DEF GateInv, GateTypeOK, BlockedIsQuiet, ProxyLost, Profile
<1>2. ASSUME NEW p \in Phone, MediaConnect(p)
      PROVE  GateInv' /\ blocked' = blocked
  BY <1>2 DEF GateInv, GateTypeOK, BlockedIsQuiet, MediaConnect
<1>3. ASSUME NEW p \in Phone, ReceiveConnected(p)
      PROVE  GateInv' /\ blocked' = blocked
  BY <1>3 DEF GateInv, GateTypeOK, BlockedIsQuiet, ReceiveConnected
<1> QED BY <1>1, <1>2, <1>3

\* Bluetooth is switched off: the stack disconnects every profile.
LEMMA MediaGoneKeeps ==
  ASSUME GateInv, media' = media \/ media' = [p \in Phone |-> {}],
         UNCHANGED <<blocked, proxies, priority, registered, missed>>, UNCHANGED stackVars
  PROVE  GateInv' /\ blocked' = blocked
BY DEF GateInv, GateTypeOK, BlockedIsQuiet, stackVars

LEMMA JoinFrame ==
  ASSUME JoinInv, UNCHANGED <<listen, sess>>
  PROVE  JoinInv'
BY DEF JoinInv

\* A manager that is stopped was made.
LEMMA StopKeeps ==
  ASSUME MainInv, ListenInv, StopManager(current), UNCHANGED <<listen, made>>
  PROVE  ListenInv'
<1>1. interrupted' \subseteq 1 .. made'
  BY DEF MainInv, ListenInv, StopManager
<1>2. server' \subseteq server
  BY DEF StopManager
<1> QED BY <1>1, <1>2 DEF ListenInv

-----------------------------------------------------------------------------
(* The rare events, each counted. *)

LEMMA RareKeeps ==
  ASSUME IInv, events < MaxEvents, events' = events + 1, RareEvent
  PROVE  IInv'
<1> USE DEF IInv
<1>1. /\ events \in Nat /\ MaxEvents \in Nat /\ events' \in 0 .. MaxEvents
      /\ configs \in Nat /\ Len(notices) \in Nat /\ configs + Len(notices) <= events + 2
  BY WirelessAssumption DEF MainInv
<1>2. ASSUME Destroy PROVE IInv'
  <2>1. MainInv'
    <3>1. /\ notices' \in Seq([radio : {"ap", "bt"}, on : BOOLEAN]) /\ Len(notices') = 0
          /\ current' = None /\ service' = FALSE /\ UNCHANGED <<radios, configs, made>>
      BY <1>2 DEF Destroy
    <3>2. configs' + Len(notices') <= events' + 2
      BY <1>1, <3>1
    <3>3. current' \in {None} \cup 1 .. made'
      BY <3>1
    <3> QED BY <1>1, <3>1, <3>2, <3>3 DEF MainInv
  <2>2. ListenInv'
    BY <1>2, StopKeeps DEF Destroy
  <2>3. SessInv' /\ JoinInv' /\ TrackerInv'
    BY <1>2, SessFrame, JoinFrame, TrackerFrame DEF Destroy
  <2>4. GateInv' /\ blocked' = blocked \ Phone
    BY <1>2, UnblockKeeps DEF Destroy, CloseGate
  <2>5. HeldInv'
    BY <1>2, <2>4, HeldFrame DEF Destroy
  <2> QED BY <2>1, <2>2, <2>3, <2>4, <2>5
<1>3. ASSUME NEW r \in {"ap", "bt"}, RadioSwitched(r) PROVE IInv'
  <2>1. /\ notices' \in Seq([radio : {"ap", "bt"}, on : BOOLEAN])
        /\ Len(notices') <= Len(notices) + 1 /\ Len(notices') \in Nat
    <3> DEFINE notice == [radio |-> r, on |-> r \notin radios]
    <3>1. notice \in [radio : {"ap", "bt"}, on : BOOLEAN]
      OBVIOUS
    <3>2. notices' = notices \/ notices' = Append(notices, notice)
      BY <1>3 DEF RadioSwitched
    <3>3. notices \in Seq([radio : {"ap", "bt"}, on : BOOLEAN])
      BY DEF MainInv
    <3> HIDE DEF notice
    <3>4. CASE notices' = notices
      BY <3>3, <3>4
    <3>5. CASE notices' = Append(notices, notice)
      BY <3>1, <3>3, <3>5
    <3> QED BY <3>2, <3>4, <3>5
  <2>2. radios' \subseteq {"ap", "bt"}
    BY <1>3 DEF MainInv, RadioSwitched
  <2>3. UNCHANGED <<service, configs, current, made>>
    BY <1>3 DEF RadioSwitched
  <2>4. MainInv'
    BY <1>1, <2>1, <2>2, <2>3 DEF MainInv
  <2>5. ListenInv' /\ SessInv' /\ JoinInv' /\ TrackerInv'
    BY <1>3, ListenFrame, SessFrame, JoinFrame, TrackerFrame DEF RadioSwitched, listenVars
  <2>6. GateInv' /\ blocked' = blocked
    BY <1>3, MediaGoneKeeps DEF RadioSwitched
  <2>7. HeldInv'
    BY <1>3, <2>6, HeldFrame DEF RadioSwitched
  <2> QED BY <2>4, <2>5, <2>6, <2>7
<1>4. ASSUME NEW m \in Manager, SessionFails(m) PROVE IInv'
  <2>1. MainInv'
    BY <1>1, <1>4, MainFrame DEF SessionFails
  <2>2. ListenInv' /\ SessInv' /\ JoinInv' /\ TrackerInv'
    BY <1>4, ListenFrame, SessFrame, JoinFrame, TrackerFrame
       DEF SessionFails, mainVars, listenVars
  <2>3. GateInv' /\ HeldInv'
    BY <1>4, GateFrame, HeldFrame DEF SessionFails, gateVars
  <2> QED BY <2>1, <2>2, <2>3
<1>5. ASSUME NEW p \in Phone, MediaConnect(p), UNCHANGED <<mainVars, listenVars, sessionVars>>
      PROVE  IInv'
  <2>1. MainInv'
    BY <1>1, <1>5, MainFrame
  <2>2. ListenInv' /\ SessInv' /\ JoinInv' /\ TrackerInv'
    BY <1>5, ListenFrame, SessFrame, JoinFrame, TrackerFrame DEF mainVars, listenVars, sessionVars
  <2>3. GateInv' /\ blocked' = blocked
    BY <1>5, StackKeeps
  <2>4. HeldInv'
    BY <1>5, <2>3, HeldFrame DEF sessionVars
  <2> QED BY <2>1, <2>2, <2>3, <2>4
<1> QED BY <1>2, <1>3, <1>4, <1>5 DEF RareEvent

-----------------------------------------------------------------------------
(* The main thread. *)

LEMMA MainThreadKeeps ==
  ASSUME IInv, UNCHANGED events, MainThread
  PROVE  IInv'
<1> USE DEF IInv
<1>1. /\ events \in Nat /\ configs \in Nat /\ Len(notices) \in Nat
      /\ configs + Len(notices) <= events + 2 /\ made \in Nat /\ MaxManagers \in Nat
  BY WirelessAssumption DEF MainInv
<1>2. ASSUME RadioNotice PROVE IInv'
  <2>1. /\ notices' \in Seq([radio : {"ap", "bt"}, on : BOOLEAN])
        /\ Len(notices') = Len(notices) - 1
    BY <1>2 DEF MainInv, RadioNotice
  <2>2. configs' \in {configs, configs + 1} /\ current' \in {current, None}
        /\ UNCHANGED <<radios, service, made>>
    BY <1>2 DEF RadioNotice
  <2>3. MainInv'
    BY <1>1, <2>1, <2>2 DEF MainInv
  <2>4. ListenInv'
    <3>1. CASE Head(notices).on
      BY <1>2, <3>1, ListenFrame DEF RadioNotice, listenVars
    <3>2. CASE ~Head(notices).on
      BY <1>2, <3>2, StopKeeps DEF RadioNotice
    <3> QED BY <3>1, <3>2
  <2>5. SessInv' /\ JoinInv' /\ TrackerInv'
    BY <1>2, SessFrame, JoinFrame, TrackerFrame DEF RadioNotice, listenVars
  <2>6. GateInv' /\ HeldInv'
    BY <1>2, GateFrame, HeldFrame DEF RadioNotice, gateVars
  <2> QED BY <2>3, <2>4, <2>5, <2>6
<1>3. ASSUME ConfigReady PROVE IInv'
  <2>1. MainInv'
    BY <1>1, <1>3 DEF MainInv, ConfigReady
  <2>2. made + 1 \in Manager
    BY <1>1, <1>3 DEF ConfigReady, Manager
  <2>3. ListenInv'
    <3>1. listen' \in [Manager -> ListenPlace]
      BY <1>3 DEF ListenInv, ConfigReady, ListenPlace
    <3>2. \A m \in Manager : listen'[m] = "none" <=> m > made'
      BY <1>1, <1>3, <2>2 DEF ListenInv, ConfigReady, Manager
    <3>3. interrupted' \subseteq 1 .. made'
      <4>1. interrupted' \subseteq 1 .. made
        BY <1>3 DEF MainInv, ListenInv, ConfigReady, StopManager
      <4>2. 1 .. made \subseteq 1 .. made' /\ made' = made + 1
        BY <1>1, <1>3 DEF ConfigReady
      <4> QED BY <4>1, <4>2
    <3>4. server' \subseteq {m \in 1 .. made' : listen'[m] \notin {"opening", "done"}}
      <4> SUFFICES ASSUME NEW m \in server'
                   PROVE  m \in 1 .. made' /\ listen'[m] \notin {"opening", "done"}
        OBVIOUS
      <4>1. m \in 1 .. made /\ listen[m] \notin {"opening", "done"}
        BY <1>3 DEF ListenInv, ConfigReady, StopManager
      <4>2. m \in Manager /\ m # made + 1 /\ m \in 1 .. made + 1
        BY <1>1, <2>2, <4>1 DEF Manager
      <4> QED BY <1>3, <4>1, <4>2 DEF ListenInv, ConfigReady
    <3> QED BY <3>1, <3>2, <3>3, <3>4 DEF ListenInv
  <2>4. JoinInv'
    <3>1. sess[made + 1] = "none"
      BY <1>1, <2>2 DEF JoinInv, ListenInv
    <3> QED BY <1>3, <2>2, <3>1 DEF JoinInv, ListenInv, ConfigReady
  <2>5. SessInv' /\ TrackerInv'
    BY <1>3, SessFrame, TrackerFrame DEF ConfigReady
  <2>6. GateInv' /\ HeldInv'
    BY <1>3, GateFrame, HeldFrame DEF ConfigReady, gateVars
  <2> QED BY <2>1, <2>3, <2>4, <2>5, <2>6
<1>4. ASSUME UNCHANGED <<mainVars, listenVars, sessionVars>>,
             GateInv' /\ blocked' = blocked
      PROVE  IInv'
  <2>1. MainInv'
    BY <1>1, <1>4, MainFrame DEF MainInv
  <2>2. ListenInv' /\ SessInv' /\ JoinInv' /\ TrackerInv'
    BY <1>4, ListenFrame, SessFrame, JoinFrame, TrackerFrame DEF mainVars, listenVars, sessionVars
  <2>3. HeldInv'
    BY <1>4, HeldFrame DEF sessionVars
  <2> QED BY <1>4, <2>1, <2>2, <2>3
<1>5. ASSUME \/ \E p \in Phone : ReceiveConnected(p) \/ Reblock(p)
             \/ \E profile \in Profile : ProxyConnected(profile) \/ ProxyLost(profile)
      PROVE  GateInv' /\ blocked' = blocked
  BY <1>5, StackKeeps, ReblockKeeps, ProxyConnectedKeeps
<1> QED BY <1>2, <1>3, <1>4, <1>5 DEF MainThread

-----------------------------------------------------------------------------
(* A listener thread, and a phone that connects to it. *)

\* The step of one listener to another place of its loop.
LEMMA ListenerStep ==
  ASSUME MainInv, ListenInv, JoinInv, NEW m \in Manager,
         NEW place \in ListenPlace \ {"none", "opening"},
         listen[m] # "none", ListenGoes(m, place), UNCHANGED <<made, interrupted, sess>>,
         server' \subseteq server \cup {m}, place = "done" => m \notin server',
         place \in {"done", "crashed"} \/ sess[m] = "none"
  PROVE  ListenInv' /\ JoinInv'
<1>1. listen' \in [Manager -> ListenPlace]
  BY DEF ListenInv, ListenGoes
<1>2. \A n \in Manager : listen'[n] = "none" <=> n > made'
  BY DEF ListenInv, ListenGoes
<1>3. m \in 1 .. made
  <2>1. made \in Nat /\ MaxManagers \in Nat /\ ~(m > made)
    BY WirelessAssumption DEF MainInv, ListenInv
  <2> QED BY <2>1 DEF Manager
<1>4. server' \subseteq {n \in 1 .. made' : listen'[n] \notin {"opening", "done"}}
  <2> SUFFICES ASSUME NEW n \in server'
               PROVE  n \in 1 .. made /\ listen'[n] \notin {"opening", "done"}
    OBVIOUS
  <2>1. CASE n = m
    BY <1>3, <2>1 DEF ListenInv, ListenGoes
  <2>2. CASE n # m
    <3>1. n \in 1 .. made /\ listen[n] \notin {"opening", "done"}
      BY <2>2 DEF ListenInv
    <3> QED BY <2>2, <3>1 DEF ListenInv, ListenGoes
  <2> QED BY <2>1, <2>2
<1>5. JoinInv'
  BY DEF JoinInv, ListenInv, ListenGoes
<1> QED BY <1>1, <1>2, <1>4, <1>5 DEF ListenInv

LEMMA ListenerKeeps ==
  ASSUME IInv, UNCHANGED events, NEW m \in Manager, Listener(m)
  PROVE  IInv'
<1> USE DEF IInv
<1>1. UNCHANGED <<mainVars, interrupted, sessionVars, gateVars>>
  BY DEF Listener, Open, Test, Call, AcceptFails, Join, LeaveLoop
<1>2. ASSUME NEW place \in ListenPlace \ {"none", "opening"}, listen[m] # "none",
             ListenGoes(m, place), server' \subseteq server \cup {m}, place = "done" => m \notin server',
             place \in {"done", "crashed"} \/ sess[m] = "none"
      PROVE  ListenInv' /\ JoinInv'
  BY <1>1, <1>2, ListenerStep DEF mainVars, sessionVars
<1>3. ListenInv' /\ JoinInv'
  <2>1. ASSUME LeaveLoop(m), listen[m] # "none" PROVE ListenInv' /\ JoinInv'
    BY <1>2, <2>1 DEF LeaveLoop, ListenPlace
  <2>2. CASE Open(m)
    <3>1. listen[m] = "opening" /\ sess[m] = "none"
      BY <2>2 DEF Open, JoinInv
    <3>2. CASE server' = server \cup {m} /\ ListenGoes(m, "testing")
      BY <1>2, <3>1, <3>2 DEF ListenPlace
    <3>3. CASE UNCHANGED server /\ ListenGoes(m, "done")
      <4>1. m \notin server
        BY <3>1 DEF ListenInv
      <4> QED BY <1>2, <3>1, <3>3, <4>1 DEF ListenPlace
    <3> QED BY <2>2, <3>2, <3>3 DEF Open
  <2>3. CASE Test(m)
    <3>1. listen[m] = "testing" /\ sess[m] = "none"
      BY <2>3 DEF Test, JoinInv
    <3>2. CASE m \notin interrupted
      BY <1>2, <2>3, <3>1, <3>2 DEF Test, ListenPlace
    <3> QED BY <2>1, <2>3, <3>1, <3>2 DEF Test
  <2>4. CASE Call(m)
    <3>1. listen[m] = "calling" /\ sess[m] = "none" /\ UNCHANGED server
      BY <2>4 DEF Call, JoinInv
    <3>2. ListenGoes(m, "accepting") \/ ListenGoes(m, "crashed")
      BY <2>4 DEF Call
    <3> QED BY <1>2, <3>1, <3>2 DEF ListenPlace
  <2>5. CASE AcceptFails(m)
    BY <2>1, <2>5 DEF AcceptFails
  <2>6. CASE Join(m)
    <3>1. listen[m] = "joining"
      BY <2>6 DEF Join
    <3>2. CASE sess[m] = "none" /\ ListenGoes(m, "testing") /\ UNCHANGED server
      BY <1>2, <3>1, <3>2 DEF ListenPlace
    <3> QED BY <2>1, <2>6, <3>1, <3>2 DEF Join
  <2> QED BY <2>2, <2>3, <2>4, <2>5, <2>6 DEF Listener
<1>4. MainInv' /\ SessInv' /\ TrackerInv' /\ HeldInv' /\ GateInv'
  <2>1. MainInv'
    BY <1>1, MainFrame DEF MainInv
  <2> QED BY <1>1, <2>1, SessFrame, TrackerFrame, HeldFrame, GateFrame DEF sessionVars, gateVars
<1> QED BY <1>3, <1>4

LEMMA AcceptKeeps ==
  ASSUME IInv, UNCHANGED events, NEW m \in Manager, NEW p \in Phone, Accept(m, p)
  PROVE  IInv'
<1> USE DEF IInv
<1>1. sess[m] = "none" /\ m \notin entries /\ port # m /\ listen[m] = "accepting"
  BY DEF Accept, JoinInv, SessInv, Alive
<1>2. MainInv' /\ GateInv'
  BY MainFrame, GateFrame DEF MainInv, Accept
<1>3. ListenInv'
  BY DEF ListenInv, ListenGoes, ListenPlace, Accept, mainVars
<1>4. SessInv'
  <2>1. sess' \in [Manager -> SessPlace] /\ phone' \in [Manager -> Phone \cup {"none"}]
    BY DEF SessInv, SessPlace, Accept
  <2>2. \A n \in Manager : phone'[n] \in Phone <=> sess'[n] # "none"
    BY DEF SessInv, Accept
  <2>3. link' \subseteq {n \in Manager : sess'[n] \notin {"none", "restoring", "stopping"}}
    BY DEF SessInv, Accept
  <2>4. \A n \in Manager : sess'[n] = "joined" <=> port' = n
    BY <1>1 DEF SessInv, Accept
  <2>5. entries' \subseteq {n \in Manager : Alive(n)'}
    BY <1>1 DEF SessInv, Alive, Accept
  <2> QED BY <2>1, <2>2, <2>3, <2>4, <2>5 DEF SessInv, Accept
<1>5. JoinInv'
  BY DEF JoinInv, ListenInv, SessInv, ListenGoes, Accept
<1>6. TrackerInv'
  BY DEF TrackerInv, ShownIsConnected, SessInv, Accept
<1>7. HeldInv'
  <2> SUFFICES ASSUME NEW q \in blocked
               PROVE  \E n \in Manager : phone'[n] = q /\
                        sess'[n] \in {"starting", "joined", "keepalive", "reading", "restoring"}
    BY DEF HeldInv, Accept, gateVars
  <2>1. PICK n \in Manager : phone[n] = q /\
               sess[n] \in {"starting", "joined", "keepalive", "reading", "restoring"}
    BY DEF HeldInv
  <2>2. n # m
    BY <1>1, <2>1
  <2> QED BY <2>1, <2>2 DEF SessInv, Accept
<1> QED BY <1>2, <1>3, <1>4, <1>5, <1>6, <1>7

-----------------------------------------------------------------------------
(* A session thread. *)

HeldPlace == {"starting", "joined", "keepalive", "reading", "restoring"}

\* The step of one session to another place of its thread, short of its end.
LEMMA SessionStep ==
  ASSUME SessInv, JoinInv, TrackerInv, HeldInv,
         NEW m \in Manager, NEW place \in SessPlace \ {"none"},
         sess[m] # "none", SessionGoes(m, place), UNCHANGED <<listen, phone>>,
         link' \subseteq link, place \in {"restoring", "stopping"} => m \notin link',
         entries' \subseteq entries \cup {m}, m \in entries' => place \notin {"handshake", "ready"},
         port' \in {port, m, None}, \A n \in Manager \ {m} : port' = n <=> port = n,
         place = "joined" <=> port' = m,
         tracker' \in {tracker, Nothing} \/ tracker'.device = phone[m],
         place = "stopping" => tracker' = Nothing,
         blocked' \subseteq blocked \cup {phone[m]},
         place \in HeldPlace \/ blocked' \subseteq blocked \ {phone[m]}
           \/ (sess[m] \notin HeldPlace /\ blocked' = blocked)
  PROVE  SessInv' /\ JoinInv' /\ TrackerInv' /\ HeldInv'
<1>1. /\ sess' \in [Manager -> SessPlace] /\ sess'[m] = place
      /\ \A n \in Manager \ {m} : sess'[n] = sess[n]
  BY DEF SessInv, SessionGoes
<1>2. SessInv'
  <2>1. phone' \in [Manager -> Phone \cup {"none"}]
        /\ \A n \in Manager : phone'[n] \in Phone <=> sess'[n] # "none"
    BY <1>1 DEF SessInv
  <2>2. link' \subseteq {n \in Manager : sess'[n] \notin {"none", "restoring", "stopping"}}
    BY <1>1 DEF SessInv
  <2>3. port' \in {None} \cup Manager /\ \A n \in Manager : sess'[n] = "joined" <=> port' = n
    BY <1>1 DEF SessInv
  <2>4. entries' \subseteq {n \in Manager : Alive(n)'}
    BY <1>1 DEF SessInv, Alive
  <2> QED BY <1>1, <2>1, <2>2, <2>3, <2>4 DEF SessInv
<1>3. JoinInv'
  BY <1>1 DEF JoinInv
<1>4. TrackerInv'
  <2> SUFFICES ASSUME tracker'.device # "none"
               PROVE  \E n \in Manager : phone'[n] = tracker'.device
                                         /\ sess'[n] \notin {"none", "stopping"}
    BY DEF TrackerInv, ShownIsConnected
  <2>1. tracker' # Nothing /\ place # "stopping"
    BY DEF Nothing
  <2>2. CASE tracker'.device = phone[m]
    BY <1>1, <2>1, <2>2
  <2>3. CASE tracker' = tracker
    <3>1. PICK n \in Manager : phone[n] = tracker.device /\ sess[n] \notin {"none", "stopping"}
      BY <2>3 DEF TrackerInv, ShownIsConnected
    <3> QED BY <1>1, <2>1, <2>3, <3>1
  <2> QED BY <2>1, <2>2, <2>3
<1>5. HeldInv'
  <2> SUFFICES ASSUME NEW q \in blocked'
               PROVE  \E n \in Manager : phone'[n] = q /\ sess'[n] \in HeldPlace
    BY DEF HeldInv, HeldPlace
  <2>1. CASE q = phone[m] /\ place \in HeldPlace
    BY <1>1, <2>1
  <2>2. CASE ~(q = phone[m] /\ place \in HeldPlace)
    <3>1. q \in blocked
      BY <2>2
    <3>2. PICK n \in Manager : phone[n] = q /\ sess[n] \in HeldPlace
      BY <3>1 DEF HeldInv, HeldPlace
    <3>3. n # m
      BY <2>2, <3>2
    <3> QED BY <1>1, <3>2, <3>3
  <2> QED BY <2>1, <2>2
<1> QED BY <1>2, <1>3, <1>4, <1>5

\* The thread's end: the transport's sessions are stopped.
LEMMA StopSessionsKeeps ==
  ASSUME SessInv, JoinInv, TrackerInv, HeldInv, NEW m \in Manager, StopSessions(m)
  PROVE  SessInv' /\ JoinInv' /\ TrackerInv' /\ HeldInv'
<1>1. /\ sess[m] = "stopping" /\ sess'[m] = "none" /\ phone'[m] = "none"
      /\ \A n \in Manager \ {m} : sess'[n] = sess[n] /\ phone'[n] = phone[n]
      /\ sess' \in [Manager -> SessPlace] /\ phone' \in [Manager -> Phone \cup {"none"}]
      /\ UNCHANGED <<listen, link, port, tracker, blocked>> /\ entries' = {}
  BY DEF SessInv, SessPlace, StopSessions, SessionGoes, SessionOnly, listenVars, gateVars
<1>2. SessInv'
  <2>1. "none" \notin Phone
    BY WirelessAssumption
  <2> QED BY <1>1, <2>1 DEF SessInv
<1>3. JoinInv'
  BY <1>1 DEF JoinInv
<1>4. TrackerInv'
  BY <1>1 DEF TrackerInv, ShownIsConnected
<1>5. HeldInv'
  <2> SUFFICES ASSUME NEW q \in blocked
               PROVE  \E n \in Manager : phone'[n] = q /\ sess'[n] \in HeldPlace
    BY <1>1 DEF HeldInv, HeldPlace
  <2>1. PICK n \in Manager : phone[n] = q /\ sess[n] \in HeldPlace
    BY DEF HeldInv, HeldPlace
  <2>2. n # m
    BY <1>1, <2>1 DEF HeldPlace
  <2> QED BY <1>1, <2>1, <2>2
<1> QED BY <1>2, <1>3, <1>4, <1>5

\* What the steps of a session leave to the rest.
LEMMA SessionRest ==
  ASSUME IInv, UNCHANGED events, SessionOnly
  PROVE  MainInv' /\ ListenInv'
<1>1. MainInv'
  BY MainFrame DEF IInv, MainInv, SessionOnly
<1> QED BY <1>1, ListenFrame DEF IInv, SessionOnly, listenVars, mainVars

LEMMA SessionKeeps ==
  ASSUME IInv, UNCHANGED events, NEW m \in Manager,
         SessionSteps(m) \/ ControlData(m) \/ TcpAccepted(m)
  PROVE  IInv'
<1> USE DEF IInv
<1>1. MainInv' /\ ListenInv' /\ UNCHANGED listen
  BY SessionRest
     DEF SessionSteps, Handshake, DeviceReady, StartTcpSession, KeepAlive, RestoreProfiles,
         StopSessions, ControlData, TcpAccepted, SessionOnly, listenVars
<1>2. "none" \notin Phone /\ None \notin Manager /\ (sess[m] = "joined" <=> port = m)
  BY WirelessAssumption DEF None, Manager, SessInv
<1> DEFINE Rest == SessInv' /\ JoinInv' /\ TrackerInv' /\ HeldInv'
<1>3. ASSUME UNCHANGED gateVars PROVE GateInv' /\ blocked' = blocked
  BY <1>3, GateFrame DEF gateVars
<1>4. CASE Handshake(m)
  <2>1. sess[m] = "handshake" /\ UNCHANGED <<phone, port, entries, gateVars>>
    BY <1>4 DEF Handshake
  <2>2. m \notin entries
    BY <2>1 DEF SessInv, Alive
  <2>3. CASE SessionGoes(m, "ready") /\ UNCHANGED <<link, tracker>>
    <3>1. Rest
      BY <1>1, <1>2, <1>3, <2>1, <2>2, <2>3, SessionStep DEF SessPlace, HeldPlace
    <3> QED BY <1>1, <1>3, <2>1, <3>1
  <2>4. CASE Ends(m) /\ tracker' = Nothing
    <3>1. Rest
      BY <1>1, <1>2, <1>3, <2>1, <2>2, <2>4, SessionStep DEF SessPlace, HeldPlace, Ends
    <3> QED BY <1>1, <1>3, <2>1, <3>1
  <2> QED BY <1>4, <2>3, <2>4 DEF Handshake
<1>5. CASE DeviceReady(m)
  <2>1. /\ sess[m] = "ready" /\ phone[m] \in Phone /\ m \notin entries
        /\ UNCHANGED <<phone, link, port, entries>>
        /\ SessionGoes(m, "starting") /\ tracker'.device = phone[m]
    BY <1>5 DEF DeviceReady, SessInv, Alive
  <2>2. GateInv' /\ blocked' = blocked \cup {phone[m]}
    BY <1>5, <2>1, BlockKeeps DEF DeviceReady
  <2>3. Rest
    BY <1>1, <1>2, <2>1, <2>2, SessionStep DEF SessPlace, HeldPlace
  <2> QED BY <1>1, <2>2, <2>3
<1>6. CASE StartTcpSession(m)
  <2>1. sess[m] = "starting" /\ UNCHANGED <<phone, link, entries, tracker, gateVars>>
    BY <1>6 DEF StartTcpSession
  <2>2. CASE port = None /\ port' = m /\ SessionGoes(m, "joined")
    <3>1. Rest
      BY <1>1, <1>2, <1>3, <2>1, <2>2, SessionStep DEF SessPlace, HeldPlace
    <3> QED BY <1>1, <1>3, <2>1, <3>1
  <2>3. CASE UNCHANGED port /\ SessionGoes(m, "keepalive")
    <3>1. Rest
      BY <1>1, <1>2, <1>3, <2>1, <2>3, SessionStep DEF SessPlace, HeldPlace
    <3> QED BY <1>1, <1>3, <2>1, <3>1
  <2> QED BY <1>6, <2>2, <2>3 DEF StartTcpSession
<1>7. CASE TcpAccepted(m)
  <2>1. /\ sess[m] = "joined" /\ port = m /\ port' = None /\ entries' \subseteq entries \cup {m}
        /\ SessionGoes(m, "keepalive") /\ UNCHANGED <<phone, link, tracker, gateVars>>
    BY <1>2, <1>7 DEF TcpAccepted
  <2>2. Rest
    BY <1>1, <1>2, <1>3, <2>1, SessionStep DEF SessPlace, HeldPlace
  <2> QED BY <1>1, <1>3, <2>1, <2>2
<1>8. CASE KeepAlive(m) \/ ControlData(m)
  <2>1. /\ sess[m] \in {"keepalive", "reading"}
        /\ UNCHANGED <<phone, port, entries, tracker, gateVars>>
    BY <1>8 DEF KeepAlive, ControlData
  <2>2. \/ Ends(m)
        \/ UNCHANGED link /\ (SessionGoes(m, "reading") \/ SessionGoes(m, "keepalive"))
    BY <1>8 DEF KeepAlive, ControlData
  <2>3. CASE Ends(m)
    <3>1. Rest
      BY <1>1, <1>2, <1>3, <2>1, <2>3, SessionStep DEF SessPlace, HeldPlace, Ends
    <3> QED BY <1>1, <1>3, <2>1, <3>1
  <2>4. CASE UNCHANGED link /\ (SessionGoes(m, "reading") \/ SessionGoes(m, "keepalive"))
    <3>1. Rest
      BY <1>1, <1>2, <1>3, <2>1, <2>4, SessionStep DEF SessPlace, HeldPlace
    <3> QED BY <1>1, <1>3, <2>1, <3>1
  <2> QED BY <2>2, <2>3, <2>4
<1>9. CASE RestoreProfiles(m)
  <2>1. /\ sess[m] = "restoring" /\ phone[m] \in Phone /\ m \notin link
        /\ UNCHANGED <<phone, link, port, entries>>
        /\ SessionGoes(m, "stopping") /\ tracker' = Nothing
    BY <1>9 DEF RestoreProfiles, SessInv
  <2>2. GateInv' /\ blocked' = blocked \ {phone[m]}
    BY <1>9, <2>1, UnblockKeeps DEF RestoreProfiles, Restore
  <2>3. Rest
    BY <1>1, <1>2, <2>1, <2>2, SessionStep DEF SessPlace, HeldPlace
  <2> QED BY <1>1, <2>2, <2>3
<1>10. CASE StopSessions(m)
  BY <1>1, <1>3, <1>10, StopSessionsKeeps DEF StopSessions
<1> QED BY <1>4, <1>5, <1>6, <1>7, <1>8, <1>9, <1>10 DEF SessionSteps

LEMMA PhoneClosesKeeps ==
  ASSUME IInv, UNCHANGED events, NEW m \in Manager, PhoneCloses(m)
  PROVE  IInv'
<1>1. MainInv' /\ ListenInv'
  BY SessionRest DEF PhoneCloses, SessionOnly
<1>2. SessInv' /\ JoinInv' /\ TrackerInv'
  BY SessFrame, JoinFrame, TrackerFrame DEF IInv, PhoneCloses, listenVars
<1>3. GateInv' /\ HeldInv'
  BY GateFrame, HeldFrame DEF IInv, PhoneCloses, gateVars
<1> QED BY <1>1, <1>2, <1>3 DEF IInv

-----------------------------------------------------------------------------
(* The invariant is inductive. *)

LEMMA InitInv == Init => IInv
<1> SUFFICES ASSUME Init PROVE IInv
  OBVIOUS
<1>1. MainInv
  <2>1. notices \in Seq([radio : {"ap", "bt"}, on : BOOLEAN]) /\ Len(notices) = 1
    BY DEF Init
  <2> QED BY <2>1, WirelessAssumption DEF Init, MainInv, None
<1>2. ListenInv
  BY DEF Init, ListenInv, ListenPlace, Manager
<1>3. SessInv
  BY WirelessAssumption DEF Init, SessInv, SessPlace, None, Manager
<1>4. JoinInv /\ TrackerInv /\ HeldInv
  BY DEF Init, GateInit, JoinInv, TrackerInv, ShownIsConnected, Nothing, HeldInv
<1>5. GateInv
  BY DEF Init, GateInit, GateInv, GateTypeOK, BlockedIsQuiet
<1> QED BY <1>1, <1>2, <1>3, <1>4, <1>5 DEF IInv

LEMMA NextInv == IInv /\ [Next]_vars => IInv'
<1> SUFFICES ASSUME IInv, [Next]_vars PROVE IInv'
  OBVIOUS
<1>1. CASE events < MaxEvents /\ events' = events + 1 /\ RareEvent
  BY <1>1, RareKeeps
<1>2. CASE MainThread /\ UNCHANGED events
  BY <1>2, MainThreadKeeps
<1>3. CASE Environment /\ UNCHANGED events
  BY <1>3, PhoneClosesKeeps, SessionKeeps, AcceptKeeps DEF Environment
<1>4. ASSUME NEW m \in Manager, Listener(m) \/ SessionSteps(m), UNCHANGED events
      PROVE  IInv'
  BY <1>4, ListenerKeeps, SessionKeeps
<1>5. CASE UNCHANGED vars
  <2>1. MainInv'
    BY <1>5, MainFrame DEF IInv, MainInv, vars
  <2> QED BY <1>5, <2>1, ListenFrame, SessFrame, JoinFrame, TrackerFrame, HeldFrame, GateFrame
          DEF IInv, vars, mainVars, listenVars, sessionVars, gateVars
<1> QED BY <1>1, <1>2, <1>3, <1>4, <1>5 DEF Next

LEMMA Invariance == Spec => []IInv
BY InitInv, NextInv, PTL DEF Spec

-----------------------------------------------------------------------------
\* Type correctness: a listener place for every manager made and for no other, the TCP
\* port held by the one call that waits on it, a phone for every session that runs, and
\* at most two configurations more than the radios were switched.
THEOREM TypeCorrect == Spec => []TypeOK
<1>1. IInv => TypeOK
  <2> SUFFICES ASSUME IInv PROVE TypeOK
    OBVIOUS
  <2>1. configs \in 0 .. MaxEvents + 2
    <3>1. events \in Nat /\ MaxEvents \in Nat /\ events <= MaxEvents
          /\ configs \in Nat /\ Len(notices) \in Nat /\ configs + Len(notices) <= events + 2
      BY WirelessAssumption DEF IInv, MainInv
    <3> QED BY <3>1
  <2>2. GateTypeOK
    BY DEF IInv, GateInv
  <2>3. port # None => sess[port] = "joined"
    BY DEF IInv, SessInv
  <2>4. server \subseteq {m \in 1 .. made : listen[m] # "done"}
    BY DEF IInv, ListenInv
  <2> QED BY <2>1, <2>2, <2>3, <2>4 DEF TypeOK, IInv, MainInv, ListenInv, SessInv
<1> QED BY <1>1, Invariance, PTL

\* BtProfileGate and BluetoothWirelessManager: but for a phone unblocked without a
\* proxy, A2DP_SINK is OFF only for a phone whose session thread is alive.
THEOREM OffForASessionOnly == Spec => []PriorityFollowsSession
<1>1. IInv => PriorityFollowsSession
  BY DEF IInv, GateInv, HeldInv, PriorityFollowsSession, Alive
<1> QED BY <1>1, Invariance, PTL

\* BtProfileGate: a blocked phone's A2DP_SINK that is connected is about to go, whichever
\* of the proxy, the broadcast and the session came first.
THEOREM BlockedStaysQuiet == Spec => []BlockedIsQuiet
<1>1. IInv => BlockedIsQuiet
  BY DEF IInv, GateInv
<1> QED BY <1>1, Invariance, PTL

\* BluetoothWirelessManager and AaService: a wireless session has its RFCOMM thread, of
\* however many managers that were replaced.
THEOREM SessionsHaveThreads == Spec => []NoOrphanSession
<1>1. IInv => NoOrphanSession
  BY DEF IInv, SessInv, NoOrphanSession
<1> QED BY <1>1, Invariance, PTL

\* WirelessStateTracker: the phone shown has a session thread that runs.
THEOREM ShownHasAThread == Spec => []ShownIsConnected
<1>1. IInv => ShownIsConnected
  BY DEF IInv, TrackerInv
<1> QED BY <1>1, Invariance, PTL
=============================================================================
