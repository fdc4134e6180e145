----------------------------- MODULE UsbMonitor -----------------------------
(***************************************************************************)
(* USB discovery: UsbMonitor and UsbSessionCoordinator, which run on the   *)
(* main thread, against a bus that does not wait for them.  A phone is     *)
(* enumerated under a new number each time it appears; told to start in    *)
(* accessory mode (AOA) it leaves and comes back under another.  Attach    *)
(* and detach broadcasts wait in the main thread's queue; opening a        *)
(* device by a number that is no longer on the bus fails.                  *)
(***************************************************************************)
EXTENDS Naturals, Sequences, FiniteSets

CONSTANTS
  Phone,      \* phones that may be plugged in
  MaxEnum,    \* bound: enumerations of devices
  MaxMishaps  \* bound: cables pulled, transfers, opens and session starts that fail

ASSUME UsbAssumption == IsFiniteSet(Phone) /\ {MaxEnum, MaxMishaps} \subseteq Nat /\ MaxEnum > 0

Enum == 1 .. MaxEnum
None == 0

VARIABLES
  bus,                  \* external: the number each phone is enumerated under
  enums,                \* external: enumerations so far
  aoa,                  \* external: numbers that stand for a phone in accessory mode
  switched,             \* external: phones that obey an AOA_START, until they are back
  news,                 \* broadcasts the main thread has still to receive
  place,                \* how far start() and stop() are
  todo,                 \* devices of getDeviceList() that start() has still to look at
  pendingDevice,        \* field of UsbMonitor
  aoaSwitchInProgress,  \* field of UsbMonitor
  sessions,             \* entries of label "USB", by the number that was opened
  mishaps               \* cables pulled and failures so far

busVars == <<bus, enums, aoa>>
monitorVars == <<pendingDevice, aoaSwitchInProgress>>
vars == <<busVars, switched, news, place, todo, monitorVars, sessions, mishaps>>

Present == {bus[p] : p \in Phone} \ {None}
Broadcast(what, e) ==
  IF place \in {"new", "stopped"} THEN news ELSE Append(news, [what |-> what, dev |-> e])

Mishap == mishaps < MaxMishaps /\ mishaps' = mishaps + 1

\* An earlier run may have left a phone in accessory mode.
Init ==
  /\ \E left \in SUBSET Phone :
       /\ Cardinality(left) <= 1
       /\ bus = [p \in Phone |-> IF p \in left THEN 1 ELSE None]
       /\ enums = Cardinality(left) /\ aoa = 1 .. enums
  /\ switched = {} /\ news = <<>> /\ place = "new" /\ todo = {}
  /\ pendingDevice = None /\ aoaSwitchInProgress = FALSE
  /\ sessions = [e \in Enum |-> 0]
  /\ mishaps = 0

-----------------------------------------------------------------------------
(***************************************************************************)
(* The bus.                                                                *)
(***************************************************************************)
Appear(p, accessory) ==
  /\ bus[p] = None /\ enums < MaxEnum
  /\ enums' = enums + 1
  /\ bus' = [bus EXCEPT ![p] = enums + 1]
  /\ aoa' = IF accessory THEN aoa \cup {enums + 1} ELSE aoa
  /\ news' = Broadcast("attached", enums + 1)

Disappear(p) ==
  /\ bus[p] # None
  /\ bus' = [bus EXCEPT ![p] = None]
  /\ news' = Broadcast("detached", bus[p])
  /\ UNCHANGED <<enums, aoa>>

\* Phones that will need another number before they are in accessory mode.
Plain == {p \in Phone : bus[p] \notin aoa /\ (bus[p] # None \/ p \in switched)}

Plug(p) ==
  /\ p \notin switched
  /\ enums + Cardinality(Plain) + 2 <= MaxEnum
  /\ Appear(p, FALSE)
  /\ UNCHANGED <<switched, place, todo, monitorVars, sessions, mishaps>>

Unplug(p) ==
  /\ Mishap
  /\ \/ Disappear(p)
     \/ bus[p] = None /\ p \in switched /\ UNCHANGED <<busVars, news>>
  /\ switched' = switched \ {p}
  /\ UNCHANGED <<place, todo, monitorVars, sessions>>

\* The two halves of a phone's new enumeration.
Leave(p) ==
  /\ p \in switched
  /\ Disappear(p)
  /\ UNCHANGED <<switched, place, todo, monitorVars, sessions, mishaps>>

Return(p) ==
  /\ p \in switched
  /\ Appear(p, TRUE)
  /\ switched' = switched \ {p}
  /\ UNCHANGED <<place, todo, monitorVars, sessions, mishaps>>

-----------------------------------------------------------------------------
(***************************************************************************)
(* UsbMonitor.                                                             *)
(***************************************************************************)

\* The device is opened, asked for its protocol, told who we are, and started; at each
\* point it may fail, and nobody is told.
PerformAoaSwitch(e) ==
  /\ UNCHANGED <<pendingDevice, sessions>>
  /\ \/ /\ e \in Present
        /\ switched' = switched \cup {p \in Phone : bus[p] = e}
        /\ UNCHANGED mishaps
     \/ UNCHANGED switched /\ (IF e \in Present THEN Mishap ELSE UNCHANGED mishaps)

\* The session is started at once: available, opened, ready, started are nested calls.
RequestPermissionAndOpen(e) ==
  /\ pendingDevice' = e
  /\ UNCHANGED switched
  /\ \/ /\ e \in Present
        /\ sessions' = [sessions EXCEPT ![e] = @ + 1]
        /\ UNCHANGED mishaps
     \/ UNCHANGED sessions /\ (IF e \in Present THEN Mishap ELSE UNCHANGED mishaps)

\* Mutant of OnDeviceAttached: every device is taken for one in accessory mode.
OnDeviceAttachedOpen(e) ==
  /\ aoaSwitchInProgress' = FALSE
  /\ RequestPermissionAndOpen(e)

\* Mutant of OnDeviceAttached: the switch in progress is looked at first.
OnDeviceAttachedLate(e) ==
  IF aoaSwitchInProgress
  THEN UNCHANGED <<switched, monitorVars, sessions, mishaps>>
  ELSE IF e \in aoa
       THEN /\ aoaSwitchInProgress' = FALSE
            /\ RequestPermissionAndOpen(e)
       ELSE /\ aoaSwitchInProgress' = TRUE
            /\ PerformAoaSwitch(e)

OnDeviceAttached(e) ==
  IF e \in aoa
  THEN /\ aoaSwitchInProgress' = FALSE
       /\ RequestPermissionAndOpen(e)
  ELSE IF aoaSwitchInProgress
       THEN UNCHANGED <<switched, monitorVars, sessions, mishaps>>
       ELSE /\ aoaSwitchInProgress' = TRUE
            /\ PerformAoaSwitch(e)

\* Mutant of OnDeviceDetached: only what is pending is taken away.
OnDeviceDetachedPending ==
  /\ pendingDevice' = None
  /\ sessions' = [e \in Enum |-> IF e = pendingDevice THEN 0 ELSE sessions[e]]
  /\ UNCHANGED <<switched, aoaSwitchInProgress, mishaps>>

\* Mutant of OnDeviceDetached: the switch is taken to have ended.
OnDeviceDetachedReset ==
  /\ pendingDevice' = None /\ aoaSwitchInProgress' = FALSE
  /\ sessions' = [e \in Enum |-> 0]
  /\ UNCHANGED <<switched, mishaps>>

\* Whatever device it was, every USB session is stopped.
OnDeviceDetached ==
  /\ pendingDevice' = None
  /\ sessions' = [e \in Enum |-> 0]
  /\ UNCHANGED <<switched, aoaSwitchInProgress, mishaps>>

\* start(): the receiver is registered, then the devices are listed; one that comes in
\* between is seen twice.
Register ==
  /\ place = "new" /\ place' = "registered"
  /\ UNCHANGED <<busVars, switched, news, todo, monitorVars, sessions, mishaps>>

ListDevices ==
  /\ place = "registered" /\ place' = "running"
  /\ todo' = Present
  /\ UNCHANGED <<busVars, switched, news, monitorVars, sessions, mishaps>>

LookAt(e) ==
  /\ e \in todo
  /\ todo' = todo \ {e}
  /\ OnDeviceAttached(e)
  /\ UNCHANGED <<busVars, news, place>>

OnReceive ==
  /\ place = "running" /\ todo = {} /\ news # <<>>
  /\ news' = Tail(news)
  /\ IF Head(news).what = "attached" THEN OnDeviceAttached(Head(news).dev) ELSE OnDeviceDetached
  /\ UNCHANGED <<busVars, place, todo>>

\* shutdown(): no broadcast comes any more; the sessions are left as they are.
Stop ==
  /\ place = "running" /\ todo = {} /\ Mishap
  /\ place' = "stopped" /\ news' = <<>>
  /\ UNCHANGED <<busVars, switched, todo, monitorVars, sessions>>

\* The engine reports a session's error: its device is gone, or it failed.
SessionFails(e) ==
  /\ sessions[e] > 0
  /\ sessions' = [sessions EXCEPT ![e] = @ - 1]
  /\ IF e \in Present THEN Mishap ELSE UNCHANGED mishaps
  /\ UNCHANGED <<busVars, switched, news, place, todo, monitorVars>>

-----------------------------------------------------------------------------
MainThread == Register \/ ListDevices \/ OnReceive \/ \E e \in Enum : LookAt(e)
Obeys(p) == Leave(p) \/ Return(p)

Next ==
  \/ MainThread \/ Stop
  \/ \E p \in Phone : Plug(p) \/ Unplug(p) \/ Obeys(p)
  \/ \E e \in Enum : SessionFails(e)

Spec == Init /\ [][Next]_vars

\* The main thread runs, and a phone that has accepted AOA_START does what it asks for.
FairSpec == Spec /\ WF_vars(MainThread) /\ \A p \in Phone : WF_vars(Obeys(p))

-----------------------------------------------------------------------------
TypeOK ==
  /\ bus \in [Phone -> 0 .. enums] /\ enums \in 0 .. MaxEnum /\ aoa \subseteq 1 .. enums
  /\ \A p, q \in Phone : bus[p] = bus[q] /\ bus[p] # None => p = q
  /\ switched \subseteq Phone /\ \A p \in switched : bus[p] \notin aoa
  /\ news \in Seq([what : {"attached", "detached"}, dev : 1 .. enums])
  /\ place \in {"new", "registered", "running", "stopped"} /\ todo \subseteq 1 .. enums
  /\ pendingDevice \in {None} \cup aoa /\ aoaSwitchInProgress \in BOOLEAN
  /\ sessions \in [Enum -> 0 .. 2] /\ \A e \in Enum : sessions[e] > 0 => e \in aoa
  /\ mishaps \in 0 .. MaxMishaps

\* What the application holds of a device, it gives up: a session or the pending device
\* belongs to a device that is on the bus, or whose detach is still in the queue.
HeldIsPresent ==
  place = "running" =>
    \A e \in {d \in Enum : sessions[d] > 0 \/ pendingDevice = d} :
      e \in Present \/ \E i \in 1 .. Len(news) : news[i] = [what |-> "detached", dev |-> e]

\* The next switch begins when the last has ended: two phones never leave for accessory
\* mode at once, whatever is plugged in and pulled meanwhile.  (A phone that an earlier run
\* left in accessory mode, under the first number, ends the switch of another.)
OneSwitch == 1 \notin aoa => Cardinality(switched) <= 1

\* A phone that was told to start in accessory mode comes to a session, unless a cable
\* is pulled or something fails.
SwitchLeadsToSession ==
  \A p \in Phone :
    p \in switched ~> mishaps > 0 \/ (bus[p] # None /\ sessions[bus[p]] > 0)
=============================================================================
