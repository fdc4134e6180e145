--------------------------- MODULE WirelessManager ---------------------------
(***************************************************************************)
(* Wireless discovery: the main thread (radio broadcasts, hotspot          *)
(* configurations, the service's end), one BluetoothWirelessManager after  *)
(* another, each with a listener thread and at most one session thread,    *)
(* the profile gate they share, and the engine's TCP port.                 *)
(*                                                                         *)
(* A replaced manager is told to stop and forgotten; its threads run on    *)
(* until they notice.  Thread.interrupt() does not end a blocking RFCOMM   *)
(* read, accept() on the TCP port has no timeout, and a configuration that *)
(* is being read cannot be recalled.                                       *)
(***************************************************************************)
EXTENDS BtProfileGate

CONSTANTS
  MaxManagers,  \* bound: managers made in a run
  MaxEvents     \* bound: radio switches, media reconnects, failed sessions, the service's end

ASSUME WirelessAssumption == {MaxManagers, MaxEvents} \subseteq Nat /\ "none" \notin Phone

Manager == 1 .. MaxManagers
None == 0

VARIABLES
  radios,       \* external: the radios that are on, of "ap" and "bt"
  events,       \* such events so far
  notices,      \* radio broadcasts the main thread has still to handle
  service,      \* whether AaService is between onCreate and onDestroy
  configs,      \* hotspot configurations being read, or read and posted
  current,      \* wirelessManager
  made,         \* managers made so far
  listen,       \* where each manager's listener thread is
  interrupted,  \* managers whose listener thread is interrupted
  server,       \* managers whose RFCOMM server socket is open
  sess,         \* where each manager's session thread is
  phone,        \* the phone of that session
  link,         \* external: managers whose phone keeps its RFCOMM link up
  sflag,        \* managers whose session thread is interrupted
  port,         \* external: the manager whose call listens on the TCP port
  entries,      \* managers whose session has an entry in SessionManager
  tracker       \* WirelessStateTracker: the phone shown, and whether it is ready

mainVars == <<radios, notices, service, configs, current, made>>
listenVars == <<listen, interrupted, server>>
sessionVars == <<sess, phone, link, sflag, port, entries, tracker>>
vars == <<events, mainVars, listenVars, sessionVars, gateVars>>

Nothing == [device |-> "none", ready |-> FALSE]

\* The hotspot's state is a sticky broadcast: registering the receiver delivers the last
\* one, and onCreate reads a configuration by itself.
Init ==
  /\ GateInit
  /\ radios = {"ap", "bt"} /\ events = 0
  /\ notices = (IF "ap" \in radios THEN <<[radio |-> "ap", on |-> TRUE]>> ELSE <<>>)
  /\ service = TRUE
  /\ configs = (IF radios = {"ap", "bt"} THEN 1 ELSE 0)
  /\ current = None /\ made = 0
  /\ listen = [m \in Manager |-> "none"] /\ interrupted = {} /\ server = {}
  /\ sess = [m \in Manager |-> "none"]
  /\ phone = [m \in Manager |-> "none"]
  /\ link = {} /\ sflag = {} /\ port = None /\ entries = {}
  /\ tracker = Nothing

-----------------------------------------------------------------------------
(***************************************************************************)
(* The main thread.  sessionThread is null again once the socket of the    *)
(* session is closed, so a stop after that interrupts nobody.              *)
(***************************************************************************)
SessionThread(m) == sess[m] \notin {"none", "restoring", "stopping"}

\* Mutant of StopManager: the server socket stays open.
StopManagerOnly(m) ==
  /\ sflag' = IF m # None /\ SessionThread(m) THEN sflag \cup {m} ELSE sflag
  /\ interrupted' = interrupted \cup ({m} \ {None})
  /\ UNCHANGED server

StopManager(m) ==
  /\ sflag' = IF m # None /\ SessionThread(m) THEN sflag \cup {m} ELSE sflag
  /\ interrupted' = interrupted \cup ({m} \ {None})
  /\ server' = server \ {m}

RadioSwitched(r) ==
  LET on == r \notin radios IN
  /\ radios' = IF on THEN radios \cup {r} ELSE radios \ {r}
  /\ notices' = IF service THEN Append(notices, [radio |-> r, on |-> on]) ELSE notices
  /\ link' = IF r = "bt" /\ ~on THEN {} ELSE link
  /\ media' = IF r = "bt" /\ ~on THEN [p \in Phone |-> {}] ELSE media
  /\ UNCHANGED <<service, configs, current, made, listenVars, sess, phone, sflag, port,
                 entries, tracker, blocked, proxies, priority, registered, missed, stackVars>>

\* Radio on: a configuration is read if both are on now; off: the listener stops.
RadioNotice ==
  /\ notices # <<>>
  /\ notices' = Tail(notices)
  /\ IF Head(notices).on
     THEN /\ configs' = IF radios = {"ap", "bt"} THEN configs + 1 ELSE configs
          /\ UNCHANGED <<current, listenVars, sflag>>
     ELSE /\ StopManager(current)
          /\ current' = None
          /\ UNCHANGED <<configs, listen>>
  /\ UNCHANGED <<radios, service, made, sess, phone, link, port, entries, tracker,
                 gateVars>>

\* The configuration's callback looks at nothing: not at the radios, not at the service.
ConfigReady ==
  /\ configs > 0 /\ made < MaxManagers
  /\ configs' = configs - 1
  /\ StopManager(current)
  /\ made' = made + 1 /\ current' = made + 1
  /\ listen' = [listen EXCEPT ![made + 1] = "opening"]
  /\ UNCHANGED <<radios, notices, service, sess, phone, link, port, entries,
                 tracker, gateVars>>

\* onDestroy: the handler's messages and the receivers go, the coordinator shuts down.
Destroy ==
  /\ service
  /\ service' = FALSE /\ notices' = <<>>
  /\ StopManager(current) /\ current' = None
  /\ CloseGate
  /\ tracker' = Nothing
  /\ UNCHANGED <<radios, configs, made, listen, sess, phone, link, port, entries>>

MainThread ==
  \/ RadioNotice \/ ConfigReady
  \/ /\ \/ \E p \in Phone : ReceiveConnected(p) \/ Reblock(p)
        \/ "bt" \in radios /\ \E profile \in Profile : ProxyConnected(profile)
        \/ "bt" \notin radios /\ \E profile \in Profile : ProxyLost(profile)
     /\ UNCHANGED <<mainVars, listenVars, sessionVars>>

-----------------------------------------------------------------------------
(***************************************************************************)
(* The listener thread of a manager.                                       *)
(***************************************************************************)
ListenGoes(m, place) == listen' = [listen EXCEPT ![m] = place]

Open(m) ==
  /\ listen[m] = "opening"
  /\ \/ /\ "bt" \in radios
        /\ server' = server \cup {m} /\ ListenGoes(m, "testing")
     \/ UNCHANGED server /\ ListenGoes(m, "done")     \* no Bluetooth, or no socket
  /\ UNCHANGED <<mainVars, interrupted, sessionVars, gateVars>>

LeaveLoop(m) ==
  /\ ListenGoes(m, "done") /\ server' = server \ {m}
  /\ UNCHANGED <<mainVars, interrupted, sessionVars, gateVars>>

Test(m) ==
  /\ listen[m] = "testing"
  /\ IF m \in interrupted
     THEN LeaveLoop(m)
     ELSE /\ ListenGoes(m, "calling")
          /\ UNCHANGED <<mainVars, interrupted, server, sessionVars, gateVars>>

\* serverSocket is read again after the test: a stop in between has made it null, and
\* the exception is not an IOException.
Call(m) ==
  /\ listen[m] = "calling"
  /\ ListenGoes(m, IF m \in server THEN "accepting" ELSE "crashed")
  /\ UNCHANGED <<mainVars, interrupted, server, sessionVars, gateVars>>

\* A phone connects.  The session thread of this manager has been joined, so the test
\* that would reject a second connection never succeeds.
Accept(m, p) ==
  /\ listen[m] = "accepting" /\ m \in server /\ "bt" \in radios
  /\ \A n \in link : phone[n] # p
  /\ tracker' = [device |-> p, ready |-> FALSE]
  /\ sess' = [sess EXCEPT ![m] = "handshake"]
  /\ phone' = [phone EXCEPT ![m] = p]
  /\ link' = link \cup {m}
  /\ ListenGoes(m, "joining")
  /\ UNCHANGED <<mainVars, interrupted, server, sflag, port, entries, gateVars>>

AcceptFails(m) ==
  /\ listen[m] = "accepting"
  /\ m \notin server \/ "bt" \notin radios
  /\ LeaveLoop(m)

Join(m) ==
  /\ listen[m] = "joining"
  /\ \/ m \in interrupted /\ LeaveLoop(m)
     \/ /\ sess[m] = "none" /\ m \notin interrupted
        /\ ListenGoes(m, "testing")
        /\ UNCHANGED <<mainVars, interrupted, server, sessionVars, gateVars>>

Listener(m) == Open(m) \/ Test(m) \/ Call(m) \/ AcceptFails(m) \/ Join(m)

-----------------------------------------------------------------------------
(***************************************************************************)
(* The session thread of a manager.                                        *)
(***************************************************************************)
SessionGoes(m, place) == sess' = [sess EXCEPT ![m] = place]
SessionOnly == UNCHANGED <<mainVars, listenVars>>

\* The socket is closed and sessionThread is null; the listener's callback follows.
Ends(m) == SessionGoes(m, "restoring") /\ link' = link \ {m}

\* The messages of the handshake, up to START_RESPONSE: accepted, or refused, or the
\* link is gone.
Handshake(m) ==
  /\ sess[m] = "handshake"
  /\ \/ m \in link /\ SessionGoes(m, "ready") /\ UNCHANGED <<link, tracker>>
     \/ Ends(m) /\ tracker' = Nothing
  /\ SessionOnly /\ UNCHANGED <<phone, sflag, port, entries, gateVars>>

DeviceReady(m) ==
  /\ sess[m] = "ready"
  /\ tracker' = [device |-> phone[m], ready |-> TRUE]
  /\ Block(phone[m])
  /\ SessionGoes(m, "starting")
  /\ SessionOnly /\ UNCHANGED <<phone, link, sflag, port, entries>>

\* startTcpSession: a second socket cannot be bound while one listens; no engine, or no
\* socket, and the thread goes on without a session.
StartTcpSession(m) ==
  /\ sess[m] = "starting"
  /\ \/ port = None /\ port' = m /\ SessionGoes(m, "joined")
     \/ UNCHANGED port /\ SessionGoes(m, "keepalive")
  /\ SessionOnly /\ UNCHANGED <<phone, link, sflag, entries, tracker, gateVars>>

\* A phone comes over the hotspot: the engine starts a session and it gets an entry, or
\* the engine refuses.
TcpAccepted(m) ==
  /\ sess[m] = "joined" /\ "ap" \in radios
  /\ port' = None
  /\ entries' \in {entries, entries \cup {m}}
  /\ SessionGoes(m, "keepalive")
  /\ SessionOnly /\ UNCHANGED <<phone, link, sflag, tracker, gateVars>>

\* Mutant of KeepAlive: the end of the stream is taken for control data.
KeepAliveIgnoresEnd(m) ==
  /\ sess[m] = "keepalive"
  /\ IF m \in sflag THEN Ends(m) ELSE SessionGoes(m, "reading") /\ UNCHANGED link
  /\ SessionOnly /\ UNCHANGED <<phone, sflag, port, entries, tracker, gateVars>>

\* waitForRfcommClose tests the interrupt flag, then blocks in read() until data or the
\* end of the stream.
KeepAlive(m) ==
  /\ \/ /\ sess[m] = "keepalive"
        /\ IF m \in sflag THEN Ends(m) ELSE SessionGoes(m, "reading") /\ UNCHANGED link
     \/ sess[m] = "reading" /\ m \notin link /\ Ends(m)
  /\ SessionOnly /\ UNCHANGED <<phone, sflag, port, entries, tracker, gateVars>>

ControlData(m) ==
  /\ sess[m] = "reading" /\ m \in link /\ m \in sflag
  /\ SessionGoes(m, "keepalive")
  /\ SessionOnly /\ UNCHANGED <<phone, link, sflag, port, entries, tracker, gateVars>>

\* Mutant of RestoreProfiles: the tracker is left to the listener.
RestoreProfilesOnly(m) ==
  /\ sess[m] = "restoring"
  /\ Restore(phone[m])
  /\ SessionGoes(m, "stopping")
  /\ SessionOnly /\ UNCHANGED <<phone, link, sflag, port, entries, tracker>>

RestoreProfiles(m) ==
  /\ sess[m] = "restoring"
  /\ Restore(phone[m])
  /\ tracker' = Nothing
  /\ SessionGoes(m, "stopping")
  /\ SessionOnly /\ UNCHANGED <<phone, link, sflag, port, entries>>

\* Mutant of StopSessions: the sessions are stopped before the thread has ended.
StopSessionsKeepPhone(m) ==
  /\ sess[m] = "stopping"
  /\ entries' = {} /\ sflag' = sflag \ {m}
  /\ SessionGoes(m, "none")
  /\ SessionOnly /\ UNCHANGED <<phone, link, port, tracker, gateVars>>

\* Mutant of StopSessions: only a tracked phone has its sessions stopped.
StopSessionsIfTracked(m) ==
  /\ sess[m] = "stopping"
  /\ entries' = IF tracker.device = phone[m] THEN {} ELSE entries
  /\ SessionGoes(m, "none") /\ phone' = [phone EXCEPT ![m] = "none"]
  /\ sflag' = sflag \ {m}
  /\ SessionOnly /\ UNCHANGED <<link, port, tracker, gateVars>>

\* Every session of the transport is stopped, another manager's among them.
StopSessions(m) ==
  /\ sess[m] = "stopping"
  /\ entries' = {}
  /\ SessionGoes(m, "none") /\ phone' = [phone EXCEPT ![m] = "none"]
  /\ sflag' = sflag \ {m}
  /\ SessionOnly /\ UNCHANGED <<link, port, tracker, gateVars>>

SessionSteps(m) ==
  \/ Handshake(m) \/ DeviceReady(m) \/ StartTcpSession(m)
  \/ KeepAlive(m) \/ RestoreProfiles(m) \/ StopSessions(m)

-----------------------------------------------------------------------------
(***************************************************************************)
(* The phones, the radios, the engine.                                     *)
(***************************************************************************)
PhoneCloses(m) ==
  /\ link' = link \ {m} /\ link' # link
  /\ UNCHANGED <<mainVars, listenVars, sess, phone, sflag, port, entries, tracker, gateVars>>

SessionFails(m) ==
  /\ entries' = entries \ {m} /\ entries' # entries
  /\ UNCHANGED <<mainVars, listenVars, sess, phone, link, sflag, port, tracker, gateVars>>

RareEvent ==
  \/ Destroy
  \/ \E r \in {"ap", "bt"} : RadioSwitched(r)
  \/ \E m \in Manager : SessionFails(m)
  \/ /\ "bt" \in radios /\ \E p \in Phone : MediaConnect(p)
     /\ UNCHANGED <<mainVars, listenVars, sessionVars>>

Environment ==
  \/ \E m \in Manager : PhoneCloses(m) \/ ControlData(m) \/ TcpAccepted(m)
  \/ \E m \in Manager, p \in Phone : Accept(m, p)

Next ==
  \/ events < MaxEvents /\ events' = events + 1 /\ RareEvent
  \/ /\ \/ MainThread \/ Environment
        \/ \E m \in Manager : Listener(m) \/ SessionSteps(m)
     /\ UNCHANGED events

Spec == Init /\ [][Next]_vars

\* Threads run; nobody owes a phone, a radio or the user anything.
FairSpec ==
  /\ Spec
  /\ \A m \in Manager : WF_vars(Listener(m) /\ UNCHANGED events)
                        /\ WF_vars(SessionSteps(m) /\ UNCHANGED events)

-----------------------------------------------------------------------------
TypeOK ==
  /\ GateTypeOK
  /\ radios \subseteq {"ap", "bt"} /\ events \in 0 .. MaxEvents /\ service \in BOOLEAN
  /\ notices \in Seq([radio : {"ap", "bt"}, on : BOOLEAN])
  /\ configs \in 0 .. MaxEvents + 2
  /\ made \in 0 .. MaxManagers /\ current \in {None} \cup 1 .. made
  /\ \A m \in Manager : listen[m] = "none" <=> m > made
  /\ interrupted \subseteq 1 .. made /\ server \subseteq {m \in 1 .. made : listen[m] # "done"}
  /\ port # None => sess[port] = "joined"
  /\ \A m \in Manager : phone[m] \in Phone <=> sess[m] # "none"
  /\ link \subseteq {m \in Manager : sess[m] \notin {"none", "restoring", "stopping"}}

Alive(m) == sess[m] \notin {"none", "handshake", "ready"}

\* The priority of a phone's A2DP_SINK is OFF only while a session thread has it blocked,
\* whatever managers replace one another, broadcasts are late, and re-blocks are posted
\* when the session ends; and, but for that, when Bluetooth was gone at its end.
PriorityFollowsSession ==
  \A p \in Phone \ missed : priority[p] = "OFF" =>
    \E m \in Manager : phone[m] = p /\ Alive(m)

\* While the gate watches, A2DP_SINK does not stay connected with a blocked phone: it is
\* about to be disconnected, even when the proxy came after the session.
BlockedIsQuiet ==
  \A p \in blocked :
    registered /\ "a2dp" \in proxies /\ "a2dp" \in media[p] => p \in news \cup posts

\* No wireless session outlives the RFCOMM thread that started it, even when that
\* thread's manager has been replaced or a session ended in the middle of another's start.
NoOrphanSession ==
  \A m \in entries : Alive(m)

\* The phone shown as connected or connecting is one whose session thread runs.
ShownIsConnected ==
  tracker.device # "none" =>
    \E m \in Manager : phone[m] = tracker.device /\ sess[m] \notin {"none", "stopping"}

\* A manager that has been stopped ends its listener, wherever it was.
StoppedEnds ==
  \A m \in Manager : m \in interrupted ~> listen[m] \in {"done", "crashed"}

\* A link that ends while its thread reads ends the session, interrupted or not.
LinkEndsSession ==
  \A m \in Manager : sess[m] = "reading" /\ m \notin link ~> sess[m] = "none"

\* For a device's priority the gate says: OFF while its wireless session is alive, and
\* restored after.  Nobody holds a phone at OFF that no session thread knows.
RestoredAfterSession ==
  (\A m \in Manager : sess[m] = "none") => \A p \in Phone : priority[p] = "ON"
=============================================================================
