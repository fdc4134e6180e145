----------------------------- MODULE AppSessions -----------------------------
(***************************************************************************)
(* The application's sessions and their roles.  Three actors share the     *)
(* SessionManager: the main looper (callbacks of the engine, the user, USB *)
(* and the display's surface), the Bluetooth thread of the wireless        *)
(* coordinator, and, through the queues of Engine, the engine.             *)
(*                                                                         *)
(* Calls to the engine are queued; the media keys and audio focus sent     *)
(* with them change no state here.  An action of the main looper is a      *)
(* message run to completion, but for activateSession and                  *)
(* activateBackground, between whose two halves the Bluetooth thread may   *)
(* come.                                                                   *)
(***************************************************************************)
EXTENDS Engine

CONSTANTS
    Phone,       \* the names phones give
    MaxPosted    \* bound: calls waiting when the user acts

ASSUME AppAssumption == Phone # {} /\ MaxPosted \in Nat

VARIABLES
    phone,        \* the phone of each session to come
    nextSid,      \* next_session_id_ of the engine
    entry,        \* the state of each SessionEntry
    label,        \* its transportLabel
    named,        \* entries whose deviceName is set
    main,         \* the half of an activation that is left to do
    bt,           \* what the Bluetooth thread is doing
    surfaceLive,  \* surfaceLive
    decoder       \* videoDecoder is set

engineState == <<session, video, audio, discovered, reported>>
appVars == <<phone, nextSid, entry, label, named, main, bt, surfaceLive, decoder>>
vars == <<engineVars, appVars>>

NoSid == 0
Idle == [op |-> "idle", sid |-> NoSid]
Playing == {"ACTIVE", "BACKGROUND"}

HasAudioOrVideo(states) == \E s \in Sid : states[s] \in Playing

-----------------------------------------------------------------------------
(* Starting and stopping sessions *)

CreateSession(s, transport) ==
    /\ entry' = [entry EXCEPT ![s] = "CONNECTING"]
    /\ label' = [label EXCEPT ![s] = transport]

StopCalls(sids) == LET q == SetToSeq(sids) IN [i \in DOMAIN q |-> StopCall(q[i])]

\* removeSession, of each of sids: the decoder goes with an ACTIVE one.
RemoveSessions(sids) ==
    /\ entry' = [s \in Sid |-> IF s \in sids THEN "absent" ELSE entry[s]]
    /\ named' = named \ sids
    /\ decoder' = (decoder /\ \A s \in sids : entry[s] # "ACTIVE")

\* onDeviceReady of UsbSessionCoordinator.
UsbReady ==
    /\ main = Idle /\ nextSid <= MaxSid
    /\ posted' = Append(posted, StartCall(nextSid))
    /\ CreateSession(nextSid, "USB")
    /\ nextSid' = nextSid + 1
    /\ UNCHANGED <<engineState, tasks, phone, named, main, bt, surfaceLive, decoder>>

WithLabel(transport) == {s \in Sid : entry[s] # "absent" /\ label[s] = transport}

\* onDeviceRemoved of UsbSessionCoordinator.
UsbRemoved ==
    /\ main = Idle /\ WithLabel("USB") # {}
    /\ posted' = posted \o StopCalls(WithLabel("USB"))
    /\ RemoveSessions(WithLabel("USB"))
    /\ UNCHANGED <<engineState, tasks, phone, nextSid, label, main, bt, surfaceLive>>

\* startEngineSession of WirelessSessionCoordinator: the engine's call returns the
\* number, and only then the entry is made.
WirelessReady ==
    /\ bt.op = "idle" /\ nextSid <= MaxSid
    /\ posted' = Append(posted, StartCall(nextSid))
    /\ bt' = [op |-> "create", sids |-> {nextSid}]
    /\ nextSid' = nextSid + 1
    /\ UNCHANGED <<engineState, tasks, phone, entry, label, named, main, surfaceLive, decoder>>

WirelessCreate ==
    /\ bt.op = "create"
    /\ \E s \in bt.sids : CreateSession(s, "Wireless")
    /\ bt' = [op |-> "idle", sids |-> {}]
    /\ UNCHANGED <<engineVars, phone, nextSid, named, main, surfaceLive, decoder>>

\* onDeviceDisconnected: the wireless sessions of that moment are stopped, one by one.
WirelessDisconnected ==
    /\ bt.op = "idle" /\ WithLabel("Wireless") # {}
    /\ bt' = [op |-> "stop", sids |-> WithLabel("Wireless")]
    /\ UNCHANGED <<engineVars, phone, nextSid, entry, label, named, main, surfaceLive, decoder>>

WirelessStop(s) ==
    /\ bt.op = "stop" /\ s \in bt.sids
    /\ posted' = Append(posted, StopCall(s))
    /\ RemoveSessions({s})
    /\ bt' = IF bt.sids = {s} THEN [op |-> "idle", sids |-> {}]
             ELSE [bt EXCEPT !.sids = @ \ {s}]
    /\ UNCHANGED <<engineState, tasks, phone, nextSid, label, main, surfaceLive>>

-----------------------------------------------------------------------------
(* Roles *)

\* Mutant of Demoted: a session on the screen keeps its role.
DemotedIfBackground(states, keep) ==
    [s \in Sid |-> IF s # keep /\ states[s] = "BACKGROUND" THEN "CONNECTED" ELSE states[s]]

\* demoteOtherSessions: the entries after it, and its calls.
Demoted(states, keep) ==
    [s \in Sid |-> IF s # keep /\ states[s] \in Playing THEN "CONNECTED" ELSE states[s]]

\* Mutant of DemoteCalls: the video is taken from the phone, its sinks stay.
DemoteCallsFocusOnly(states, keep) ==
    LET q == SetToSeq({s \in Sid \ {keep} : states[s] \in Playing})
    IN  [i \in DOMAIN q |-> FocusCall(q[i], FALSE)]

DemoteCalls(states, keep) ==
    LET q == SetToSeq({s \in Sid \ {keep} : states[s] \in Playing})
    IN  [i \in 1..(2 * Len(q)) |-> IF i % 2 = 1 THEN FocusCall(q[(i + 1) \div 2], FALSE)
                                   ELSE DetachCall(q[i \div 2])]

\* The first half of activateSession and activateBackground: others are demoted.
Activate(s, role, states, calls) ==
    IF states[s] \in {"absent", "CONNECTING"}
      THEN /\ entry' = states
           /\ posted' = posted \o calls
           /\ UNCHANGED main
      ELSE /\ entry' = Demoted(states, s)
           /\ posted' = posted \o calls \o DemoteCalls(states, s)
           /\ main' = [op |-> role, sid |-> s]

Actives(states) == {s \in Sid : states[s] = "ACTIVE"}

\* onSurfaceReady: the first ACTIVE session gets the screen.
SurfaceReadyCalls(states, live) ==
    IF live /\ Actives(states) # {} THEN <<FocusCall(Min(Actives(states)), TRUE)>> ELSE <<>>

\* The second half: the sinks, the role, and the screen if it is there.
FinishActivation ==
    /\ main # Idle
    /\ entry' = IF entry[main.sid] = "absent" THEN entry
                ELSE [entry EXCEPT ![main.sid] = main.op]
    /\ posted' = posted \o <<AttachCall(main.sid)>>
                 \o IF main.op = "ACTIVE" THEN SurfaceReadyCalls(entry', surfaceLive)
                    ELSE <<>>
    /\ main' = Idle
    /\ UNCHANGED <<engineState, tasks, phone, nextSid, label, named, bt, surfaceLive, decoder>>

-----------------------------------------------------------------------------
(* Callbacks of the engine *)

\* Mutant of OnSessionError: the entry stays.
OnSessionErrorLogged(s) ==
    UNCHANGED <<posted, phone, nextSid, label, bt, surfaceLive, main, entry, named, decoder>>

OnSessionError(s) ==
    /\ RemoveSessions({s})
    /\ UNCHANGED <<posted, phone, nextSid, label, bt, surfaceLive, main>>

\* An older session of the same phone is closed; then the session is CONNECTED, and
\* activated unless another one plays.
OnPhoneIdentified(s) ==
    LET same == {e \in named \ {s} : phone[e] = phone[s]}
        old == IF same = {} THEN {} ELSE {Min(same)}
        states == [e \in Sid |-> IF e \in old \/ entry[e] = "absent" THEN "absent"
                                 ELSE IF e = s THEN "CONNECTED" ELSE entry[e]]
    IN  /\ IF HasAudioOrVideo(states)
             THEN /\ entry' = states
                  /\ posted' = posted \o StopCalls(old)
                  /\ UNCHANGED main
             ELSE Activate(s, "ACTIVE", states, StopCalls(old))
        /\ named' = (named \ old) \cup {e \in {s} : entry[e] # "absent"}
        /\ decoder' = (decoder /\ \A e \in old : entry[e] # "ACTIVE")
        /\ UNCHANGED <<phone, nextSid, label, bt, surfaceLive>>

\* Mutant of OnVideoFocusChanged: the phone's native screen changes no role.
OnVideoFocusIgnored(s, projected) == UNCHANGED <<posted, appVars>>

OnVideoFocusChanged(s, projected) ==
    /\ entry' = IF entry[s] = "absent" THEN entry
                ELSE [entry EXCEPT ![s] = IF projected THEN "ACTIVE" ELSE "BACKGROUND"]
    /\ UNCHANGED <<posted, phone, nextSid, label, named, main, bt, surfaceLive, decoder>>

RunTask ==
    /\ main = Idle /\ tasks # <<>>
    /\ tasks' = Tail(tasks)
    /\ LET t == Head(tasks)
       IN  \/ t.task = "onSessionError" /\ OnSessionError(t.sid)
           \/ t.task = "onPhoneIdentified" /\ OnPhoneIdentified(t.sid)
           \/ t.task = "onVideoFocusChanged" /\ OnVideoFocusChanged(t.sid, t.projected)
    /\ UNCHANGED engineState

-----------------------------------------------------------------------------
(* The user and the display *)

UserActs == main = Idle /\ Len(posted) <= MaxPosted

ActivateSession(s) ==
    /\ UserActs /\ entry[s] \notin {"absent", "CONNECTING"}
    /\ Activate(s, "ACTIVE", entry, <<>>)
    /\ UNCHANGED <<engineState, tasks, phone, nextSid, label, named, bt, surfaceLive, decoder>>

ActivateBackground(s) ==
    /\ UserActs /\ entry[s] \notin {"absent", "CONNECTING", "BACKGROUND"}
    /\ Activate(s, "BACKGROUND", entry, <<>>)
    /\ UNCHANGED <<engineState, tasks, phone, nextSid, label, named, bt, surfaceLive, decoder>>

\* trySendSurface: setSurface makes the decoder, then onSurfaceReady.
SurfaceCreated ==
    /\ UserActs /\ ~surfaceLive
    /\ surfaceLive' = TRUE
    /\ decoder' = TRUE
    /\ posted' = posted \o SurfaceReadyCalls(entry, TRUE)
    /\ UNCHANGED <<engineState, tasks, phone, nextSid, entry, label, named, main, bt>>

SurfaceDestroyed ==
    /\ UserActs /\ surfaceLive
    /\ surfaceLive' = FALSE
    /\ decoder' = FALSE
    /\ LET q == SetToSeq(Actives(entry))
       IN  posted' = posted \o [i \in DOMAIN q |-> FocusCall(q[i], FALSE)]
    /\ entry' = [s \in Sid |-> IF entry[s] = "ACTIVE" THEN "BACKGROUND" ELSE entry[s]]
    /\ UNCHANGED <<engineState, tasks, phone, nextSid, label, named, main, bt>>

-----------------------------------------------------------------------------
Init ==
    /\ EngineInit
    /\ phone \in [Sid -> Phone]
    /\ nextSid = 1
    /\ entry = [s \in Sid |-> "absent"]
    /\ label = [s \in Sid |-> "none"]
    /\ named = {}
    /\ main = Idle /\ bt = [op |-> "idle", sids |-> {}]
    /\ surfaceLive = FALSE /\ decoder = FALSE

Next ==
    \/ EngineNext /\ UNCHANGED appVars
    \/ UsbReady \/ UsbRemoved
    \/ WirelessReady \/ WirelessCreate \/ WirelessDisconnected
    \/ RunTask \/ FinishActivation
    \/ SurfaceCreated \/ SurfaceDestroyed
    \/ \E s \in Sid : WirelessStop(s) \/ ActivateSession(s) \/ ActivateBackground(s)

Spec == Init /\ [][Next]_vars

-----------------------------------------------------------------------------
TypeOK ==
    /\ session \in [Sid -> Phase]
    /\ entry \in [Sid -> {"absent", "CONNECTING", "CONNECTED", "BACKGROUND", "ACTIVE"}]
    /\ label \in [Sid -> {"none", "USB", "Wireless"}]
    /\ video \cup audio \subseteq {s \in Sid : Live(s)}
    /\ named \subseteq {s \in discovered : entry[s] # "absent"}
    /\ main \in {Idle} \cup [op : Playing, sid : Sid]
    /\ decoder => surfaceLive

\* Everything posted has run.
Quiet == posted = <<>> /\ tasks = <<>> /\ main = Idle /\ bt.op = "idle"

\* At most one session has the screen, whatever callbacks are late and whatever the
\* Bluetooth thread does in the middle of an activation.
SingleActive == Cardinality(Actives(entry)) <= 1

\* No session plays behind the application's back: once everything posted has run,
\* a session whose audio reaches the application is ACTIVE or BACKGROUND in it.
NoStraySinks ==
    Quiet => \A s \in audio : session[s] = "running" => entry[s] \in Playing

\* An ACTIVE session with a surface to show really sends its video, even when its
\* phone has asked for its native screen in the meantime.
ActiveIsShown ==
    Quiet /\ surfaceLive =>
        \A s \in Actives(entry) : session[s] = "running" => s \in video

\* A USB session that failed is forgotten.  (A wireless one may not be: its entry is
\* made after the engine has been told to start.)
FailedIsForgotten ==
    Quiet => \A s \in reported : label[s] = "USB" => entry[s] = "absent"

\* A decoder is there for the session on the screen.
ActiveIsDecoded == Quiet /\ surfaceLive /\ Actives(entry) # {} => decoder
=============================================================================
