-------------------------------- MODULE Engine --------------------------------
(***************************************************************************)
(* The engine as the application sees it: calls of the application's       *)
(* threads are posted to the event loop, sessions go through the coarse    *)
(* phases of Lifecycle, and callbacks are posted to the main looper of the *)
(* application in the order the engine makes them (the binder calls of     *)
(* onSessionError, onPhoneIdentified and onVideoFocusChanged are           *)
(* synchronous).  Each action is one handler of the event loop.            *)
(***************************************************************************)
EXTENDS Naturals, SequencesExt

CONSTANTS
    MaxSid,          \* sessions are numbered from 1: bound on the numbers
    FocusRequests,   \* what a phone may ask of the video: TRUE for PROJECTED
    MaxTasks         \* bound: callbacks waiting when a phone asks for focus

ASSUME EngineAssumption ==
    MaxSid \in Nat \ {0} /\ MaxTasks \in Nat \ {0} /\ FocusRequests \subseteq BOOLEAN

Sid == 1..MaxSid

VARIABLES
    posted,      \* calls posted to io_context_
    session,     \* the phase of each session
    video,       \* sessions whose main video has sinks_active_
    audio,       \* sessions whose audio services have sinks_active_
    discovered,  \* history: phones that have named themselves and know the channels
    reported,    \* history: sessions whose error has been reported
    tasks        \* callbacks posted to the main looper

engineVars == <<posted, session, video, audio, discovered, reported, tasks>>

Phase == {"none", "starting", "running", "stopping", "gone"}
Live(s) == session[s] \in {"starting", "running", "stopping"}

StartCall(s) == [call |-> "start_session", sid |-> s]
StopCall(s) == [call |-> "stop_session", sid |-> s]
AttachCall(s) == [call |-> "attach_all_sinks", sid |-> s]
DetachCall(s) == [call |-> "detach_all_sinks", sid |-> s]
FocusCall(s, p) == [call |-> "set_video_focus", sid |-> s, projected |-> p]

ErrorTask(s) == [task |-> "onSessionError", sid |-> s]
IdentifiedTask(s) == [task |-> "onPhoneIdentified", sid |-> s]
FocusTask(s, p) == [task |-> "onVideoFocusChanged", sid |-> s, projected |-> p]

EngineInit ==
    /\ posted = <<>> /\ tasks = <<>>
    /\ session = [s \in Sid |-> "none"]
    /\ video = {} /\ audio = {} /\ discovered = {} /\ reported = {}

-----------------------------------------------------------------------------
\* Mutant of CleanupSession: the sinks outlive the session.
CleanupSessionOnly(s) ==
    /\ session' = [session EXCEPT ![s] = "gone"]
    /\ UNCHANGED <<video, audio>>

\* cleanup_session: the session and its services go.
CleanupSession(s) ==
    /\ session' = [session EXCEPT ![s] = "gone"]
    /\ video' = video \ {s}
    /\ audio' = audio \ {s}

\* The session reports an error and ends.
Fail(s) ==
    /\ CleanupSession(s)
    /\ reported' = reported \cup {s}
    /\ tasks' = Append(tasks, ErrorTask(s))

SetPhase(s, phase) ==
    /\ session' = [session EXCEPT ![s] = phase]
    /\ UNCHANGED <<video, audio, reported, tasks>>

\* create_session: the session is made with its TLS client and its way to send.
MakeSession(s) == SetPhase(s, "starting")

\* do_start_session: without a transport the session is never made.
DoStart(s) == MakeSession(s) \/ Fail(s)

\* Session::stop says goodbye when it is running, and is an error otherwise.
DoStop(s) ==
    \/ session[s] = "running" /\ SetPhase(s, "stopping")
    \/ session[s] \in {"starting", "stopping"} /\ Fail(s)

SetSinks(newVideo, newAudio) ==
    /\ video' = newVideo
    /\ audio' = newAudio
    /\ UNCHANGED <<session, reported, tasks>>

\* A call for a live session; one for a session that is gone does nothing.
DoCall(c) ==
    \/ c.call = "start_session" /\ DoStart(c.sid)
    \/ c.call = "stop_session" /\ DoStop(c.sid)
    \/ c.call = "attach_all_sinks" /\ Live(c.sid)
       /\ SetSinks(video \cup {c.sid}, audio \cup {c.sid})
    \/ c.call = "detach_all_sinks" /\ Live(c.sid)
       /\ SetSinks(video \ {c.sid}, audio \ {c.sid})
    \/ c.call = "set_video_focus" /\ Live(c.sid)
       /\ SetSinks(IF c.projected THEN video \cup {c.sid} ELSE video \ {c.sid}, audio)
    \/ c.call # "start_session" /\ ~Live(c.sid)
       /\ UNCHANGED <<session, video, audio, reported, tasks>>

RunCall ==
    /\ posted # <<>>
    /\ posted' = Tail(posted)
    /\ DoCall(Head(posted))
    /\ UNCHANGED discovered

-----------------------------------------------------------------------------
(* Sessions and their phones *)

Established(s) ==
    /\ session[s] = "starting"
    /\ SetPhase(s, "running")
    /\ UNCHANGED <<posted, discovered>>

\* send_service_discovery_response: the phone learns of the channels it may open.
SendServiceDiscoveryResponse(s) == discovered' = discovered \cup {s}

\* The phone's service discovery request, once in a session.
PhoneIdentified(s) ==
    /\ session[s] \in {"running", "stopping"} /\ s \notin discovered
    /\ SendServiceDiscoveryResponse(s)
    /\ tasks' = Append(tasks, IdentifiedTask(s))
    /\ UNCHANGED <<posted, session, video, audio, reported>>

\* VideoService: the phone asks for the projected or its native screen.
FocusRequested(s) ==
    /\ session[s] \in {"running", "stopping"} /\ s \in discovered
    /\ Len(tasks) < MaxTasks
    /\ \E p \in FocusRequests :
          /\ video' = IF p THEN video \cup {s} ELSE video \ {s}
          /\ tasks' = Append(tasks, FocusTask(s, p))
    /\ UNCHANGED <<posted, session, audio, discovered, reported>>

\* The phone says goodbye.
PhoneLeaves(s) ==
    /\ session[s] = "running"
    /\ SetPhase(s, "stopping")
    /\ UNCHANGED <<posted, discovered>>

\* A transport error, a protocol error, a timeout, an answered farewell.
SessionFails(s) ==
    /\ Live(s)
    /\ Fail(s)
    /\ UNCHANGED <<posted, discovered>>

\* A farewell that times out ends as Disconnected: the application only logs it.
Disconnected(s) ==
    /\ session[s] = "stopping"
    /\ CleanupSession(s)
    /\ UNCHANGED <<posted, discovered, reported, tasks>>

EngineNext ==
    \/ RunCall
    \/ \E s \in Sid : \/ Established(s) \/ PhoneIdentified(s) \/ FocusRequested(s)
                      \/ PhoneLeaves(s) \/ SessionFails(s) \/ Disconnected(s)
=============================================================================
