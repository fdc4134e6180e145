---------------------------- MODULE VideoService ----------------------------
(***************************************************************************)
(* VideoService of the main display, on the event loop: what it makes of   *)
(* the phone's messages and of the calls of the engine.                    *)
(***************************************************************************)
EXTENDS MediaService

\* The message goes through the sink and the controller to the application, whose buffer of
\* oneway calls may be full: nobody looks at the result of the call.
Deliver(m) ==
  \/ binder' = Append(binder, m) /\ SendAck
  \/ binder' = binder /\ Mishap /\ down' = Append(down, "ack")

VideoSetup == SendReady /\ UNCHANGED <<serviceVars, mishaps>>

VideoStart == started' = TRUE /\ UNCHANGED <<sinks_active, binder, headed, headless, down, mishaps>>

\* A configuration goes to the sinks even when they are detached.
VideoCodecConfig(m) ==
  /\ Deliver(m) /\ headed' = TRUE
  /\ UNCHANGED <<started, sinks_active, headless>>

CountHeadless == headless' = IF headed THEN headless ELSE headless + 1

\* Mutant of VideoData: what is dropped is not acknowledged.
VideoDataDropped(m) ==
  /\ IF started /\ sinks_active
       THEN Deliver(m) /\ CountHeadless
       ELSE UNCHANGED <<down, mishaps, binder, headless>>
  /\ UNCHANGED <<started, sinks_active, headed>>

VideoData(m) ==
  /\ IF started /\ sinks_active
       THEN Deliver(m) /\ CountHeadless
       ELSE SendAck /\ UNCHANGED <<binder, headless>>
  /\ UNCHANGED <<started, sinks_active, headed>>

\* A stop is only logged.
VideoStop == UNCHANGED <<serviceVars, down, mishaps>>

VideoMessage(m) ==
  \/ m.type = "setup" /\ VideoSetup
  \/ m.type = "start" /\ VideoStart
  \/ m.type = "config" /\ VideoCodecConfig(m)
  \/ m.type \in {"key", "data"} /\ VideoData(m)
  \/ m.type = "stop" /\ VideoStop

\* on_channel_close.
VideoClose == started' = FALSE

\* Mutant of SetVideoFocus: the phone is told of a focus it gains, not of one it loses.
SetVideoFocusGained(gain) ==
  /\ AttachSinks(gain)
  /\ IF gain THEN down' = Append(down, "projected") /\ headed' = FALSE /\ headless' = 0
     ELSE UNCHANGED <<down, headed, headless>>

SetVideoFocus(gain) ==
  /\ AttachSinks(gain)
  /\ down' = Append(down, IF gain THEN "projected" ELSE "native")
  /\ IF gain THEN headed' = FALSE /\ headless' = 0 ELSE UNCHANGED <<headed, headless>>
=============================================================================
