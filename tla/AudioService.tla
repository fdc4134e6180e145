---------------------------- MODULE AudioService ----------------------------
(***************************************************************************)
(* AudioService on the event loop.  The way of the audio ends here: what a *)
(* sink does with it is left out.                                          *)
(***************************************************************************)
EXTENDS MediaService

AudioSetup == SendReady /\ UNCHANGED <<started, mishaps>>

AudioStart == started' = TRUE /\ UNCHANGED <<down, mishaps>>

\* Played by the sinks or dropped without them, it is acknowledged.
AudioData == SendAck /\ UNCHANGED started

AudioStop == started' = FALSE /\ UNCHANGED <<down, mishaps>>

AudioMessage(m) ==
  /\ \/ m.type = "setup" /\ AudioSetup
     \/ m.type = "start" /\ AudioStart
     \/ m.type \in {"key", "data"} /\ AudioData
     \/ m.type = "stop" /\ AudioStop
  /\ UNCHANGED <<sinks_active, binder, headed, headless>>

\* on_channel_close.
AudioClose == started' = FALSE
=============================================================================
