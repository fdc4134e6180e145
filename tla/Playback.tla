------------------------------ MODULE Playback ------------------------------
(***************************************************************************)
(* A media channel with its service, VideoService or AudioService, and the *)
(* way of a video stream from the phone to the display: the service, then  *)
(* the binder thread of the application that takes the frames one by one   *)
(* (PlaybackController and VideoDecoder), against the main thread, which   *)
(* makes and drops decoders as the surface comes and goes, activates and   *)
(* demotes the session, and ends it.                                       *)
(*                                                                         *)
(* A decoder is named by the surface it was made for: a decoder is made    *)
(* once for a surface.  Methods of VideoDecoder are synchronized and so    *)
(* one step; the field videoDecoder is read by no lock, once for each use. *)
(***************************************************************************)
EXTENDS VideoService, AudioService

CONSTANTS
  MaxSurfaces,  \* bound: surfaces made
  MaxActs       \* bound: activations

ASSUME PlaybackAssumption == {MaxSurfaces, MaxActs} \subseteq Nat

Surface == 1 .. MaxSurfaces
None == 0

VARIABLES
  surfaces,      \* surfaces made so far
  surface,       \* the surface that is alive, or None
  videoDecoder,  \* field of PlaybackController: the surface of its decoder, or None
  codec,         \* of each decoder: "closed", or what its codec has been fed
  active,        \* the session is ACTIVE
  acts,          \* activations so far
  main,          \* what the main thread has still to do
  taker          \* the binder thread: its step, its frame and the decoder it has read

appVars == <<surfaces, surface, videoDecoder, codec, active, acts, main, taker>>
vars == <<mediaVars, appVars>>

Idle == [at |-> "idle", frame |-> Message("none", 0), decoder |-> None]
Fed(what, stream) == [state |-> what, stream |-> stream]
Closed == Fed("closed", 0)
Empty == Fed("empty", 0)

Init ==
  /\ MediaInit
  /\ surfaces = 0 /\ surface = None /\ videoDecoder = None
  /\ codec = [d \in Surface |-> Closed]
  /\ active = FALSE /\ acts = 0 /\ main = "idle" /\ taker = Idle

-----------------------------------------------------------------------------
(***************************************************************************)
(* The event loop: a message of the channel, a call of the application.    *)
(***************************************************************************)
HandleMessage ==
  /\ up # <<>> /\ up' = Tail(up)
  /\ IF medium = "video" THEN VideoMessage(Head(up)) ELSE AudioMessage(Head(up))
  /\ UNCHANGED <<phoneVars, posted>>

\* AudioService takes no part in the video focus.
RunCall ==
  /\ posted # <<>> /\ posted' = Tail(posted)
  /\ LET call == Head(posted)
     IN  \/ call \in {"focus", "unfocus"} /\ medium = "video" /\ SetVideoFocus(call = "focus")
         \/ call \in {"focus", "unfocus"} /\ medium = "audio"
            /\ UNCHANGED <<sinks_active, headed, headless, down>>
         \/ call \in {"attach", "detach"} /\ AttachSinks(call = "attach")
            /\ UNCHANGED <<headed, headless, down>>
  /\ UNCHANGED <<phoneVars, up, started, binder, mishaps>>

-----------------------------------------------------------------------------
(***************************************************************************)
(* The binder thread: onVideoData.                                         *)
(***************************************************************************)

\* if (videoDecoder == null) return; the field is read again for open().
TakeFrame ==
  /\ taker = Idle /\ binder # <<>>
  /\ binder' = Tail(binder)
  /\ taker' = IF videoDecoder = None THEN Idle
              ELSE [at |-> "open", frame |-> Head(binder), decoder |-> videoDecoder]
  /\ UNCHANGED <<phoneVars, up, down, posted, started, sinks_active, headed, headless, mishaps,
                 surfaces, surface, videoDecoder, codec, active, acts, main>>

Feeding == [taker EXCEPT !.at = "feed", !.decoder = None]

\* A codec may not open; the next frame tries again.
OpenDecoder ==
  /\ taker.at = "open"
  /\ LET d == taker.decoder
     IN  \/ codec[d] # Closed /\ taker' = Feeding /\ UNCHANGED <<codec, mishaps>>
         \/ /\ codec[d] = Closed /\ d = surface
            /\ \/ /\ codec' = [codec EXCEPT ![d] = Empty]
                  /\ taker' = Feeding
                  /\ UNCHANGED mishaps
               \/ Mishap /\ taker' = Idle /\ UNCHANGED codec
         \/ codec[d] = Closed /\ d # surface /\ taker' = Idle /\ UNCHANGED <<codec, mishaps>>
  /\ UNCHANGED <<phoneVars, up, down, posted, serviceVars,
                 surfaces, surface, videoDecoder, active, acts, main>>

\* What a codec makes of a frame: a key frame is worth nothing without its configuration.
Decoded(before, frame) ==
  CASE frame.type = "config" -> Fed("configured", frame.stream)
    [] frame.type = "key" /\ before = Fed("configured", frame.stream) -> Fed("playing", frame.stream)
    [] OTHER -> before

\* The field is read again: null is an exception that ends the call, and another decoder
\* has no codec yet.  A codec may have no input buffer in 10 ms, or fail and be released.
FeedData ==
  /\ taker.at = "feed" /\ taker' = Idle
  /\ LET d == videoDecoder
     IN  IF d = None \/ codec[d] = Closed THEN UNCHANGED <<codec, mishaps>>
         ELSE \/ codec' = [codec EXCEPT ![d] = Decoded(@, taker.frame)] /\ UNCHANGED mishaps
              \/ Mishap /\ codec' \in {codec, [codec EXCEPT ![d] = Closed]}
  /\ UNCHANGED <<phoneVars, up, down, posted, serviceVars,
                 surfaces, surface, videoDecoder, active, acts, main>>

-----------------------------------------------------------------------------
(***************************************************************************)
(* The main thread.                                                        *)
(***************************************************************************)
OnSurfaceReady(live, isActive) == IF live # None /\ isActive THEN <<"focus">> ELSE <<>>

\* (An audio channel is looked at without a display.)
SurfaceCreated ==
  /\ medium = "video"
  /\ main = "idle" /\ surface = None /\ surfaces < MaxSurfaces
  /\ surfaces' = surfaces + 1 /\ surface' = surfaces + 1
  /\ videoDecoder' = surfaces + 1
  /\ posted' = posted \o OnSurfaceReady(surface', active)
  /\ UNCHANGED <<phoneVars, up, down, serviceVars, mishaps, codec, active, acts, main, taker>>

\* setSurface(null) and clearSessionPlayback: the decoder is released, then forgotten.
ReleaseDecoder(next) ==
  /\ main = "idle" /\ main' = next
  /\ codec' = IF videoDecoder = None THEN codec ELSE [codec EXCEPT ![videoDecoder] = Closed]
  /\ UNCHANGED <<phoneVars, up, down, posted, serviceVars,
                 surfaces, surface, videoDecoder, active, acts, taker>>

\* Mutant of SurfaceDestroyed: the decoder is kept for the next surface.
SurfaceDestroyedOnly ==
  /\ main = "destroy" /\ main' = "idle"
  /\ surface' = None
  /\ posted' = IF active THEN Append(posted, "unfocus") ELSE posted
  /\ active' = FALSE
  /\ UNCHANGED <<phoneVars, up, down, serviceVars, mishaps, surfaces, videoDecoder, codec, acts, taker>>

\* The ACTIVE session falls to BACKGROUND with its surface.
SurfaceDestroyed ==
  /\ main = "destroy" /\ main' = "idle"
  /\ videoDecoder' = None /\ surface' = None
  /\ posted' = IF active THEN Append(posted, "unfocus") ELSE posted
  /\ active' = FALSE
  /\ UNCHANGED <<phoneVars, up, down, serviceVars, mishaps, surfaces, codec, acts, taker>>

\* removeSession of the ACTIVE session, whose services are closed with it.
SessionEnds ==
  /\ main = "remove" /\ main' = "ended"
  /\ videoDecoder' = None
  /\ active' = FALSE
  /\ up' = <<>> /\ down' = <<>> /\ posted' = <<>>
  /\ IF medium = "video" THEN VideoClose ELSE AudioClose
  /\ UNCHANGED <<phoneVars, sinks_active, binder, headed, headless, mishaps, surfaces, surface, codec, acts, taker>>

\* Mutant of ActivateSession: the focus is left to the surface, which is there already.
ActivateSessionAttach ==
  /\ main = "idle" /\ ~active /\ acts < MaxActs
  /\ acts' = acts + 1 /\ active' = TRUE
  /\ posted' = Append(posted, "attach")
  /\ UNCHANGED <<phoneVars, up, down, serviceVars, mishaps,
                 surfaces, surface, videoDecoder, codec, main, taker>>

ActivateSession ==
  /\ main = "idle" /\ ~active /\ acts < MaxActs
  /\ acts' = acts + 1 /\ active' = TRUE
  /\ posted' = posted \o <<"attach">> \o OnSurfaceReady(surface, TRUE)
  /\ UNCHANGED <<phoneVars, up, down, serviceVars, mishaps,
                 surfaces, surface, videoDecoder, codec, main, taker>>

\* demoteOtherSessions, when another one is activated.
Demote ==
  /\ main = "idle" /\ active
  /\ active' = FALSE
  /\ posted' = posted \o <<"unfocus", "detach">>
  /\ UNCHANGED <<phoneVars, up, down, serviceVars, mishaps,
                 surfaces, surface, videoDecoder, codec, acts, main, taker>>

-----------------------------------------------------------------------------
InSession == main # "ended"
Phone == InSession /\ (PhoneStarts \/ PhoneSends)
EventLoop == InSession /\ (HandleMessage \/ RunCall)
BinderThread == TakeFrame \/ OpenDecoder \/ FeedData
MainThread == SurfaceDestroyed \/ SessionEnds

Next ==
  \/ (Phone \/ (InSession /\ (PhoneReads \/ PhoneStops)) \/ EventLoop) /\ UNCHANGED appVars
  \/ BinderThread \/ MainThread
  \/ SurfaceCreated \/ ActivateSession \/ Demote
  \/ surface # None /\ ReleaseDecoder("destroy") /\ UNCHANGED mishaps
  \/ active /\ ReleaseDecoder("remove") /\ Mishap

Spec == Init /\ [][Next]_vars

\* The event loop and the two threads run; a phone reads what it is sent and fills the
\* stream it may fill.
FairSpec ==
  /\ Spec
  /\ WF_vars(InSession /\ PhoneReads /\ UNCHANGED appVars)
  /\ WF_vars(Phone /\ UNCHANGED appVars)
  /\ WF_vars(InSession /\ HandleMessage /\ UNCHANGED appVars)
  /\ WF_vars(InSession /\ RunCall /\ UNCHANGED appVars)
  /\ WF_vars(BinderThread) /\ WF_vars(MainThread)

-----------------------------------------------------------------------------
TypeOK ==
  /\ medium \in {"video", "audio"} /\ projected \in BOOLEAN
  /\ credits \in 0 .. Credits /\ streams \in 0 .. MaxStreams /\ sent \in 0 .. NoStream
  /\ {up[i].type : i \in DOMAIN up} \subseteq {"setup", "start", "config", "key", "data", "stop"}
  /\ down \in Seq({"ready", "ack", "projected", "native"})
  /\ posted \in Seq({"focus", "unfocus", "attach", "detach"})
  /\ {started, sinks_active, active} \subseteq BOOLEAN
  /\ {binder[i].type : i \in DOMAIN binder} \subseteq {"config", "key", "data"}
  /\ (medium = "audio" => binder = <<>>) /\ mishaps \in 0 .. MaxMishaps
  /\ surface \in {None, surfaces} /\ videoDecoder \in {None, surface}
  /\ main \in {"idle", "destroy", "remove", "ended"}
  /\ taker.at \in {"idle", "open", "feed"}

\* No credit is lost or made up: what the phone may send, what is under way and what is
\* on its way back are max_unacked together, whatever is dropped for want of sinks, but for
\* acknowledgements the write queue dropped.
CreditsKept ==
  LET held == credits + Count(up, Media) + Count(down, {"ack"})
      unready == Count(up, Messages({"setup"})) + Count(down, {"ready"})
  IN  InSession => held + Credits * unready \in Credits - mishaps .. Credits

\* After a change of surfaces the stream of the old one is forwarded to the new decoder
\* until the phone starts again, and never more of it than max_unacked frames.
HeadlessBounded == medium = "video" => headless <= Credits

\* A session that is ACTIVE while its surface stays is shown: the decoder gets the
\* configuration and the key frame of a stream, unless something is lost on the way.
ShownInTheEnd ==
  \A s \in Surface :
    medium = "video" /\ active /\ surface = s
      ~> \/ ~active \/ surface # s \/ main # "idle" \/ mishaps > 0
         \/ codec[s].state = "playing"

\* A codec belongs to the decoder that is in use, or to one that is being dropped.
NoOrphanCodec == \A d \in Surface : codec[d] # Closed => d = videoDecoder
=============================================================================
