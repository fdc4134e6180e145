---------------------------- MODULE MediaService ----------------------------
(***************************************************************************)
(* What the two media services share: the state of a channel, the phone    *)
(* that fills it, and what is sent back.  A phone sends what it has        *)
(* credits for, and every message handled gives one back.  Of the payload, *)
(* the model keeps the configuration and the key frame a video stream      *)
(* begins with.                                                            *)
(***************************************************************************)
EXTENDS Integers, Sequences, FiniteSets

CONSTANTS
  Credits,     \* max_unacked of the Config message
  MaxStreams,  \* bound: streams a phone starts
  MaxData,     \* bound: data messages of a stream
  MaxMishaps   \* bound: acknowledgements, frames, codecs and sessions that are lost

ASSUME MediaAssumption ==
  {Credits, MaxData} \subseteq Nat \ {0} /\ {MaxStreams, MaxMishaps} \subseteq Nat

VARIABLES
  medium,        \* "video" or "audio": which of the two services it is
  projected,     \* external: the video focus the phone was last told
  credits,       \* external: messages the phone may send
  streams,       \* external: streams the phone has started
  sent,          \* external: data of the stream under way, or NoStream
  up,            \* messages on their way to the service
  down,          \* messages on their way to the phone
  posted,        \* calls posted to the event loop
  started,       \* started_
  sinks_active,  \* sinks_active_
  binder,        \* onVideoData calls the application has still to take
  headed,        \* history: a configuration has come since the focus was gained
  headless,      \* history: data forwarded since then without one
  mishaps        \* losses so far

phoneVars == <<medium, projected, credits, streams, sent>>
serviceVars == <<started, sinks_active, binder, headed, headless>>
mediaVars == <<phoneVars, up, down, posted, serviceVars, mishaps>>

NoStream == MaxData + 1
Message(type, stream) == [type |-> type, stream |-> stream]
Mishap == mishaps < MaxMishaps /\ mishaps' = mishaps + 1

MediaInit ==
  /\ medium \in {"video", "audio"}
  /\ projected = FALSE /\ credits = 0 /\ streams = 0 /\ sent = NoStream
  /\ up = <<Message("setup", 0)>> /\ down = <<>> /\ posted = <<>>
  /\ started = FALSE /\ sinks_active = FALSE /\ binder = <<>>
  /\ headed = (medium = "audio") /\ headless = 0
  /\ mishaps = 0

-----------------------------------------------------------------------------
(***************************************************************************)
(* The phone.                                                              *)
(***************************************************************************)
PhoneReads ==
  /\ down # <<>> /\ down' = Tail(down)
  /\ credits' = CASE Head(down) = "ready" -> Credits
                  [] Head(down) = "ack" -> credits + 1
                  [] OTHER -> credits
  /\ projected' = IF Head(down) \in {"projected", "native"} THEN Head(down) = "projected" ELSE projected
  /\ IF Head(down) = "native" /\ sent # NoStream
       THEN sent' = NoStream /\ up' = Append(up, Message("stop", streams))
       ELSE UNCHANGED <<sent, up>>
  /\ UNCHANGED <<medium, streams, posted, serviceVars, mishaps>>

\* A video stream begins with its configuration, which costs a credit.
PhoneStarts ==
  /\ sent = NoStream /\ credits > 0 /\ streams < MaxStreams
  /\ medium = "video" => projected
  /\ streams' = streams + 1 /\ sent' = 0
  /\ IF medium = "video"
       THEN /\ up' = up \o <<Message("start", streams'), Message("config", streams')>>
            /\ credits' = credits - 1
       ELSE up' = Append(up, Message("start", streams')) /\ UNCHANGED credits
  /\ UNCHANGED <<medium, projected, down, posted, serviceVars, mishaps>>

PhoneSends ==
  /\ sent < MaxData /\ credits > 0
  /\ up' = Append(up, Message(IF sent = 0 THEN "key" ELSE "data", streams))
  /\ sent' = sent + 1 /\ credits' = credits - 1
  /\ UNCHANGED <<medium, projected, streams, down, posted, serviceVars, mishaps>>

PhoneStops ==
  /\ medium = "audio" /\ sent # NoStream
  /\ sent' = NoStream /\ up' = Append(up, Message("stop", streams))
  /\ UNCHANGED <<medium, projected, credits, streams, down, posted, serviceVars, mishaps>>

-----------------------------------------------------------------------------
(* What both services send. *)

\* Config, with max_unacked.
SendReady == down' = Append(down, "ready")

\* send_ack: a full write queue drops the message.
SendAck ==
  \/ down' = Append(down, "ack") /\ UNCHANGED mishaps
  \/ down' = down /\ Mishap

AttachSinks(attached) == sinks_active' = attached

-----------------------------------------------------------------------------
(* What is under way. *)

\* How many elements of q before position n are in S.
CountBefore(q, n, S) == Cardinality({i \in DOMAIN q : i < n /\ q[i] \in S})
Count(q, S) == CountBefore(q, Len(q) + 1, S)

Messages(types) == [type : types, stream : Nat]
Media == Messages({"config", "key", "data"})
=============================================================================
