---------------------------- MODULE BtProfileGate ----------------------------
(***************************************************************************)
(* The gate that keeps a phone's Bluetooth media profiles away while its   *)
(* sound comes over a wireless session.  Session threads call Block and    *)
(* Restore, the main thread runs the rest; every body is synchronized on   *)
(* the gate, so each is one step.  The Bluetooth stack is external: the    *)
(* priority it stores for A2DP_SINK, the profiles it has connected, and    *)
(* the proxies through which the application reaches them.                 *)
(***************************************************************************)
EXTENDS Naturals, Sequences, FiniteSets

CONSTANTS
  Phone  \* phones, by Bluetooth address

VARIABLES
  blocked,     \* the field of that name
  proxies,     \* the proxies that are not null, of "a2dp" and "avrcp"
  asked,       \* external: proxies the stack has still to deliver
  registered,  \* receiverRegistered
  priority,    \* external: priority of A2DP_SINK of each phone
  media,       \* external: profiles connected with each phone
  news,        \* external: phones with an undelivered "A2DP_SINK connected" broadcast
  posts,       \* phones with a re-block posted to the main handler
  missed       \* history: phones unblocked at OFF, without a proxy to set them ON

gateVars == <<blocked, proxies, asked, registered, priority, media, news, posts, missed>>
stackVars == <<asked, news, posts>>

Profile == {"a2dp", "avrcp"}

GateTypeOK ==
  /\ blocked \subseteq Phone
  /\ proxies \subseteq Profile /\ asked \subseteq Profile \ proxies
  /\ registered \in BOOLEAN
  /\ priority \in [Phone -> {"ON", "OFF"}]
  /\ media \in [Phone -> SUBSET Profile]
  /\ news \subseteq Phone /\ posts \subseteq Phone /\ missed \subseteq Phone

GateInit ==
  /\ blocked = {} /\ proxies = {} /\ asked = Profile /\ registered = TRUE
  /\ priority = [p \in Phone |-> "ON"]
  /\ media = [p \in Phone |-> Profile]
  /\ news = {} /\ posts = {} /\ missed = {}

(***************************************************************************)
(* A priority reaches the stack through the A2DP_SINK proxy only, and a    *)
(* profile is disconnected through its own; without the proxy the call     *)
(* returns and nothing is remembered.                                      *)
(***************************************************************************)
WithPriority(ps, value, via) ==
  [p \in Phone |-> IF p \in ps /\ "a2dp" \in via THEN value ELSE priority[p]]

Disconnect(ps, via) == [p \in Phone |-> IF p \in ps THEN media[p] \ via ELSE media[p]]

ApplyBlock(ps, via) ==
  /\ priority' = WithPriority(ps, "OFF", via)
  /\ media' = Disconnect(ps, via)

(***************************************************************************)
(* Calls of the session threads and of the service's end.                  *)
(***************************************************************************)
\* What becomes of the phones that leave blocked.
Unblock(ps) ==
  /\ blocked' = blocked \ ps
  /\ priority' = WithPriority(ps \cap blocked, "ON", proxies)
  /\ missed' = (missed \cup (ps \cap blocked)) \cap {p \in Phone : priority'[p] = "OFF"}

Block(p) ==
  /\ blocked' = blocked \cup {p}
  /\ ApplyBlock({p} \ blocked, proxies)
  /\ UNCHANGED <<proxies, registered, missed>> /\ UNCHANGED stackVars

Restore(p) ==
  /\ Unblock({p})
  /\ UNCHANGED <<proxies, registered, media>> /\ UNCHANGED stackVars

CloseGate ==
  /\ Unblock(Phone)
  /\ proxies' = {} /\ registered' = FALSE
  /\ UNCHANGED media /\ UNCHANGED stackVars

-----------------------------------------------------------------------------
\* Mutant of ProxyConnected: a phone that was blocked before the proxy came is left.
ProxyConnectedOnly(profile) ==
  /\ profile \in asked
  /\ asked' = asked \ {profile} /\ proxies' = proxies \cup {profile}
  /\ UNCHANGED <<blocked, registered, priority, media, news, posts, missed>>

(***************************************************************************)
(* A proxy arrives: phones blocked before it get what could not be done.   *)
(***************************************************************************)
ProxyConnected(profile) ==
  /\ profile \in asked
  /\ asked' = asked \ {profile} /\ proxies' = proxies \cup {profile}
  /\ IF profile = "a2dp"
     THEN ApplyBlock(blocked, proxies')
     ELSE media' = Disconnect(blocked, {profile}) /\ UNCHANGED priority
  /\ UNCHANGED <<blocked, registered, news, posts, missed>>

ProxyLost(profile) ==
  /\ profile \in proxies
  /\ proxies' = proxies \ {profile} /\ asked' = asked \cup {profile}
  /\ UNCHANGED <<blocked, registered, priority, media, news, posts, missed>>

(***************************************************************************)
(* A phone's media profiles connect, whoever asked for it; the broadcast   *)
(* about A2DP_SINK reaches the receiver, which posts a re-block of a phone *)
(* that is blocked then; the posted runnable looks again.                  *)
(***************************************************************************)
MediaConnect(p) ==
  /\ media[p] # Profile
  /\ media' = [media EXCEPT ![p] = Profile]
  /\ news' = news \cup {p}
  /\ UNCHANGED <<blocked, proxies, asked, registered, priority, posts, missed>>

ReceiveConnected(p) ==
  /\ p \in news
  /\ news' = news \ {p}
  /\ posts' = IF registered /\ p \in blocked THEN posts \cup {p} ELSE posts
  /\ UNCHANGED <<blocked, proxies, asked, registered, priority, media, missed>>

\* Mutant of Reblock: the posted runnable does not look again.
ReblockUnchecked(p) ==
  /\ p \in posts
  /\ posts' = posts \ {p}
  /\ ApplyBlock({p}, proxies)
  /\ UNCHANGED <<blocked, proxies, asked, registered, news, missed>>

Reblock(p) ==
  /\ p \in posts
  /\ posts' = posts \ {p}
  /\ ApplyBlock({p} \cap blocked, proxies)
  /\ UNCHANGED <<blocked, proxies, asked, registered, news, missed>>

=============================================================================
