--------------------------- MODULE ControlService ---------------------------
(***************************************************************************)
(* The control channel's heartbeat and close trigger (ControlService.cpp). *)
(* Time is counted in ticks; a timer holds the ticks left before its       *)
(* deadline.  A timer whose deadline has passed is collected by the event  *)
(* loop, and from then on cancel() no longer reaches its handler.          *)
(***************************************************************************)
EXTENDS Integers

CONSTANTS
    PingInterval,     \* kPingIntervalMs, in ticks
    PingTimeout       \* kPingTimeoutMs, in ticks

ASSUME PingAssumption == /\ PingInterval \in Nat \ {0}
                         /\ PingTimeout \in Nat \ {0}

VARIABLES
    hb,               \* heartbeat_timer_: ticks left, or NotArmed
    hbDue,            \* the collected heartbeat handler has not run yet
    running,          \* running_
    pongAge,          \* ticks since last_pong_ns_ (counted up to PingTimeout + 1)
    closeTriggered    \* close_triggered_

controlVars == <<hb, hbDue, running, pongAge, closeTriggered>>

NotArmed == -1

ControlTypeOK ==
    /\ hb \in NotArmed..PingInterval
    /\ hbDue \in BOOLEAN
    /\ running \in BOOLEAN
    /\ pongAge \in 0..(PingTimeout + 1)
    /\ closeTriggered \in BOOLEAN

\* Mutant of ControlInit: the heartbeat waits for the phone to open channel 0.
ControlInitIdle ==
    /\ hb = NotArmed
    /\ hbDue = FALSE
    /\ running = TRUE
    /\ pongAge = 0
    /\ closeTriggered = FALSE

\* Engine::create_control_service opens channel 0 when it makes the service.
ControlInit ==
    /\ hb = PingInterval
    /\ hbDue = FALSE
    /\ running = TRUE
    /\ pongAge = 0
    /\ closeTriggered = FALSE

OnChannelOpen ==
    /\ hb' = PingInterval
    /\ running' = TRUE
    /\ pongAge' = 0
    /\ closeTriggered' = FALSE
    /\ UNCHANGED hbDue

OnChannelClose ==
    /\ running' = FALSE
    /\ hb' = NotArmed
    /\ UNCHANGED <<hbDue, pongAge, closeTriggered>>

OnPong ==
    /\ pongAge' = 0
    /\ UNCHANGED <<hb, hbDue, running, closeTriggered>>

\* The event loop collects the expired timer.
CollectHeartbeat ==
    /\ hb = 0
    /\ hb' = NotArmed
    /\ hbDue' = TRUE
    /\ UNCHANGED <<running, pongAge, closeTriggered>>

\* elapsed_ms > kPingTimeoutMs: certain once the tick after the limit is
\* counted, and possible at the limit itself, as the handler runs a little late.
Overdue(verdict) == /\ verdict \in BOOLEAN
                    /\ pongAge < PingTimeout => ~verdict
                    /\ pongAge > PingTimeout => verdict

\* Mutant of Heartbeat: the timer is not scheduled again.
HeartbeatOnce(overdue) ==
    /\ Overdue(overdue)
    /\ hbDue' = FALSE
    /\ closeTriggered' = (closeTriggered \/ overdue)
    /\ UNCHANGED <<hb, running, pongAge>>

\* on_heartbeat_timer of a running service, after its ping: it gives up on a
\* phone that is overdue, and otherwise schedules the next heartbeat.
Heartbeat(overdue) ==
    /\ Overdue(overdue)
    /\ hb' = IF overdue THEN hb ELSE PingInterval
    /\ hbDue' = FALSE
    /\ closeTriggered' = (closeTriggered \/ overdue)
    /\ UNCHANGED <<running, pongAge>>

\* on_heartbeat_timer of a service closed in the meantime.
SkipHeartbeat ==
    /\ hbDue' = FALSE
    /\ UNCHANGED <<hb, running, pongAge, closeTriggered>>

\* trigger_session_close, but for the callback: Session.tla posts the stop.
TriggerClose ==
    /\ closeTriggered' = TRUE
    /\ UNCHANGED <<hb, hbDue, running, pongAge>>

\* The clock, for this service: one tick passes.
ControlTick ==
    /\ hb' = IF hb > 0 THEN hb - 1 ELSE hb
    /\ pongAge' = IF pongAge <= PingTimeout THEN pongAge + 1 ELSE pongAge
    /\ UNCHANGED <<hbDue, running, closeTriggered>>
=============================================================================
