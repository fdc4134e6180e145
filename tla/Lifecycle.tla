------------------------------ MODULE Lifecycle ------------------------------
(***************************************************************************)
(* What a session promises its observer (SessionState.hpp and the calls of *)
(* ISessionObserver): it moves forward through its states, ends in one of  *)
(* the two terminal ones for good, and reports an error exactly once, with *)
(* the state Error.                                                        *)
(***************************************************************************)
EXTENDS Naturals

VARIABLES
    state,     \* the last state given to on_session_state_changed
    errors     \* the number of calls of on_session_error

Connecting == {"Idle", "VersionExchange", "SslHandshake"}
Ended      == {"Disconnected", "Error"}

Init == state = "Idle" /\ errors = 0

Forward(from, to) == state \in from /\ state' = to /\ UNCHANGED errors

Open       == Forward({"Idle"}, "VersionExchange")
Secure     == Forward({"VersionExchange"}, "SslHandshake")
Establish  == Forward({"VersionExchange", "SslHandshake"}, "Running")
Stop       == Forward({"Running"}, "Disconnecting")
Disconnect == Forward({"Disconnecting"}, "Disconnected")

Fail == /\ state \notin Ended
        /\ state' = "Error"
        /\ errors' = errors + 1

Next == Open \/ Secure \/ Establish \/ Stop \/ Disconnect \/ Fail

Spec == Init /\ [][Next]_<<state, errors>>
=============================================================================
