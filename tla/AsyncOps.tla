------------------------------ MODULE AsyncOps ------------------------------
(***************************************************************************)
(* What ITransport promises of its operations (ITransport.hpp): one read   *)
(* and one write outstanding at a time, one handler per call, and never    *)
(* from inside the call.                                                   *)
(***************************************************************************)
CONSTANT Direction

VARIABLE op     \* of each direction: "idle", "pending", or "due" (handler queued)

Init == op = [d \in Direction |-> "idle"]

\* A call is pending, or its handler is queued at once (a closed transport).
Start(d) == /\ op[d] = "idle"
            /\ \E s \in {"pending", "due"} : op' = [op EXCEPT ![d] = s]

Finish(D) == /\ \A d \in D : op[d] = "pending"
             /\ op' = [d \in Direction |-> IF d \in D THEN "due" ELSE op[d]]

Run(d) == op[d] = "due" /\ op' = [op EXCEPT ![d] = "idle"]

Next == \/ \E d \in Direction : Start(d) \/ Run(d)
        \/ \E D \in SUBSET Direction : Finish(D)

Spec == Init /\ [][Next]_op
=============================================================================
