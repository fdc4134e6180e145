------------------------------ MODULE MCSession ------------------------------
(* Values for the TLC run of Session.  A tick stands for five seconds, which *)
(* keeps the order of the code's deadlines (5, 10 and 3 s; ping 5 and 10 s). *)
EXTENDS Session

AllFaults == FaultKinds
=============================================================================
