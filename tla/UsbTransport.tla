---------------------------- MODULE UsbTransport ----------------------------
(***************************************************************************)
(* AndroidUsbTransport.cpp.  The handler stays in the transport while its  *)
(* thread is in the ioctl, which returns within kBulkTimeoutMs; only       *)
(* close() clears open_.                                                   *)
(***************************************************************************)
EXTENDS BlockingIO

TypeOK == IoTypeOK

\* The read thread's wait returns.  The request stays until an ioctl has ended.
TakeRead ==
    /\ thread["read"] = "test" /\ Ready("read")
    /\ Go("read", IF open THEN "io" ELSE "exited")
    /\ UNCHANGED <<open, requested, stored, posted, called, ended, closing>>

\* The write thread's wait returns.  A request is still served after close().
TakeWrite ==
    /\ thread["write"] = "test" /\ Ready("write")
    /\ requested' = [requested EXCEPT !["write"] = FALSE]
    /\ Go("write", IF open \/ requested["write"] THEN "io" ELSE "exited")
    /\ UNCHANGED <<open, stored, posted, called, ended, closing>>

\* The handler leaves the transport and is posted.
Complete(d) ==
    /\ stored' = [stored EXCEPT ![d] = FALSE]
    /\ Post(d)
    /\ Go(d, "loop")

ReadTimesOut ==
    /\ thread["read"] = "io"
    /\ Go("read", "loop")
    /\ UNCHANGED <<open, requested, stored, posted, called, ended, closing>>

\* Mutant of ReadData: the request is left set.
ReadDataStillRequested ==
    /\ thread["read"] = "io"
    /\ Complete("read")
    /\ UNCHANGED <<open, requested, called, ended, closing>>

ReadData ==
    /\ thread["read"] = "io"
    /\ Complete("read")
    /\ requested' = [requested EXCEPT !["read"] = FALSE]
    /\ UNCHANGED <<open, called, ended, closing>>

\* An error in a closed transport leaves the handler to close().
ReadFails ==
    /\ thread["read"] = "io"
    /\ IF open
         THEN /\ Complete("read")
              /\ requested' = [requested EXCEPT !["read"] = FALSE]
              /\ ended' = TRUE
         ELSE /\ Go("read", "exited")
              /\ UNCHANGED <<requested, stored, posted, ended>>
    /\ UNCHANGED <<open, called, closing>>

\* The ioctl has written, perhaps not everything: the session takes it as all.
WriteDone ==
    /\ thread["write"] = "io"
    /\ Complete("write")
    /\ UNCHANGED <<open, requested, called, ended, closing>>

\* An error, or a timeout; in a closed transport the handler is never run.
WriteFails ==
    /\ thread["write"] = "io"
    /\ IF open
         THEN Complete("write")
         ELSE /\ stored' = [stored EXCEPT !["write"] = FALSE]
              /\ Go("write", "exited")
              /\ UNCHANGED posted
    /\ UNCHANGED <<open, requested, called, ended, closing>>

ReadReturns  == ReadTimesOut \/ ReadData \/ ReadFails
WriteReturns == WriteDone \/ WriteFails

Threads == \/ \E d \in Direction : Wait(d)
           \/ TakeRead \/ TakeWrite \/ ReadReturns \/ WriteReturns

Next == Loop \/ Threads

Spec == Init /\ [][Next]_ioVars

\* Every ioctl returns.
FairSpec == /\ Spec /\ WaitFairness
            /\ WF_ioVars(TakeRead) /\ WF_ioVars(TakeWrite)
            /\ WF_ioVars(ReadReturns) /\ WF_ioVars(WriteReturns)

-----------------------------------------------------------------------------
\* A handler is in the transport or posted, not both, and only while its caller
\* waits for it; a thread in its ioctl always has a handler to complete, even when
\* close() comes while it is there.
OneHandler ==
    \A d \in Direction :
        /\ posted[d] + (IF stored[d] THEN 1 ELSE 0) <= (IF called[d] THEN 1 ELSE 0)
        /\ thread[d] = "io" => stored[d]
=============================================================================
