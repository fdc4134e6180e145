---------------------------- MODULE TcpTransport ----------------------------
(***************************************************************************)
(* AndroidTcpTransport.cpp.  A thread takes the handler out of the         *)
(* transport before it blocks in recv or send, and a thread that sees the  *)
(* peer leave clears open_ itself.                                         *)
(***************************************************************************)
EXTENDS BlockingIO

TypeOK == IoTypeOK

\* Mutant of Take: the handler is copied out of the transport, not moved.
TakeCopy(d) ==
    /\ thread[d] = "test" /\ Ready(d)
    /\ IF open
         THEN /\ requested' = [requested EXCEPT ![d] = FALSE]
              /\ Go(d, "io")
              /\ UNCHANGED stored
         ELSE /\ Go(d, "exited")
              /\ UNCHANGED <<requested, stored>>
    /\ UNCHANGED <<open, posted, called, ended, closing>>

\* wait returns: the thread leaves if the transport is closed, even with a
\* request, and otherwise holds the handler while it blocks.
Take(d) ==
    /\ thread[d] = "test" /\ Ready(d)
    /\ IF open
         THEN /\ requested' = [requested EXCEPT ![d] = FALSE]
              /\ stored' = [stored EXCEPT ![d] = FALSE]
              /\ Go(d, "io")
         ELSE /\ Go(d, "exited")
              /\ UNCHANGED <<requested, stored>>
    /\ UNCHANGED <<open, posted, called, ended, closing>>

\* recv returns data.
ReadData ==
    /\ thread["read"] = "io"
    /\ Post("read")
    /\ Go("read", "loop")
    /\ UNCHANGED <<open, requested, stored, called, ended, closing>>

\* recv returns 0 (the peer has closed, or close() has shut the socket down).
ReadEnd ==
    /\ thread["read"] = "io"
    /\ open' = FALSE
    /\ ended' = TRUE
    /\ Post("read")
    /\ Go("read", "loop")
    /\ UNCHANGED <<requested, stored, called, closing>>

\* recv fails: in an open transport as at the end of the stream; in a closed one
\* the thread leaves, and the handler it holds is never run.
ReadFails ==
    /\ thread["read"] = "io"
    /\ IF open
         THEN /\ open' = FALSE
              /\ ended' = TRUE
              /\ Post("read")
              /\ Go("read", "loop")
         ELSE /\ Go("read", "exited")
              /\ UNCHANGED <<open, ended, posted>>
    /\ UNCHANGED <<requested, stored, called, closing>>

\* send has written everything, or has stopped short because open_ is false.
WriteDone ==
    /\ thread["write"] = "io"
    /\ Post("write")
    /\ Go("write", "loop")
    /\ UNCHANGED <<open, requested, stored, called, ended, closing>>

WriteFails ==
    /\ thread["write"] = "io"
    /\ open' = FALSE
    /\ Post("write")
    /\ Go("write", "loop")
    /\ UNCHANGED <<requested, stored, called, ended, closing>>

ReadReturns  == ReadData \/ ReadEnd \/ ReadFails
WriteReturns == WriteDone \/ WriteFails

Threads == \/ \E d \in Direction : Wait(d) \/ Take(d)
           \/ ReadReturns \/ WriteReturns

Next == Loop \/ Threads

Spec == Init /\ [][Next]_ioVars

\* close() shuts the socket down, which ends a recv or send under way; before
\* that a peer may keep either blocked for ever.
FairSpec == /\ Spec /\ WaitFairness
            /\ \A d \in Direction : WF_ioVars(Take(d))
            /\ WF_ioVars(closing = "joining" /\ ReadReturns)
            /\ WF_ioVars(closing = "joining" /\ WriteReturns)

-----------------------------------------------------------------------------
\* A handler is in one place at most: in the transport, with the thread that is
\* blocked on its behalf, or posted; and only while its caller waits for it.
OneHandler ==
    \A d \in Direction :
        posted[d] + (IF stored[d] THEN 1 ELSE 0) + (IF thread[d] = "io" THEN 1 ELSE 0)
            <= (IF called[d] THEN 1 ELSE 0)
=============================================================================
