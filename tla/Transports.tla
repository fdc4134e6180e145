----------------------------- MODULE Transports -----------------------------
(***************************************************************************)
(* The transport of a session, of either kind: what the session and        *)
(* BufferedTransport may rely on without knowing which of the two they     *)
(* were given.                                                             *)
(***************************************************************************)
EXTENDS BlockingIO

VARIABLE kind    \* what the factory made: "tcp" or "usb"

vars == <<ioVars, kind>>

Tcp == INSTANCE TcpTransport
Usb == INSTANCE UsbTransport

TransportInit == Init /\ kind \in {"tcp", "usb"}

Next ==
    /\ \/ kind = "tcp" /\ Tcp!Next
       \/ kind = "usb" /\ Usb!Next
    /\ UNCHANGED kind

Spec == TransportInit /\ [][Next]_vars

\* The fairness of each kind, as its module states it.
FairSpec ==
    /\ Spec /\ WaitFairness
    /\ \A d \in Direction : WF_vars(kind = "tcp" /\ Tcp!Take(d) /\ UNCHANGED kind)
    /\ WF_vars(kind = "tcp" /\ closing = "joining" /\ Tcp!ReadReturns /\ UNCHANGED kind)
    /\ WF_vars(kind = "tcp" /\ closing = "joining" /\ Tcp!WriteReturns /\ UNCHANGED kind)
    /\ WF_vars(kind = "usb" /\ Usb!TakeRead /\ UNCHANGED kind)
    /\ WF_vars(kind = "usb" /\ Usb!TakeWrite /\ UNCHANGED kind)
    /\ WF_vars(kind = "usb" /\ Usb!ReadReturns /\ UNCHANGED kind)
    /\ WF_vars(kind = "usb" /\ Usb!WriteReturns /\ UNCHANGED kind)

-----------------------------------------------------------------------------
TypeOK == IoTypeOK /\ kind \in {"tcp", "usb"}

\* A handler is in one place at a time, in the way of each kind (see TcpTransport and
\* UsbTransport), so that none is run twice.
OneHandler == IF kind = "tcp" THEN Tcp!OneHandler ELSE Usb!OneHandler

\* A USB transport's close() leaves no handler behind.  (The TCP transport's may: it
\* returns at once when a thread has seen the peer leave.)
CloseCancels == kind = "usb" => CloseCompletes
=============================================================================
