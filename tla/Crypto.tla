------------------------------- MODULE Crypto -------------------------------
(***************************************************************************)
(* The TLS client of a session (OpenSslCryptoStrategy): OpenSSL between    *)
(* two memory buffers, driven one call at a time on the session's strand.  *)
(* It speaks TLS 1.2 only, where the server has the last word: a handshake *)
(* that completes has nothing more to send.  The records themselves are    *)
(* left out; what a call reports of them is chosen by the environment.     *)
(***************************************************************************)
EXTENDS Naturals

VARIABLES
    hello,         \* the ClientHello has been written
    established    \* established_

cryptoVars == <<hello, established>>

\* init_ssl.
CryptoInit ==
    /\ hello = FALSE
    /\ established = FALSE

\* read_bio_output, after a step that did not complete: whether there is something
\* to send.  The first step writes the ClientHello; a later one answers its input.
Output(input) == IF ~hello THEN {TRUE} ELSE IF input THEN BOOLEAN ELSE {FALSE}

\* handshake_step, by what SSL_do_handshake makes of the data it has been given.
HandshakeStep(result) ==
    \/ result = "want" /\ hello' = TRUE /\ UNCHANGED established
    \/ result = "complete" /\ hello /\ established' = TRUE /\ UNCHANGED hello
    \/ result = "error" /\ UNCHANGED cryptoVars

IsEstablished == established

\* decrypt of what is not a record of the peer.  The assembler calls it only once
\* the handshake is complete, and it fails by itself before.
DecryptFails == IsEstablished /\ UNCHANGED cryptoVars
=============================================================================
