--------------------------- MODULE MCInboundStream ---------------------------
(***************************************************************************)
(* Two channels.  In the first stream a message in two fragments has a     *)
(* message of the other channel between them, in the second a message is   *)
(* in three fragments, in the third one is given up for the next.          *)
(***************************************************************************)
EXTENDS InboundStream

Frame(c, f, l, b) == [ch |-> c, first |-> f, last |-> l, body |-> b]

ThreeStreams ==
    { << Frame(0, TRUE, FALSE, <<1>>), Frame(1, TRUE, TRUE, <<2>>),
         Frame(0, FALSE, TRUE, <<3>>) >>,
      << Frame(0, TRUE, FALSE, <<1>>), Frame(0, FALSE, FALSE, <<2>>),
         Frame(0, FALSE, TRUE, <<3>>) >>,
      << Frame(0, TRUE, FALSE, <<1>>), Frame(0, TRUE, TRUE, <<2, 3>>) >> }
=============================================================================
