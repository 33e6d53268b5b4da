----------------------------- MODULE MCStreams ------------------------------
(* Streams for TLC: three public sockets and one /ws/events session, from   *)
(* two addresses; more messages than the buffer of a monitor holds.  With   *)
(* the parts of Endings beside them.                                        *)
EXTENDS Endings, TLC

CONSTANTS c1, c2, c3, c4, i1, i2

MCIp == c1 :> i1 @@ c2 :> i1 @@ c3 :> i2 @@ c4 :> i2
=============================================================================
