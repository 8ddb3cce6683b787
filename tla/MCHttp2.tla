------------------------------- MODULE MCHttp2 -------------------------------
(* Two workers; stream "b" is carried by the second one's connection, every *)
(* other stream by the first one's.                                         *)
EXTENDS Http2

MCConnOf == [s \in Streams |-> IF s = "b" THEN "w2" ELSE "w1"]
=============================================================================
