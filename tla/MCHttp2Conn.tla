---------------------------- MODULE MCHttp2Conn -----------------------------
(* Small instances of Http2Conn. *)
EXTENDS Http2Conn

(* One client works on streams, one on windows, and one on header blocks,
   settings and the end of the connection. *)
Streamer == [types |-> {"HEADERS", "DATA", "RST"}, streams |-> 3, body |-> 1]
Tuner == [types |-> {"HEADERS", "WU", "WINDOW"}, streams |-> 2, body |-> 2]
Closer == [types |-> {"HEADERS", "CONT", "SIZE", "GOAWAY", "BAD"},
           streams |-> 2, body |-> 1]
ThreeClients == {Streamer, Tuner, Closer}

(* A client that asks for two things at once. *)
Pipeliner == {[types |-> {"HEADERS"}, streams |-> 2, body |-> 2]}
=============================================================================
