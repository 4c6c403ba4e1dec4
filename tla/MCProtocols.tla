---------------------------- MODULE MCProtocols -----------------------------
(***************************************************************************)
(* The connection protocols side by side for TLC: the accept loops, an     *)
(* HTTP/1.1 connection and its chunked bodies, the body writer of HTTP/2,  *)
(* an AJP connection, a WebSocket and the cluster's TCP transport.  They   *)
(* do not interact: a behaviour belongs to one of them, and the others are *)
(* at rest, ended or not begun, so that no fairness asks them to move.     *)
(* The accept loops, the WebSocket and the transport are extended modules; *)
(* the others are instances.                                               *)
(***************************************************************************)
EXTENDS TcpTransport, Connector, WebSocket, Integers

CONSTANTS
  Parts,   \* the protocols this run looks at
  Eager    \* whether an HTTP/1.1 client pipelines behind bodyless requests

VARIABLES
  part,
  script, sent, sock, shut, hc, buf, carry, first, current, served, answered, ending,
  decoder, slice, grammar,
  profile, h2wire, cst, cblock, nsent, enc, hungup, credit, inbuf, pc, streams,
  conn, body, tasks, resp, decoded,
  toContainer, toProxy, proxy, log, ajp, handed, replies

http1Vars == <<script, sent, sock, shut, hc, buf, carry, first, current, served, answered,
               ending>>
chunkVars == <<decoder, slice, grammar>>
http2Vars == <<profile, h2wire, cst, cblock, nsent, enc, hungup, credit, inbuf, pc, streams,
               conn, body, tasks, resp, decoded>>
ajpVars == <<toContainer, toProxy, proxy, log, ajp, handed, replies>>

(***************************************************************************)
(* The instances                                                           *)
(***************************************************************************)
\* A request: the length of its head, Transfer-Encoding and Content-Length
\* values, its body, version, Connection, and whether head and target are good.
Request(head, te, cl, len) ==
  [head |-> head, te |-> te, cl |-> cl, body |-> len, version |-> "1.1",
   connection |-> "", valid |-> TRUE, target |-> TRUE]
Get == Request(1, <<>>, <<>>, 0)
Post(n) == Request(1, <<>>, <<n>>, n)
Chunked(n) == Request(1, <<"chunked">>, <<>>, n)
RequestKinds ==
  {Get, Post(1), Post(3), Chunked(2), Chunked(3), Request(4, <<>>, <<>>, 0),
   Request(1, <<"chunked">>, <<1>>, 1), [Post(1) EXCEPT !.connection = "close"],
   [Get EXCEPT !.version = "1.0", !.target = FALSE], [Get EXCEPT !.valid = FALSE]}
Http1 == INSTANCE Http1Conn
  WITH Kinds <- RequestKinds, MaxRequests <- 2, MaxPost <- 2, HeadCap <- 4, MaxRead <- 3

Chunks == INSTANCE Chunked
  WITH MaxBody <- 3, MaxChunkLine <- 3, MaxTrailerLine <- 3, MaxTrailers <- 1,
       MaxUsize <- 31, MaxSlice <- 2

Loader == {[types |-> {"HEADERS", "DATA", "CONT", "SIZE"}, streams |-> 1, body |-> 3]}
Http2 == INSTANCE Http2Conn
  WITH NStreams <- 1, Profiles <- Loader, Legal <- TRUE, MaxSent <- 4, MaxConc <- 1,
       Window <- 1, MaxWindow <- 2, BadRequests <- TRUE, wire <- h2wire

Attr(code, value) == [code |-> code, value |-> value]
Forward(length, attrs, uri) == [length |-> length, attrs |-> attrs, uri |-> uri]
\* the configured secret, one that differs from it in its byte, and one that is
\* longer than it but by a multiple of ByteWidth
Known == Attr("secret", <<1>>)
Other == Attr("secret", <<2>>)
Folded == Attr("secret", <<1, 2, 2>>)
Forwards ==
  {Forward(0, <<Known>>, TRUE), Forward(3, <<Folded, Attr("ssl_cert", "c")>>, TRUE),
   Forward(3, <<Other>>, TRUE), Forward(2, <<Known>>, FALSE),
   Forward(1, <<Attr("code of a later protocol", "v")>>, TRUE)}
Ajp == INSTANCE Ajp
  WITH Forwards <- Forwards, MaxForwards <- 3, MaxChunk <- 2, Secret <- <<<<1>>>>, Answer <- 3,
       Width <- 8, ByteWidth <- 2

WsFrame(op, fin, len) ==
  [op |-> op, fin |-> fin, len |-> len, masked |-> TRUE, valid |-> TRUE, rsv |-> FALSE]
WsFrames ==
  {WsFrame("Text", TRUE, 1), WsFrame("Text", FALSE, 2), WsFrame("Binary", FALSE, 1),
   WsFrame("Continuation", TRUE, 1), WsFrame("Continuation", FALSE, 2),
   WsFrame("Ping", TRUE, 1), WsFrame("Close", TRUE, 2), WsFrame("Close", TRUE, 1),
   [WsFrame("Text", TRUE, 1) EXCEPT !.masked = FALSE]}

(***************************************************************************)
(* The sum.  Connector, Http1 and Http2 begin by moving on their own, and  *)
(* are ended unless it is their turn.                                      *)
(***************************************************************************)
ConnectorEnded ==
  /\ acc = [k \in Connectors |-> "done"] /\ joinset = [k \in Connectors |-> {}]
  /\ task = [c \in Conns |-> "none"]
  /\ flag = TRUE /\ main = "exited" /\ how = "none" /\ signals = 1

Http1Ended ==
  /\ script = <<>> /\ sent = 0 /\ sock = <<>> /\ shut = TRUE /\ hc = "closed"
  /\ buf = <<>> /\ carry = <<>> /\ first = TRUE /\ current = 0 /\ served = <<>>
  /\ answered = 0 /\ ending = "idle"

Http2Ended ==
  /\ profile \in Loader /\ h2wire = <<>> /\ cst = <<"done">> /\ cblock = 0
  /\ nsent = 0 /\ enc = 0 /\ hungup = TRUE /\ credit = [s \in 0..1 |-> 1]
  /\ inbuf = <<>> /\ pc = "closed" /\ streams = <<Http2!None>>
  /\ conn = [send |-> 1, recv |-> 1, last |-> 0, open |-> 0, going |-> FALSE,
             init |-> 1, max |-> 1]
  /\ body = Http2!NoBody /\ tasks = {} /\ resp = <<>> /\ decoded = 0

Init ==
  /\ part \in Parts
  /\ IF part = "connector" THEN ConnInit ELSE ConnectorEnded
  /\ IF part = "http1" THEN Http1!Http1Init ELSE Http1Ended
  /\ IF part = "http2" THEN Http2!Init ELSE Http2Ended
  /\ Chunks!ChunkInit /\ Ajp!AjpInit /\ WsInit /\ TcpInit

ConnectorStep ==
  /\ part = "connector" /\ ConnNext
  /\ UNCHANGED <<part, http1Vars, chunkVars, http2Vars, ajpVars, wsVars, tcpVars>>

Http1Step ==
  /\ part = "http1" /\ Http1!Http1Next
  /\ UNCHANGED <<part, connVars, chunkVars, http2Vars, ajpVars, wsVars, tcpVars>>

ChunkStep ==
  /\ part = "chunked" /\ Chunks!ChunkNext
  /\ UNCHANGED <<part, connVars, http1Vars, http2Vars, ajpVars, wsVars, tcpVars>>

Http2Step ==
  /\ part = "http2" /\ Http2!Next
  /\ UNCHANGED <<part, connVars, http1Vars, chunkVars, ajpVars, wsVars, tcpVars>>

AjpStep ==
  /\ part = "ajp" /\ Ajp!AjpNext
  /\ UNCHANGED <<part, connVars, http1Vars, chunkVars, http2Vars, wsVars, tcpVars>>

WebSocketStep ==
  /\ part = "websocket" /\ WsNext
  /\ UNCHANGED <<part, connVars, http1Vars, chunkVars, http2Vars, ajpVars, tcpVars>>

TcpStep ==
  /\ part = "tcp" /\ TcpNext
  /\ UNCHANGED <<part, connVars, http1Vars, chunkVars, http2Vars, ajpVars, wsVars>>

Next == ConnectorStep \/ Http1Step \/ ChunkStep \/ Http2Step \/ AjpStep
        \/ WebSocketStep \/ TcpStep

vars == <<part, connVars, http1Vars, chunkVars, http2Vars,
          ajpVars, wsVars, tcpVars>>

Spec == Init /\ [][Next]_vars

FairSpec ==
  /\ Spec
  /\ ConnFairness /\ Http1!Http1Fairness /\ Http2!ServerFairness
  /\ Ajp!AjpFairness /\ WsFairness /\ TcpFairness

(***************************************************************************)
(* Properties                                                              *)
(***************************************************************************)
\* An HTTP/1.1 request that was read whole is answered before the connection
\* ends as idle (read_request, carryover).
NoneLost == Http1!NoneLost

\* Part "encodings" has one state, for what the codecs return on samples: the
\* strings of an AJP packet, the lengths of WebSocket frames around the
\* bounds of their three forms, and offers of permessage-deflate.
AjpStrings == UNION {[1..n -> 0..8] : n \in 1..3}
WsLengths == {0, 1, 65535, 65536} \cup 125..128
DeflateParam == {"server_nct", "client_nct", "server_bits", "client_bits"} \X {-1, 7, 8, 15, 16}
Offers == [name : {"permessage-deflate"}, params : UNION {[1..n -> DeflateParam] : n \in 0..2}]
EncodingsSurvive == part = "encodings" =>
  /\ \A s \in AjpStrings : Ajp!StringsSurvive(s)
  /\ \A n \in WsLengths : LengthsSurvive(n)
  /\ \A o \in Offers : NegotiationStable(o)

\* Requests and messages stay whole whatever the reads return and whichever
\* protocol carries them: HTTP/1.1 gives the adapter each request with exactly
\* its own body and loses none; the chunked decoder agrees with the grammar
\* however its input is split, and leaves what follows; AJP peers stay in step
\* and each answer belongs to its request; a WebSocket endpoint gets whole
\* messages although control frames come between their fragments, and what
\* reader, writer and closer write on that connection is well formed, with
\* nothing behind a Close; and what an AJP packet or a frame header encodes is
\* decoded as it was.
RequestsKept ==
  /\ Http1!FramingKept /\ Http1!NoneLost
  /\ Chunks!SplitsDoNotMatter /\ Chunks!TailKept
  /\ Ajp!AjpInStep /\ Ajp!AjpAnswersMatch
  /\ MessagesWhole /\ OutWellFormed
  /\ EncodingsSurvive

\* Nobody waits for ever: a signalled server exits; a closed connection is
\* noticed on HTTP/1.1 and HTTP/2, and there a body begun is finished if the
\* client keeps granting; a forwarded request is answered; a WebSocket close
\* ends; and the cluster transport comes to rest.
EveryoneEnds ==
  (\/ part = "connector" /\ Stopping
   \/ part = "http1" /\ Http1!ClientGone
   \/ part = "http2" /\ (hungup \/ body.s # 0)
   \/ part = "ajp" /\ Ajp!Unanswered
   \/ part = "websocket" /\ Closing
   \/ part = "tcp")
  ~> (\/ part = "connector" /\ Stopped
      \/ part = "http1" /\ Http1!Closed
      \/ part = "http2" /\ (pc = "closed" \/ (body.s = 0 /\ ~hungup))
      \/ part = "ajp" /\ Ajp!Answered
      \/ part = "websocket" /\ Closed
      \/ part = "tcp" /\ AtRest)
=============================================================================
