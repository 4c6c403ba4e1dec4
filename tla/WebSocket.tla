----------------------------- MODULE WebSocket ------------------------------
(***************************************************************************)
(* One WebSocket connection of tomcatrs-websocket: the opening handshake,  *)
(* reassembly of fragmented messages with control frames in between, the   *)
(* answers the transport gives by itself, and the closing handshake.  The  *)
(* connection is used through &mut self, so calls do not overlap, but a    *)
(* call waits for frames that arrive at any time.  A frame is its opcode,  *)
(* FIN bit, payload length, and whether it is masked and valid.            *)
(***************************************************************************)
EXTENDS Integers, Sequences, SequencesExt

CONSTANTS
  PeerFrames,     \* frames the client may send
  MaxPeerFrames,  \* bound: frames the client sends
  MaxWrites,      \* bound: messages the application writes
  MaxEvents,      \* bound: events before the application stops reading
  MaxMessageSize, \* WebSocketConfig::max_message_size
  MaxFrameSize,   \* WebSocketConfig::max_frame_size
  MaxControl,     \* 125: the largest control payload
  AcceptUnmasked  \* WebSocketConfig::accept_unmasked_frames

\* A frame has a length, and write_data_frames takes a limit of at least one byte.
ASSUME WebSocketAssumption ==
  /\ PeerFrames \subseteq [op : STRING, fin : BOOLEAN, len : Nat, masked : BOOLEAN,
                            valid : BOOLEAN, rsv : BOOLEAN]
  /\ MaxFrameSize \in Nat \ {0} /\ MaxControl \in Nat

VARIABLES
  ws,       \* the WebSocketConnection
  at,       \* the call in progress: idle, reading, closing
  wire,     \* frames sent by the client and not yet parsed
  eof,      \* whether the client has closed its side
  nframes,  \* frames the client has sent
  nwrites,  \* messages the application has written
  parsed,   \* frames read_message took without an error (history)
  events,   \* what the endpoint was told (history)
  out       \* frames written (history)

wsVars == <<ws, at, wire, eof, nframes, nwrites, parsed, events, out>>

Control == {"Close", "Ping", "Pong"}
NoFragment == [open |-> FALSE, text |-> FALSE, len |-> 0, valid |-> TRUE]

WsInit ==
  /\ ws = [state |-> "Connecting", fragment |-> NoFragment, pong |-> -1,
           closeSent |-> FALSE, closeReceived |-> FALSE]
  /\ at = "idle" /\ wire = <<>> /\ eof = FALSE /\ nframes = 0 /\ nwrites = 0
  /\ parsed = <<>> /\ events = <<>> /\ out = <<>>

(***************************************************************************)
(* The client                                                              *)
(***************************************************************************)
PeerSend(frame) ==
  /\ ~eof /\ ws.state # "Connecting" /\ nframes < MaxPeerFrames
  /\ wire' = Append(wire, frame) /\ nframes' = nframes + 1
  /\ UNCHANGED <<ws, at, eof, nwrites, parsed, events, out>>

PeerEof ==
  /\ ~eof /\ ws.state # "Connecting" /\ eof' = TRUE
  /\ UNCHANGED <<ws, at, wire, nframes, nwrites, parsed, events, out>>

(***************************************************************************)
(* Parsing                                                                 *)
(***************************************************************************)
\* Frame::parse, in the order of its checks.
StrictError(frame) ==
  CASE frame.rsv -> "rsv"
    [] frame.op \notin Control \cup {"Text", "Binary", "Continuation"} -> "opcode"
    [] frame.op \in Control /\ ~frame.fin -> "fragmented control"
    [] frame.op \in Control /\ frame.len > MaxControl -> "control length"
    [] ~frame.masked -> "unmasked"
    [] OTHER -> "none"

\* parse_lenient: the same, but for the mask.
LenientError(frame) == StrictError([frame EXCEPT !.masked = TRUE])

\* try_parse_frame: a frame the lenient parser lets through is not measured.
ParseError(frame) ==
  IF StrictError(frame) = "none"
  THEN IF frame.op \notin Control /\ frame.len > MaxFrameSize THEN "frame size" ELSE "none"
  ELSE IF AcceptUnmasked THEN LenientError(frame) ELSE StrictError(frame)

\* A frame that fails the parser stays in the buffer, one that is too large
\* has been taken out of it.
Rest(frame) == IF ParseError(frame) \in {"none", "frame size"} THEN Tail(wire) ELSE wire

(***************************************************************************)
(* Handling a frame                                                        *)
(***************************************************************************)
\* An outcome is the connection, what is written, and what the call returns.
Outcome(conn, written, result) == [conn |-> conn, written |-> written, result |-> result]
Message(kind, len) == [kind |-> kind, len |-> len]
Nothing == Message("none", 0)
Error == Message("error", 0)

Written(op, fin, len) == [op |-> op, fin |-> fin, len |-> len]

\* finish_data_message
FinishDataMessage(conn, text, len, valid) ==
  IF len > MaxMessageSize \/ (text /\ ~valid) THEN Outcome(conn, <<>>, Error)
  ELSE Outcome(conn, <<>>, Message(IF text THEN "Text" ELSE "Binary", len))

(* Mutant: a message that ends leaves the fragment buffer filled. *)
HandleDataFrameKeeps(conn, frame) ==
  LET text == frame.op = "Text"
      frag == conn.fragment
      len == frag.len + frame.len
      valid == frag.valid /\ frame.valid
  IN IF frame.op # "Continuation"
     THEN CASE frag.open -> Outcome(conn, <<>>, Error)
            [] ~frag.open /\ frame.fin -> FinishDataMessage(conn, text, frame.len, frame.valid)
            [] ~frag.open /\ ~frame.fin /\ frame.len > MaxMessageSize -> Outcome(conn, <<>>, Error)
            [] OTHER -> Outcome([conn EXCEPT !.fragment = [open |-> TRUE, text |-> text,
                                   len |-> frame.len, valid |-> frame.valid]], <<>>, Nothing)
     ELSE IF ~frag.open \/ len > MaxMessageSize THEN Outcome(conn, <<>>, Error)
     ELSE IF frame.fin
     THEN FinishDataMessage([conn EXCEPT !.fragment.len = len], frag.text, len, valid)
     ELSE Outcome([conn EXCEPT !.fragment.len = len, !.fragment.valid = valid], <<>>, Nothing)

\* handle_frame for Text, Binary and Continuation; an error leaves a fragment
\* in progress as it was, but one that fails as it ends is gone.
HandleDataFrame(conn, frame) ==
  LET text == frame.op = "Text"
      frag == conn.fragment
      len == frag.len + frame.len
      valid == frag.valid /\ frame.valid
  IN IF frame.op # "Continuation"
     THEN CASE frag.open -> Outcome(conn, <<>>, Error)
            [] ~frag.open /\ frame.fin -> FinishDataMessage(conn, text, frame.len, frame.valid)
            [] ~frag.open /\ ~frame.fin /\ frame.len > MaxMessageSize -> Outcome(conn, <<>>, Error)
            [] OTHER -> Outcome([conn EXCEPT !.fragment = [open |-> TRUE, text |-> text,
                                   len |-> frame.len, valid |-> frame.valid]], <<>>, Nothing)
     ELSE IF ~frag.open \/ len > MaxMessageSize THEN Outcome(conn, <<>>, Error)
     ELSE IF frame.fin
     THEN FinishDataMessage([conn EXCEPT !.fragment = NoFragment], frag.text, len, valid)
     ELSE Outcome([conn EXCEPT !.fragment.len = len, !.fragment.valid = valid], <<>>, Nothing)

(* Mutant: a Ping is answered whatever the state. *)
HandleControlFrameAlways(conn, frame) ==
  CASE frame.op = "Ping" ->
         Outcome(conn, <<Written("Pong", TRUE, frame.len)>>, Message("Ping", frame.len))
    [] frame.op = "Pong" -> Outcome([conn EXCEPT !.pong = frame.len], <<>>, Message("Pong", frame.len))
    [] frame.op = "Close" ->
         Outcome([conn EXCEPT !.closeReceived = TRUE,
                              !.state = IF @ = "Open" THEN "Closing" ELSE @],
                 <<>>, Message("Close", frame.len))

\* handle_control_frame: a Ping is answered while open; a Close whose payload
\* does not parse counts as received but leaves the state alone.
HandleControlFrame(conn, frame) ==
  CASE frame.op = "Ping" ->
         Outcome(conn, IF conn.state = "Open" THEN <<Written("Pong", TRUE, frame.len)>> ELSE <<>>,
                 Message("Ping", frame.len))
    [] frame.op = "Pong" -> Outcome([conn EXCEPT !.pong = frame.len], <<>>, Message("Pong", frame.len))
    [] frame.op = "Close" ->
         IF frame.len = 1 \/ ~frame.valid
         THEN Outcome([conn EXCEPT !.closeReceived = TRUE], <<>>, Error)
         ELSE Outcome([conn EXCEPT !.closeReceived = TRUE,
                                   !.state = IF @ = "Open" THEN "Closing" ELSE @],
                      <<>>, Message("Close", frame.len))

HandleFrame(conn, frame) ==
  IF frame.op \in Control THEN HandleControlFrame(conn, frame) ELSE HandleDataFrame(conn, frame)

\* WebSocketEvent::from_message and on_error: the endpoint hears of data, of a
\* Close and of errors.
EventsOf(result) ==
  IF result.kind \in {"Text", "Binary", "Close", "error"} THEN <<result>> ELSE <<>>

(***************************************************************************)
(* The calls                                                               *)
(***************************************************************************)
\* handshake_response: the four headers are there and say what they must; the
\* connection then starts open.
Handshake(upgrade, connection, version, key) ==
  /\ ws.state = "Connecting"
  /\ "websocket" \in upgrade /\ "upgrade" \in connection /\ version = 13 /\ key
  /\ ws' = [ws EXCEPT !.state = "Open"]
  /\ events' = Append(events, Message("open", 0))
  /\ UNCHANGED <<at, wire, eof, nframes, nwrites, parsed, out>>

\* read_message is called; on a closed connection it returns at once.  After an
\* error the application may call again, and meet a bad frame again.
StartRead ==
  /\ at = "idle" /\ ws.state \in {"Open", "Closing"} /\ Len(events) < MaxEvents
  /\ at' = "reading"
  /\ UNCHANGED <<ws, wire, eof, nframes, nwrites, parsed, events, out>>

\* A turn of its loop with a frame in the buffer.
ReadFrame ==
  /\ at = "reading" /\ wire # <<>>
  /\ LET frame == Head(wire)
         done == IF ParseError(frame) # "none" THEN Outcome(ws, <<>>, Error)
                 ELSE HandleFrame(ws, frame)
     IN /\ ws' = done.conn
        /\ out' = out \o done.written
        /\ events' = events \o EventsOf(done.result)
        /\ at' = IF done.result = Nothing THEN "reading" ELSE "idle"
        /\ wire' = Rest(frame)
        /\ parsed' = IF done.result = Error THEN parsed ELSE Append(parsed, frame)
  /\ UNCHANGED <<eof, nframes, nwrites>>

\* The stream ends: in the middle of a message that is an error.
ReadEof ==
  /\ at = "reading" /\ wire = <<>> /\ eof
  /\ at' = "idle"
  /\ IF ws.fragment.open THEN events' = Append(events, Error) /\ UNCHANGED ws
     ELSE ws' = [ws EXCEPT !.state = "Closed"] /\ UNCHANGED events
  /\ UNCHANGED <<wire, eof, nframes, nwrites, parsed, out>>

\* write_data_frames: frames of at most max_frame_size.
DataFrames(op, len) ==
  LET count == IF len <= MaxFrameSize THEN 1 ELSE (len + MaxFrameSize - 1) \div MaxFrameSize
  IN [i \in 1..count |->
        Written(IF i = 1 THEN op ELSE "Continuation", i = count,
                IF i < count THEN MaxFrameSize ELSE len - MaxFrameSize * (count - 1))]

(* Mutant: data is refused only on a closed connection. *)
WriteMessageClosing(op, len) ==
  /\ at = "idle" /\ ws.state \in {"Open", "Closing"} /\ nwrites < MaxWrites
  /\ nwrites' = nwrites + 1
  /\ IF op \in Control
     THEN /\ len <= MaxControl
          /\ out' = Append(out, Written(op, TRUE, len))
     ELSE out' = out \o DataFrames(op, len)
  /\ UNCHANGED <<ws, at, wire, eof, nframes, parsed, events>>

\* write_message of anything but a Close: only while open.
WriteMessage(op, len) ==
  /\ at = "idle" /\ ws.state = "Open" /\ nwrites < MaxWrites
  /\ nwrites' = nwrites + 1
  /\ IF op \in Control
     THEN /\ len <= MaxControl
          /\ out' = Append(out, Written(op, TRUE, len))
     ELSE out' = out \o DataFrames(op, len)
  /\ UNCHANGED <<ws, at, wire, eof, nframes, parsed, events>>

\* send_close_frame
SentClose(conn, len) ==
  IF conn.closeSent THEN Outcome(conn, <<>>, Nothing)
  ELSE Outcome([conn EXCEPT !.closeSent = TRUE, !.state = IF @ = "Open" THEN "Closing" ELSE @],
               <<Written("Close", TRUE, len)>>, Nothing)

\* write_message of a Close.
WriteClose(len) ==
  /\ at = "idle" /\ ws.state = "Open" /\ len <= MaxControl
  /\ ws' = SentClose(ws, len).conn /\ out' = out \o SentClose(ws, len).written
  /\ UNCHANGED <<at, wire, eof, nframes, nwrites, parsed, events>>

\* close: send the Close unless it was sent, and wait for the peer's unless it
\* was here before the call.
StartClose(len) ==
  /\ at = "idle" /\ ws.state \in {"Open", "Closing"} /\ len <= MaxControl
  /\ LET sent == SentClose(ws, len)
     IN /\ out' = out \o sent.written
        /\ IF ws.closeReceived
           THEN ws' = [sent.conn EXCEPT !.state = "Closed"] /\ at' = "idle"
           ELSE ws' = sent.conn /\ at' = "closing"
  /\ UNCHANGED <<wire, eof, nframes, nwrites, parsed, events>>

\* A turn of the wait: everything but a Close is thrown away; a frame that
\* does not parse, or the end of the stream, ends it.
CloseFrameSeen ==
  /\ at = "closing" /\ (wire # <<>> \/ eof)
  /\ LET ends == wire = <<>> \/ ParseError(Head(wire)) # "none"
         close == ~ends /\ Head(wire).op = "Close"
     IN /\ ws' = [ws EXCEPT !.closeReceived = @ \/ close,
                            !.state = IF ends \/ close THEN "Closed" ELSE @]
        /\ at' = IF ends \/ close THEN "idle" ELSE "closing"
        /\ wire' = IF wire = <<>> THEN wire ELSE Rest(Head(wire))
  /\ UNCHANGED <<eof, nframes, nwrites, parsed, events, out>>

(* Mutant: the wait is given up and the connection left as it is. *)
CloseTimeoutOpen ==
  /\ at = "closing" /\ at' = "idle"
  /\ UNCHANGED <<ws, wire, eof, nframes, nwrites, parsed, events, out>>

\* close_timeout
CloseTimeout ==
  /\ at = "closing"
  /\ ws' = [ws EXCEPT !.state = "Closed"] /\ at' = "idle"
  /\ UNCHANGED <<wire, eof, nframes, nwrites, parsed, events, out>>

WsNext ==
  \/ \E f \in PeerFrames : PeerSend(f)
  \/ PeerEof
  \/ \E up \in SUBSET {"websocket"}, con \in SUBSET {"upgrade"}, v \in {8, 13}, k \in BOOLEAN :
       Handshake(up, con, v, k)
  \/ StartRead \/ ReadFrame \/ ReadEof
  \/ \E op \in {"Text", "Ping"}, len \in {1, 2 * MaxFrameSize + 1} : WriteMessage(op, len)
  \/ WriteClose(0) \/ StartClose(2) \/ CloseFrameSeen \/ CloseTimeout

\* The task is polled and its timer fires; the peer and the application owe
\* nothing.
WsFairness == WF_wsVars(ReadFrame \/ ReadEof \/ CloseTimeout)

WsSpec == WsInit /\ [][WsNext]_wsVars /\ WsFairness

(***************************************************************************)
(* Lengths on the wire, and permessage-deflate                             *)
(***************************************************************************)
(* Mutant: the boundary of the short form is one too far. *)
EncodeLengthOff(len) ==
  IF len <= 126 THEN <<len>> ELSE IF len <= 65535 THEN <<126, len>> ELSE <<127, len>>

\* Frame::encode: the length as 7 bits, or a marker and 16 or 64 bits.
EncodeLength(len) ==
  IF len < 126 THEN <<len>> ELSE IF len <= 65535 THEN <<126, len>> ELSE <<127, len>>

\* The length field as Frame::parse and parse_lenient read it.
DecodeLength(field) ==
  IF field[1] \in {126, 127} THEN (IF Len(field) > 1 THEN field[2] ELSE -1) ELSE field[1]

\* negotiate_permessage_deflate_from_offers: an offer is its name and its
\* parameters, each a key and a value, -1 when it has none.
DeflateParams(offer) ==
  LET last(key) == SelectLastInSeq(offer.params, LAMBDA p : p[1] = key)
      value(key) == IF last(key) = 0 THEN 0 ELSE offer.params[last(key)][2]
  IN [server_nct |-> last("server_nct") # 0, client_nct |-> last("client_nct") # 0,
      server_bits |-> value("server_bits"),
      client_bits |-> IF value("client_bits") = -1 THEN 15 ELSE value("client_bits")]

\* parse_window_bits, and which parameters must or must not have a value.
ParamOK(p) ==
  \/ p[1] \in {"server_nct", "client_nct"} /\ p[2] = -1
  \/ p[1] = "server_bits" /\ p[2] \in 8..15
  \/ p[1] = "client_bits" /\ p[2] \in {-1} \cup 8..15

Negotiate(offers, enabled) ==
  LET first == SelectInSeq(offers, LAMBDA o : o.name = "permessage-deflate")
  IN IF ~enabled \/ first = 0 THEN [accepted |-> FALSE]
     ELSE IF \E i \in DOMAIN offers[first].params : ~ParamOK(offers[first].params[i])
     THEN [accepted |-> FALSE]
     ELSE [accepted |-> TRUE, params |-> DeflateParams(offers[first])]

(* Mutant: a bound the client gave without a value is echoed as it came. *)
ResponseHeaderBare(params) ==
  (IF params.server_nct THEN <<<<"server_nct", -1>>>> ELSE <<>>)
    \o (IF params.client_nct THEN <<<<"client_nct", -1>>>> ELSE <<>>)
    \o (IF params.server_bits # 0 THEN <<<<"server_bits", -1>>>> ELSE <<>>)
    \o (IF params.client_bits # 0 THEN <<<<"client_bits", -1>>>> ELSE <<>>)

\* build_deflate_response_header, as the parameters it lists.
ResponseHeader(params) ==
  (IF params.server_nct THEN <<<<"server_nct", -1>>>> ELSE <<>>)
    \o (IF params.client_nct THEN <<<<"client_nct", -1>>>> ELSE <<>>)
    \o (IF params.server_bits # 0 THEN <<<<"server_bits", params.server_bits>>>> ELSE <<>>)
    \o (IF params.client_bits # 0 THEN <<<<"client_bits", params.client_bits>>>> ELSE <<>>)

(***************************************************************************)
(* Properties                                                              *)
(***************************************************************************)
\* The data messages in a sequence of accepted frames: a run of data frames up
\* to a FIN, whatever control frames came between.
DataIn(frames) == SelectSeq(frames, LAMBDA f : f.op \notin Control)

\* Each message the endpoint gets is the frames of one message, whole: of the
\* type of the first, as long as all of them together, within the limit, and
\* as many as there were final frames, less those that failed.
MessagesWhole ==
  LET data == DataIn(parsed)
      told == SelectSeq(events, LAMBDA e : e.kind \in {"Text", "Binary"})
      starts == {i \in DOMAIN data : data[i].op # "Continuation"}
      end(i) == {j \in i..Len(data) : data[j].fin}
      whole(i) == {j \in end(i) : \A k \in end(i) : j <= k}
      sum(i, j) == FoldLeft(LAMBDA n, f : n + f.len, 0, SubSeq(data, i, j))
  IN /\ Len(told) <= Len(SelectSeq(data, LAMBDA f : f.fin))
     /\ \A e \in ToSet(told) :
          /\ e.len <= MaxMessageSize
          /\ \E i \in starts : \E j \in whole(i) : data[i].op = e.kind /\ sum(i, j) = e.len

\* What is written is well formed whichever of reader, writer and closer wrote
\* it: one Close at most and nothing behind it, and continuations only inside a
\* message, which no other data frame interrupts.
OutWellFormed ==
  \A i \in DOMAIN out :
    /\ out[i].op = "Close" => i = Len(out)
    /\ out[i].op \in {"Text", "Binary"} => i = 1 \/ out[i - 1].fin
    /\ out[i].op = "Continuation" => i > 1 /\ ~out[i - 1].fin
    /\ out[i].len <= IF out[i].op \in Control THEN MaxControl ELSE MaxFrameSize

\* A close ends, whether or not the peer answers.
Closing == at = "closing"
Closed == ws.state = "Closed"

\* A length survives the wire at every boundary of its three forms.
LengthsSurvive(len) == DecodeLength(EncodeLength(len)) = len

\* The response to an accepted offer, read as an offer itself, is accepted with
\* the same parameters: both sides mean the same by it.
NegotiationStable(offer) ==
  LET agreed == Negotiate(<<offer>>, TRUE)
  IN agreed.accepted =>
       Negotiate(<<[offer EXCEPT !.params = ResponseHeader(agreed.params)]>>, TRUE) = agreed
=============================================================================
