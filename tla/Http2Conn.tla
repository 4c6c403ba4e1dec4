------------------------------ MODULE Http2Conn ------------------------------
(***************************************************************************)
(* Http2Connection of tomcatrs-coyote (http2_conn.rs): one server-side     *)
(* HTTP/2 connection.  A single task drains finished responses, handles    *)
(* the frames it has buffered, then waits for bytes or for a response; a   *)
(* response whose body runs out of flow-control credit reads frames inline.*)
(* Adapter tasks answer requests concurrently, the client sends frames.    *)
(*                                                                         *)
(* Stream s stands for the client-initiated id 2s - 1; sizes are counted   *)
(* in units of a small number of bytes.  PING and PRIORITY change nothing. *)
(* A stream's receive window is taken and given back by the same frame,    *)
(* and is larger than any frame, so it is not a variable.                  *)
(***************************************************************************)
EXTENDS Integers, Sequences, FiniteSets

CONSTANTS
    NStreams,    \* client-initiated streams
    Profiles,    \* what clients do: frame types, streams, longest response body
    Legal,       \* whether the client keeps to the frame order and values of RFC 9113
    MaxSent,     \* bound: frames the client sends, WINDOW_UPDATEs it owes apart
    MaxConc,     \* local_settings.max_concurrent_streams
    Window,      \* the default of both windows
    MaxWindow,   \* 2^31 - 1
    BadRequests  \* whether build_request may reject a request

FrameType == {"HEADERS", "CONT", "DATA", "RST", "WU", "WINDOW", "SIZE", "GOAWAY", "BAD"}

ASSUME SizeAssumption ==
    /\ {NStreams, MaxSent, MaxConc, Window, MaxWindow} \subseteq Nat
    /\ NStreams > 0 /\ Window > 0 /\ Window <= MaxWindow
ASSUME FlagAssumption == {Legal, BadRequests} \subseteq BOOLEAN
ASSUME ProfileAssumption ==
    \A p \in Profiles :
        p.types \subseteq FrameType /\ p.streams \in 1..NStreams /\ p.body \in Nat

VARIABLES
    profile,  \* this client's; never changes
    wire,     \* frames the client has sent and the server has not read
    cst,      \* the client's view of each stream: "idle", "open" or "done"
    cblock,   \* the stream whose header block the client is in, or 0
    nsent,    \* frames the client has sent
    enc,      \* header blocks the client has encoded
    hungup,   \* whether the client has closed the connection
    credit,   \* history: what the client has granted and the server has taken in, less
              \* what the server has sent, by stream; 0 is the connection
    inbuf,    \* frames read and not yet handled
    pc,       \* where the connection task is
    streams,  \* the stream map
    conn,     \* the connection's windows, counters and settings
    body,     \* the response body being written
    tasks,    \* streams whose adapter task is running
    resp,     \* finished responses
    decoded   \* header blocks the HPACK decoder has seen

client == <<profile, wire, cst, cblock, nsent, enc, hungup>>
vars == <<client, credit, inbuf, pc, streams, conn, body, tasks, resp, decoded>>

Stream == 1..NStreams
Frame == [t : FrameType,
          s : 0..NStreams, es : BOOLEAN, eh : BOOLEAN, n : Nat]
F(t, s, es, eh, n) == [t |-> t, s |-> s, es |-> es, eh |-> eh, n |-> n]

None == [st |-> "none", await |-> FALSE, es |-> FALSE, disp |-> FALSE, sw |-> 0, blk |-> 0]
NoBody == [s |-> 0, left |-> 0, max |-> 0]

Present == {s \in Stream : streams[s].st # "none"}
Awaiting == {s \in Stream : streams[s].await}

Init ==
    /\ profile \in Profiles
    /\ wire = <<>> /\ cst = [s \in Stream |-> "idle"] /\ cblock = 0
    /\ nsent = 0 /\ enc = 0 /\ hungup = FALSE
    /\ credit = [s \in 0..NStreams |-> Window]
    /\ inbuf = <<>> /\ pc = "top"
    /\ streams = [s \in Stream |-> None]
    /\ conn = [send |-> Window, recv |-> Window, last |-> 0, open |-> 0,
               going |-> FALSE, init |-> Window, max |-> 1]
    /\ body = NoBody /\ tasks = {} /\ resp = <<>>
    /\ decoded = 0

-----------------------------------------------------------------------------
(* The client.  The server looks at the wire only when it reads, so it is  *)
(* enough that the client acts while the server may be about to.           *)
Reading == pc \in {"select", "body"}

Send(f) ==
    /\ Reading /\ ~hungup /\ nsent < MaxSent /\ f.t \in profile.types
    /\ f.s <= profile.streams
    /\ nsent' = nsent + 1
    /\ wire' = Append(wire, f)
    /\ UNCHANGED <<profile, hungup, credit, inbuf, pc, streams, conn, body, tasks, resp,
                   decoded>>

(* Streams are opened in order; a second HEADERS is a trailer block. *)
SendHeaders(s, es, eh) ==
    /\ Legal => /\ cblock = 0
                /\ \/ cst[s] = "idle" /\ \A q \in 1..(s - 1) : cst[q] # "idle"
                   \/ cst[s] = "open" /\ es
    /\ Send(F("HEADERS", s, es, eh, enc + 1))
    /\ enc' = enc + 1
    /\ cst' = [cst EXCEPT ![s] = IF es THEN "done" ELSE "open"]
    /\ cblock' = IF eh THEN 0 ELSE s

SendContinuation(s, eh) ==
    /\ Legal => cblock = s
    /\ Send(F("CONT", s, FALSE, eh, 0))
    /\ cblock' = IF eh THEN 0 ELSE cblock
    /\ UNCHANGED <<cst, enc>>

SendData(s, es) ==
    /\ Legal => cblock = 0 /\ cst[s] = "open"
    /\ Send(F("DATA", s, es, TRUE, 1))
    /\ cst' = [cst EXCEPT ![s] = IF es THEN "done" ELSE @]
    /\ UNCHANGED <<cblock, enc>>

SendReset(s) ==
    /\ Legal => cblock = 0 /\ cst[s] # "idle"
    /\ Send(F("RST", s, FALSE, TRUE, 0))
    /\ cst' = [cst EXCEPT ![s] = "done"]
    /\ UNCHANGED <<cblock, enc>>

(* Any grant, a change of INITIAL_WINDOW_SIZE or MAX_FRAME_SIZE, a GOAWAY, *)
(* or bytes that are no frame.                                             *)
SendOther(t, s, n) ==
    /\ Legal => cblock = 0 /\ (t \in {"WU", "SIZE"} => n # 0) /\ n <= MaxWindow
    /\ Send(F(t, s, FALSE, TRUE, n))
    /\ UNCHANGED <<cst, cblock, enc>>

(* A client that has seen its grant used up grants more. *)
Grant(s) ==
    /\ Reading /\ ~hungup /\ cblock = 0 /\ credit[s] <= 0 /\ s <= profile.streams
    /\ LET under == inbuf \o wire
       IN \A i \in 1..Len(under) : ~(under[i].t = "WU" /\ under[i].s = s)
    /\ wire' = Append(wire, F("WU", s, FALSE, TRUE, Window))
    /\ UNCHANGED <<profile, cst, cblock, nsent, enc, hungup, credit, inbuf, pc, streams, conn,
                   body, tasks, resp, decoded>>

HangUp ==
    /\ Reading /\ ~hungup
    /\ hungup' = TRUE
    /\ UNCHANGED <<profile, wire, cst, cblock, nsent, enc, credit, inbuf, pc, streams, conn,
                   body, tasks, resp, decoded>>

-----------------------------------------------------------------------------
(* How a handler ends.  In the main loop a connection error sends GOAWAY,  *)
(* a stream error resets the stream and leaves the frames behind it for    *)
(* after the next wait; while a body is written both are dropped.          *)

Retire(sts, s) == [sts EXCEPT ![s] = None]
Less(n) == IF n = 0 THEN 0 ELSE n - 1    \* saturating_sub

Fine(sts, c, ts) ==
    streams' = sts /\ conn' = c /\ tasks' = ts /\ pc' = pc

ConnError(sts, c) ==
    /\ streams' = sts /\ tasks' = tasks
    /\ IF pc = "pump" THEN conn' = c /\ pc' = "body"
                      ELSE conn' = [c EXCEPT !.going = TRUE] /\ pc' = "top"

StreamError(s, sts, c) ==
    /\ tasks' = tasks
    /\ IF pc = "pump"
         THEN streams' = sts /\ conn' = c /\ pc' = "body"
         ELSE /\ streams' = Retire(sts, s)
              /\ conn' = [c EXCEPT !.open = IF sts[s] # None THEN Less(@) ELSE @]
              /\ pc' = IF c.going THEN "top" ELSE "select"

(* try_dispatch: once per stream; build_request may find it malformed. *)
TryDispatch(s, sts, c) ==
    LET d == [sts EXCEPT ![s].disp = TRUE]
    IN \/ sts[s].disp /\ Fine(sts, c, tasks)
       \/ ~sts[s].disp /\ Fine(d, c, tasks \cup {s})
       \/ ~sts[s].disp /\ BadRequests /\ StreamError(s, d, c)

(* Mutant: the request is dispatched when its headers are complete. *)
FinishAtHeaders(s, sts, c) ==
    /\ decoded' = decoded + 1
    /\ TryDispatch(s, sts, c)

(* finish_header_block: HPACK state runs through every block of the        *)
(* connection; one the client did not encode next may fail to decode.      *)
FinishHeaderBlock(s, sts, c) ==
    /\ decoded' = decoded + 1
    /\ \/ sts[s].es /\ TryDispatch(s, sts, c)
       \/ ~sts[s].es /\ Fine(sts, c, tasks)
       \/ sts[s].blk # decoded + 1 /\ ConnError(sts, c)

-----------------------------------------------------------------------------
(* The frame handlers. *)

OnHeaders(f) ==
    LET s == f.s
        new == s \notin Present
        c == [conn EXCEPT !.last = s, !.open = @ + 1]
        r == IF new THEN [None EXCEPT !.sw = conn.init] ELSE streams[s]
        sts == [streams EXCEPT ![s] =
                  [r EXCEPT !.st = IF f.es THEN "HalfClosedRemote" ELSE "Open",
                            !.es = f.es, !.await = ~f.eh, !.blk = f.n]]
    IN CASE new /\ s <= conn.last ->
              ConnError(streams, conn) /\ UNCHANGED decoded
         [] new /\ s > conn.last /\ conn.open >= MaxConc ->
              Fine(streams, [conn EXCEPT !.last = s], tasks) /\ UNCHANGED decoded
         [] ~new /\ ~(streams[s].st = "Open" /\ f.es) ->
              ConnError(streams, conn) /\ UNCHANGED decoded
         [] OTHER ->
              LET d == IF new THEN c ELSE conn
              IN IF f.eh THEN FinishHeaderBlock(s, sts, d)
                         ELSE Fine(sts, d, tasks) /\ UNCHANGED decoded

OnContinuation(f) ==
    LET sts == [streams EXCEPT ![f.s].await = ~f.eh]
    IN IF f.s \in Awaiting
         THEN IF f.eh THEN FinishHeaderBlock(f.s, sts, conn)
                      ELSE Fine(streams, conn, tasks) /\ UNCHANGED decoded
         ELSE ConnError(streams, conn) /\ UNCHANGED decoded

(* Mutant: the connection window is not checked. *)
OnDataUnchecked(f) ==
    IF streams[f.s].st # "Open"
      THEN StreamError(f.s, streams, [conn EXCEPT !.recv = @ - f.n])
      ELSE IF f.es THEN TryDispatch(f.s, [streams EXCEPT ![f.s].st = "HalfClosedRemote"], conn)
                   ELSE Fine(streams, conn, tasks)

(* on_data: both windows are replenished as soon as the frame is taken in. *)
OnData(f) ==
    LET taken == [conn EXCEPT !.recv = @ - f.n]
    IN CASE f.n > conn.recv -> ConnError(streams, conn)
         [] f.n <= conn.recv /\ streams[f.s].st # "Open" ->
              StreamError(f.s, streams, taken)
         [] OTHER ->
              IF f.es THEN TryDispatch(f.s, [streams EXCEPT ![f.s].st = "HalfClosedRemote"], conn)
                      ELSE Fine(streams, conn, tasks)

(* Mutant: a reset stream is still counted. *)
OnResetUncounted(f) ==
    Fine(IF f.s \in Present THEN Retire(streams, f.s) ELSE streams, conn, tasks)

OnReset(f) ==
    IF f.s \in Present
      THEN Fine(Retire(streams, f.s), [conn EXCEPT !.open = Less(@)], tasks)
      ELSE Fine(streams, conn, tasks)

OnWindowUpdate(f) ==
    LET c == [conn EXCEPT !.send = @ + f.n]
        sts == [streams EXCEPT ![f.s].sw = @ + f.n]
    IN CASE f.n = 0 /\ f.s = 0 -> ConnError(streams, conn)
         [] f.n = 0 /\ f.s # 0 -> StreamError(f.s, streams, conn)
         [] f.n > 0 /\ f.s = 0 ->
              IF c.send > MaxWindow THEN ConnError(streams, c) ELSE Fine(streams, c, tasks)
         [] f.n > 0 /\ f.s \in Present ->
              IF sts[f.s].sw > MaxWindow THEN StreamError(f.s, sts, conn)
                                         ELSE Fine(sts, conn, tasks)
         [] OTHER -> Fine(streams, conn, tasks)

(* on_settings, INITIAL_WINDOW_SIZE: every stream's window moves by the    *)
(* difference, in no particular order, up to the first that overflows.     *)
(* A change that fails is not acknowledged: the client keeps what it had   *)
(* granted before it, and what a higher value grants.                      *)
OnInitialWindow(f) ==
    LET delta == f.n - conn.init
        c == [conn EXCEPT !.init = f.n]
        Moved(U) == [s \in Stream |-> IF s \in U THEN [streams[s] EXCEPT !.sw = @ + delta]
                                                  ELSE streams[s]]
        over == {s \in Present : streams[s].sw + delta > MaxWindow}
        Regranted(d) == [s \in 0..NStreams |-> IF s = 0 THEN credit[0] ELSE credit[s] + d]
    IN CASE f.n > MaxWindow -> ConnError(streams, conn) /\ UNCHANGED credit
         [] OTHER ->
              \/ over = {} /\ Fine(Moved(Present), c, tasks) /\ credit' = Regranted(delta)
              \/ /\ \E U \in SUBSET Present :
                      Cardinality(U \cap over) = 1 /\ ConnError(Moved(U), c)
                 /\ credit' = Regranted(IF delta > 0 THEN delta ELSE 0)

(* ... MAX_FRAME_SIZE; 0 stands for a size out of range. *)
OnMaxFrameSize(f) ==
    IF f.n = 0 THEN ConnError(streams, conn)
               ELSE Fine(streams, [conn EXCEPT !.max = f.n], tasks)

(* dispatch_frame: inside a header block only its CONTINUATION is legal.   *)
(* A WINDOW_UPDATE is a grant whatever the server makes of it.             *)
Dispatch(f) ==
    /\ f.t # "WINDOW" =>
         credit' = IF f.t = "WU" THEN [credit EXCEPT ![f.s] = @ + f.n] ELSE credit
    /\ IF Awaiting # {} /\ ~(f.t = "CONT" /\ f.s \in Awaiting)
         THEN /\ ConnError(streams, conn)
              /\ UNCHANGED decoded /\ (f.t = "WINDOW" => UNCHANGED credit)
         ELSE \/ f.t = "HEADERS" /\ OnHeaders(f)
              \/ f.t = "CONT" /\ OnContinuation(f)
              \/ f.t = "WINDOW" /\ OnInitialWindow(f) /\ UNCHANGED decoded
              \/ /\ UNCHANGED decoded
                 /\ \/ f.t = "DATA" /\ OnData(f)
                    \/ f.t = "RST" /\ OnReset(f)
                    \/ f.t = "WU" /\ OnWindowUpdate(f)
                    \/ f.t = "SIZE" /\ OnMaxFrameSize(f)
                    \/ f.t = "GOAWAY" /\ Fine(streams, [conn EXCEPT !.going = TRUE], tasks)

-----------------------------------------------------------------------------
(* The connection task. *)

Goto(l) == pc' = l
Idle == <<streams, conn, body, tasks, resp, decoded, credit>>

(* The top of the loop, once no response is ready. *)
Top ==
    /\ pc = "top" /\ resp = <<>>
    /\ Goto(IF conn.going /\ Present = {} THEN "closed" ELSE "frames")
    /\ UNCHANGED <<client, inbuf, Idle>>

(* process_buffered_frames, a frame at a time; bytes that do not parse are *)
(* reported and stay where they are.                                       *)
HandleFrame ==
    /\ pc = "frames" /\ inbuf # <<>>
    /\ IF Head(inbuf).t = "BAD"
         THEN ConnError(streams, conn) /\ UNCHANGED <<inbuf, decoded, credit>>
         ELSE inbuf' = Tail(inbuf) /\ Dispatch(Head(inbuf))
    /\ UNCHANGED <<client, body, resp>>

FramesDone ==
    /\ pc = "frames" /\ inbuf = <<>>
    /\ Goto("select")
    /\ UNCHANGED <<client, inbuf, Idle>>

(* One read of the socket, of any number of frames. *)
Read(from, to) ==
    /\ pc = from
    /\ \E k \in 1..Len(wire) :
         /\ inbuf' = inbuf \o SubSeq(wire, 1, k)
         /\ wire' = SubSeq(wire, k + 1, Len(wire))
    /\ Goto(to)
    /\ UNCHANGED <<profile, cst, cblock, nsent, enc, hungup, Idle>>

PeerClosed ==
    /\ pc = "select" /\ hungup /\ wire = <<>>
    /\ Goto("closed")
    /\ UNCHANGED <<client, inbuf, Idle>>

(* on_send_end_stream, then retire_closed_streams. *)
EndStream(s) ==
    /\ streams' = CASE s \in Present /\ streams[s].st = "HalfClosedRemote" -> Retire(streams, s)
                    [] s \in Present /\ streams[s].st = "Open" ->
                         [streams EXCEPT ![s].st = "HalfClosedLocal"]
                    [] OTHER -> streams
    /\ Goto("top")

Closing(s) == s \in Present /\ streams[s].st = "HalfClosedRemote"

(* write_response: a stream reset meanwhile is skipped, a body is written  *)
(* within the frame size known now.                                        *)
WriteResponse ==
    /\ pc \in {"top", "select"} /\ resp # <<>>
    /\ resp' = Tail(resp)
    /\ LET r == Head(resp)
       IN IF r.len > 0 /\ r.s \in Present
            THEN /\ body' = [s |-> r.s, left |-> r.len, max |-> conn.max]
                 /\ Goto("body")
                 /\ UNCHANGED <<streams, conn>>
            ELSE /\ EndStream(r.s)
                 /\ conn' = [conn EXCEPT !.open = IF Closing(r.s) THEN Less(@) ELSE @]
                 /\ body' = body
    /\ UNCHANGED <<client, inbuf, tasks, decoded, credit>>

SendWindow == IF body.s \in Present THEN streams[body.s].sw ELSE 0
Blocked == SendWindow <= 0 \/ conn.send <= 0
Least(S) == CHOOSE n \in S : \A m \in S : n <= m

(* Mutant: only the connection's window is charged. *)
WriteBodyConnOnly ==
    /\ pc = "body" /\ ~Blocked
    /\ LET n == Least({body.left, body.max, SendWindow, conn.send})
       IN /\ credit' = [credit EXCEPT ![0] = @ - n, ![body.s] = @ - n]
          /\ conn' = [conn EXCEPT !.send = @ - n]
          /\ body' = IF body.left > n THEN [body EXCEPT !.left = @ - n] ELSE NoBody
          /\ Goto(IF body.left > n THEN "body" ELSE "top")
    /\ UNCHANGED <<client, inbuf, streams, tasks, resp, decoded>>

(* write_body: one DATA frame. *)
WriteBody ==
    /\ pc = "body" /\ ~Blocked
    /\ LET s == body.s
           n == Least({body.left, body.max, SendWindow, conn.send})
           c == [conn EXCEPT !.send = @ - n]
       IN /\ credit' = [credit EXCEPT ![0] = @ - n, ![s] = @ - n]
          /\ IF body.left > n
               THEN /\ body' = [body EXCEPT !.left = @ - n]
                    /\ streams' = [streams EXCEPT ![s].sw = @ - n]
                    /\ conn' = c /\ pc' = pc
               ELSE /\ body' = NoBody
                    /\ EndStream(s)
                    /\ conn' = [c EXCEPT !.open = IF Closing(s) THEN Less(@) ELSE @]
    /\ UNCHANGED <<client, inbuf, tasks, resp, decoded>>

(* Mutant: an end of file is taken for "nothing yet". *)
RetryBody ==
    pc = "body" /\ Blocked /\ hungup /\ wire = <<>> /\ UNCHANGED vars

(* ... abandoned when the client closes without granting credit. *)
AbandonBody ==
    /\ pc = "body" /\ Blocked /\ hungup /\ wire = <<>>
    /\ body' = NoBody
    /\ EndStream(body.s)
    /\ conn' = [conn EXCEPT !.open = IF Closing(body.s) THEN Less(@) ELSE @]
    /\ UNCHANGED <<client, inbuf, tasks, resp, decoded, credit>>

(* Mutant: WINDOW_UPDATE is left for the main loop. *)
FlowFrameNoUpdate == inbuf # <<>> /\ Head(inbuf).t \in {"WINDOW", "SIZE", "RST"}

(* read_more_for_flow_control: handle what is in front of the buffer as    *)
(* long as it is not for the main loop.                                    *)
FlowFrame == inbuf # <<>> /\ Head(inbuf).t \in {"WU", "WINDOW", "SIZE", "RST"}

Pump ==
    /\ pc = "pump" /\ FlowFrame
    /\ inbuf' = Tail(inbuf)
    /\ Dispatch(Head(inbuf))
    /\ UNCHANGED <<client, body, resp>>

PumpDone ==
    /\ pc = "pump" /\ ~FlowFrame
    /\ Goto("body")
    /\ UNCHANGED <<client, inbuf, Idle>>

(* An adapter task finishes. *)
Adapter(s, len) ==
    /\ s \in tasks
    /\ tasks' = tasks \ {s}
    /\ resp' = Append(resp, [s |-> s, len |-> len])
    /\ UNCHANGED <<client, credit, inbuf, pc, streams, conn, body, decoded>>

-----------------------------------------------------------------------------
Client ==
    \/ \E s \in Stream, b \in BOOLEAN :
         \/ SendData(s, b) \/ SendContinuation(s, b)
         \/ \E eh \in BOOLEAN : SendHeaders(s, b, eh)
    \/ \E s \in Stream : SendReset(s)
    \/ \E s \in 0..NStreams, n \in 0..(2 * Window) : SendOther("WU", s, n)
    \/ \E n \in 0..(MaxWindow + 1) : SendOther("WINDOW", 0, n)
    \/ \E n \in 0..2 : SendOther("SIZE", 0, n)
    \/ \E t \in {"GOAWAY", "BAD"} : SendOther(t, 0, 0)
    \/ HangUp

Granting == \E s \in 0..NStreams : Grant(s)

Server ==
    \/ Top \/ HandleFrame \/ FramesDone \/ PeerClosed
    \/ Read("select", "top") \/ WriteResponse
    \/ WriteBody \/ AbandonBody \/ (Blocked /\ Read("body", "pump")) \/ Pump \/ PumpDone

Answering == \E s \in Stream, len \in 0..profile.body : Adapter(s, len)

Next == Client \/ Granting \/ Server \/ Answering

Spec == Init /\ [][Next]_vars

(* The task is polled, adapters return, and a client that has used up what *)
(* it granted grants more; requests need not come, nor the client hang up. *)
ServerFairness ==
    /\ WF_vars(Server)
    /\ \A s \in Stream : WF_vars(\E len \in 0..profile.body : Adapter(s, len))
    /\ \A s \in 0..NStreams : WF_vars(Grant(s))

FairSpec == Spec /\ ServerFairness

-----------------------------------------------------------------------------
(* The connection's state stays well formed: in particular the receive     *)
(* window is never overdrawn and the stream count stays within the limit.  *)
TypeOK ==
    /\ wire \in Seq(Frame) /\ inbuf \in Seq(Frame)
    /\ pc \in {"top", "frames", "select", "body", "pump", "closed"}
    /\ streams \in [Stream -> [st : {"none", "Open", "HalfClosedRemote", "HalfClosedLocal"},
                               await : BOOLEAN, es : BOOLEAN, disp : BOOLEAN,
                               sw : Int, blk : Nat]]
    /\ conn.send \in Int /\ conn.recv \in 0..Window /\ conn.last \in 0..NStreams
    /\ conn.open \in 0..MaxConc /\ conn.going \in BOOLEAN
    /\ tasks \subseteq Stream /\ body.s \in 0..NStreams

(* open_stream_count stays the number of streams in the map through every  *)
(* open, refusal, reset, error and response, and never passes the limit.   *)
OpenCount == conn.open = Cardinality(Present) /\ conn.open <= MaxConc

(* A request goes to the adapter once, and the server never ends its half  *)
(* of a stream before the client has ended its own.                        *)
OneAnswer ==
    /\ \A s \in Stream : streams[s].st # "HalfClosedLocal"
    /\ \A s \in Stream :
         Cardinality({i \in 1..Len(resp) : resp[i].s = s})
           + (IF s \in tasks THEN 1 ELSE 0) + (IF body.s = s THEN 1 ELSE 0) <= 1

(* write_body never sends more than the client has granted to the stream   *)
(* and to the connection in the frames the server has taken in, through    *)
(* window changes, resets and errors.                                      *)
WithinCredit ==
    [][pc = "body" /\ conn'.send < conn.send
         => LET n == conn.send - conn'.send
            IN credit[0] >= n /\ credit[body.s] >= n]_vars

(* "Blocks until the whole body is sent": with a client that keeps         *)
(* granting, a body that was begun is finished.                            *)
BodyCompletes == (body.s # 0 /\ ~hungup) ~> (body.s = 0 \/ hungup)
=============================================================================
