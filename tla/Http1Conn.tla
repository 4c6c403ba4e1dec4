----------------------------- MODULE Http1Conn ------------------------------
(***************************************************************************)
(* One HTTP/1.1 connection of tomcatrs-coyote: serve_connection reads      *)
(* requests off a byte stream whose reads may return any part of what has  *)
(* arrived, carries bytes read too far over to the next request, and       *)
(* answers in order.  A byte is a pair of the request it belongs to and    *)
(* its part: "h" inside the head, "H" the last of the head, "b" body, "e"  *)
(* the end of a chunked body.                                              *)
(***************************************************************************)
EXTENDS Integers, Sequences, FiniteSets, SequencesExt

CONSTANTS
  Kinds,       \* kinds of request: the length of the head, its codings and
               \* lengths, the body behind it, version, Connection, validity
  MaxRequests, \* bound: requests the client sends
  MaxPost,     \* RequestLimits::max_post_size
  HeadCap,     \* HEADER_BLOCK_HARD_CAP
  MaxRead,     \* the size of the buffer a read fills
  Eager        \* whether the client sends on behind a request without a body

VARIABLES
  script,   \* the requests the client sends, in order
  sent,     \* bytes of the script sent so far
  sock,     \* bytes sent and not yet read
  shut,     \* whether the client has closed its side
  hc,       \* serve_connection's place
  buf,      \* bytes of the head, or body, being read
  carry,    \* carryover
  first,    \* read_head: whether the keep-alive timeout still applies
  current,  \* the request whose head was parsed
  served,   \* requests handed to the adapter, with the body each got
  answered, \* responses written
  ending    \* how the connection ended

http1Vars == <<script, sent, sock, shut, hc, buf, carry, first, current, served, answered, ending>>

Bytes(i, kind) ==
  LET body == [n \in 1..kind.body |-> <<i, "b">>]
  IN [n \in 1..kind.head |-> <<i, "h">>] \o <<<<i, "H">>>> \o body
       \o (IF "chunked" \in ToSet(kind.te) THEN <<<<i, "e">>>> ELSE <<>>)

Wire == FlattenSeq([i \in DOMAIN script |-> Bytes(i, script[i])])

Http1Init ==
  /\ script \in UNION {[1..n -> Kinds] : n \in 1..MaxRequests}
  /\ sent = 0 /\ sock = <<>> /\ shut = FALSE
  /\ hc = "head" /\ buf = <<>> /\ carry = <<>> /\ first = TRUE
  /\ current = 0 /\ served = <<>> /\ answered = 0 /\ ending = "none"

(***************************************************************************)
(* What the head says                                                      *)
(***************************************************************************)
\* body_framing: the codings of every Transfer-Encoding header and the values
\* of every Content-Length, -1 for one that is no number.
BodyFraming(kind) ==
  CASE ToSet(kind.te) \ {"chunked", ""} # {} -> "reject"
    [] kind.te # <<>> /\ "chunked" \notin ToSet(kind.te) -> "reject"
    [] -1 \in ToSet(kind.cl) \/ Cardinality(ToSet(kind.cl)) > 1 -> "reject"
    [] kind.te # <<>> /\ kind.cl # <<>> -> "reject"
    [] kind.te # <<>> -> "chunked"
    [] kind.cl = <<>> \/ kind.cl[1] = 0 -> "none"
    [] OTHER -> "fixed"

\* wants_keep_alive
WantsKeepAlive(kind) ==
  IF kind.version = "1.1" THEN kind.connection # "close" ELSE kind.connection = "keep-alive"

server == <<hc, buf, carry, first, current, served, answered, ending>>

(***************************************************************************)
(* The client                                                              *)
(***************************************************************************)
\* The next byte; a client that is not eager waits for the answer before it
\* starts a request behind one without a body.
Send ==
  /\ ~shut /\ sent < Len(Wire)
  /\ LET byte == Wire[sent + 1]
     IN /\ byte[2] \in {"h", "H"} /\ byte[1] > 1 /\ ~Eager /\ BodyFraming(script[byte[1] - 1]) = "none" =>
             answered >= byte[1] - 1
        /\ sock' = Append(sock, byte)
  /\ sent' = sent + 1
  /\ UNCHANGED <<script, shut, server>>

Shut ==
  /\ ~shut /\ shut' = TRUE
  /\ UNCHANGED <<script, sent, sock, server>>

(***************************************************************************)
(* The server                                                              *)
(***************************************************************************)
Ends(how) == hc' = "closed" /\ ending' = how

\* Reject: an error response is written and the connection closed.
Reject == hc' = "reject" /\ UNCHANGED ending

\* find_header_end
HeaderEnd(bytes) == SelectInSeq(bytes, LAMBDA b : b[2] = "H")

\* parse_head and body_framing: a head must be the bytes of one request.
HeadOf(bytes) ==
  LET r == Last(bytes)[1]
  IN IF bytes = SubSeq(Bytes(r, script[r]), 1, script[r].head + 1) /\ script[r].valid
     THEN r ELSE 0

\* read_chunked_body and the decoder: how far the body goes, 0 if it is open.
BodyEnd(bytes) == SelectInSeq(bytes, LAMBDA b : b[2] = "e")
TooLarge(bytes) ==
  LET end == BodyEnd(bytes)
      body == IF end = 0 THEN bytes ELSE SubSeq(bytes, 1, end)
  IN Len(SelectSeq(body, LAMBDA b : b[2] = "b")) > MaxPost

(* Mutant: bytes behind a fixed body are dropped. *)
TakeBodyNoCarry(r, bytes) ==
  LET framing == BodyFraming(script[r])
      end == IF framing = "none" THEN 0
             ELSE IF framing = "fixed" THEN script[r].cl[1] ELSE BodyEnd(bytes)
  IN IF framing # "none" /\ (Len(bytes) < end \/ (framing = "chunked" /\ end = 0))
     THEN hc' = "body" /\ buf' = bytes /\ carry' = <<>>
     ELSE hc' = "serve" /\ buf' = SubSeq(bytes, 1, end) /\ carry' = <<>>

(* Mutant: a body takes all that was read with it. *)
TakeBodyLong(r, bytes) ==
  LET framing == BodyFraming(script[r])
      end == IF framing = "none" THEN 0
             ELSE IF framing = "fixed" THEN script[r].cl[1] ELSE BodyEnd(bytes)
  IN IF framing # "none" /\ (Len(bytes) < end \/ (framing = "chunked" /\ end = 0))
     THEN hc' = "body" /\ buf' = bytes /\ carry' = <<>>
     ELSE hc' = "serve" /\ buf' = bytes /\ carry' = <<>>

\* What was read behind the head: the body so far, and the bytes that belong to
\* the next request.  Without a body the rest of the buffer is dropped.
TakeBody(r, bytes) ==
  LET framing == BodyFraming(script[r])
      end == IF framing = "none" THEN 0
             ELSE IF framing = "fixed" THEN script[r].cl[1] ELSE BodyEnd(bytes)
  IN IF framing # "none" /\ (Len(bytes) < end \/ (framing = "chunked" /\ end = 0))
     THEN hc' = "body" /\ buf' = bytes /\ carry' = <<>>
     ELSE /\ hc' = "serve" /\ buf' = SubSeq(bytes, 1, end)
          /\ carry' = IF framing = "none" THEN <<>> ELSE SubSeq(bytes, end + 1, Len(bytes))

\* read_request once the buffer holds a whole head.
ParseHead(bytes) ==
  LET end == HeaderEnd(bytes)
      r == HeadOf(SubSeq(bytes, 1, end))
      rest == SubSeq(bytes, end + 1, Len(bytes))
  IN IF \/ r = 0
        \/ BodyFraming(script[r]) = "reject"
        \/ BodyFraming(script[r]) = "fixed" /\ script[r].cl[1] > MaxPost
        \/ BodyFraming(script[r]) = "chunked" /\ TooLarge(rest)
     THEN Reject /\ UNCHANGED <<current, buf, carry>>
     ELSE /\ current' = r /\ UNCHANGED ending
          /\ TakeBody(r, rest)

\* read_head starts with the bytes carried over.
SeedHead ==
  /\ hc = "head"
  /\ first' = (carry = <<>>)
  /\ IF HeaderEnd(carry) # 0 THEN ParseHead(carry)
     ELSE hc' = "reading" /\ buf' = carry /\ carry' = <<>> /\ UNCHANGED <<current, ending>>
  /\ UNCHANGED <<script, sent, sock, shut, served, answered>>

\* A read of the head returns n bytes; the buffer is capped.
ReadHead(n) ==
  /\ hc = "reading" /\ n <= Len(sock)
  /\ first' = FALSE
  /\ LET bytes == buf \o SubSeq(sock, 1, n)
     IN IF Len(bytes) > HeadCap THEN Reject /\ UNCHANGED <<buf, carry, current>>
        ELSE IF HeaderEnd(bytes) # 0 THEN ParseHead(bytes)
        ELSE buf' = bytes /\ UNCHANGED <<hc, carry, current, ending>>
  /\ sock' = SubSeq(sock, n + 1, Len(sock))
  /\ UNCHANGED <<script, sent, shut, served, answered>>

\* The keep-alive timeout, which only covers the wait for the first byte.
KeepAliveTimeout ==
  /\ hc = "reading" /\ first
  /\ Ends("idle")
  /\ UNCHANGED <<script, sent, sock, shut, buf, carry, first, current, served, answered>>

(* Mutant: the end of the stream inside a head is read over and over. *)
HeadEofPatient ==
  /\ hc = "reading" /\ shut /\ sock = <<>> /\ buf = <<>>
  /\ Ends("idle")
  /\ UNCHANGED <<script, sent, sock, shut, buf, carry, first, current, served, answered>>

\* A read that returns nothing: a clean end between requests, else an error.
HeadEof ==
  /\ hc = "reading" /\ shut /\ sock = <<>>
  /\ IF buf = <<>> THEN Ends("idle") ELSE Reject
  /\ UNCHANGED <<script, sent, sock, shut, buf, carry, first, current, served, answered>>

\* A read of the body: a fixed body asks for no more than it lacks, a chunked
\* one takes what there is.
ReadBody(n) ==
  /\ hc = "body" /\ n <= Len(sock)
  /\ BodyFraming(script[current]) = "fixed" => n <= script[current].cl[1] - Len(buf)
  /\ LET bytes == buf \o SubSeq(sock, 1, n)
     IN IF BodyFraming(script[current]) = "chunked" /\ TooLarge(bytes)
        THEN Reject /\ UNCHANGED <<buf, carry>>
        ELSE TakeBody(current, bytes) /\ UNCHANGED ending
  /\ sock' = SubSeq(sock, n + 1, Len(sock))
  /\ UNCHANGED <<script, sent, shut, first, current, served, answered>>

\* The request timeout, or the end of the stream, in a body.
BodyFails ==
  /\ hc = "body" /\ sock = <<>>
  /\ Reject
  /\ UNCHANGED <<script, sent, sock, shut, buf, carry, first, current, served, answered>>

\* The target is normalised once the body is read; the adapter serves.
Serve ==
  /\ hc = "serve"
  /\ IF script[current].target
     THEN /\ served' = Append(served, [req |-> current, body |-> buf])
          /\ hc' = "write" /\ UNCHANGED ending
     ELSE Reject /\ UNCHANGED served
  /\ UNCHANGED <<script, sent, sock, shut, buf, carry, first, current, answered>>

\* write_response; wants_keep_alive decides whether to read on.
WriteResponse1 ==
  /\ hc = "write"
  /\ answered' = answered + 1
  /\ IF WantsKeepAlive(script[current]) THEN hc' = "head" /\ UNCHANGED ending ELSE Ends("told")
  /\ UNCHANGED <<script, sent, sock, shut, buf, carry, first, current, served>>

WriteReject ==
  /\ hc = "reject"
  /\ answered' = answered + 1 /\ Ends("rejected")
  /\ UNCHANGED <<script, sent, sock, shut, buf, carry, first, current, served>>

Http1Next ==
  \/ Send \/ Shut \/ SeedHead \/ KeepAliveTimeout \/ HeadEof \/ BodyFails
  \/ Serve \/ WriteResponse1 \/ WriteReject
  \/ \E n \in 1..MaxRead : ReadHead(n) \/ ReadBody(n)

\* The task is polled, and its reads see what has arrived; the keep-alive timer
\* need not fire.
Task ==
  \/ SeedHead \/ HeadEof \/ BodyFails \/ Serve \/ WriteResponse1 \/ WriteReject
  \/ \E n \in 1..MaxRead : ReadHead(n) \/ ReadBody(n)

Http1Fairness == WF_http1Vars(Task)

Http1Spec == Http1Init /\ [][Http1Next]_http1Vars /\ Http1Fairness

(***************************************************************************)
(* Properties                                                              *)
(***************************************************************************)
\* Whatever the reads return, the adapter gets the requests in the order sent,
\* each with exactly its own body: no byte of one request is taken for another.
FramingKept ==
  \A i \in DOMAIN served :
    /\ served[i].req = i
    /\ served[i].body = SubSeq(Bytes(i, script[i]), script[i].head + 2, Len(Bytes(i, script[i])))

\* A connection that ends as idle has answered every request whose bytes were
\* all read: none was lost on the way.
NoneLost ==
  ending = "idle" =>
    \A i \in DOMAIN script :
      Len(FlattenSeq([j \in 1..i |-> Bytes(j, script[j])])) <= sent - Len(sock) => i <= answered

\* A client that stops sending and closes gets the connection closed: nothing
\* the task waits for is left without a timeout once the stream has ended.
ClientGone == shut
Closed == hc = "closed"
=============================================================================
