-------------------------------- MODULE Ajp ---------------------------------
(***************************************************************************)
(* One AJP/1.3 connection of tomcatrs-coyote: a proxy forwards requests    *)
(* over a persistent connection and the container pulls their bodies chunk *)
(* by chunk.  A packet is its decoded fields; a body and a string are      *)
(* their length.  What the proxy does is external: it answers every Get    *)
(* Body Chunk and waits for End Response before it forwards again.         *)
(***************************************************************************)
EXTENDS Integers, Sequences, SequencesExt

CONSTANTS
  Forwards,    \* Forward Requests the proxy may send
  MaxForwards, \* bound: requests on the connection
  MaxChunk,    \* MAX_SEND_CHUNK
  Secret,      \* the configured secret, <<>> if there is none
  Answer,      \* length of the adapter's response body
  Width,       \* 2^16: lengths on the wire are taken modulo this
  ByteWidth    \* 2^8: the lengths of secrets are compared modulo this

VARIABLES
  toContainer, \* packets from the proxy
  toProxy,     \* packets to the proxy
  proxy,       \* the proxy's place, and what is left of the body it sends
  log,         \* requests forwarded so far
  ajp,         \* the container's place, current request and body so far
  handed,      \* requests the adapter got (history)
  replies      \* responses the proxy has assembled (history)

ajpVars == <<toContainer, toProxy, proxy, log, ajp, handed, replies>>

NoForward == [length |-> 0, attrs |-> <<>>, uri |-> TRUE]

AjpInit ==
  /\ toContainer = <<>> /\ toProxy = <<>>
  /\ proxy = [at |-> "idle", left |-> 0]
  /\ log = <<>> /\ handed = <<>> /\ replies = <<>>
  /\ ajp = [at |-> "top", fwd |-> NoForward, body |-> 0]

(***************************************************************************)
(* Strings on the wire                                                     *)
(***************************************************************************)
\* write_string: a 16-bit length, the bytes and a NUL; the last length is the
\* null marker and stands alone.  A unit is one byte or one length field; the
\* bytes of a string are all Char, which read as a length would be 1.
NUL == 0
Char == 1
WriteString(len) == <<len % Width>> \o [i \in 1..len |-> Char] \o <<NUL>>

(* Mutant: only the length of a single string is looked at. *)
EncodesEach(strings) == \A i \in DOMAIN strings : strings[i] <= Width

\* A message is a sequence of strings; encode refuses one that is too long.
Payload(strings) == FlattenSeq([i \in DOMAIN strings |-> WriteString(strings[i])])
PayloadLen(strings) == Len(Payload(strings)) + Len(strings)
Encodes(strings) == PayloadLen(strings) <= Width - 1

\* read_string: -1 is null, -2 an error.
ReadString(units) ==
  LET len == units[1]
  IN IF len = Width - 1 THEN [value |-> -1, rest |-> Tail(units)]
     ELSE IF len + 2 > Len(units) \/ units[len + 2] # NUL THEN [value |-> -2, rest |-> <<>>]
     ELSE [value |-> len, rest |-> SubSeq(units, len + 3, Len(units))]

RECURSIVE ReadStrings(_)
ReadStrings(units) ==
  IF units = <<>> THEN <<>>
  ELSE LET read == ReadString(units)
       IN <<read.value>> \o (IF read.value = -2 THEN <<>> ELSE ReadStrings(read.rest))

(***************************************************************************)
(* A Forward Request: its body length, its attributes in wire order and    *)
(* whether its URI is acceptable.  A secret is the sequence of its bytes,  *)
(* an optional value a sequence of at most one.                            *)
(***************************************************************************)
Kept == {"remote_user", "auth_type", "query_string", "route", "ssl_cert", "secret", "stored_method"}
Dropped == {"context", "servlet_path", "ssl_cipher", "ssl_session", "ssl_key_size", "req_attribute"}

\* ForwardRequest::decode, the attributes: one that is kept replaces an earlier
\* one of its kind, a generic one is read and dropped, and a code outside the
\* table fails the packet.
Decode(fwd) ==
  [ok |-> \A i \in DOMAIN fwd.attrs : fwd.attrs[i].code \in Kept \cup Dropped,
   value |-> [code \in Kept |->
                LET at == SelectLastInSeq(fwd.attrs, LAMBDA a : a.code = code)
                IN IF at = 0 THEN <<>> ELSE <<fwd.attrs[at].value>>]]

(***************************************************************************)
(* The proxy (external)                                                    *)
(***************************************************************************)
ProxyKeeps == UNCHANGED <<ajp, handed>>

Forward(fwd) ==
  /\ proxy.at = "idle" /\ Len(log) < MaxForwards
  /\ log' = Append(log, fwd)
  /\ toContainer' = Append(toContainer, [type |-> "forward", fwd |-> fwd])
  /\ proxy' = [at |-> "waiting", left |-> fwd.length]
  /\ ProxyKeeps /\ UNCHANGED <<toProxy, replies>>

\* A probe, a shutdown packet or one of no known type, between requests.
Probe(type) ==
  /\ proxy.at = "idle" /\ toContainer = <<>> /\ toProxy = <<>> /\ Len(log) < MaxForwards
  /\ toContainer' = <<[type |-> type]>>
  /\ proxy' = [proxy EXCEPT !.at = IF type = "cping" THEN "probing" ELSE "idle"]
  /\ ProxyKeeps /\ UNCHANGED <<log, toProxy, replies>>

\* The proxy takes a packet: it sends at most what is asked for, or an empty
\* packet when it has no more (its client may have gone).
ProxyTakes ==
  /\ toProxy # <<>>
  /\ LET p == Head(toProxy)
     IN \/ /\ p.type = "get"
           /\ \E n \in 0..proxy.left :
                /\ n <= p.want
                /\ toContainer' = Append(toContainer, [type |-> "data", len |-> n])
                /\ proxy' = [proxy EXCEPT !.left = IF n = 0 THEN 0 ELSE @ - n]
           /\ UNCHANGED replies
        \/ /\ p.type \in {"headers", "chunk"}
           /\ replies' = IF p.type = "headers" THEN Append(replies, [status |-> p.status, body |-> 0])
                         ELSE [replies EXCEPT ![Len(replies)].body = @ + p.len]
           /\ UNCHANGED <<toContainer, proxy>>
        \/ /\ p.type \in {"end", "cpong"}
           /\ proxy' = [at |-> "idle", left |-> 0]
           /\ UNCHANGED <<toContainer, replies>>
  /\ toProxy' = Tail(toProxy)
  /\ ProxyKeeps /\ UNCHANGED log

(***************************************************************************)
(* The container: AjpConnection::run                                       *)
(***************************************************************************)
Take == toContainer # <<>> /\ toContainer' = Tail(toContainer)

\* write_response: headers, the body in chunks of at most MAX_SEND_CHUNK, end.
Response(status, len) ==
  LET chunks == (len + MaxChunk - 1) \div MaxChunk
  IN <<[type |-> "headers", status |-> status]>>
       \o [i \in 1..chunks |->
             [type |-> "chunk", len |-> IF i < chunks THEN MaxChunk ELSE len - MaxChunk * (chunks - 1)]]
       \o <<[type |-> "end"]>>

Want(fwd, body) == IF fwd.length - body < MaxChunk THEN fwd.length - body ELSE MaxChunk

GetBody(fwd, body) == <<[type |-> "get", want |-> Want(fwd, body)]>>

\* secret_matches: diff starts as the lengths' exclusive or cast to u8, which is
\* 0 when they agree modulo 2^8, and takes in the bytes up to the end of the
\* configured secret, a missing one as 0.
SecretMatches(configured, presented) ==
  /\ Len(configured) % ByteWidth = Len(presented) % ByteWidth
  /\ \A i \in DOMAIN configured :
       configured[i] = IF i \in DOMAIN presented THEN presented[i] ELSE 0

\* run: without a configured secret every request passes.
SecretOK(fwd) ==
  LET presented == Decode(fwd).value["secret"]
  IN Secret # <<>> => presented # <<>> /\ SecretMatches(Secret[1], presented[1])

\* ForwardRequest::into_request: the attributes that become headers of the
\* request, the certificate by its presence only.
IntoRequest(fwd) ==
  [code \in {"remote_user", "auth_type", "route", "ssl_cert"} |->
     IF code = "ssl_cert" /\ Decode(fwd).value[code] # <<>> THEN <<"present">>
     ELSE Decode(fwd).value[code]]

(* Mutant: a refused request still has its body asked for. *)
OnForwardAsks(fwd) ==
  IF ~SecretOK(fwd) \/ ~fwd.uri
  THEN /\ ajp' = [ajp EXCEPT !.at = "top"]
       /\ toProxy' = toProxy \o GetBody(fwd, 0) \o Response(IF SecretOK(fwd) THEN 400 ELSE 403, 1)
  ELSE IF fwd.length > 0
  THEN ajp' = [at |-> "body", fwd |-> fwd, body |-> 0] /\ toProxy' = toProxy \o GetBody(fwd, 0)
  ELSE ajp' = [at |-> "serve", fwd |-> fwd, body |-> 0] /\ UNCHANGED toProxy

\* A Forward Request that decodes: 403, 400, the first Get Body Chunk, or on to
\* the adapter.
OnForward(fwd) ==
  IF ~SecretOK(fwd) \/ ~fwd.uri
  THEN /\ ajp' = [ajp EXCEPT !.at = "top"]
       /\ toProxy' = toProxy \o Response(IF SecretOK(fwd) THEN 400 ELSE 403, 1)
  ELSE IF fwd.length > 0
  THEN ajp' = [at |-> "body", fwd |-> fwd, body |-> 0] /\ toProxy' = toProxy \o GetBody(fwd, 0)
  ELSE ajp' = [at |-> "serve", fwd |-> fwd, body |-> 0] /\ UNCHANGED toProxy

\* One turn of the loop.  Shutdown ends it; a packet of another type, an empty
\* one, or a request that does not decode is an error that ends it too.
RunTop ==
  /\ ajp.at = "top" /\ Take
  /\ LET p == Head(toContainer)
     IN CASE p.type = "cping" -> toProxy' = Append(toProxy, [type |-> "cpong"]) /\ UNCHANGED ajp
          [] p.type = "forward" /\ Decode(p.fwd).ok -> OnForward(p.fwd)
          [] OTHER -> ajp' = [ajp EXCEPT !.at = "closed"] /\ UNCHANGED toProxy
  /\ UNCHANGED <<proxy, log, handed, replies>>

(* Mutant: an early end of the body is not seen. *)
ReadBodyIgnoresEnd ==
  /\ ajp.at = "body" /\ Take
  /\ LET p == Head(toContainer)
         got == ajp.body + p.len
     IN IF got >= ajp.fwd.length
        THEN ajp' = [ajp EXCEPT !.at = "serve", !.body = got] /\ UNCHANGED toProxy
        ELSE ajp' = [ajp EXCEPT !.body = got] /\ toProxy' = toProxy \o GetBody(ajp.fwd, got)
  /\ UNCHANGED <<proxy, log, handed, replies>>

\* read_body and decode_body_data: an empty packet ends the body early.
ReadBodyChunk ==
  /\ ajp.at = "body" /\ Take
  /\ LET p == Head(toContainer)
         got == ajp.body + p.len
     IN IF p.len = 0 \/ got >= ajp.fwd.length
        THEN ajp' = [ajp EXCEPT !.at = "serve", !.body = got] /\ UNCHANGED toProxy
        ELSE ajp' = [ajp EXCEPT !.body = got] /\ toProxy' = toProxy \o GetBody(ajp.fwd, got)
  /\ UNCHANGED <<proxy, log, handed, replies>>

\* The adapter answers and the response is streamed back.
ServeAjp ==
  /\ ajp.at = "serve"
  /\ handed' = Append(handed, [body |-> ajp.body, shows |-> IntoRequest(ajp.fwd)])
  /\ toProxy' = toProxy \o Response(200, Answer)
  /\ ajp' = [at |-> "top", fwd |-> NoForward, body |-> 0]
  /\ UNCHANGED <<toContainer, proxy, log, replies>>

AjpNext ==
  \/ \E fwd \in Forwards : Forward(fwd)
  \/ \E type \in {"cping", "shutdown", "unknown"} : Probe(type)
  \/ ProxyTakes \/ RunTop \/ ReadBodyChunk \/ ServeAjp

\* The connection task is polled and the proxy reads its socket.
AjpFairness == WF_ajpVars(RunTop \/ ReadBodyChunk \/ ServeAjp) /\ WF_ajpVars(ProxyTakes)

AjpSpec == AjpInit /\ [][AjpNext]_ajpVars /\ AjpFairness

(***************************************************************************)
(* Properties                                                              *)
(***************************************************************************)
\* Container and proxy stay in step: whenever the container looks for a new
\* packet, no chunk of a body is on its way, and no chunk is being asked for.
\* A refused request leaves nothing of its body behind.
AjpInStep ==
  ajp.at = "top" =>
    /\ \A i \in DOMAIN toContainer : toContainer[i].type # "data"
    /\ \A i \in DOMAIN toProxy : toProxy[i].type # "get"

\* The proxy gets for the n-th request the answer to the n-th request, whole.
AjpAnswersMatch ==
  proxy.at = "idle" /\ ajp.at # "closed" /\ toProxy = <<>> =>
    /\ Len(replies) = Len(log)
    /\ \A i \in DOMAIN replies :
         replies[i] = IF ~SecretOK(log[i]) THEN [status |-> 403, body |-> 1]
                      ELSE IF ~log[i].uri THEN [status |-> 400, body |-> 1]
                      ELSE [status |-> 200, body |-> Answer]

\* A forwarded request is answered or the connection is closed, also when the
\* proxy runs out of body early.
Unanswered == proxy.at = "waiting"
Answered == proxy.at = "idle" \/ ajp.at = "closed"

\* What encode lets through is read back as written: a length that does not fit
\* in 16 bits, or that would be the null marker, never reaches the wire.
StringsSurvive(strings) == Encodes(strings) => ReadStrings(Payload(strings)) = strings
=============================================================================
