------------------------------ MODULE MCServer ------------------------------
(***************************************************************************)
(* The rest of the server side by side for TLC, for its safety alone:      *)
(* sessions through the servlet API, logins and digests, the HPACK tables, *)
(* the start of a webapp, the valve pipeline, the remote session stores,   *)
(* static files, the latency histogram and the calls of MCAlgorithms.      *)
(* They do not interact: a behaviour belongs to one of them, and the       *)
(* others stay in an initial state.                                        *)
(***************************************************************************)
EXTENDS HttpSession, Auth, Pipeline, RemoteStores, StaticFiles, WebappStart,
        MCAlgorithms

CONSTANT Parts  \* the components this run looks at

VARIABLES
  part,
  enc, dec, wire, got, blocks, resizes,
  buckets, sum, max, thread, reader, started

hpackVars == <<enc, dec, wire, got, blocks, resizes>>
histVars == <<buckets, sum, max, thread, reader, started>>

(***************************************************************************)
(* Constants of the extended modules                                       *)
(***************************************************************************)
\* Two realms in a row, of which the second knows the user's secret.
Realm(user, secret, digest) ==
  [users |-> [x \in {user} |-> secret], digest |-> digest, broken |-> FALSE]
TwoRealms == <<Realm("v", "w", FALSE), Realm("u", "p", TRUE)>>

\* No range, one byte, the rest of the file, the last byte with the whole file.
ByteRange(first, last) == [first |-> first, last |-> last]
SomeRanges == {<<>>, <<ByteRange(0, 0)>>, <<ByteRange(1, -1)>>,
               <<ByteRange(-1, 1), ByteRange(0, 5)>>}

\* Servlets declared lazy, late and early, with a filter of the same name as one;
\* and one eager servlet.
Servlet(name, load) == [name |-> name, load |-> load]
WebXml ==
  {[servlets |-> <<Servlet("a", -1), Servlet("b", 2), Servlet("c", 1)>>, filters |-> <<"a">>],
   [servlets |-> <<Servlet("a", 0)>>, filters |-> <<>>]}
Unspecified == -1
Initialised == <<"i", "j">>

(***************************************************************************)
(* The instances                                                           *)
(***************************************************************************)
\* Fields of every sort: in the static table whole or by name, evicting one or
\* more others, too large for the table, too large for the list with another,
\* and sensitive.
Field(name, value, size) == [name |-> name, value |-> value, size |-> size]
Headers == INSTANCE Hpack
  WITH Static <- <<Field("m", "g", 1), Field("p", "", 1)>>,
       Fields <- {Field("m", "g", 1), Field("x", "a", 1), Field("x", "b", 2),
                  Field("y", "a", 4), Field("z", "a", 3), Field("c", "k", 1)},
       Sensitive <- {"c"}, TableSize <- 3, MaxList <- 5, MaxBlock <- 2, MaxBlocks <- 2,
       MaxResizes <- 2

Hist == INSTANCE Histogram
  WITH Threads <- {"t1", "t2"}, Samples <- {0, 10, 100}, Decades <- 2, MaxRecords <- 2

(***************************************************************************)
(* The sum                                                                 *)
(***************************************************************************)
\* Of the initial states a part may have, the one it stays in when another part
\* runs.
AtRest ==
  /\ part = "session" \/ workers = 1
  /\ part = "pipeline" \/ \A r \in DOMAIN req :
       ~req[r].denied /\ ~req[r].disallowed /\ req[r].resp.status = 0
  /\ part = "files" \/ versions[1].len = 1

SumInit ==
  /\ part \in Parts
  /\ Init /\ AuthInit /\ Headers!HpackInit /\ StartInit /\ PipeInit
  /\ StoreInit /\ FileInit /\ Hist!HistInit
  /\ call = [fn |-> "none"]
  /\ AtRest

SessionStep ==
  /\ part = "session" /\ Next
  /\ UNCHANGED <<part, call, authVars, hpackVars, startVars, pipeVars, storeVars, fileVars, histVars>>
LoginStep ==
  /\ part = "login" /\ LoginNext
  /\ UNCHANGED <<part, call, vars, hpackVars, startVars, pipeVars, storeVars, fileVars, histVars>>
DigestStep ==
  /\ part = "digest" /\ DigestNext
  /\ UNCHANGED <<part, call, vars, hpackVars, startVars, pipeVars, storeVars, fileVars, histVars>>
HpackStep ==
  /\ part = "hpack" /\ Headers!HpackNext
  /\ UNCHANGED <<part, call, vars, authVars, startVars, pipeVars, storeVars, fileVars, histVars>>
StartStep ==
  /\ part = "start" /\ StartNext
  /\ UNCHANGED <<part, call, vars, authVars, hpackVars, pipeVars, storeVars, fileVars, histVars>>
PipeStep ==
  /\ part = "pipeline" /\ PipeNext
  /\ UNCHANGED <<part, call, vars, authVars, hpackVars, startVars, storeVars, fileVars, histVars>>
JdbcStep ==
  /\ part = "jdbc" /\ JdbcNext
  /\ UNCHANGED <<part, call, vars, authVars, hpackVars, startVars, pipeVars, fileVars, histVars>>
RedisStep ==
  /\ part = "redis" /\ RedisNext
  /\ UNCHANGED <<part, call, vars, authVars, hpackVars, startVars, pipeVars, fileVars, histVars>>
FileStep ==
  /\ part = "files" /\ FileNext
  /\ UNCHANGED <<part, call, vars, authVars, hpackVars, startVars, pipeVars, storeVars, histVars>>
HistStep ==
  /\ part = "histogram" /\ Hist!HistNext
  /\ UNCHANGED <<part, call, vars, authVars, hpackVars, startVars, pipeVars, storeVars, fileVars>>
CallStep ==
  /\ part = "calls" /\ call.fn = "none"
  /\ \/ CodecCalls \/ RoutingCalls \/ TextCalls \/ FileCalls \/ WebappCalls
     \/ ExpressionCalls \/ BridgeCalls
  /\ UNCHANGED <<part, vars, authVars, hpackVars, startVars, pipeVars, storeVars, fileVars, histVars>>

SumNext ==
  \/ SessionStep \/ LoginStep \/ DigestStep \/ HpackStep \/ StartStep \/ PipeStep \/ JdbcStep
  \/ RedisStep \/ FileStep \/ HistStep \/ CallStep

SumSpec ==
  SumInit /\ [][SumNext]_<<part, call, vars, authVars, hpackVars, startVars, pipeVars,
                           storeVars, fileVars, histVars>>

(***************************************************************************)
(* Properties                                                              *)
(***************************************************************************)
\* What the HTTP/2 codec writes it reads back, with whatever follows it left
\* untouched: header blocks, for as long as both ends change their tables with
\* them; HPACK integers at every length boundary, Huffman and raw strings; and
\* every frame with padding or priority and an unknown frame before it.  Bytes
\* a peer sends decode to an integer in range or to an error, and no table
\* grows past its size.
CodecsSurvive ==
  /\ part = "hpack" => Headers!HeadersSurvive /\ Headers!TablesAgree /\ Headers!TablesBounded
  /\ CASE call.fn = "integer" -> IntegersSurvive(call.value, call.p, call.rest, Bits)
       [] call.fn = "bytes" -> IntegersBounded(call.bytes, call.p, Bits)
       [] call.fn = "huffman" -> HuffmanTableSound
       [] call.fn = "literal" -> LiteralsSurvive(call.data, call.rest, Bits)
       [] call.fn = "char" -> CharsSurvive(call.char, call.rest, Bits)
       [] call.fn = "frame" -> FramesSurvive(call.frame, call.unknown, call.pad, call.rest)
       [] OTHER -> TRUE

\* Threads that record and a reader that takes a snapshot lose no sample, and no
\* percentile is below the samples it stands for.
SamplesKept ==
  part = "histogram" => Hist!NothingLost /\ Hist!NeverUnderReports /\ Hist!SnapshotCovers

\* A request is routed as the Servlet rules say: to the best wrapper, with the
\* parts of its path, through the filters in order; and a deny-all constraint
\* added to a web.xml opens nothing.
RequestsRouted ==
  CASE call.fn = "wrapper" -> Routes!PicksBest(call.mappings, call.path)
    [] call.fn = "map" -> Routes!PartsRecompose(call.hosts, "h", call.name, call.uri)
    [] call.fn = "deny" ->
         \A method \in {"GET", "POST"}, principal \in {"anonymous", "u", "v"}, secure \in BOOLEAN :
           Routes!DenyOnlyCloses(call.constraints, call.deny, call.path, method, principal, secure)
    [] call.fn = "chain" -> Routes!ChainInOrder(call.mappings, {"f", "g"}, call.path, "s", "REQUEST")
    [] OTHER -> TRUE

\* One request text has one meaning wherever it is read: by both normalisers and
\* the default servlet, both cookie parsers, the client that returns its session
\* cookie, content negotiation, byte ranges, dates (both clocks write the same),
\* and GET, HEAD and the file the adapter answers with.
RequestsRead ==
  CASE call.fn = "target" -> Text!Canonical(call.target) /\ Text!ReadingsAgree(call.target)
    [] call.fn = "accept" -> Text!NegotiatesBest(call.ranges, call.available)
    [] call.fn = "cookies" -> Text!CookiesAgree(call.header)
    [] call.fn = "session" ->
         Text!SessionCookieReturns(call.id, call.secure, call.sameSite, call.before, call.after)
    [] call.fn = "range" -> RangesExact(call.specs, call.len)
    [] call.fn = "dates" ->
         \A d \in call.days : DatesAdvance(d) /\ Container!HttpDateNow(d) = CivilFromDays(d)
    [] call.fn = "serve" ->
         /\ Container!HeadMirrorsGet([kind |-> call.kind, base |-> call.base], call.base, call.path)
         /\ Container!ServesNamedFile(call.base, call.path)
    [] OTHER -> TRUE
=============================================================================
