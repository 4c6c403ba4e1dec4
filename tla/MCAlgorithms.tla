---------------------------- MODULE MCAlgorithms -----------------------------
(***************************************************************************)
(* The container's pure algorithms on samples.  A state holds one call, its *)
(* function's name and its arguments; the properties compare what the      *)
(* functions of the call return with a reference definition.               *)
(***************************************************************************)
EXTENDS H2Codec, TLC

VARIABLE call

Routes == INSTANCE Routing
Text == INSTANCE RequestText
Java == INSTANCE BridgeData
Expr == INSTANCE El WITH LongBits <- 6, Mantissa <- 4
Container == INSTANCE ContainerData
Classes == INSTANCE ClassFiles
Webapps == INSTANCE WebappData

UpTo(S, n) == UNION {[1..k -> S] : k \in 0..n}

(***************************************************************************)
(* Bytes: HPACK integers and strings, HTTP/2 frames.  usize is of 16 bits. *)
(***************************************************************************)
Bits == 16
Edges(p) == {0, 1, 65535} \cup {2 ^ p + k : k \in {-2, -1, 0, 126, 127, 128, 16382, 16383, 16384}}
Zero == <<0, 0, 0, 0>>
StreamIds == {Zero, <<0, 0, 0, 3>>, <<127, 0, 255, 1>>}
Priorities == [exclusive : BOOLEAN, dependency : {<<0, 0, 0, 1>>, <<127, 255, 255, 255>>},
               weight : {0, 255}]
Payloads == UpTo({0, 255}, 2)
Sent(type, flags, streams, priority, contents) ==
  [type : {type}, flags : flags, stream : streams, priority : priority, content : contents]
Frames ==
  UNION {Sent("DATA", {0, 1}, StreamIds, {<<>>}, Payloads),
         Sent("HEADERS", {0, 1, 4, 5}, StreamIds, {<<>>}, Payloads),
         Sent("HEADERS", {32, 37}, {<<0, 0, 0, 3>>}, {<<p>> : p \in Priorities}, Payloads),
         Sent("PRIORITY", {0}, StreamIds, {<<p>> : p \in Priorities}, {<<>>}),
         Sent("RST_STREAM", {0}, StreamIds, {<<>>}, {<<0, 0, 0, 1>>, <<127, 255, 0, 255>>}),
         Sent("WINDOW_UPDATE", {0}, StreamIds, {<<>>}, {<<0, 0, 0, 1>>, <<127, 255, 0, 255>>}),
         Sent("SETTINGS", {0}, {Zero}, {<<>>},
              UpTo([id : {<<0, 1>>}, value : {Zero, <<255, 255, 255, 255>>}], 2)),
         Sent("SETTINGS", {1}, {Zero}, {<<>>}, {<<>>}),
         Sent("PING", {1}, {Zero}, {<<>>}, {<<1, 2, 3, 4, 5, 6, 7, 8>>}),
         Sent("GOAWAY", {0}, {Zero}, {<<>>},
              [last : StreamIds, code : {Zero, <<255, 0, 0, 1>>}, debug : Payloads]),
         Sent("CONTINUATION", {0, 4}, StreamIds, {<<>>}, Payloads)}
UnknownFrame == <<0, 0, 2, 10, 255, 128, 0, 0, 1, 7, 7>>
Literals == UpTo({0, 10, 32, 48, 92, 97, 255}, 3) \cup {<<k>> : k \in Octet}
            \cup {<<48, k, 97, 97, 97>> : k \in Octet}

\* both sides of each length of UTF-8, of the surrogates and of the last code point
Chars == {0, 127, 128, 2047, 2048, 55295, 55296, 57343, 57344, 65535, 65536, 1114111, 1114112}

CodecCalls ==
  \/ \E p \in 4..7 : \E v \in Edges(p), r \in UpTo({0, 255}, 1) :
       call' = [fn |-> "integer", value |-> v, p |-> p, rest |-> r]
  \/ \E p \in {4, 7}, b \in UpTo({0, 127, 128, 255}, 6) :
       call' = [fn |-> "bytes", bytes |-> b, p |-> p]
  \/ call' = [fn |-> "huffman"]
  \/ \E d \in Literals, r \in {<<>>, <<255>>} : call' = [fn |-> "literal", data |-> d, rest |-> r]
  \/ \E c \in Chars, r \in {<<>>, <<128>>} : call' = [fn |-> "char", char |-> c, rest |-> r]
  \/ \E f \in Frames, u \in {<<>>, UnknownFrame}, pad \in {<<>>, <<0>>, <<2>>},
        r \in {<<>>, <<0, 0, 1>>} :
       call' = [fn |-> "frame", frame |-> f, unknown |-> u, pad |-> pad, rest |-> r]

(***************************************************************************)
(* Routing.  Paths of the segments a, b.x and the empty one.               *)
(***************************************************************************)
SegA == [name |-> "a", ext |-> "", len |-> 1]
SegX == [name |-> "b.x", ext |-> "x", len |-> 3]
Empty == Routes!EmptySegment
Paths == {<<Empty>>, <<SegA>>, <<SegX>>, <<SegA, Empty>>, <<SegA, SegX>>, <<SegA, SegA>>,
          <<SegA, SegA, SegX>>}
Exact(path) == [kind |-> "exact", path |-> path]
Under(path) == [kind |-> "prefix", path |-> path]
Ending(ext) == [kind |-> "ext", ext |-> ext]
Default == [kind |-> "default"]
Patterns == {Exact(<<SegA>>), Exact(<<SegA, SegX>>), Under(<<>>), Under(<<SegA>>),
             Under(<<SegA, SegA>>), Ending("x"), Ending("jspx"), Default}
Mapped(patterns) == [i \in DOMAIN patterns |-> [pattern |-> patterns[i], wrapper |-> i]]
Apps(contexts, mappings) == [c \in contexts |-> mappings]
Hosts(contexts, mappings) ==
  {[name |-> "h", aliases |-> {"g"}, apps |-> Apps(contexts, mappings)],
   [name |-> "k", aliases |-> {}, apps |-> Apps({<<>>}, Mapped(<<Default>>))]}

Methods == {[methods |-> {}, omissions |-> {}], [methods |-> {"GET"}, omissions |-> {}],
            [methods |-> {}, omissions |-> {"GET"}]}
Constraint(pattern, m, roles, transport) ==
  [patterns |-> {pattern}, methods |-> m.methods, omissions |-> m.omissions,
   absent |-> roles = "absent", roles |-> IF roles \in {"absent", "nobody"} THEN {} ELSE {roles},
   transport |-> transport]
Guarded == {Exact(<<SegA>>), Under(<<>>), Under(<<SegA>>), Ending("x"), Default}
Others == {{}, {Constraint(Under(<<>>), [methods |-> {}, omissions |-> {}], "u", FALSE)}}

Covered == {[patterns |-> {Under(<<SegA>>)}, servlets |-> {}],
            [patterns |-> {Ending("x")}, servlets |-> {}],
            [patterns |-> {}, servlets |-> {"s"}],
            [patterns |-> {Under(<<SegA>>)}, servlets |-> {"s"}]}
FilterMappings ==
  {[filter |-> f, patterns |-> c.patterns, servlets |-> c.servlets, dispatchers |-> {d}] :
   f \in {"f", "g", "undeclared"}, c \in Covered, d \in {"REQUEST", "FORWARD"}}

RoutingCalls ==
  \/ \E ps \in UpTo(Patterns, 3), path \in Paths :
       call' = [fn |-> "wrapper", mappings |-> Mapped(ps), path |-> path]
  \/ \E cs \in SUBSET {<<>>, <<SegA>>, <<SegA, SegA>>}, ps \in UpTo(Patterns, 1),
        name \in {"h", "g", "k", "z"}, uri \in Paths :
       call' = [fn |-> "map", hosts |-> Hosts(cs, Mapped(ps)), name |-> name, uri |-> uri]
  \/ \E p, q \in Guarded, m, n \in Methods, roles \in {"absent", "nobody", "u", "*"},
        t \in BOOLEAN, others \in Others, path \in {<<SegA>>, <<SegX>>, <<SegA, SegX>>} :
       call' = [fn |-> "deny", constraints |-> others \cup {Constraint(p, m, roles, t)},
                deny |-> Constraint(q, n, "nobody", FALSE), path |-> path]
  \/ \E ms \in UpTo(FilterMappings, 3), path \in {<<SegA, SegX>>, <<SegX>>} :
       call' = [fn |-> "chain", mappings |-> ms, path |-> path]

(***************************************************************************)
(* The text of a request: targets, media ranges, cookies.                  *)
(***************************************************************************)
Plain(c) == [char |-> c, enc |-> FALSE]
TargetChars == [char : {"/", ".", "z", "\\", "NUL", "%", "WEB-INF", "?", "#"}, enc : BOOLEAN]
DotChars == {Plain("/"), Plain("."), Plain("z"), [char |-> ".", enc |-> TRUE]}
Targets == UpTo(TargetChars, 3) \cup [1..6 -> DotChars]
Media(type, subtype) == [type |-> type, subtype |-> subtype]
MediaRanges ==
  {[type |-> m.type, subtype |-> m.subtype, params |-> 0, q |-> q] :
   m \in {Media("*", "*"), Media("a", "*"), Media("a", "x"), Media("b", "y")}, q \in 0..2}
Offers == {<<>>, <<Media("a", "x")>>, <<Media("a", "x"), Media("b", "y")>>,
           <<Media("b", "y"), Media("a", "z"), Media("a", "x")>>}

TextCalls ==
  \/ \E t \in Targets : call' = [fn |-> "target", target |-> t]
  \/ \E rs \in UpTo(MediaRanges, 3), a \in Offers :
       call' = [fn |-> "accept", ranges |-> rs, available |-> a]
  \/ \E h \in UpTo({"J", "=", ";", "\"", " "}, 5) : call' = [fn |-> "cookies", header |-> h]
  \/ \E id \in {<<"a">>, <<"a", "b">>}, secure, sameSite \in BOOLEAN,
        b \in UpTo({"J", "=", ";", "\""}, 3), a \in {<<>>, <<"J", "=", "x">>} :
       call' = [fn |-> "session", id |-> id, secure |-> secure, sameSite |-> sameSite,
                before |-> b, after |-> a]

(***************************************************************************)
(* What is read of a webapp's directory: files, dates, the descriptor,     *)
(* class files, EL expressions, JSP names, the load-on-startup order.      *)
(***************************************************************************)
Bases == {[files |-> F, dirs |-> {<<>>, <<"d">>}] :
          F \in SUBSET {<<"index.html">>, <<"f">>, <<"d", "f">>, <<"d", "index.html">>}}
SmallRanges == [first : -1..4, last : -1..4]
Wrapped(names, classes, loads, n) ==
  UpTo([name : names, class : classes, load : loads], n)
Wrappers == Wrapped({"", "s"}, {"", "C"}, {<<>>, <<-1>>, <<0>>, <<2>>}, 2)
            \cup Wrapped({"s"}, {"", "C"}, {<<-1>>, <<0>>, <<2>>}, 3)

FileCalls ==
  \/ \E specs \in UpTo(SmallRanges, 2), len \in 0..4 :
       call' = [fn |-> "range", specs |-> specs, len |-> len]
  \/ \E year \in -10..400 : call' = [fn |-> "dates", days |-> year * 366..year * 366 + 366]
  \/ \E b \in Bases, p \in UpTo({"", ".", "..", "d", "f"}, 3), k \in {"servlet", "context", "none"} :
       call' = [fn |-> "serve", base |-> b, path |-> p, kind |-> k]

Node(name, text, kids) == [name |-> name, text |-> text, kids |-> kids]
KeyOf == [n \in {"servlet", "servlet-mapping", "env-entry"} |-> "servlet-name"]
         @@ ("listener" :> "listener-class") @@ ("welcome-file-list" :> "welcome-file")
Kids(n) ==
  {Node(c, t, k) : c \in {KeyOf[n], "init-param"} \cup (IF n = "env-entry" THEN {} ELSE {"servlet"}),
                   t \in {"", "v"}, k \in UpTo({Node(c, "x", <<>>) : c \in {KeyOf[n], n}}, 1)}
Elements == UNION {{Node(n, "", k) : k \in UpTo(Kids(n), 2)} : n \in DOMAIN KeyOf}
Followers == UpTo({Node("servlet", "", <<Node("servlet-name", "z", <<>>)>>)}, 1)
FileNames == UpTo({"d", "o", "0", "-", "_"}, 2)
JspFiles == [dir : UpTo(FileNames, 1), stem : FileNames, ext : {"jsp", "jspx", "txt"}]

\* Names are strings of code points: a/B, C, x.
AB == <<65, 47, 66>>
Infos == [value : {<<>>, <<<<47>>, <<120>>>>}, patterns : {<<>>, <<<<120>>>>},
          name : {<<>>, <<<<120>>>>}, load : {<<>>, <<5>>}]
ClassSamples == [name : {AB}, super : {<<>>, <<<<67>>>>}, interfaces : {<<>>, <<AB, <<67>>>>},
                 servlets : UpTo(Infos, 1), members : {1}]
FullClass == [name |-> AB, super |-> <<<<67>>>>, interfaces |-> <<AB>>, members |-> 1,
              servlets |-> <<[value |-> <<<<47>>>>, patterns |-> <<>>, name |-> <<<<120>>>>,
                              load |-> <<5>>]>>]
Noise == {<<>>, <<[tag |-> 5, operand |-> 7]>>, <<[tag |-> 8, operand |-> 1], [tag |-> 6, operand |-> 7]>>}
CodePoints == {0, 1, 127, 128, 2047, 2048, 55295, 57344, 65535, 65536, 1114111}
ClassName(i) == <<96 + i>>
ClassFile(i, super, interfaces, descriptors) ==
  [name |-> ClassName(i), super |-> super, interfaces |-> interfaces,
   annotations |-> [k \in DOMAIN descriptors |-> [descriptor |-> descriptors[k], elements |-> <<>>]]]
GraphFiles ==
  {<<>>} \cup {<<ClassFile(i, s, t, a)>> :
               i \in 1..3, s \in {<<>>, <<ClassName(1)>>, <<ClassName(2)>>},
               t \in {<<>>, <<ClassName(3)>>, <<<<120>>>>}, a \in {<<>>, <<<<76, 120, 59>>>>}}
ScanFiles ==
  {<<>>} \cup {<<ClassFile(i, <<>>, <<>>, a)>> :
               i \in 1..2, a \in UpTo({Classes!WebServlet, Classes!WebFilter, Classes!WebListener}, 1)}

WebappCalls ==
  \/ \E ws \in Wrappers : call' = [fn |-> "startup", wrappers |-> ws]
  \/ \E el \in Elements, f \in Followers : call' = [fn |-> "descriptor", elements |-> <<el>> \o f]
  \/ \E segs \in UpTo({"", ".", "..", "a", "WEB-INF"}, 4) : call' = [fn |-> "resource", segs |-> segs]
  \/ \E f \in JspFiles : call' = [fn |-> "jsp", file |-> f]
  \/ \E c \in ClassSamples, n \in Noise : call' = [fn |-> "class", class |-> c, noise |-> n, lost |-> 0]
  \/ \E lost \in 1..150 : call' = [fn |-> "class", class |-> FullClass, noise |-> <<>>, lost |-> lost]
  \/ \E t \in UpTo(CodePoints, 2) : call' = [fn |-> "utf8", text |-> t]
  \/ \E fs \in UpTo(GraphFiles, 2), t \in {<<97>>, <<98>>, <<120>>} :
       call' = [fn |-> "handles", files |-> fs, target |-> t]
  \/ \E c \in BOOLEAN, fs \in UpTo(ScanFiles, 3) :
       call' = [fn |-> "scan", complete |-> c, files |-> fs]

\* A deployment reads its webapp right, whatever else the files hold: web.xml
\* elements keep their text and their section, a class file gives its names and
\* annotations however its constant pool is laid out and fails when cut short
\* anywhere, a bad one hides no other, a handler type finds every class that
\* reaches it, resources stay inside the webapp, JSPs get legal class names and
\* each servlet is started in order or reported.
WebappsRead ==
  CASE call.fn = "startup" -> Container!StartupComplete(call.wrappers)
    [] call.fn = "descriptor" -> Webapps!DescriptorReads(call.elements)
    [] call.fn = "resource" -> Webapps!ResourcesInside(call.segs)
    [] call.fn = "jsp" -> Webapps!NamesLegal(call.file)
    [] call.fn = "class" -> Classes!ClassesSurvive(call.class, call.noise, call.lost)
    [] call.fn = "utf8" -> Classes!TextSurvives(call.text)
    [] call.fn = "handles" -> Classes!HandlesLoaded(call.files, call.target)
    [] call.fn = "scan" -> Classes!BadFilesSkipped(call.complete, call.files)
    [] OTHER -> TRUE

(***************************************************************************)
(* EL, with longs of 6 bits and doubles of a 4-bit mantissa.               *)
(***************************************************************************)
Lit(v) == Expr!Lit(v)
Long(n) == Expr!Long(n)
IdA == Expr!Ident(<<"a">>)
True == Lit(Expr!Bool(TRUE))
Three == Lit(Long(3))
Beans == [vars |-> [x \in {<<"a">>} |-> Expr!Str(<<"7">>)],
          scopes |-> <<[name |-> <<"p">>, entries |-> [x \in {<<"b">>} |-> Long(1)]],
                       [name |-> <<"q">>, entries |-> [x \in {<<"b">>, <<"c">>} |-> Expr!Null]]>>,
          functions |-> {<<"f">>}]
Leaves == {Lit(Expr!Null), True, Lit(Long(0)), Three, Lit(Expr!Str(<<>>)), IdA,
           Expr!Ident(<<"p">>), Expr!Ident(<<"c">>)}
Branches == {Three, IdA, Expr!Unary("-", IdA), Expr!Binary("+", IdA, Three),
             Expr!Binary("*", IdA, Three), Expr!Binary("==", IdA, Lit(Expr!Null)),
             Expr!Binary("&&", IdA, True), Expr!Ternary(IdA, Three, IdA),
             Expr!Property(IdA, <<"b">>), Expr!Index(Expr!Ident(<<"p">>), Lit(Expr!Str(<<"b">>))),
             Expr!Call(<<"f">>, <<Three>>)}
BinaryOps == {"||", "&&", "==", "<", "+", "-", "*", "%", "/"}
UnaryOps == {"-", "!", "empty"}
Grown(S) ==
  UNION {{Expr!Unary(o, x) : o \in UnaryOps, x \in S},
         {Expr!Binary(o, x, y) : o \in BinaryOps, x \in S, y \in S},
         {Expr!Ternary(x, y, z) : x \in S, y \in S, z \in S},
         {Expr!Property(x, <<"b">>) : x \in S},
         {Expr!Index(x, y) : x \in S, y \in S},
         {Expr!Call(<<"f">>, a) : a \in UpTo(S, 2)}}
Values ==
  {Expr!Null, Expr!Bool(TRUE), [type |-> "list", datum |-> <<Expr!Null>>]}
  \cup {Long(n) : n \in {Expr!MinLong, Expr!MaxLong, -1, 0, 5}}
  \cup {Expr!Str(s) : s \in {<<>>, <<"a">>, <<"0", "5">>, <<"9", "9">>}}
  \cup {Expr!Double(1, 2), Expr!Double(5, 1), Expr!Double(1, 0), Expr!Double(-1, 0), Expr!Double(0, 0)}
OnValues ==
  UNION {{Expr!Binary(o, Lit(x), Lit(y)) :
          o \in BinaryOps \cup {"!=", ">", "<=", ">="}, x \in Values, y \in Values},
         {Expr!Unary(o, Lit(x)) : o \in UnaryOps, x \in Values},
         {Expr!Index(Lit(x), Lit(y)) : x \in Values, y \in Values}}
Comparable ==
  Values \cup {Long(n) : n \in Expr!MinLong..Expr!MaxLong} \cup {Expr!Double(n, 2) : n \in -5..5}
  \cup {Expr!Str(<<x, y>>) : x, y \in {"1", "5", "-", "a"}}
LiteralChars == {"'", "\"", "\\", "{", "}", "$", "a", "newline"}

ExpressionCalls ==
  \/ \E e \in Grown(Leaves) \cup Grown(Branches) : call' = [fn |-> "parse", ast |-> e]
  \/ \E e \in OnValues : call' = [fn |-> "eval", ast |-> e]
  \/ \E l, r \in Comparable : call' = [fn |-> "order", l |-> l, r |-> r]
  \/ \E t \in UpTo(LiteralChars, 3), q \in Expr!Quotes, b \in {<<>>, <<"$", "a">>, <<"}">>},
        a \in {<<>>, <<"}">>} :
       call' = [fn |-> "template", text |-> t, quote |-> q, before |-> b, after |-> a]

\* An EL expression means what it says: its canonical text parses to the tree
\* it was written from, evaluation ends in a value or an error for every pair of
\* operand types, comparisons of the same operands agree with one another, and
\* a string literal in a template comes out as written whatever it holds.
ExpressionsMean ==
  CASE call.fn = "parse" -> Expr!ParsesAsWritten(call.ast) /\ Expr!EvalContained(call.ast, Beans)
    [] call.fn = "eval" -> Expr!EvalContained(call.ast, Beans)
    [] call.fn = "order" -> Expr!OrderTotal(call.l, call.r)
    [] call.fn = "template" -> Expr!LiteralsKept(call.text, call.quote, call.before, call.after, Beans)
    [] OTHER -> TRUE

(***************************************************************************)
(* The bridge's own data: listeners, class paths, resources, the session's *)
(* native methods.                                                         *)
(***************************************************************************)
Implemented == SUBSET {"Context", "ContextAttribute", "Session", "SessionId"}
ListenerClasses ==
  UNION {{[i \in 1..n |-> [name |-> <<"c", "d">>[i], implements |-> s[i], marks |-> s[i]]] :
          s \in [1..n -> Implemented]} : n \in 0..2}
OsPaths == UpTo({"/", "a", "%", "2", "0", " ", "\\"}, 3) \cup {<<"a", "%", "2", "0">>}
Jar(base, version) == [base |-> base, version |-> version]
CallerJars == UpTo({Java!Bridge, Jar(3, <<1>>), Jar(3, <<2>>), Jar(1, <<5>>)}, 2)
FoundJars == {Jar(1, <<5>>), Jar(1, <<5, 0, 2>>), Jar(1, <<6>>), Jar(2, <<5>>)}
Resources ==
  {F \cup {[path |-> <<"a", "etc">>, dir |-> FALSE]} :
   F \in SUBSET {[path |-> <<"a">>, dir |-> TRUE], [path |-> <<"etc">>, dir |-> FALSE],
                 [path |-> <<"b">>, dir |-> TRUE]}}
ResourceArgs == [lead : 0..2, segs : UpTo({"a", "etc"}, 1), trail : 0..1]
HeaderValues == {[number |-> TRUE, n |-> n] : n \in -2..9} \cup {[number |-> FALSE, n |-> 0]}
CoyoteRequests ==
  {[path |-> p, raw |-> IF q = <<>> THEN "/a" ELSE "/a?q", target |-> "/a", query |-> q,
    body |-> b, forwarded |-> f] :
   p \in {"", "/a"}, q \in {<<>>, <<"q">>}, b \in 0..1, f \in {<<>>, <<"https">>, <<"HTTPS">>}}
World == [handles |-> [i \in 1..2 |-> [sid |-> <<"s", "t">>[i], new |-> i = 1]],
          sessions |-> [x \in {"s", "t"} |-> [attrs |-> <<>>, interval |-> 5]]]
SessionOp(op, ids, names, args) == [op : {op}, id : ids, name : names, arg : args]
Writes == UpTo(SessionOp("set", 1..2, {"x"}, {"1", "2"})
               \cup SessionOp("remove", {1}, {"x", "y"}, {"0"}), 2)
Interval == UpTo(SessionOp("interval", {1}, {"x"}, {-1, 3}), 1)
Invalidation == UpTo(SessionOp("invalidate", 1..2, {"x"}, {"0"}), 1)

BridgeCalls ==
  \/ \E cs \in ListenerClasses, f \in SUBSET {"c", "d"} :
       call' = [fn |-> "listeners", classes |-> cs, failing |-> f]
  \/ \E k \in Java!EventKinds, c \in Java!Changes :
       call' = [fn |-> "callback", event |-> [kind |-> k, change |-> c]]
  \/ \E d \in UpTo(OsPaths, 1), j \in UpTo({<<"a">>, <<"%", "2", "0">>}, 2) :
       call' = [fn |-> "urls", dir |-> d, jars |-> j]
  \/ \E c \in CallerJars, o \in UpTo({Jar(1, <<9>>)}, 1), f \in SUBSET FoundJars,
        b \in UpTo({Java!Bridge}, 1) :
       call' = [fn |-> "classpath", classpath |-> c, override |-> o, found |-> f, bridge |-> b]
  \/ \E c \in CallerJars, b \in UpTo({Java!Bridge}, 1), cl \in DOMAIN Java!JavaNatives,
        drop \in {{}, {"nativeIsNewSession"}, {"nativeGetMethod"}, {"nativeLog"}} :
       call' = [fn |-> "natives", classpath |-> c, bridge |-> b,
                declared |-> [Java!JavaNatives EXCEPT ![cl] = @ \ drop]]
  \/ \E b \in UpTo({Java!Bridge}, 1), cls \in SUBSET (DOMAIN Java!JavaNatives) :
       call' = [fn |-> "natives", classpath |-> <<>>, bridge |-> b,
                declared |-> [cl \in cls |-> Java!JavaNatives[cl]]]
  \/ \E f \in Resources, p \in ResourceArgs : call' = [fn |-> "paths", files |-> f, path |-> p]
  \/ \E h \in UpTo([name : {"content-length", "x"}, value : HeaderValues], 2) :
       call' = [fn |-> "length", headers |-> h]
  \/ \E r \in CoyoteRequests : call' = [fn |-> "builders", req |-> r]
  \/ \E w \in Writes, i \in Interval, e \in Invalidation, id \in 1..2, name \in {"x", "y"} :
       call' = [fn |-> "session natives", calls |-> w \o i \o e, id |-> id, name |-> name]

\* The bridge gives Java what the container has: listeners hear their events
\* once and in nested order, through the method of their interface; class path
\* entries keep their meaning as URLs and the bridge's stubs hide no real API;
\* the JVM starts only with every native bound; listed resources open; both
\* sides read one Content-Length and one request; and a session's attributes
\* are what the servlet wrote.
BridgeFaithful ==
  CASE call.fn = "listeners" ->
         Java!ListenersNest(call.classes, call.failing) /\ Java!HintsSpecific(call.classes)
    [] call.fn = "callback" -> Java!CallbacksMatch(call.event)
    [] call.fn = "urls" -> Java!UrlsNamePaths(call.dir, call.jars)
    [] call.fn = "classpath" ->
         Java!StubsNeverShadow(call.classpath, call.override, call.found, call.bridge)
    [] call.fn = "natives" -> Java!NativesBound(call.classpath, call.bridge, call.declared)
    [] call.fn = "paths" -> Java!ResourcesOpen(call.files, call.path)
    [] call.fn = "length" -> Java!LengthsAgree(call.headers, 3)
    [] call.fn = "builders" -> Java!BuildersAgree(call.req)
    [] call.fn = "session natives" ->
         Java!SessionNativesFaithful(World, call.calls, call.id, call.name)
    [] OTHER -> TRUE
=============================================================================
