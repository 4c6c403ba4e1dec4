------------------------------ MODULE WebappData ------------------------------
(***************************************************************************)
(* What deployment reads of a web application: web.xml as a stream of XML  *)
(* events (tomcatrs-webapp web_descriptor.rs), the paths its resource root *)
(* resolves (resources.rs), and the servlet classes the JSP precompiler    *)
(* names (tomcatrs-jsp precompile.rs).                                     *)
(***************************************************************************)
EXTENDS Integers, SequencesExt, FiniteSets

(***************************************************************************)
(* web.xml.  An event is [e, n]: "start", "end" and "empty" with the local *)
(* name, "text" with the trimmed text.  The reader, quick-xml, has matched *)
(* the tags.                                                               *)
(***************************************************************************)
Sections == {"servlet", "servlet-mapping", "filter", "filter-mapping"}
Known == Sections \cup {"listener", "welcome-file-list"}

Less(depth) == IF depth = 0 THEN 0 ELSE depth - 1   \* saturating_sub

RECURSIVE CollectFieldsDeep(_, _, _, _, _)
\* a slip: a grandchild's text and name replace those of the child
CollectFieldsDeep(parent, depth, current, fields, s) ==
    IF s = <<>> THEN [ok |-> FALSE, v |-> <<>>, rest |-> <<>>]
    ELSE LET e == Head(s) rest == Tail(s)
         IN  CASE e.e = "start" ->
                    CollectFieldsDeep(parent, depth + 1, <<[name |-> e.n, text |-> <<>>]>>, fields, rest)
               [] e.e = "text" /\ current # <<>> ->
                    CollectFieldsDeep(parent, depth, <<[current[1] EXCEPT !.text = Append(@, e.n)]>>, fields, rest)
               [] e.e = "end" /\ depth = 0 /\ e.n = parent -> [ok |-> TRUE, v |-> fields, rest |-> rest]
               [] e.e = "end" /\ ~(depth = 0 /\ e.n = parent) ->
                    CollectFieldsDeep(parent, Less(depth), IF Less(depth) = 0 THEN <<>> ELSE current,
                                      IF Less(depth) = 0 THEN fields \o current ELSE fields, rest)
               [] OTHER -> CollectFieldsDeep(parent, depth, current, fields, rest)

RECURSIVE CollectFields(_, _, _, _, _)
\* the direct children of parent, each with its own text
CollectFields(parent, depth, current, fields, s) ==
    IF s = <<>> THEN [ok |-> FALSE, v |-> <<>>, rest |-> <<>>]
    ELSE LET e == Head(s) rest == Tail(s)
         IN  CASE e.e = "start" ->
                    CollectFields(parent, depth + 1,
                                  IF depth = 0 THEN <<[name |-> e.n, text |-> <<>>]>> ELSE current, fields, rest)
               [] e.e = "text" /\ depth = 1 /\ current # <<>> ->
                    CollectFields(parent, depth, <<[current[1] EXCEPT !.text = Append(@, e.n)]>>, fields, rest)
               [] e.e = "end" /\ depth = 0 /\ e.n = parent -> [ok |-> TRUE, v |-> fields, rest |-> rest]
               [] e.e = "end" /\ ~(depth = 0 /\ e.n = parent) ->
                    CollectFields(parent, Less(depth), IF Less(depth) = 0 THEN <<>> ELSE current,
                                  IF Less(depth) = 0 THEN fields \o current ELSE fields, rest)
               [] OTHER -> CollectFields(parent, depth, current, fields, rest)

RECURSIVE ParseSimpleChild(_, _, _, _, _, _)
\* the first text inside a direct child of that name, as <<text>>
ParseSimpleChild(parent, child, depth, inside, value, s) ==
    IF s = <<>> THEN [ok |-> FALSE, v |-> <<>>, rest |-> <<>>]
    ELSE LET e == Head(s) rest == Tail(s)
         IN  CASE e.e = "start" ->
                    ParseSimpleChild(parent, child, depth + 1, inside \/ (depth = 0 /\ e.n = child), value, rest)
               [] e.e = "text" /\ inside ->
                    ParseSimpleChild(parent, child, depth, inside, IF value = <<>> THEN <<e.n>> ELSE value, rest)
               [] e.e = "end" /\ depth = 0 /\ e.n = parent -> [ok |-> TRUE, v |-> value, rest |-> rest]
               [] e.e = "end" /\ ~(depth = 0 /\ e.n = parent) ->
                    ParseSimpleChild(parent, child, Less(depth), inside /\ Less(depth) # 0, value, rest)
               [] OTHER -> ParseSimpleChild(parent, child, depth, inside, value, rest)

\* the last value given for a key, as in the loops of parse_servlet and the others
Field(fields, key) ==
    LET of == SelectSeq(fields, LAMBDA f : f.name = key)
    IN  IF of = <<>> THEN <<>> ELSE of[Len(of)].text

Keys == [k \in Sections |-> CASE k = "servlet" -> {"servlet-name", "servlet-class", "jsp-file", "load-on-startup"}
                              [] k = "servlet-mapping" -> {"servlet-name", "url-pattern"}
                              [] k = "filter" -> {"filter-name", "filter-class"}
                              [] OTHER -> {"filter-name", "url-pattern"}]

Entry(kind, fields) == [kind |-> kind, values |-> [key \in Keys[kind] |-> Field(fields, key)]]

RECURSIVE FromXml(_, _)
\* from_xml_str: any start tag of a known name opens a section, at any depth
FromXml(desc, s) ==
    IF s = <<>> THEN [ok |-> TRUE, v |-> desc]
    ELSE IF Head(s).e # "start" \/ Head(s).n \notin Known THEN FromXml(desc, Tail(s))
    ELSE LET kind == Head(s).n
             read == IF kind = "listener" THEN ParseSimpleChild(kind, "listener-class", 0, FALSE, <<>>, Tail(s))
                     ELSE CollectFields(kind, 0, <<>>, <<>>, Tail(s))
             welcome == SelectSeq(read.v, LAMBDA f : f.name = "welcome-file")
         IN  IF ~read.ok THEN [ok |-> FALSE, v |-> desc]
             ELSE FromXml(CASE kind = "listener" -> [desc EXCEPT !.listeners = @ \o read.v]
                            [] kind = "welcome-file-list" ->
                                 [desc EXCEPT !.welcome = @ \o [k \in DOMAIN welcome |-> welcome[k].text]]
                            [] OTHER -> [desc EXCEPT !.entries = Append(@, Entry(kind, read.v))],
                          read.rest)

EmptyDescriptor == [entries |-> <<>>, listeners |-> <<>>, welcome |-> <<>>]

(***************************************************************************)
(* WebResourceRoot::safe_relative, on the segments of the path.            *)
(***************************************************************************)
Protected == {"WEB-INF", "META-INF"}    \* in any case
Refused == <<"refused">>

Pop(rel) == IF rel = <<>> THEN Refused ELSE Front(rel)

Relative(segments) ==
    FoldLeft(LAMBDA rel, seg : CASE rel = Refused \/ seg \in {"", "."} -> rel
                                 [] seg = ".." -> Pop(rel)
                                 [] OTHER -> Append(rel, seg),
             <<>>, segments)

\* a slip: the protected directories are looked for before the path is reduced
SafeRelativeRaw(segments) ==
    IF segments # <<>> /\ segments[1] \in Protected THEN Refused ELSE Relative(segments)

SafeRelative(segments) ==
    LET rel == Relative(segments)
    IN  IF rel # <<>> /\ rel[1] \in Protected THEN Refused ELSE rel

(***************************************************************************)
(* The JSP precompiler.  A name is a sequence of characters; "-" and "."   *)
(* are the ones that no identifier may hold.                               *)
(***************************************************************************)
Digits == {"0", "2"}
Hex == [c \in {"-", "."} |-> IF c = "-" THEN <<"0", "0", "2", "d">> ELSE <<"0", "0", "2", "e">>]
IsPart(c) == c \notin DOMAIN Hex
IsStart(c) == IsPart(c) /\ c \notin Digits
JavaReserved == {<<"d", "o">>}

\* a slip: the first character is held to the rule of the others
MangleIdentifierCharsPart(segment) ==
    LET mangled(k) == IF IsPart(segment[k]) THEN <<segment[k]>> ELSE <<"_">> \o Hex[segment[k]]
    IN  IF segment = <<>> THEN <<"_">> ELSE FlattenSeq([k \in DOMAIN segment |-> mangled(k)])

MangleIdentifierChars(segment) ==
    LET mangled(k) == CASE IF k = 1 THEN IsStart(segment[k]) ELSE IsPart(segment[k]) -> <<segment[k]>>
                        [] k = 1 /\ segment[k] \in Digits -> <<"_", segment[k]>>
                        [] OTHER -> <<"_">> \o Hex[segment[k]]
    IN  IF segment = <<>> THEN <<"_">> ELSE FlattenSeq([k \in DOMAIN segment |-> mangled(k)])

MangleIdentifier(segment) ==
    LET out == MangleIdentifierChars(segment)
    IN  IF out \in JavaReserved THEN Append(out, "_") ELSE out

\* the parts of the class name below the prefix; a file is [dir, stem, ext]
MangleClassName(file) ==
    LET dirs == SelectSeq(file.dir, LAMBDA d : d # <<>>)
    IN  [k \in DOMAIN dirs |-> MangleIdentifier(dirs[k])] \o <<MangleIdentifierChars(file.stem) \o <<"_", "j", "s", "p">>>>

\* find_jsp_files: Path::extension knows none for a file whose name starts at the dot
JspFiles(files) == {f \in files : f.ext \in {"jsp", "jspx"} /\ f.stem # <<>>}

\* the servlets of web_xml_fragment: name and class are the same, the path is mapped
Generated(files) == {[path |-> f, class |-> MangleClassName(f)] : f \in JspFiles(files)}

(***************************************************************************)
(* Properties.                                                             *)
(***************************************************************************)
\* an element [name, text, kids] as the events the XML reader delivers
Events(el) ==
    LET leaf(x) == <<[e |-> "start", n |-> x.name]>> \o (IF x.text = "" THEN <<>> ELSE <<[e |-> "text", n |-> x.text]>>)
        close(x) == <<[e |-> "end", n |-> x.name]>>
        inner(x) == leaf(x) \o FlattenSeq([k \in DOMAIN x.kids |-> leaf(x.kids[k]) \o close(x.kids[k])]) \o close(x)
    IN  leaf(el) \o FlattenSeq([k \in DOMAIN el.kids |-> inner(el.kids[k])]) \o close(el)

\* The descriptor holds, for every element of web.xml that the container knows, what
\* its own children say: what stands in their children is not mistaken for it, and
\* no element is lost behind another one (web_descriptor.rs collect_fields).
DescriptorReads(elements) ==
    LET events == <<[e |-> "start", n |-> "web-app"]>> \o FlattenSeq([k \in DOMAIN elements |-> Events(elements[k])])
                    \o <<[e |-> "end", n |-> "web-app"]>>
        read == FromXml(EmptyDescriptor, events)
        own(el, key) == LET of == SelectSeq(el.kids, LAMBDA x : x.name = key)
                        IN  IF of = <<>> \/ of[Len(of)].text = "" THEN <<>> ELSE <<of[Len(of)].text>>
        texts(x) == FlattenSeq(<<IF x.text = "" THEN <<>> ELSE <<x.text>>>>
                               \o [k \in DOMAIN x.kids |-> IF x.kids[k].text = "" THEN <<>> ELSE <<x.kids[k].text>>])
        named(kind) == SelectSeq(elements, LAMBDA el : el.name = kind)
        kids(el, key) == SelectSeq(el.kids, LAMBDA x : x.name = key)
        sections == SelectSeq(elements, LAMBDA el : el.name \in Sections)
        first(seq) == IF seq = <<>> THEN <<>> ELSE <<seq[1]>>
    IN  /\ read.ok
        /\ read.v.listeners = FlattenSeq([k \in DOMAIN named("listener") |->
             LET of == kids(named("listener")[k], "listener-class")
             IN  first(FlattenSeq([j \in DOMAIN of |-> texts(of[j])]))])
        /\ read.v.welcome = FlattenSeq([k \in DOMAIN named("welcome-file-list") |->
             LET of == kids(named("welcome-file-list")[k], "welcome-file")
             IN  [j \in DOMAIN of |-> IF of[j].text = "" THEN <<>> ELSE <<of[j].text>>]])
        /\ read.v.entries = [k \in DOMAIN sections |->
             [kind |-> sections[k].name, values |-> [key \in Keys[sections[k].name] |-> own(sections[k], key)]]]

\* A resolved path is the one a walk from the document base ends at, no walk that
\* leaves the base is resolved, and none that ends in WEB-INF or META-INF, by
\* whatever detour (resources.rs safe_relative).
ResourcesInside(segments) ==
    LET up(i, j) == Cardinality({k \in i..j : segments[k] = ".."})
        down(i, j) == Cardinality({k \in i..j : segments[k] \notin {"", ".", ".."}})
        n == Len(segments)
        kept == {k \in 1..n : segments[k] \notin {"", ".", ".."} /\ \A j \in k..n : down(k, j) > up(k, j)}
        walk == [k \in 1..Cardinality(kept) |->
                   segments[CHOOSE i \in kept : Cardinality({j \in kept : j <= i}) = k]]
        escapes == \E j \in 1..n : up(1, j) > down(1, j)
    IN  SafeRelative(segments) =
          IF escapes \/ (walk # <<>> /\ walk[1] \in Protected) THEN Refused ELSE walk

\* Every part of a generated class name is a Java identifier and no reserved word,
\* so that the sources compile and the path below the output directory is the one
\* of the class (precompile.rs mangle_class_name, output_paths).
NamesLegal(file) ==
    \A g \in Generated({file}) : \A k \in DOMAIN g.class :
        LET part == g.class[k]
        IN  /\ part # <<>> /\ IsStart(part[1]) /\ part \notin JavaReserved
            /\ \A j \in DOMAIN part : IsPart(part[j])
=============================================================================
