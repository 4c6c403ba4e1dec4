------------------------------ MODULE ClassFiles ------------------------------
(***************************************************************************)
(* The class scanner of a web application (tomcatrs-webapp annotations.rs  *)
(* and scanner.rs): a class file is read byte by byte, with every          *)
(* reference through the constant pool, and the classes of WEB-INF/classes *)
(* and WEB-INF/lib feed an annotation index and the class graph that       *)
(* answers @HandlesTypes.                                                  *)
(*                                                                         *)
(* Bytes are the bytes of the file; only the well-known names are          *)
(* shortened to one or three of them.  ClassBytes is the compiler that     *)
(* wrote the file, the reference the reader is compared with.              *)
(***************************************************************************)
EXTENDS Integers, SequencesExt

Good(v, rest) == [ok |-> TRUE, v |-> v, rest |-> rest]
Bad == [ok |-> FALSE, v |-> <<>>, rest |-> <<>>]

\* Rust's `?`
Then(r, F(_, _)) == IF r.ok THEN F(r.v, r.rest) ELSE Bad

Take(n, s) ==
    IF Len(s) < n THEN Bad ELSE Good(SubSeq(s, 1, n), SubSeq(s, n + 1, Len(s)))

Number(bytes) == FoldLeft(LAMBDA acc, b : acc * 256 + b, 0, bytes)

\* Cursor::u8, u16, u32, by width
Uint(n, s) == Then(Take(n, s), LAMBDA v, rest : Good(Number(v), rest))

\* n items, each read by P
Repeat(P(_), n, s) ==
    FoldLeft(LAMBDA acc, i : Then(acc, LAMBDA v, rest :
                               Then(P(rest), LAMBDA x, more : Good(Append(v, x), more))),
             Good(<<>>, s), [i \in 1..n |-> i])

\* a u16 count and that many items
Table(P(_), s) == Then(Uint(2, s), LAMBDA n, rest : Repeat(P, n, rest))

(***************************************************************************)
(* Modified UTF-8.                                                         *)
(***************************************************************************)
Bits(b, n) == b % 2 ^ n
IsSurrogate(code) == code \in 55296..57343
Three(s) == Bits(s[1], 4) * 4096 + Bits(s[2], 6) * 64 + Bits(s[3], 6)
IsLead3(b) == b \div 16 = 14

\* the six bytes of a supplementary character
IsPair(s) ==
    /\ Len(s) >= 6 /\ Three(s) \in 55296..56319
    /\ IsLead3(s[4]) /\ Three(SubSeq(s, 4, 6)) \in 56320..57343

RECURSIVE DecodeModifiedUtf8Plain(_, _)
\* a slip: the halves of a surrogate pair are taken for characters
DecodeModifiedUtf8Plain(out, s) ==
    IF s = <<>> THEN Good(out, <<>>)
    ELSE LET step(code, n) == IF IsSurrogate(code) THEN Bad
                              ELSE DecodeModifiedUtf8Plain(Append(out, code), SubSeq(s, n + 1, Len(s)))
         IN  CASE s[1] = 0 -> Bad
               [] s[1] \in 1..127 -> step(s[1], 1)
               [] s[1] \div 32 = 6 -> IF Len(s) < 2 THEN Bad ELSE step(Bits(s[1], 5) * 64 + Bits(s[2], 6), 2)
               [] IsLead3(s[1]) -> IF Len(s) < 3 THEN Bad ELSE step(Three(s), 3)
               [] OTHER -> Bad

RECURSIVE DecodeModifiedUtf8(_, _)
DecodeModifiedUtf8(out, s) ==
    IF s = <<>> THEN Good(out, <<>>)
    ELSE LET step(code, n) == IF IsSurrogate(code) THEN Bad
                              ELSE DecodeModifiedUtf8(Append(out, code), SubSeq(s, n + 1, Len(s)))
         IN  CASE s[1] = 0 -> Bad
               [] s[1] \in 1..127 -> step(s[1], 1)
               [] s[1] \div 32 = 6 -> IF Len(s) < 2 THEN Bad ELSE step(Bits(s[1], 5) * 64 + Bits(s[2], 6), 2)
               [] IsLead3(s[1]) ->
                    CASE Len(s) < 3 -> Bad
                      [] IsPair(s) -> step(65536 + (Three(s) - 55296) * 1024 + Three(SubSeq(s, 4, 6)) - 56320, 6)
                      [] OTHER -> step(Three(s), 3)
               [] OTHER -> Bad

(***************************************************************************)
(* The constant pool: a sequence of [tag, v].  The eight-byte constants    *)
(* take two slots.                                                         *)
(***************************************************************************)
Utf8Tag == 1
IntegerTag == 3
ClassTag == 7
StringTag == 8
Wide == {5, 6}
Unusable == [tag |-> 0, operand |-> 0]

\* the body of each kind of constant
ConstantBody(tag, s) ==
    CASE tag = Utf8Tag -> Then(Uint(2, s), LAMBDA n, rest :
                            Then(Take(n, rest), LAMBDA raw, more :
                              Then(DecodeModifiedUtf8(<<>>, raw), LAMBDA text, none : Good(text, more))))
      [] tag \in {3, 4} -> Uint(4, s)
      [] tag \in Wide -> Take(8, s)
      [] tag \in {ClassTag, StringTag, 16, 19, 20} -> Uint(2, s)
      [] tag \in {9, 10, 11, 12, 17, 18} -> Take(4, s)
      [] tag = 15 -> Take(3, s)
      [] OTHER -> Bad

RECURSIVE PoolFromNarrow(_, _, _)
\* a slip: a long takes one slot
PoolFromNarrow(pool, count, s) ==
    IF Len(pool) + 1 >= count THEN Good(pool, s)
    ELSE Then(Uint(1, s), LAMBDA tag, rest :
           Then(ConstantBody(tag, rest), LAMBDA v, more :
             PoolFromNarrow(Append(pool, [tag |-> tag, operand |-> v]), count, more)))

RECURSIVE PoolFrom(_, _, _)
PoolFrom(pool, count, s) ==
    IF Len(pool) + 1 >= count THEN Good(pool, s)
    ELSE Then(Uint(1, s), LAMBDA tag, rest :
           Then(ConstantBody(tag, rest), LAMBDA v, more :
             PoolFrom(pool \o <<[tag |-> tag, operand |-> v]>> \o (IF tag \in Wide THEN <<Unusable>> ELSE <<>>),
                      count, more)))

ParseConstantPool(s) ==
    Then(Uint(2, s), LAMBDA count, rest : IF count = 0 THEN Bad ELSE PoolFrom(<<>>, count, rest))

\* pool.get(index), when it is a constant of that kind
Const(pool, index, tag) ==
    IF index \in DOMAIN pool /\ pool[index].tag = tag THEN <<pool[index].operand>> ELSE <<>>

Dotted(name) == [k \in DOMAIN name |-> IF name[k] = 47 THEN 46 ELSE name[k]]

\* a class reference, as <<name>>, or <<>> when it dangles
ResolveClassName(pool, index) ==
    LET name == IF Const(pool, index, ClassTag) = <<>> THEN <<>>
                ELSE Const(pool, Const(pool, index, ClassTag)[1], Utf8Tag)
    IN  IF name = <<>> THEN <<>> ELSE <<Dotted(name[1])>>

(***************************************************************************)
(* Annotations: [descriptor, elements], an element being <<name, value>>.  *)
(***************************************************************************)
ConstValue(string, int) == [kind |-> "const", string |-> string, int |-> int, items |-> <<>>]
OtherValue == [kind |-> "other", string |-> <<>>, int |-> <<>>, items |-> <<>>]
ArrayValue(items) == [kind |-> "array", string |-> <<>>, int |-> <<>>, items |-> items]
NestedValue(ann) == [kind |-> "annotation", string |-> <<>>, int |-> <<>>, items |-> <<ann>>]

\* B C I S Z, D F J, s, e, c, @, [ ; a number is kept as a number, not as text
IntegerTags == {66, 67, 73, 83, 90}
OtherNumbers == {68, 70, 74}
StringValue == 115
EnumValue == 101
ClassValue == 99
AnnotationValue == 64
ArrayTag == 91

RECURSIVE ParseElementValue(_, _), ParseOneAnnotation(_, _)
ParseElementValue(pool, s) ==
    Then(Uint(1, s), LAMBDA tag, rest :
        CASE tag \in IntegerTags -> Then(Uint(2, rest), LAMBDA i, more : Good(ConstValue(<<>>, Const(pool, i, IntegerTag)), more))
          [] tag = StringValue -> Then(Uint(2, rest), LAMBDA i, more : Good(ConstValue(Const(pool, i, Utf8Tag), <<>>), more))
          [] tag \in OtherNumbers -> Then(Take(2, rest), LAMBDA i, more : Good(ConstValue(<<>>, <<>>), more))
          [] tag = EnumValue -> Then(Take(4, rest), LAMBDA v, more : Good(OtherValue, more))
          [] tag = ClassValue -> Then(Take(2, rest), LAMBDA v, more : Good(OtherValue, more))
          [] tag = AnnotationValue -> Then(ParseOneAnnotation(pool, rest), LAMBDA a, more : Good(NestedValue(a), more))
          [] tag = ArrayTag -> Then(Table(LAMBDA t : ParseElementValue(pool, t), rest), LAMBDA items, more : Good(ArrayValue(items), more))
          [] OTHER -> Bad)
ParseOneAnnotation(pool, s) ==
    LET pair(t) == Then(Uint(2, t), LAMBDA i, rest :
                     IF Const(pool, i, Utf8Tag) = <<>> THEN Bad
                     ELSE Then(ParseElementValue(pool, rest), LAMBDA v, more :
                            Good(<<Const(pool, i, Utf8Tag)[1], v>>, more)))
    IN  Then(Uint(2, s), LAMBDA i, rest :
          IF Const(pool, i, Utf8Tag) = <<>> THEN Bad
          ELSE Then(Table(pair, rest), LAMBDA elements, more :
                 Good([descriptor |-> Const(pool, i, Utf8Tag)[1], elements |-> elements], more)))

(***************************************************************************)
(* ClassFile::parse.                                                       *)
(***************************************************************************)
Magic == <<202, 254, 186, 190>>
VisibleAnnotations == <<82>>    \* "RuntimeVisibleAnnotations"

\* name index, u32 length and as many bytes
Attribute(s) ==
    Then(Uint(2, s), LAMBDA name, rest :
      Then(Uint(4, rest), LAMBDA n, more :
        Then(Take(n, more), LAMBDA body, tail : Good([name |-> name, body |-> body], tail))))

SkipMemberTable(s) ==
    Table(LAMBDA t : Then(Take(6, t), LAMBDA v, rest : Table(Attribute, rest)), s)

ParseClassAttributes(pool, s) ==
    LET read(acc, a) ==
          IF Const(pool, a.name, Utf8Tag) # <<VisibleAnnotations>> THEN acc
          ELSE Then(acc, LAMBDA v, rest :
                 Then(Table(LAMBDA t : ParseOneAnnotation(pool, t), a.body), LAMBDA anns, none : Good(v \o anns, rest)))
    IN  Then(Table(Attribute, s), LAMBDA attributes, rest : FoldLeft(read, Good(<<>>, rest), attributes))

\* the class of the resolved references, refused when one dangles
Class(pool, this, super, interfaces, annotations) ==
    LET names == [k \in DOMAIN interfaces |-> ResolveClassName(pool, interfaces[k])]
        superName == IF super = 0 THEN <<>> ELSE ResolveClassName(pool, super)
    IN  IF \/ ResolveClassName(pool, this) = <<>>
           \/ super # 0 /\ superName = <<>>
           \/ \E k \in DOMAIN names : names[k] = <<>>
        THEN Bad
        ELSE Good([name |-> ResolveClassName(pool, this)[1], super |-> superName,
                   interfaces |-> [k \in DOMAIN names |-> names[k][1]],
                   annotations |-> annotations], <<>>)

Parse(bytes) ==
    Then(Take(4, bytes), LAMBDA magic, s1 :
      IF magic # Magic THEN Bad ELSE
      Then(Take(4, s1), LAMBDA version, s2 :
      Then(ParseConstantPool(s2), LAMBDA pool, s3 :
      Then(Take(2, s3), LAMBDA flags, s4 :
      Then(Uint(2, s4), LAMBDA this, s5 :
      Then(Uint(2, s5), LAMBDA super, s6 :
      Then(Table(LAMBDA t : Uint(2, t), s6), LAMBDA interfaces, s7 :
      Then(SkipMemberTable(s7), LAMBDA fields, s8 :
      Then(SkipMemberTable(s8), LAMBDA methods, s9 :
      Then(ParseClassAttributes(pool, s9), LAMBDA annotations, s10 :
           Class(pool, this, super, interfaces, annotations)))))))))))

(***************************************************************************)
(* The servlet annotations of a class.                                     *)
(***************************************************************************)
WebServlet == <<76, 83, 59>>    \* "Ljakarta/servlet/annotation/WebServlet;", or javax
WebFilter == <<76, 70, 59>>
WebListener == <<76, 76, 59>>
ValueKey == <<118>>
PatternsKey == <<117>>
NameKey == <<110>>
LoadKey == <<108>>
ServletsKey == <<115>>
FilterNameKey == <<102>>

\* the first element of that name, as <<value>>
Get(ann, key) ==
    LET at == SelectInSeq(ann.elements, LAMBDA e : e[1] = key)
    IN  IF at = 0 THEN <<>> ELSE <<ann.elements[at][2]>>

Scalar(value) ==
    IF value.kind = "array" THEN (IF value.items = <<>> THEN OtherValue ELSE value.items[1]) ELSE value

StringList(value) ==
    LET items == IF value.kind = "array" THEN value.items ELSE <<value>>
    IN  FlattenSeq([k \in DOMAIN items |-> Scalar(items[k]).string])

\* asyncSupported and initParams are read the same way and left out
Strings(ann, key) == IF Get(ann, key) = <<>> THEN <<>> ELSE StringList(Get(ann, key)[1])

NameOr(ann, key, default) ==
    LET name == IF Get(ann, key) = <<>> THEN <<>> ELSE Scalar(Get(ann, key)[1]).string
    IN  IF name \in {<<>>, <<<<>>>>} THEN default ELSE name[1]

DecodeWebServlet(class, ann) ==
    [class |-> class.name, name |-> NameOr(ann, NameKey, class.name),
     patterns |-> Strings(ann, ValueKey) \o Strings(ann, PatternsKey),
     load |-> IF Get(ann, LoadKey) = <<>> THEN <<>> ELSE Scalar(Get(ann, LoadKey)[1]).int]

DecodeWebFilter(class, ann) ==
    [class |-> class.name, name |-> NameOr(ann, FilterNameKey, class.name),
     patterns |-> Strings(ann, ValueKey) \o Strings(ann, PatternsKey),
     servlets |-> Strings(ann, ServletsKey)]

\* collect_into: the components of one class
CollectInto(class) ==
    LET of(descriptor) == SelectSeq(class.annotations, LAMBDA a : a.descriptor = descriptor)
    IN  [servlets |-> [k \in DOMAIN of(WebServlet) |-> DecodeWebServlet(class, of(WebServlet)[k])],
         filters |-> [k \in DOMAIN of(WebFilter) |-> DecodeWebFilter(class, of(WebFilter)[k])],
         listeners |-> [k \in DOMAIN of(WebListener) |-> [class |-> class.name]]]

(***************************************************************************)
(* scan_webapp and the class graph.  A classpath is a sequence of files in *)
(* the order they are read: WEB-INF/classes, then the sorted jars.  A file *)
(* is <<class>>, or <<>> when it cannot be read or parsed.                 *)
(***************************************************************************)
NoEntries == [servlets |-> <<>>, filters |-> <<>>, listeners |-> <<>>]

Entries(file) == IF file = <<>> THEN NoEntries ELSE CollectInto(file[1])

Merged(files) ==
    [kind \in DOMAIN NoEntries |-> FlattenSeq([k \in DOMAIN files |-> Entries(files[k])[kind]])]

\* a slip: the scan ends at a file that cannot be parsed
ScanWebappStops(complete, files) ==
    LET bad == SelectInSeq(files, LAMBDA f : f = <<>>)
    IN  IF complete THEN Merged(<<>>) ELSE Merged(SubSeq(files, 1, IF bad = 0 THEN Len(files) ELSE bad))

\* every class contributes, a shadowed one too
ScanWebapp(complete, files) == IF complete THEN Merged(<<>>) ELSE Merged(files)

DescriptorToFqcn(d) ==
    IF Len(d) < 3 \/ d[1] # 76 \/ d[Len(d)] # 59 THEN <<>> ELSE <<Dotted(SubSeq(d, 2, Len(d) - 1))>>

\* what the graph keeps of a class
Meta(class) ==
    [name |-> class.name, super |-> class.super, interfaces |-> class.interfaces,
     annotations |-> FlattenSeq([k \in DOMAIN class.annotations |-> DescriptorToFqcn(class.annotations[k].descriptor)])]

EmptyIndex == [classes |-> {}, direct |-> {}]

Supers(meta) == ToSet(meta.super) \cup ToSet(meta.interfaces)

\* a slip: the edges of a shadowed class are kept
InsertEdges(index, meta) ==
    [classes |-> IF \E c \in index.classes : c.name = meta.name THEN index.classes ELSE index.classes \cup {meta},
     direct |-> index.direct \cup {<<t, meta.name>> : t \in Supers(meta)}]

\* first write wins
Insert(index, meta) ==
    IF \E c \in index.classes : c.name = meta.name THEN index
    ELSE [classes |-> index.classes \cup {meta},
          direct |-> index.direct \cup {<<t, meta.name>> : t \in Supers(meta)}]

Scan(files) == FoldLeft(LAMBDA index, f : IF f = <<>> THEN index ELSE Insert(index, Meta(f[1])), EmptyIndex, files)

RECURSIVE Breadth(_, _, _)
\* the queue of classes_handled_by
Breadth(direct, queue, seen) ==
    IF queue = {} THEN seen
    ELSE LET name == CHOOSE n \in queue : TRUE
             new == {e[2] : e \in {e \in direct : e[1] = name}} \ seen
         IN  Breadth(direct, (queue \ {name}) \cup new, seen \cup new)

ClassesHandledBy(index, target) ==
    Breadth(index.direct, {target}, {}) \cup
    {c.name : c \in {c \in index.classes : target \in ToSet(c.annotations)}}

(***************************************************************************)
(* The compiler: a class as bytes.                                         *)
(***************************************************************************)
Bytes(n, width) == [k \in 1..width |-> (n \div 256 ^ (width - k)) % 256]

EncodeUtf8(text) ==
    LET unit(c) == CASE c \in 1..127 -> <<c>>
                     [] c \in {0} \cup 128..2047 -> <<192 + c \div 64, 128 + (c % 64)>>
                     [] OTHER -> <<224 + c \div 4096, 128 + ((c \div 64) % 64), 128 + (c % 64)>>
        char(c) == IF c < 65536 THEN unit(c)
                   ELSE unit(55296 + (c - 65536) \div 1024) \o unit(56320 + ((c - 65536) % 1024))
    IN  FlattenSeq([k \in DOMAIN text |-> char(text[k])])

ConstantBytes(c) ==
    <<c.tag>> \o CASE c.tag = Utf8Tag -> Bytes(Len(EncodeUtf8(c.operand)), 2) \o EncodeUtf8(c.operand)
                   [] c.tag = IntegerTag -> Bytes(c.operand, 4)
                   [] c.tag \in Wide -> <<0, 0, 0, 0>> \o Bytes(c.operand, 4)
                   [] OTHER -> Bytes(c.operand, 2)

\* the slot of the first such constant among pool
Slot(pool, c) ==
    LET at == SelectInSeq(pool, LAMBDA x : x = c)
    IN  at + Len(SelectSeq(SubSeq(pool, 1, at), LAMBDA x : x.tag \in Wide))

Text(v) == [tag |-> Utf8Tag, operand |-> v]
Num(v) == [tag |-> IntegerTag, operand |-> v]

\* names and numbers are the texts and integers of the class; noise stands first
PoolOf(noise, names, numbers) ==
    LET base == noise \o [k \in DOMAIN names |-> Text(names[k])] \o [k \in DOMAIN numbers |-> Num(numbers[k])]
    IN  base \o [k \in DOMAIN names |-> [tag |-> ClassTag, operand |-> Slot(base, Text(names[k]))]]

ClassSlot(pool, name) == Slot(pool, [tag |-> ClassTag, operand |-> Slot(pool, Text(name))])

TableBytes(items) == Bytes(Len(items), 2) \o FlattenSeq(items)

\* @WebServlet with the members of info that are given
ServletBytes(pool, info) ==
    LET u2(c) == Bytes(Slot(pool, c), 2)
        string(v) == <<StringValue>> \o u2(Text(v))
        strings(v) == <<ArrayTag>> \o TableBytes([k \in DOMAIN v |-> string(v[k])])
        pair(key, value) == u2(Text(key)) \o value
    IN  u2(Text(WebServlet)) \o
        TableBytes((IF info.value = <<>> THEN <<>> ELSE <<pair(ValueKey, strings(info.value))>>) \o
                   (IF info.load = <<>> THEN <<>> ELSE <<pair(LoadKey, <<73>> \o u2(Num(info.load[1])))>>) \o
                   (IF info.name = <<>> THEN <<>> ELSE <<pair(NameKey, string(info.name[1]))>>) \o
                   (IF info.patterns = <<>> THEN <<>> ELSE <<pair(PatternsKey, strings(info.patterns))>>))

ClassBytes(pool, c) ==
    LET slots == Len(pool) + Len(SelectSeq(pool, LAMBDA x : x.tag \in Wide))
        ref(name) == Bytes(ClassSlot(pool, name), 2)
        body == TableBytes([k \in DOMAIN c.servlets |-> ServletBytes(pool, c.servlets[k])])
        attribute(name, content) == Bytes(Slot(pool, Text(name)), 2) \o Bytes(Len(content), 4) \o content
        member == <<0, 1, 0, 1, 0, 1>> \o TableBytes(<<attribute(c.name, <<9, 9>>)>>)
    IN  Magic \o <<0, 0, 0, 61>> \o Bytes(slots + 1, 2) \o FlattenSeq([k \in DOMAIN pool |-> ConstantBytes(pool[k])])
        \o <<0, 33>> \o ref(c.name) \o (IF c.super = <<>> THEN <<0, 0>> ELSE ref(c.super[1]))
        \o TableBytes([k \in DOMAIN c.interfaces |-> ref(c.interfaces[k])])
        \o TableBytes([k \in 1..c.members |-> member]) \o TableBytes([k \in 1..c.members |-> member])
        \o TableBytes(<<attribute(c.name, <<7>>), attribute(VisibleAnnotations, body)>>)

(***************************************************************************)
(* Properties.                                                             *)
(***************************************************************************)
\* What the scanner reads of a class file is what the compiler wrote, whatever
\* constants and members stand before it, and a file that lost its end is refused
\* (annotations.rs ClassFile::parse, parse_constant_pool, collect_into).
ClassesSurvive(c, noise, lost) ==
    LET names == <<c.name, <<65, 47, 66>>, <<67>>, WebServlet, VisibleAnnotations, ValueKey, PatternsKey, NameKey, LoadKey, <<47>>, <<120>>>>
        Cut(bytes) == SubSeq(bytes, 1, Len(bytes) - lost)
        AsWritten(class) ==
             /\ class.name = Dotted(c.name)
             /\ class.super = [k \in DOMAIN c.super |-> Dotted(c.super[k])]
             /\ class.interfaces = [k \in DOMAIN c.interfaces |-> Dotted(c.interfaces[k])]
             /\ CollectInto(class).servlets =
                  [k \in DOMAIN c.servlets |->
                     [class |-> Dotted(c.name), patterns |-> c.servlets[k].value \o c.servlets[k].patterns,
                      name |-> IF c.servlets[k].name = <<>> THEN Dotted(c.name) ELSE c.servlets[k].name[1],
                      load |-> c.servlets[k].load]]
        Sound(read) == IF lost = 0 THEN read.ok /\ AsWritten(read.v) ELSE ~read.ok
    IN  Sound(Parse(Cut(ClassBytes(PoolOf(noise, names, <<5>>), c))))

\* Modified UTF-8 is read back, the supplementary characters and NUL included
\* (annotations.rs decode_modified_utf8).
TextSurvives(text) == DecodeModifiedUtf8(<<>>, EncodeUtf8(text)) = Good(text, <<>>)

\* The classes handed to an initializer are those that, as the class loader sees
\* them, reach the type over supertypes or carry it as an annotation: a class that
\* another one shadows adds none, nor does an unreadable file (scanner.rs insert,
\* classes_handled_by).
HandlesLoaded(files, target) ==
    LET loaded == {files[k][1] : k \in {k \in DOMAIN files :
                     /\ files[k] # <<>>
                     /\ \A j \in 1..k - 1 : files[j] # <<>> => files[j][1].name # files[k][1].name}}
        below(S) == {c.name : c \in {c \in loaded : Supers(c) \cap (S \cup {target}) # {}}}
        subtypes == {n \in below({c.name : c \in loaded}) :
                       \A S \in SUBSET {c.name : c \in loaded} : below(S) \subseteq S => n \in S}
    IN  ClassesHandledBy(Scan(files), target) =
          subtypes \cup {c.name : c \in {c \in loaded :
                           \E k \in DOMAIN c.annotations : c.annotations[k].descriptor = <<76>> \o target \o <<59>>}}

\* One class file that does not parse costs only itself: every readable class with
\* a servlet annotation is listed, and nothing under metadata-complete (scanner.rs
\* scan_webapp, scan_bytes).
BadFilesSkipped(complete, files) ==
    LET annotated(d) == {files[k][1].name : k \in {k \in DOMAIN files : files[k] # <<>> /\
                           \E j \in DOMAIN files[k][1].annotations : files[k][1].annotations[j].descriptor = d}}
        index == ScanWebapp(complete, files)
        listed(kind) == {index[kind][k].class : k \in DOMAIN index[kind]}
    IN  \A p \in {<<"servlets", WebServlet>>, <<"filters", WebFilter>>, <<"listeners", WebListener>>} :
            listed(p[1]) = IF complete THEN {} ELSE annotated(p[2])
=============================================================================
