--------------------------------- MODULE El ----------------------------------
(***************************************************************************)
(* The JSP expression language (tomcatrs-jsp el.rs): the tokenizer, the    *)
(* recursive-descent parser, the evaluator with its coercions, and the     *)
(* search for ${...} fragments in a template.  Text is a sequence of       *)
(* characters.  Longs have LongBits bits; a double is an exact fraction    *)
(* n/d in lowest terms, 1/0 and -1/0 the infinities and 0/0 NaN, except    *)
(* that a long becomes a double with Mantissa significant bits.  Exponents *)
(* of literals and the sign of zero are left out.                          *)
(***************************************************************************)
EXTENDS Integers, Sequences, FiniteSets, SequencesExt

CONSTANTS LongBits, Mantissa

MinLong == -(2 ^ (LongBits - 1))
MaxLong == 2 ^ (LongBits - 1) - 1
Wrap(n) == ((n - MinLong) % (2 ^ LongBits)) + MinLong
Abs(n) == IF n < 0 THEN -n ELSE n
Sign(n) == IF n < 0 THEN -1 ELSE IF n = 0 THEN 0 ELSE 1

(***************************************************************************)
(* Tokenizer.                                                              *)
(***************************************************************************)
Digits == <<"0", "1", "2", "3", "4", "5", "6", "7", "8", "9">>
DigitOf(c) == CHOOSE n \in 0..9 : Digits[n + 1] = c
IsDigit(c) == c \in Range(Digits)
Letters == {"a", "b", "n", "_"}
Escapes == "\\"
Quotes == {"'", "\""}
Pairs == {<<"=", "=", "==">>, <<"!", "=", "!=">>, <<"<", "=", "<=">>, <<">", "=", ">=">>,
          <<"&", "&", "&&">>, <<"|", "|", "||">>}
Singles == {"+", "-", "*", "/", "%", "(", ")", "[", "]", ".", ",", "?", ":", "!", "<", ">"}

Token(k, v) == [k |-> k, datum |-> v]
Number(text) == FoldLeft(LAMBDA n, c : 10 * n + DigitOf(c), 0, text)

\* where the longest run of characters satisfying Test that begins at i ends
RunEnd(chars, i, Test(_)) ==
    CHOOSE j \in (i - 1)..Len(chars) :
        /\ \A k \in i..j : Test(chars[k])
        /\ j = Len(chars) \/ ~Test(chars[j + 1])

RECURSIVE ReadString(_, _, _, _)
\* the literal's characters and the position behind the closing quote, 0 if none
ReadString(chars, i, quote, text) ==
    IF i > Len(chars) THEN [text |-> text, next |-> 0]
    ELSE IF chars[i] = Escapes /\ i < Len(chars)
         THEN ReadString(chars, i + 2, quote,
                         Append(text, IF chars[i + 1] = "n" THEN "newline" ELSE chars[i + 1]))
    ELSE IF chars[i] = quote THEN [text |-> text, next |-> i + 1]
    ELSE ReadString(chars, i + 1, quote, Append(text, chars[i]))

Keyword(word) ==
    CASE word = <<"t">> -> Token("bool", TRUE)
      [] word = <<"n">> -> Token("null", 0)
      [] word = <<"_">> -> Token("op", "empty")
      [] OTHER -> Token("id", word)

LexError == <<Token("error", 0)>>

RECURSIVE Tokenize(_, _)
\* words may hold a colon, for the prefix of a function's name; keywords are
\* written with one letter: t for true, n for null, _ for empty; the others are
\* false and second spellings of operators
Tokenize(chars, i) ==
    IF i > Len(chars) THEN <<>>
    ELSE LET c == chars[i]
             one == IF i < Len(chars) THEN chars[i + 1] ELSE " "
             wordEnd == RunEnd(chars, i, LAMBDA x : x \in Letters \cup {"t", ":"} \/ IsDigit(x))
             numEnd == RunEnd(chars, i, IsDigit)
             str == ReadString(chars, i + 1, c, <<>>)
             op2 == {p \in Pairs : <<p[1], p[2]>> = <<c, one>>}
             Op(text, n) == <<Token("op", text)>> \o Tokenize(chars, i + n)
         IN  CASE c = " " -> Tokenize(chars, i + 1)
               [] IsDigit(c) ->
                    IF Number(SubSeq(chars, i, numEnd)) > MaxLong THEN LexError
                    ELSE <<Token("long", Number(SubSeq(chars, i, numEnd)))>>
                         \o Tokenize(chars, numEnd + 1)
               [] c \in Quotes ->
                    IF str.next = 0 THEN LexError
                    ELSE <<Token("str", str.text)>> \o Tokenize(chars, str.next)
               [] c \in Letters \cup {"t"} ->
                    <<Keyword(SubSeq(chars, i, wordEnd))>> \o Tokenize(chars, wordEnd + 1)
               [] op2 # {} -> Op((CHOOSE p \in op2 : TRUE)[3], 2)
               [] op2 = {} /\ c \in Singles -> Op(c, 1)
               [] OTHER -> LexError

(***************************************************************************)
(* Parser.  A syntax tree is a record with a tag; parsing yields a tree    *)
(* and the position behind it, or fails.                                   *)
(***************************************************************************)
Fail == [ok |-> FALSE]
Ok(ast, pos) == [ok |-> TRUE, ast |-> ast, pos |-> pos]
At(toks, pos, ops) == pos <= Len(toks) /\ toks[pos].k = "op" /\ toks[pos].datum \in ops

Lit(value) == [node |-> "lit", value |-> value]
Ident(name) == [node |-> "ident", name |-> name]
Property(base, name) == [node |-> "property", base |-> base, name |-> name]
Index(base, index) == [node |-> "index", base |-> base, index |-> index]
Unary(op, arg) == [node |-> "unary", op |-> op, arg |-> arg]
Binary(op, left, right) == [node |-> "binary", op |-> op, left |-> left, right |-> right]
Ternary(cond, then, else) == [node |-> "ternary", cond |-> cond, then |-> then, else |-> else]
Call(name, args) == [node |-> "call", name |-> name, args |-> args]

Null == [type |-> "null", datum |-> 0]
Long(n) == [type |-> "long", datum |-> n]
Str(s) == [type |-> "string", datum |-> s]
Bool(b) == [type |-> "bool", datum |-> b]

\* parse_or, parse_and, parse_equality, parse_relational, parse_additive,
\* parse_multiplicative: one loop, a set of operators each
Levels == << {"||"}, {"&&"}, {"==", "!="}, {"<", ">", "<=", ">="}, {"+", "-"}, {"*", "/", "%"} >>

\* In what follows Parse[level, pos] is what the parser reads at pos: a ternary at
\* level 0, a binary expression at levels 1 to 6, a unary one at level 7.
UnaryLevel == Len(Levels) + 1

RECURSIVE ParseArgs(_, _, _, _)
ParseArgs(Parse, toks, pos, args) ==
    LET arg == Parse[0, pos]
    IN  IF ~arg.ok THEN Fail
        ELSE IF At(toks, arg.pos, {","}) THEN ParseArgs(Parse, toks, arg.pos + 1, Append(args, arg.ast))
        ELSE IF At(toks, arg.pos, {")"}) THEN Ok(Append(args, arg.ast), arg.pos + 1)
        ELSE Fail

ParsePrimary(Parse, toks, pos) ==
    LET t == toks[pos]
        inner == Parse[0, pos + 1]
    IN  IF pos > Len(toks) THEN Fail
        ELSE CASE t.k = "long" -> Ok(Lit(Long(t.datum)), pos + 1)
               [] t.k = "str" -> Ok(Lit(Str(t.datum)), pos + 1)
               [] t.k = "bool" -> Ok(Lit(Bool(t.datum)), pos + 1)
               [] t.k = "null" -> Ok(Lit(Null), pos + 1)
               [] t.k = "op" /\ t.datum = "(" ->
                    IF inner.ok /\ At(toks, inner.pos, {")"}) THEN Ok(inner.ast, inner.pos + 1)
                    ELSE Fail
               [] t.k = "id" ->
                    IF ~At(toks, pos + 1, {"("}) THEN Ok(Ident(t.datum), pos + 1)
                    ELSE IF At(toks, pos + 2, {")"}) THEN Ok(Call(t.datum, <<>>), pos + 3)
                    ELSE LET args == ParseArgs(Parse, toks, pos + 2, <<>>)
                         IN  IF args.ok THEN Ok(Call(t.datum, args.ast), args.pos) ELSE Fail
               [] OTHER -> Fail

RECURSIVE ParsePostfix(_, _, _)
\* the loop of parse_postfix, from the node read so far
ParsePostfix(Parse, toks, node) ==
    IF ~node.ok THEN Fail
    ELSE IF At(toks, node.pos, {"."})
         THEN IF node.pos < Len(toks) /\ toks[node.pos + 1].k = "id"
              THEN ParsePostfix(Parse, toks, Ok(Property(node.ast, toks[node.pos + 1].datum), node.pos + 2))
              ELSE Fail
    ELSE IF At(toks, node.pos, {"["})
         THEN LET index == Parse[0, node.pos + 1]
              IN  IF index.ok /\ At(toks, index.pos, {"]"})
                  THEN ParsePostfix(Parse, toks, Ok(Index(node.ast, index.ast), index.pos + 1))
                  ELSE Fail
    ELSE node

ParseUnary(Parse, toks, pos) ==
    IF At(toks, pos, {"-", "!", "empty"})
    THEN LET arg == Parse[UnaryLevel, pos + 1]
         IN  IF arg.ok THEN Ok(Unary(toks[pos].datum, arg.ast), arg.pos) ELSE Fail
    ELSE ParsePostfix(Parse, toks, ParsePrimary(Parse, toks, pos))

\* a slip: the right operand takes the rest of its level
ParseRestRight(Parse, toks, left, level) ==
    IF left.ok /\ At(toks, left.pos, Levels[level])
    THEN LET right == Parse[level, left.pos + 1]
         IN  IF right.ok THEN Ok(Binary(toks[left.pos].datum, left.ast, right.ast), right.pos)
             ELSE Fail
    ELSE left

RECURSIVE ParseRest(_, _, _, _)
\* the loop of a binary level, from its left operand
ParseRest(Parse, toks, left, level) ==
    IF left.ok /\ At(toks, left.pos, Levels[level])
    THEN LET right == Parse[level + 1, left.pos + 1]
         IN  IF right.ok
             THEN ParseRest(Parse, toks, Ok(Binary(toks[left.pos].datum, left.ast, right.ast), right.pos), level)
             ELSE Fail
    ELSE left

ParseTernary(Parse, toks, pos) ==
    LET cond == Parse[1, pos]
    IN  IF ~cond.ok \/ ~At(toks, cond.pos, {"?"}) THEN cond
        ELSE LET then == Parse[0, cond.pos + 1]
             IN  IF ~then.ok \/ ~At(toks, then.pos, {":"}) THEN Fail
                 ELSE LET else == Parse[0, then.pos + 1]
                      IN  IF else.ok THEN Ok(Ternary(cond.ast, then.ast, else.ast), else.pos)
                          ELSE Fail

\* parse_full: everything is read
ParseFull(toks) ==
    LET Parse[level \in 0..UnaryLevel, pos \in 1..(Len(toks) + 1)] ==
            IF level = 0 THEN ParseTernary(Parse, toks, pos)
            ELSE IF level = UnaryLevel THEN ParseUnary(Parse, toks, pos)
            ELSE ParseRest(Parse, toks, Parse[level + 1, pos], level)
        r == IF toks = <<>> THEN Fail ELSE Parse[0, 1]
    IN  IF r.ok /\ r.pos = Len(toks) + 1 THEN r ELSE Fail

(***************************************************************************)
(* Values and coercions.                                                   *)
(***************************************************************************)
RECURSIVE Gcd(_, _)
Gcd(a, b) == IF b = 0 THEN a ELSE Gcd(b, a % b)

Double(n, d) ==
    LET g == Gcd(Abs(n), Abs(d))
    IN  [type |-> "double",
         datum |-> IF g = 0 THEN <<0, 0>> ELSE <<(n * (IF d < 0 THEN -1 ELSE 1)) \div g, Abs(d) \div g>>]
NaN(x) == x.datum = <<0, 0>>
Inf(x) == x.datum[2] = 0 /\ x.datum[1] # 0

\* n as f64, to Mantissa significant bits, ties to even
AsF64OfLong(n) ==
    LET e == CHOOSE k \in 0..LongBits : /\ Abs(n) < 2 ^ (Mantissa + k)
                                        /\ k = 0 \/ Abs(n) >= 2 ^ (Mantissa + k - 1)
        q == Abs(n) \div 2 ^ e
        r == Abs(n) % 2 ^ e
        up == 2 * r > 2 ^ e \/ (2 * r = 2 ^ e /\ q % 2 = 1)
    IN  Double(Sign(n) * (IF up THEN q + 1 ELSE q) * 2 ^ e, 1)

Value(v) == [ok |-> TRUE, datum |-> v]
Error == [ok |-> FALSE, panic |-> FALSE]
Panic == [ok |-> FALSE, panic |-> TRUE]
\* the ? operator: go on with a value, return a failure
Then(r, Use(_)) == IF r.ok THEN Use(r.datum) ELSE r

IsTruthy(x) ==
    CASE x.type = "null" -> FALSE
      [] x.type = "bool" -> x.datum
      [] x.type = "long" -> x.datum # 0
      [] x.type = "double" -> x.datum # <<0, 1>>
      [] x.type = "string" -> x.datum \notin {<<>>, <<"f">>}    \* f for "false"
      [] x.type = "list" -> x.datum # <<>>
      [] x.type = "map" -> DOMAIN x.datum # {}

IsEmpty(x) ==
    \/ x.type = "null"
    \/ x.type \in {"string", "list"} /\ x.datum = <<>>
    \/ x.type = "map" /\ DOMAIN x.datum = {}

\* as_number of a string: blank is 0, an i64 is a long, what is too big is a double
ParseNumber(text) ==
    LET t == SelectSeq(text, LAMBDA c : c # " ")
        minus == t # <<>> /\ Head(t) = "-"
        n == Number(IF minus THEN Tail(t) ELSE t) * (IF minus THEN -1 ELSE 1)
    IN  IF t = <<>> THEN Value(Long(0))
        ELSE IF (minus /\ Len(t) = 1) \/ \E k \in DOMAIN t : ~IsDigit(t[k]) /\ ~(minus /\ k = 1)
             THEN Error
        ELSE Value(IF n \in MinLong..MaxLong THEN Long(n) ELSE AsF64OfLong(n))

AsNumber(x) ==
    CASE x.type = "null" -> Value(Long(0))
      [] x.type \in {"long", "double"} -> Value(x)
      [] x.type = "string" -> ParseNumber(x.datum)
      [] OTHER -> Error

\* of a number
AsF64(x) == IF x.type = "long" THEN AsF64OfLong(x.datum) ELSE x
\* `as` saturates, and NaN is 0
AsI64(x) ==
    IF x.type = "long" THEN x.datum
    ELSE IF NaN(x) THEN 0
    ELSE IF Inf(x) THEN IF x.datum[1] > 0 THEN MaxLong ELSE MinLong
    ELSE LET t == Sign(x.datum[1]) * (Abs(x.datum[1]) \div x.datum[2])
         IN  IF t > MaxLong THEN MaxLong ELSE IF t < MinLong THEN MinLong ELSE t

(***************************************************************************)
(* Evaluation.                                                             *)
(***************************************************************************)
Remainder(a, b) == Sign(a) * (Abs(a) % Abs(b))

LongArithmetic(op, a, b) ==
    CASE op = "+" -> Value(Long(Wrap(a + b)))
      [] op = "-" -> Value(Long(Wrap(a - b)))
      [] op = "*" -> Value(Long(Wrap(a * b)))
      [] op = "%" -> IF b = 0 THEN Error
                     ELSE IF a = MinLong /\ b = -1 THEN Panic   \* a % b overflows
                     ELSE Value(Long(Remainder(a, b)))

DoubleArithmetic(op, x, y) ==
    LET a == x.datum[1]  b == x.datum[2]  c == y.datum[1]  d == y.datum[2]
    IN  CASE op = "+" -> IF Inf(x) /\ Inf(y) THEN IF a = c THEN x ELSE Double(0, 0)
                         ELSE Double(a * d + c * b, b * d)
          [] op = "-" -> IF Inf(x) /\ Inf(y) THEN IF a # c THEN x ELSE Double(0, 0)
                         ELSE Double(a * d - c * b, b * d)
          [] op = "*" -> Double(a * c, b * d)
          [] op = "/" -> IF c < 0 THEN Double((-a) * d, b * (-c)) ELSE Double(a * d, b * c)
          [] op = "%" -> IF b = 0 \/ c = 0 THEN Double(0, 0)
                         ELSE IF d = 0 THEN x
                         ELSE Double(Remainder(a * d, b * c), b * d)

ArithmeticOf(op, m, n) ==
    IF op # "/" /\ m.type = "long" /\ n.type = "long" THEN LongArithmetic(op, m.datum, n.datum)
    ELSE Value(DoubleArithmetic(op, AsF64(m), AsF64(n)))

Arithmetic(op, l, r) ==
    Then(AsNumber(l), LAMBDA m : Then(AsNumber(r), LAMBDA n : ArithmeticOf(op, m, n)))

\* PartialEq for ElValue, of values without collections
Equal(l, r) ==
    IF l.type = "double" \/ r.type = "double"
    THEN {l.type, r.type} \subseteq {"long", "double"} /\ AsF64(l).datum = AsF64(r).datum /\ ~NaN(AsF64(l))
    ELSE l.type = r.type /\ l.datum = r.datum

\* a slip: no coercion, 5 == "5" is false
ValuesEqualTyped(l, r) == Equal(l, r)

ValuesEqual(l, r) ==
    IF "string" \in {l.type, r.type} /\ {l.type, r.type} \cap {"long", "double"} # {}
    THEN AsNumber(l).ok /\ AsNumber(r).ok /\ Equal(AsNumber(l).datum, AsNumber(r).datum)
    ELSE Equal(l, r)

RECURSIVE TextLess(_, _)
\* strings in the order of their characters; only digits and "a" are compared
TextLess(s, t) ==
    LET Rank(c) == IF IsDigit(c) THEN DigitOf(c) ELSE 10
    IN  IF t = <<>> THEN FALSE
        ELSE IF s = <<>> THEN TRUE
        ELSE \/ Rank(Head(s)) < Rank(Head(t))
             \/ Head(s) = Head(t) /\ TextLess(Tail(s), Tail(t))

\* -1, 0, 1: std::cmp::Ordering
Compare(l, r) ==
    IF l.type = "string" /\ r.type = "string"
    THEN Value(IF l.datum = r.datum THEN 0 ELSE IF TextLess(l.datum, r.datum) THEN -1 ELSE 1)
    ELSE IF "null" \in {l.type, r.type} \/ ~AsNumber(l).ok \/ ~AsNumber(r).ok THEN Error
    ELSE LET x == AsF64(AsNumber(l).datum)
             y == AsF64(AsNumber(r).datum)
         IN  IF NaN(x) \/ NaN(y) THEN Error
             ELSE IF Inf(x) /\ Inf(y) THEN Value(Sign(x.datum[1] - y.datum[1]))
             ELSE Value(Sign(x.datum[1] * y.datum[2] - y.datum[1] * x.datum[2]))

Relation(op, ord) ==
    CASE op = "<" -> ord = -1 [] op = ">" -> ord = 1 [] op = "<=" -> ord # 1 [] op = ">=" -> ord # -1

GetMember(base, member) ==
    CASE base.type = "null" -> Value(Null)
      [] base.type = "map" ->
           Value(IF member.type = "string" /\ member.datum \in DOMAIN base.datum THEN base.datum[member.datum] ELSE Null)
      [] base.type \in {"list", "string"} ->
           IF ~AsNumber(member).ok THEN Error
           ELSE LET k == AsI64(AsNumber(member).datum)
                IN  Value(IF k \notin 0..(Len(base.datum) - 1) THEN Null
                          ELSE IF base.type = "list" THEN base.datum[k + 1] ELSE Str(<<base.datum[k + 1]>>))
      [] OTHER -> Error

\* ElContext::resolve: a variable, a scope, then a name in any scope in their order
Resolve(ctx, name) ==
    LET holders == {k \in DOMAIN ctx.scopes : name \in DOMAIN ctx.scopes[k].entries}
    IN  IF name \in DOMAIN ctx.vars THEN ctx.vars[name]
        ELSE IF \E k \in DOMAIN ctx.scopes : ctx.scopes[k].name = name
             THEN [type |-> "map",
                   datum |-> ctx.scopes[CHOOSE k \in DOMAIN ctx.scopes : ctx.scopes[k].name = name].entries]
        ELSE IF holders # {} THEN ctx.scopes[CHOOSE k \in holders : \A j \in holders : k <= j].entries[name]
        ELSE Null

RECURSIVE Eval(_, _)

\* a slip: both operands are evaluated first
EvalLogicEager(op, left, right, ctx) ==
    Then(Eval(left, ctx), LAMBDA l : Then(Eval(right, ctx), LAMBDA r :
        Value(Bool(IF op = "&&" THEN IsTruthy(l) /\ IsTruthy(r) ELSE IsTruthy(l) \/ IsTruthy(r)))))

\* && and || look at the right operand only when they must
EvalLogic(op, left, right, ctx) ==
    Then(Eval(left, ctx), LAMBDA l :
        IF IsTruthy(l) = (op = "||") THEN Value(Bool(op = "||"))
        ELSE Then(Eval(right, ctx), LAMBDA r : Value(Bool(IsTruthy(r)))))

EvalBinary(op, l, r) ==
    CASE op \in {"+", "-", "*", "/", "%"} -> Arithmetic(op, l, r)
      [] op \in {"==", "!="} -> Value(Bool(ValuesEqual(l, r) = (op = "==")))
      [] OTHER -> Then(Compare(l, r), LAMBDA ord : Value(Bool(Relation(op, ord))))

\* -n of the smallest long overflows: a panic with overflow checks, else itself
Negate(x) ==
    IF x.type = "double" THEN Value(Double(-x.datum[1], x.datum[2]))
    ELSE IF x.datum = MinLong THEN Panic ELSE Value(Long(-x.datum))

EvalUnary(op, x) ==
    CASE op = "-" -> Then(AsNumber(x), Negate)
      [] op = "!" -> Value(Bool(~IsTruthy(x)))
      [] op = "empty" -> Value(Bool(IsEmpty(x)))

Eval(ast, ctx) ==
    CASE ast.node = "lit" -> Value(ast.value)
      [] ast.node = "ident" -> Value(Resolve(ctx, ast.name))
      [] ast.node = "property" -> Then(Eval(ast.base, ctx), LAMBDA b : GetMember(b, Str(ast.name)))
      [] ast.node = "index" ->
           Then(Eval(ast.base, ctx), LAMBDA b : Then(Eval(ast.index, ctx), LAMBDA i : GetMember(b, i)))
      [] ast.node = "unary" -> Then(Eval(ast.arg, ctx), LAMBDA x : EvalUnary(ast.op, x))
      [] ast.node = "binary" /\ ast.op \in {"&&", "||"} -> EvalLogic(ast.op, ast.left, ast.right, ctx)
      [] ast.node = "binary" /\ ast.op \notin {"&&", "||"} ->
           Then(Eval(ast.left, ctx), LAMBDA l : Then(Eval(ast.right, ctx), LAMBDA r : EvalBinary(ast.op, l, r)))
      [] ast.node = "ternary" ->
           Then(Eval(ast.cond, ctx), LAMBDA c : Eval(IF IsTruthy(c) THEN ast.then ELSE ast.else, ctx))
      [] ast.node = "call" ->      \* the registered function gives its first argument
           IF ast.name \notin ctx.functions \/ ast.args = <<>> THEN Error
           ELSE FoldLeft(LAMBDA first, arg : Then(first, LAMBDA f : Then(Eval(arg, ctx), LAMBDA x : Value(f))),
                         Eval(Head(ast.args), ctx), Tail(ast.args))

(***************************************************************************)
(* interpolate.                                                            *)
(***************************************************************************)
RECURSIVE FragmentEnd(_, _, _, _)
\* the closing brace of the fragment whose body begins at j, 0 if there is none
FragmentEnd(chars, j, depth, quote) ==
    IF j > Len(chars) THEN 0
    ELSE LET d == chars[j]
         IN  IF quote # ""
             THEN IF d = Escapes /\ j < Len(chars) THEN FragmentEnd(chars, j + 2, depth, quote)
                  ELSE FragmentEnd(chars, j + 1, depth, IF d = quote THEN "" ELSE quote)
             ELSE CASE d \in Quotes -> FragmentEnd(chars, j + 1, depth, d)
                    [] d = "{" -> FragmentEnd(chars, j + 1, depth + 1, "")
                    [] d = "}" -> IF depth = 1 THEN j ELSE FragmentEnd(chars, j + 1, depth - 1, "")
                    [] OTHER -> FragmentEnd(chars, j + 1, depth, "")

\* a slip: braces count inside string literals too
BodyEndPlain(chars, j) ==
    LET close == {k \in j..Len(chars) : chars[k] = "}"}
    IN  IF close = {} THEN 0 ELSE CHOOSE k \in close : \A m \in close : k <= m

BodyEnd(chars, j) == FragmentEnd(chars, j, 1, "")

EvalText(chars, ctx) ==
    LET parsed == ParseFull(Tokenize(chars, 1))
    IN  IF parsed.ok THEN Eval(parsed.ast, ctx) ELSE Error

RECURSIVE Interpolate(_, _, _)
\* the text with every fragment replaced, or an error; values are strings or null
Interpolate(chars, i, ctx) ==
    LET fragment == chars[i] \in {"$", "#"} /\ i < Len(chars) /\ chars[i + 1] = "{"
        end == IF fragment THEN BodyEnd(chars, i + 2) ELSE i
        here == IF ~fragment THEN Value(Str(<<chars[i]>>))
                ELSE IF end = 0 THEN Error ELSE EvalText(SubSeq(chars, i + 2, end - 1), ctx)
    IN  IF i > Len(chars) THEN Value(<<>>)
        ELSE Then(here, LAMBDA x : Then(Interpolate(chars, end + 1, ctx), LAMBDA rest :
                 Value((IF x.type = "string" THEN x.datum ELSE <<>>) \o rest)))

(***************************************************************************)
(* Properties.                                                             *)
(***************************************************************************)
Op(v) == <<Token("op", v)>>
LevelOf(op) == CHOOSE n \in DOMAIN Levels : op \in Levels[n]

RECURSIVE Written(_, _)
\* a tree as tokens, with parentheses only where its level demands them: level 0
\* a ternary, 1 to 6 the binary operators, 7 unary, 8 postfix
Written(ast, level) ==
    LET Paren(own, toks) == IF own < level THEN Op("(") \o toks \o Op(")") ELSE toks
    IN  CASE ast.node = "lit" ->
               <<CASE ast.value.type = "string" -> Token("str", ast.value.datum)
                   [] ast.value.type = "null" -> Token("null", 0)
                   [] OTHER -> Token(ast.value.type, ast.value.datum)>>
          [] ast.node = "ident" -> <<Token("id", ast.name)>>
          [] ast.node = "property" -> Written(ast.base, 8) \o Op(".") \o <<Token("id", ast.name)>>
          [] ast.node = "index" -> Written(ast.base, 8) \o Op("[") \o Written(ast.index, 0) \o Op("]")
          [] ast.node = "unary" -> Paren(7, Op(ast.op) \o Written(ast.arg, 7))
          [] ast.node = "binary" ->
               Paren(LevelOf(ast.op), Written(ast.left, LevelOf(ast.op)) \o Op(ast.op)
                                      \o Written(ast.right, LevelOf(ast.op) + 1))
          [] ast.node = "ternary" ->
               Paren(0, Written(ast.cond, 1) \o Op("?") \o Written(ast.then, 0) \o Op(":")
                        \o Written(ast.else, 0))
          [] ast.node = "call" ->
               <<Token("id", ast.name)>> \o Op("(")
               \o FlattenSeq([k \in DOMAIN ast.args |->
                     (IF k = 1 THEN <<>> ELSE Op(",")) \o Written(ast.args[k], 0)]) \o Op(")")

\* An expression written with no more parentheses than precedence and left
\* association require is read as the tree it was written from (el.rs Parser).
ParsesAsWritten(ast) ==
    LET r == ParseFull(Written(ast, 0)) IN r.ok /\ r.ast = ast

\* Evaluation fails only as an error the page can handle, except where a long
\* is the smallest one (- and % overflow); and an operand that && , || or ?:
\* does not need never makes the expression fail (el.rs eval, eval_binary).
EvalContained(ast, ctx) ==
    LET operands == IF ast.node = "binary" THEN <<ast.left, ast.right>>
                    ELSE IF ast.node = "unary" THEN <<ast.arg>> ELSE <<>>
        MayPanic(x) == ~x.ok \/ AsNumber(x.datum) = Value(Long(MinLong))
        Contained(r, x) ==
            /\ (~r.ok /\ r.panic) => \E k \in DOMAIN x : MayPanic(x[k])
            /\ (ast.node = "binary" /\ ast.op \in {"&&", "||"} /\ x[1].ok) =>
                  (IsTruthy(x[1].datum) = (ast.op = "||") => r = Value(Bool(ast.op = "||")))
    IN  Contained(Eval(ast, ctx), [k \in DOMAIN operands |-> Eval(operands[k], ctx)])

\* Where two values can be ordered, exactly one of <, > and == holds, across all
\* coercions; only longs that a double cannot hold may be neither ordered nor
\* equal (el.rs compare goes through f64, values_equal does not).
OrderTotal(l, r) ==
    LET ord == Compare(l, r)
        Exact(x) == AsNumber(x).datum.type = "long" => Abs(AsNumber(x).datum.datum) < 2 ^ Mantissa
    IN  ord.ok /\ ({l.type, r.type} = {"string"} \/ Exact(l) \/ Exact(r)) =>
            (ord.datum = 0 <=> ValuesEqual(l, r))

\* A string literal, whatever quotes, braces and backslashes it holds, is read
\* as the string it was written for, alone and inside a template, whose text
\* around the fragment stays (el.rs tokenize, interpolate).
LiteralsKept(text, quote, before, after, ctx) ==
    LET quoted == <<quote>> \o FlattenSeq([k \in DOMAIN text |->
                     IF text[k] \in {quote, Escapes} THEN <<Escapes, text[k]>> ELSE <<text[k]>>])
                  \o <<quote>>
    IN  /\ Tokenize(quoted, 1) = <<Token("str", text)>>
        /\ Interpolate(before \o <<"$", "{">> \o quoted \o <<"}">> \o after, 1, ctx)
             = Value(before \o text \o after)
=============================================================================
