---------------------------- MODULE RequestText ----------------------------
(***************************************************************************)
(* What the connector reads out of a request's text: the request target,   *)
(* in the two normalisers of the code base (tomcatrs-coyote and            *)
(* tomcatrs-security) and in the default servlet's resolution of a path,   *)
(* content negotiation, and cookies.                                       *)
(*                                                                         *)
(* A target is a sequence of characters, each written plainly or as a      *)
(* percent triplet; "%" written plainly is a malformed triplet, and        *)
(* "WEB-INF" stands for either protected directory name.                   *)
(***************************************************************************)
EXTENDS Integers, Sequences, FiniteSets, SequencesExt

Rejected == [ok |-> FALSE, path |-> <<>>, slash |-> FALSE]
Chars(target) == [i \in DOMAIN target |-> target[i].char]

\* The segments of a decoded path, split at "/".
Segments(chars) ==
  FoldLeft(LAMBDA segs, c : IF c = "/" THEN Append(segs, <<>>)
                            ELSE [segs EXCEPT ![Len(segs)] = Append(@, c)], <<<<>>>>, chars)

Dot == <<".">>
DotDot == <<".", ".">>

\* collapse_dot_segments of both normalisers: empty and "." segments contribute
\* nothing, ".." pops, and a pop of the empty stack rejects the path.
Collapse(chars) ==
  FoldLeft(LAMBDA acc, s :
             IF ~acc.ok \/ s \in {<<>>, Dot} THEN acc
             ELSE IF s = DotDot THEN (IF acc.path = <<>> THEN [acc EXCEPT !.ok = FALSE]
                                      ELSE [acc EXCEPT !.path = Front(@)])
             ELSE [acc EXCEPT !.path = Append(@, s)],
           [ok |-> TRUE, path |-> <<>>], Segments(chars))

(* Mutant: a path of slashes alone keeps one of them as its trailing slash. *)
NormalizeTargetSlash(target) ==
  LET cut == SelectInSeq(target, LAMBDA t : t = [char |-> "?", enc |-> FALSE])
      path == IF cut = 0 THEN target ELSE SubSeq(target, 1, cut - 1)
      refused == \/ path = <<>> \/ path[1] # [char |-> "/", enc |-> FALSE]
                 \/ \E t \in ToSet(path) : \/ t.char \in {"\\", "NUL"}
                                           \/ t.enc /\ t.char = "/"
                                           \/ ~t.enc /\ t.char = "%"
      done == Collapse(Chars(path))
  IN IF refused \/ ~done.ok THEN Rejected
     ELSE [ok |-> TRUE, path |-> done.path,
           slash |-> Len(path) > 1 /\ Last(path).char = "/"]

\* normalize_target of coyote: the query is cut off, backslashes, encoded slashes,
\* NULs and malformed triplets reject, and a trailing slash is kept.
NormalizeTarget(target) ==
  LET cut == SelectInSeq(target, LAMBDA t : t = [char |-> "?", enc |-> FALSE])
      path == IF cut = 0 THEN target ELSE SubSeq(target, 1, cut - 1)
      refused == \/ path = <<>> \/ path[1] # [char |-> "/", enc |-> FALSE]
                 \/ \E t \in ToSet(path) : \/ t.char \in {"\\", "NUL"}
                                           \/ t.enc /\ t.char = "/"
                                           \/ ~t.enc /\ t.char = "%"
      done == Collapse(Chars(path))
  IN IF refused \/ ~done.ok THEN Rejected
     ELSE [ok |-> TRUE, path |-> done.path,
           slash |-> done.path # <<>> /\ Len(path) > 1 /\ Last(path).char = "/"]

(* Mutant: the protected directories are looked for before the dots are collapsed. *)
NormalizeAndValidateEarly(target) ==
  LET cut == SelectInSeq(target, LAMBDA t : ~t.enc /\ t.char \in {"?", "#"})
      path == IF cut = 0 THEN target ELSE SubSeq(target, 1, cut - 1)
      refused == \/ path = <<>> \/ path[1].char # "/"
                 \/ \E t \in ToSet(path) : t.char \in {"\\", "NUL"} \/ (t.enc /\ t.char = "/")
      done == Collapse(Chars(path))
  IN IF refused \/ ~done.ok THEN Rejected
     ELSE IF Segments(Chars(path))[2] = <<"WEB-INF">> THEN Rejected
     ELSE [ok |-> TRUE, path |-> done.path, slash |-> FALSE]

\* normalize_and_validate_uri of tomcatrs-security: a fragment is cut off too, a
\* malformed triplet is kept as it is, the protected directories are refused.
NormalizeAndValidate(target) ==
  LET cut == SelectInSeq(target, LAMBDA t : ~t.enc /\ t.char \in {"?", "#"})
      path == IF cut = 0 THEN target ELSE SubSeq(target, 1, cut - 1)
      refused == \/ path = <<>> \/ path[1].char # "/"
                 \/ \E t \in ToSet(path) : t.char \in {"\\", "NUL"} \/ (t.enc /\ t.char = "/")
      done == Collapse(Chars(path))
  IN IF refused \/ ~done.ok THEN Rejected
     ELSE IF done.path # <<>> /\ Head(done.path) = <<"WEB-INF">> THEN Rejected
     ELSE [ok |-> TRUE, path |-> done.path, slash |-> FALSE]

\* DefaultServlet::resolve: any ".." is refused, the protected directories are
\* not found.
Resolve(path) ==
  LET parts == SelectSeq(path, LAMBDA s : s \notin {<<>>, Dot})
  IN CASE \E s \in ToSet(parts) : s = DotDot -> "traversal"
       [] parts # <<>> /\ parts[1] = <<"WEB-INF">> -> "protected"
       [] OTHER -> "ok"

\* A normalised path is canonical: sent again as it stands it comes back the same,
\* unless it holds a percent sign, which would be read as a triplet.
Canonical(target) ==
  LET done == NormalizeTarget(target)
      Spell(segs) == FoldLeft(LAMBDA out, s : out \o <<"/">> \o s, <<>>, segs)
      again == IF done.path = <<>> THEN <<"/">>
               ELSE Spell(done.path) \o (IF done.slash THEN <<"/">> ELSE <<>>)
      plain == [i \in DOMAIN again |-> [char |-> again[i], enc |-> FALSE]]
  IN done.ok /\ (\A i \in DOMAIN again : again[i] \notin {"%", "?"}) => NormalizeTarget(plain) = done

\* The three readings of one target agree.  What both normalisers accept they
\* read as the same path; a path the connector passes on is never a traversal to
\* the default servlet, and is withheld exactly when the validator refuses it.
ReadingsAgree(target) ==
  LET coyote == NormalizeTarget(target)
      valid == NormalizeAndValidate(target)
      fragment == \E i \in DOMAIN target : target[i] = [char |-> "#", enc |-> FALSE]
  IN coyote.ok => /\ Resolve(coyote.path) # "traversal"
                  /\ valid.ok /\ ~fragment => valid.path = coyote.path
                  /\ ~fragment => (valid.ok <=> Resolve(coyote.path) = "ok")

(***************************************************************************)
(* Content negotiation                                                     *)
(***************************************************************************)
\* MediaRange::matches; "*" is a wildcard.
RangeMatches(range, type) ==
  range.type \in {"*", type.type} /\ range.subtype \in {"*", type.subtype}

RangeSpecificity(range) ==
  (IF range.type # "*" THEN 8 ELSE 0) + (IF range.subtype # "*" THEN 4 ELSE 0) + range.params

\* parse_accept: best first, by quality and then specificity; the sort is stable.
ParseAccept(ranges) ==
  LET key == [i \in DOMAIN ranges |-> <<ranges[i].q, RangeSpecificity(ranges[i]), i>>]
      Before(i, j) == \/ key[i][1] > key[j][1]
                      \/ key[i][1] = key[j][1] /\ key[i][2] > key[j][2]
                      \/ key[i][1] = key[j][1] /\ key[i][2] = key[j][2] /\ i < j
      order == SetToSortSeq(DOMAIN ranges, Before)
  IN [n \in DOMAIN order |-> ranges[order[n]]]

(* Mutant: a candidate as good as the best so far replaces it. *)
NegotiateLast(ranges, available) ==
  LET sorted == ParseAccept(ranges)
      Quality(c) == LET i == SelectInSeq(sorted, LAMBDA r : RangeMatches(r, c))
                    IN IF i = 0 THEN 0 ELSE sorted[i].q
      best == FoldLeft(LAMBDA b, c : IF Quality(c) > 0 /\ (b = <<>> \/ Quality(c) >= Quality(b[1]))
                                     THEN <<c>> ELSE b, <<>>, available)
  IN IF ranges = <<>> THEN (IF available = <<>> THEN <<>> ELSE <<available[1]>>) ELSE best

\* negotiate: a candidate has the quality of the first range that matches it; the
\* best wins, the earlier one among equals; quality 0 is out.  <<>> is None.
Negotiate(ranges, available) ==
  LET sorted == ParseAccept(ranges)
      Quality(c) == LET i == SelectInSeq(sorted, LAMBDA r : RangeMatches(r, c))
                    IN IF i = 0 THEN 0 ELSE sorted[i].q
      best == FoldLeft(LAMBDA b, c : IF Quality(c) > 0 /\ (b = <<>> \/ Quality(c) > Quality(b[1]))
                                     THEN <<c>> ELSE b, <<>>, available)
  IN IF ranges = <<>> THEN (IF available = <<>> THEN <<>> ELSE <<available[1]>>) ELSE best

\* The choice is the server's first among the types the client likes best, and
\* there is none exactly when the client takes none of them; the order in which
\* the client lists its ranges never matters.
NegotiatesBest(ranges, available) ==
  LET Liking(c) == LET qs == {r.q : r \in {s \in ToSet(ranges) : RangeMatches(s, c)}}
                   IN IF ranges = <<>> THEN 1 ELSE IF qs = {} THEN 0 ELSE CHOOSE q \in qs : \A p \in qs : p <= q
      liked == SelectSeq(available, LAMBDA c : Liking(c) > 0 /\ \A d \in ToSet(available) : Liking(d) <= Liking(c))
  IN Negotiate(ranges, available) = IF liked = <<>> THEN <<>> ELSE <<liked[1]>>

(***************************************************************************)
(* Cookies, character by character: the parser of tomcatrs-coyote and the  *)
(* one of tomcatrs-session, and the session cookie the latter builds.      *)
(***************************************************************************)
Split(chars, sep) ==
  FoldLeft(LAMBDA parts, c : IF c = sep THEN Append(parts, <<>>)
                             ELSE [parts EXCEPT ![Len(parts)] = Append(@, c)], <<<<>>>>, chars)

Trim(chars) ==
  LET solid == {k \in DOMAIN chars : chars[k] # " "}
      first == CHOOSE k \in solid : \A j \in solid : k <= j
      last == CHOOSE k \in solid : \A j \in solid : k >= j
  IN  IF solid = {} THEN <<>> ELSE SubSeq(chars, first, last)

\* split_once('='), name and value trimmed, as a sequence of at most one pair
Pair(chars, Unquote(_)) ==
  LET pair == Trim(chars)
      eq == SelectInSeq(pair, LAMBDA c : c = "=")
      name == Trim(SubSeq(pair, 1, eq - 1))
  IN  IF eq = 0 \/ name = <<>> THEN <<>>
      ELSE <<[name |-> name, value |-> Unquote(Trim(SubSeq(pair, eq + 1, Len(pair))))]>>

Quoted(v) == v # <<>> /\ v[1] = "\"" /\ v[Len(v)] = "\""

\* tomcatrs-coyote: one layer of quotes, when both ends have one and they are two
UnquoteCoyote(v) == IF Quoted(v) /\ Len(v) >= 2 THEN SubSeq(v, 2, Len(v) - 1) ELSE v

(* Mutant: a single quote is taken for both ends. *)
UnquoteSessionShort(v) == IF Quoted(v) THEN SubSeq(v, 2, Len(v) - 1) ELSE v

\* tomcatrs-session: strip_prefix, then strip_suffix of what is left
UnquoteSession(v) ==
  LET inner == Tail(v)
  IN  IF v = <<>> \/ v[1] # "\"" THEN v
      ELSE IF inner # <<>> /\ inner[Len(inner)] = "\"" THEN Front(inner) ELSE v

ParseCookieHeader(header) ==
  LET parts == Split(header, ";") IN FlattenSeq([k \in DOMAIN parts |-> Pair(parts[k], UnquoteCoyote)])

SessionCookies(header) ==
  LET parts == Split(header, ";") IN FlattenSeq([k \in DOMAIN parts |-> Pair(parts[k], UnquoteSession)])

SessionName == <<"J">>   \* JSESSIONID

(* Mutant: the last cookie of the name wins. *)
ExtractSessionIdLast(header) ==
  LET of == SelectSeq(SessionCookies(header), LAMBDA c : c.name = SessionName)
  IN  IF of = <<>> THEN <<>> ELSE <<of[Len(of)].value>>

ExtractSessionId(header) ==
  LET of == SelectSeq(SessionCookies(header), LAMBDA c : c.name = SessionName)
  IN  IF of = <<>> THEN <<>> ELSE <<of[1].value>>

\* the attributes follow the pair, each after "; "; one character stands for each
BuildSetCookie(id, secure, sameSite) ==
  SessionName \o <<"=">> \o id \o <<";", " ", "P", "=", "/", ";", " ", "H">>
  \o (IF secure THEN <<";", " ", "S">> ELSE <<>>)
  \o (IF sameSite THEN <<";", " ", "M", "=", "L">> ELSE <<>>)

\* Both parsers read the same cookies out of the same header, the quotes included
\* (tomcatrs-coyote cookies.rs and tomcatrs-session cookie.rs parse_cookie_header).
CookiesAgree(header) == ParseCookieHeader(header) = SessionCookies(header)

\* A client that sends the session cookie back is recognised, whatever other cookies
\* it sends before or after, a stale session cookie of a longer path included, which
\* is listed later (cookie.rs build_set_cookie, extract_session_id).
SessionCookieReturns(id, secure, sameSite, before, after) ==
  LET pair == Split(BuildSetCookie(id, secure, sameSite), ";")[1]
      header == before \o (IF before = <<>> THEN <<>> ELSE <<";", " ">>) \o pair \o <<";", " ">> \o after
  IN  ExtractSessionId(before) = <<>> => ExtractSessionId(header) = <<id>>
=============================================================================
