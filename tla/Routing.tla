------------------------------ MODULE Routing ------------------------------
(***************************************************************************)
(* How a request finds its way: the mapper of tomcatrs-catalina, the       *)
(* security constraints of tomcatrs-security and the filter chain of a     *)
(* context.  All three match URL patterns against a path, each with rules  *)
(* of its own.                                                             *)
(*                                                                         *)
(* A path is the sequence of its segments, each with its name, extension   *)
(* ("" for none) and length; "/a/" ends with the empty segment and "/" is  *)
(* that segment alone.                                                     *)
(***************************************************************************)
EXTENDS Integers, Sequences, FiniteSets, SequencesExt

EmptySegment == [name |-> "", ext |-> "", len |-> 0]
PathLen(path) == FoldLeft(LAMBDA n, s : n + 1 + s.len, 0, path)
ExtLen(ext) == CASE ext = "" -> 0 [] ext = "x" -> 1 [] ext = "jspx" -> 4

(***************************************************************************)
(* The mapper                                                              *)
(***************************************************************************)
\* UrlPattern::matches of an exact, prefix, extension or default pattern.
Matches(pattern, path) ==
  CASE pattern.kind = "exact" -> pattern.path = path
    [] pattern.kind = "prefix" -> IsPrefix(pattern.path, path)
    [] pattern.kind = "ext" -> Last(path).ext = pattern.ext
    [] pattern.kind = "default" -> TRUE

Specificity(pattern) ==
  CASE pattern.kind = "exact" -> 3 [] pattern.kind = "prefix" -> 2
    [] pattern.kind = "ext" -> 1 [] pattern.kind = "default" -> 0

PatternLen(pattern) ==
  CASE pattern.kind \in {"exact", "prefix"} -> PathLen(pattern.path)
    [] pattern.kind = "ext" -> ExtLen(pattern.ext)
    [] pattern.kind = "default" -> 0

\* Tuples compare as in Rust: the kind first, then the length.
Better(p, q) ==
  \/ Specificity(p) > Specificity(q)
  \/ Specificity(p) = Specificity(q) /\ PatternLen(p) > PatternLen(q)

(* Mutant: a later pattern of the same kind replaces the best so far. *)
ResolveWrapperLast(mappings, path) ==
  FoldLeft(LAMBDA best, m :
             IF Matches(m.pattern, path) /\ (best = <<>> \/ Specificity(m.pattern) >= Specificity(best[1].pattern))
             THEN <<m>> ELSE best, <<>>, mappings)

\* resolve_wrapper: one pass over every mapping of every wrapper; <<>> is None.
ResolveWrapper(mappings, path) ==
  FoldLeft(LAMBDA best, m :
             IF Matches(m.pattern, path) /\ (best = <<>> \/ Better(m.pattern, best[1].pattern))
             THEN <<m>> ELSE best, <<>>, mappings)

\* resolve_context: the longest context path that is a prefix of the URI; the
\* empty path is the root context.
ResolveContext(contexts, uri) ==
  LET under == {c \in contexts : IsPrefix(c, uri)}
  IN {c \in under : \A d \in under : PathLen(d) <= PathLen(c)}

\* resolve_host: the name, then the aliases, then the default host.
ResolveHost(hosts, defaultHost, name) ==
  LET named == {h \in hosts : h.name = name}
      aliased == {h \in hosts : name \in h.aliases}
  IN IF named # {} THEN named ELSE IF aliased # {} THEN aliased
     ELSE {h \in hosts : h.name = defaultHost}

\* strip_context_path: what is left, "/" when nothing is.
StripContextPath(context, uri) ==
  LET rest == SubSeq(uri, Len(context) + 1, Len(uri)) IN IF rest = <<>> THEN <<EmptySegment>> ELSE rest

(* Mutant: the default servlet is told the path twice, as both parts. *)
SplitServletPathBoth(pattern, relative) ==
  CASE pattern.kind \in {"exact", "ext"} -> [servlet |-> relative, info |-> <<>>]
    [] pattern.kind = "prefix" ->
         [servlet |-> pattern.path, info |-> SubSeq(relative, Len(pattern.path) + 1, Len(relative))]
    [] pattern.kind = "default" -> [servlet |-> relative, info |-> relative]

\* split_servlet_path: the servlet path and the path info.
SplitServletPath(pattern, relative) ==
  CASE pattern.kind \in {"exact", "ext"} -> [servlet |-> relative, info |-> <<>>]
    [] pattern.kind = "prefix" ->
         [servlet |-> pattern.path, info |-> SubSeq(relative, Len(pattern.path) + 1, Len(relative))]
    [] pattern.kind = "default" -> [servlet |-> <<>>, info |-> relative]

\* Mapper::map: the one answer, or none.
MapWithin(context, mappings, uri) ==
  LET relative == StripContextPath(context, uri)
  IN {[context |-> context, wrapper |-> hit.wrapper, split |-> SplitServletPath(hit.pattern, relative)] :
      hit \in ToSet(ResolveWrapper(mappings, relative))}
Map(hosts, defaultHost, name, uri) ==
  UNION {UNION {MapWithin(c, h.apps[c], uri) : c \in ResolveContext(DOMAIN h.apps, uri)} :
         h \in ResolveHost(hosts, defaultHost, name)}

\* The mappings of a kind that match, in the order they were declared.
Hits(mappings, kind, path) ==
  SelectSeq(mappings, LAMBDA m : m.pattern.kind = kind /\ Matches(m.pattern, path))
FirstOf(s) == IF s = <<>> THEN <<>> ELSE <<Head(s)>>

\* The wrapper is the one the module's doc names, "exact, longest path-prefix,
\* extension, default" (mapper.rs l.18-19), the first declared among equals.
\* Where the best prefix is `/*' and an extension matches too, the comment at
\* l.61-62 says that `/*' "still loses to exact and extension matches" while
\* the doc has it win: there the property allows both.
PicksBest(mappings, path) ==
  LET prefixes == Hits(mappings, "prefix", path)
      longest == SelectSeq(prefixes, LAMBDA m :
                   \A n \in ToSet(prefixes) : Len(n.pattern.path) <= Len(m.pattern.path))
      exts == Hits(mappings, "ext", path)
      best == FirstOf(Hits(mappings, "exact", path) \o longest \o exts \o
                        Hits(mappings, "default", path))
      disputed == exts # <<>> /\ \E m \in ToSet(best) : m.pattern.kind = "prefix" /\ m.pattern.path = <<>>
  IN ResolveWrapper(mappings, path) \in {best} \cup IF disputed THEN {FirstOf(exts)} ELSE {}

\* The comment's reading of that case.  No run checks it: the code ranks by
\* kind alone, so it fails where `/*' and `*.x' both match (README, section 5).
StarYields(mappings, path) ==
  \A m \in ToSet(ResolveWrapper(mappings, path)) :
    m.pattern.kind = "prefix" /\ m.pattern.path = <<>> => Hits(mappings, "ext", path) = <<>>

\* The parts a servlet is told of give the URI back, but for the slash a bare
\* context path gains, and there is one answer at most.
PartsRecompose(hosts, defaultHost, name, uri) ==
  LET found == Map(hosts, defaultHost, name, uri)
  IN /\ Cardinality(found) <= 1
     /\ \A m \in found :
          m.context \o m.split.servlet \o m.split.info \in {uri, uri \o <<EmptySegment>>}

(***************************************************************************)
(* Security constraints                                                    *)
(***************************************************************************)
\* pattern_match_len, -1 for None.  Its lengths are not those of the mapper.
PatternMatchLen(pattern, path) ==
  IF ~Matches(pattern, path) THEN -1
  ELSE CASE pattern.kind = "default" -> 0
         [] pattern.kind = "ext" -> ExtLen(pattern.ext)
         [] pattern.kind = "prefix" -> PathLen(pattern.path) + 2
         [] pattern.kind = "exact" -> PathLen(path) + 1

\* covers_method: a list, else the omissions, else every method.
CoversMethod(c, method) ==
  IF c.methods # {} THEN method \in c.methods ELSE method \notin c.omissions

MaxOf(S) == CHOOSE n \in S : \A m \in S : m <= n

\* The longest match of a constraint for a request, -1 when it does not apply.
MatchLen(c, path, method) ==
  IF CoversMethod(c, method) THEN MaxOf({PatternMatchLen(p, path) : p \in c.patterns}) ELSE -1

\* The decision over the constraints of greatest match length.  roles is {} for
\* deny-all; absent says that there is no auth-constraint.
Decide(hits, principal, secure) ==
  CASE ~secure /\ (\E c \in hits : c.transport) -> "transport"
    [] \E c \in hits : c.absent -> "allow"
    [] \A c \in hits : c.roles = {} -> "forbidden"
    [] principal = "anonymous" -> "unauthenticated"
    [] \E c \in hits : "*" \in c.roles \/ principal \in c.roles -> "allow"
    [] OTHER -> "forbidden"

(* Mutant: a constraint without roles is passed over as if it said nothing. *)
CheckSkipsDeny(constraints, path, method, principal, secure) ==
  LET said == {c \in constraints : c.absent \/ c.roles # {}}
      matching == {c \in said : MatchLen(c, path, method) >= 0}
      longest == MaxOf({MatchLen(c, path, method) : c \in matching})
  IN IF matching = {} THEN "allow"
     ELSE Decide({c \in matching : MatchLen(c, path, method) = longest}, principal, secure)

\* ConstraintRegistry::check
Check(constraints, path, method, principal, secure) ==
  LET matching == {c \in constraints : MatchLen(c, path, method) >= 0}
      longest == MaxOf({MatchLen(c, path, method) : c \in matching})
  IN IF matching = {} THEN "allow"
     ELSE Decide({c \in matching : MatchLen(c, path, method) = longest}, principal, secure)

\* A deny-all constraint added to a web.xml lets nobody in who was kept out, at
\* whatever pattern, for whatever methods; and where it is the only constraint
\* of the most specific pattern, it keeps everybody out.
DenyOnlyCloses(constraints, deny, path, method, principal, secure) ==
  LET before == Check(constraints, path, method, principal, secure)
      after == Check(constraints \cup {deny}, path, method, principal, secure)
  IN /\ after = "allow" => before = "allow"
     /\ (MatchLen(deny, path, method) > MaxOf({-1} \cup {MatchLen(c, path, method) : c \in constraints}))
          => after \in {"forbidden", "transport"}

(***************************************************************************)
(* The filter chain                                                        *)
(***************************************************************************)
(* Mutant: each mapping adds its filter, whether it is there or not. *)
PushFilterAgain(chain, mapping, defs) ==
  IF mapping.filter \notin defs THEN chain ELSE Append(chain, mapping.filter)

\* push_filter: not twice, and only a declared filter.
PushFilter(chain, mapping, defs) ==
  IF mapping.filter \in ToSet(chain) \/ mapping.filter \notin defs THEN chain
  ELSE Append(chain, mapping.filter)

\* build_for_path: the mappings that match by URL, then those that match by
\* servlet name, for the type of dispatch.
BuildForPath(mappings, defs, path, servlet, dispatcher) ==
  LET Covers(m) == dispatcher \in m.dispatchers
      byUrl == SelectSeq(mappings, LAMBDA m : Covers(m) /\ \E p \in m.patterns : Matches(p, path))
      byName == SelectSeq(mappings, LAMBDA m : Covers(m) /\ servlet \in m.servlets)
  IN FoldLeft(LAMBDA chain, m : PushFilter(chain, m, defs), <<>>, byUrl \o byName)

\* Every filter the request qualifies for runs, once, and never before a filter
\* that qualifies by an earlier mapping of the same or the stronger sort.
ChainInOrder(mappings, defs, path, servlet, dispatcher) ==
  LET chain == BuildForPath(mappings, defs, path, servlet, dispatcher)
      Rank(i) == LET m == mappings[i]
                 IN IF dispatcher \notin m.dispatchers \/ m.filter \notin defs THEN 0
                    ELSE IF \E p \in m.patterns : Matches(p, path) THEN 1
                    ELSE IF servlet \in m.servlets THEN 2 ELSE 0
      Place(f) == {<<Rank(i), i>> : i \in {j \in DOMAIN mappings : mappings[j].filter = f /\ Rank(j) > 0}}
      Before(f, g) == \E a \in Place(f) : \A b \in Place(g) :
                        a[1] < b[1] \/ (a[1] = b[1] /\ a[2] < b[2])
  IN /\ ToSet(chain) = {f \in {m.filter : m \in ToSet(mappings)} : Place(f) # {}}
     /\ \A i, j \in DOMAIN chain : i < j => Before(chain[i], chain[j])
=============================================================================
