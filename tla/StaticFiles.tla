---------------------------- MODULE StaticFiles ----------------------------
(***************************************************************************)
(* The default servlet of tomcatrs-catalina: a file that others rewrite    *)
(* while it is served, a client that keeps a copy and asks whether it is   *)
(* still good, ranges and HTTP dates.  serve_file reads the metadata and   *)
(* then the file: two steps, between which the file may change.            *)
(*                                                                         *)
(* A tag is what weak_etag makes it of: the length and the second of the   *)
(* last change.                                                            *)
(***************************************************************************)
EXTENDS Integers, Sequences, FiniteSets, SequencesExt

CONSTANTS
  Lengths,     \* lengths the file may have
  MaxVersions, \* bound: rewrites of the file
  MaxSeconds,  \* bound: the clock
  Ranges       \* the Range headers sent: sequences of [first, last], -1 for none

ByteRanges == [first : Nat \cup {-1}, last : Nat \cup {-1}]

ASSUME FilesAssumption ==
  /\ Lengths \subseteq Nat /\ Ranges \subseteq Seq(ByteRanges)
  /\ MaxVersions \in Nat /\ MaxSeconds \in Nat

VARIABLES
  second,   \* the clock, as far as mtime resolves it
  versions, \* every version the file has had: its length, mtime and absence
  serving,  \* the request being served
  copy,     \* what the client keeps: the tag, the date and the body's version
  answer    \* the last answer

fileVars == <<second, versions, serving, copy, answer>>

NoCopy == [tag |-> <<>>, date |-> -1, body |-> 0]

FileInit ==
  /\ second = 1
  /\ \E n \in Lengths : versions = <<[len |-> n, mtime |-> 1, gone |-> FALSE]>>
  /\ serving = [at |-> "idle"] /\ copy = NoCopy /\ answer = [status |-> 0]

SecondPasses ==
  /\ second < MaxSeconds /\ second' = second + 1
  /\ UNCHANGED <<versions, serving, copy, answer>>

Current == versions[Len(versions)]

\* Somebody writes the file, or removes it.
Rewrite ==
  /\ Len(versions) < MaxVersions
  /\ \E n \in Lengths \cup {0}, gone \in BOOLEAN :
       /\ IF gone THEN n = 0 /\ ~Current.gone ELSE n \in Lengths
       /\ versions' = Append(versions, [len |-> n, mtime |-> second, gone |-> gone])
  /\ UNCHANGED <<second, serving, copy, answer>>

(***************************************************************************)
(* Ranges                                                                  *)
(***************************************************************************)
(* Mutant: the end of a closed range is taken as it was sent. *)
SpecRangeUnclamped(spec, len) ==
  CASE spec.first = -1 -> IF spec.last = 0 THEN <<>>
                          ELSE <<[first |-> len - (IF spec.last < len THEN spec.last ELSE len), last |-> len - 1]>>
    [] spec.first # -1 /\ spec.last = -1 ->
         IF spec.first >= len THEN <<>> ELSE <<[first |-> spec.first, last |-> len - 1]>>
    [] OTHER -> IF spec.first > spec.last \/ spec.first >= len THEN <<>> ELSE <<spec>>

\* One range of a header: a suffix, an open or a closed one; <<>> when it alone
\* cannot be satisfied.
SpecRange(spec, len) ==
  CASE spec.first = -1 -> IF spec.last = 0 THEN <<>>
                          ELSE <<[first |-> len - (IF spec.last < len THEN spec.last ELSE len), last |-> len - 1]>>
    [] spec.first # -1 /\ spec.last = -1 ->
         IF spec.first >= len THEN <<>> ELSE <<[first |-> spec.first, last |-> len - 1]>>
    [] OTHER -> IF spec.first > spec.last \/ spec.first >= len THEN <<>>
                ELSE <<[first |-> spec.first, last |-> IF spec.last < len - 1 THEN spec.last ELSE len - 1]>>

\* parse_range: no header at all, malformed or empty is "none".  Nothing tells
\* the order of the ranges apart, so they are a set.
ParseRange(specs, len) ==
  IF specs = <<>> THEN [kind |-> "none", ranges |-> {}]
  ELSE IF len = 0 THEN [kind |-> "unsatisfiable", ranges |-> {}]
  ELSE IF \E i \in DOMAIN specs : specs[i].first = -1 /\ specs[i].last = -1
       THEN [kind |-> "none", ranges |-> {}]
  ELSE LET ranges == UNION {ToSet(SpecRange(specs[i], len)) : i \in DOMAIN specs}
       IN [kind |-> IF ranges = {} THEN "unsatisfiable" ELSE "ranges", ranges |-> ranges]

\* Every range sent back lies in the file, and together they are the bytes that
\* the header names: those of each closed or open range that exist, and the
\* last ones for a suffix.
RangesExact(specs, len) ==
  LET parsed == ParseRange(specs, len)
      Bytes(r) == r.first..r.last
      Named(s) == {b \in 0..len - 1 :
                     IF s.first = -1 THEN b >= len - s.last
                     ELSE b >= s.first /\ (s.last = -1 \/ b <= s.last)}
  IN parsed.kind # "none" =>
       /\ \A r \in parsed.ranges : Bytes(r) # {} /\ Bytes(r) \subseteq 0..len - 1
       /\ UNION {Bytes(r) : r \in parsed.ranges} = UNION {Named(s) : s \in ToSet(specs)}

(***************************************************************************)
(* Serving                                                                 *)
(***************************************************************************)
Tag(v) == <<v.len, v.mtime>>

\* The four conditional headers; a tag is "*" or one the client was sent, a
\* date is the one it was sent (a date that does not parse counts as absent).
Conditional ==
  [match : {"absent", "any", "own"}, unmodified : BOOLEAN,
   none : {"absent", "any", "own"}, modified : BOOLEAN]
FromCopy(c) == c.match = "own" \/ c.unmodified \/ c.none = "own" \/ c.modified

\* A client sends a request; tags and dates come from the copy it keeps.
Ask(conditions, range) ==
  /\ serving.at = "idle"
  /\ FromCopy(conditions) => copy.body # 0
  /\ serving' = [at |-> "stat", conditions |-> conditions, range |-> range,
                 tag |-> copy.tag, date |-> copy.date]
  /\ UNCHANGED <<second, versions, copy, answer>>

\* If-Match, and only without it If-Unmodified-Since.  The server's tags are
\* weak and If-Match compares strongly, so a tag of ours never passes it.
PreconditionFails(request, meta) ==
  IF request.conditions.match # "absent" THEN request.conditions.match = "own"
  ELSE request.conditions.unmodified /\ meta.mtime > request.date

\* If-None-Match, and only without it If-Modified-Since.
NotModified(request, meta) ==
  IF request.conditions.none # "absent"
  THEN request.conditions.none = "any" \/ request.tag = Tag(meta)
  ELSE request.conditions.modified /\ meta.mtime <= request.date

\* serve_get and serve_file up to the read: what the metadata decides.
Conditions(request, meta) ==
  CASE meta.gone -> 404
    [] ~meta.gone /\ PreconditionFails(request, meta) -> 412
    [] ~meta.gone /\ ~PreconditionFails(request, meta) ->
         IF NotModified(request, meta) THEN 304 ELSE 200

\* What a 304 was decided by: "own" (the client's tag), "any", or "date".
DecidedBy(conditions) == IF conditions.none # "absent" THEN conditions.none ELSE "date"

Idle == [at |-> "idle"]

\* The metadata is read and the conditions are evaluated.
Stat ==
  /\ serving.at = "stat"
  /\ LET verdict == Conditions(serving, Current)
     IN IF verdict = 200
        THEN /\ serving' = [at |-> "read", range |-> serving.range, meta |-> Len(versions)]
             /\ UNCHANGED answer
        ELSE /\ serving' = Idle
             /\ answer' = IF verdict = 304
                          THEN [status |-> 304, at |-> Len(versions), by |-> DecidedBy(serving.conditions)]
                          ELSE [status |-> verdict]
  /\ UNCHANGED <<second, versions, copy>>

(* Mutant: the file is read in the first step, its metadata in the second. *)
ReadSwapped ==
  /\ serving.at = "read"
  /\ answer' = [status |-> 200] /\ serving' = Idle
  /\ copy' = [tag |-> Tag(Current), date |-> Current.mtime, body |-> serving.meta]
  /\ UNCHANGED <<second, versions>>

\* The file is read, unless it vanished, and the answer made: the range is parsed
\* for the length of the metadata and cut out of the data, which panics past its end.
Read ==
  /\ serving.at = "read"
  /\ LET meta == versions[serving.meta]
         parsed == ParseRange(serving.range, meta.len)
         whole == ~Current.gone /\ parsed.kind = "none"
         short == \E r \in parsed.ranges : r.last >= Current.len
     IN /\ answer' = CASE Current.gone -> [status |-> 404]
                       [] whole -> [status |-> 200]
                       [] ~Current.gone /\ parsed.kind = "unsatisfiable" -> [status |-> 416]
                       [] ~Current.gone /\ parsed.kind = "ranges" /\ ~short -> [status |-> 206]
                       [] OTHER -> [status |-> -1, claimed |-> meta.len, had |-> Current.len]
        /\ copy' = IF whole
                   THEN [tag |-> Tag(meta), date |-> meta.mtime, body |-> Len(versions)] ELSE copy
  /\ serving' = Idle
  /\ UNCHANGED <<second, versions>>

FileNext ==
  \/ SecondPasses \/ Rewrite \/ Stat \/ Read
  \/ \E c \in Conditional, r \in Ranges : Ask(c, r)

FileSpec == FileInit /\ [][FileNext]_fileVars

(***************************************************************************)
(* Dates                                                                   *)
(***************************************************************************)
(* Mutant: century years are all leap years. *)
CivilFromDaysJulian(days) ==
  LET z == days + 719468
      era == z \div 146097
      doe == z % 146097
      yoe == (doe - doe \div 1460) \div 365
      doy == doe - (365 * yoe + yoe \div 4)
      mp == (5 * doy + 2) \div 153
      month == IF mp < 10 THEN mp + 3 ELSE mp - 9
  IN [year |-> yoe + era * 400 + (IF month <= 2 THEN 1 ELSE 0), month |-> month,
      day |-> doy - (153 * mp + 2) \div 5 + 1, dow |-> ((days % 7) + 4) % 7]

\* http_date and format_imf_fixdate: the calendar date of a day since the epoch.
CivilFromDays(days) ==
  LET z == days + 719468
      era == z \div 146097
      doe == z % 146097
      yoe == (doe - doe \div 1460 + doe \div 36524 - doe \div 146096) \div 365
      doy == doe - (365 * yoe + yoe \div 4 - yoe \div 100)
      mp == (5 * doy + 2) \div 153
      month == IF mp < 10 THEN mp + 3 ELSE mp - 9
  IN [year |-> yoe + era * 400 + (IF month <= 2 THEN 1 ELSE 0), month |-> month,
      day |-> doy - (153 * mp + 2) \div 5 + 1, dow |-> ((days % 7) + 4) % 7]

\* parse_http_date, back to days; the name of the weekday is not looked at.
DaysFromCivil(year, month, day) ==
  LET y == IF month <= 2 THEN year - 1 ELSE year
      era == y \div 400
      yoe == y - era * 400
      mp == IF month > 2 THEN month - 3 ELSE month + 9
      doy == (153 * mp + 2) \div 5 + day - 1
  IN era * 146097 + yoe * 365 + yoe \div 4 - yoe \div 100 + doy - 719468

MonthLength(year, month) ==
  CASE month = 2 -> IF year % 4 = 0 /\ (year % 100 # 0 \/ year % 400 = 0) THEN 29 ELSE 28
    [] month \in {4, 6, 9, 11} -> 30
    [] OTHER -> 31

\* The day after is the next date of the calendar, at every end of month and
\* every leap day, and a date sent as Last-Modified comes back as the same day.
DatesAdvance(days) ==
  LET d == CivilFromDays(days)
      n == CivilFromDays(days + 1)
  IN /\ n.dow = (d.dow + 1) % 7
     /\ <<n.year, n.month, n.day>> =
          IF d.day < MonthLength(d.year, d.month) THEN <<d.year, d.month, d.day + 1>>
          ELSE IF d.month < 12 THEN <<d.year, d.month + 1, 1>> ELSE <<d.year + 1, 1, 1>>
     /\ DaysFromCivil(d.year, d.month, d.day) = days

(***************************************************************************)
(* Properties                                                              *)
(***************************************************************************)
\* Unless two versions look alike (written within a second and, where the tag is
\* compared, of the same length), a client that is told its copy is good, after its
\* tag or date was looked at, has the version the server looked at, however the file
\* was rewritten or removed meanwhile.
CopyGood ==
  answer.status = 304 /\ answer.by # "any" =>
    LET Alike(v, w) == /\ ~v.gone /\ ~w.gone /\ v.mtime = w.mtime
                       /\ (answer.by = "own" => v.len = w.len)
    IN \/ copy.body = answer.at
       \/ \E i, j \in DOMAIN versions : i # j /\ Alike(versions[i], versions[j])

\* Serving fails in mid-answer only for a file that became shorter between the
\* two reads.
PanicsOnlyWhenShrunk == answer.status = -1 => answer.had < answer.claimed
\* A client is told that its copy is good only when it is, while the file is
\* being rewritten; an answer breaks off only for a file that shrank.
CopiesGood == CopyGood /\ PanicsOnlyWhenShrunk
=============================================================================
