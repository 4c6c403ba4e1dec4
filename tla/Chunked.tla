------------------------------ MODULE Chunked -------------------------------
(***************************************************************************)
(* ChunkedDecoder of tomcatrs-coyote, fed the slices that arrive off a     *)
(* socket, beside a byte-at-a-time automaton of the chunked grammar.  A    *)
(* byte is its class: hexadecimal digits, the two separators, CR, LF, and  *)
(* "x" for any other.                                                      *)
(***************************************************************************)
EXTENDS Integers, Sequences, SequencesExt

CONSTANTS
  MaxBody,        \* max_body: cap on the decoded body
  MaxChunkLine,   \* MAX_CHUNK_LINE_LEN
  MaxTrailerLine, \* MAX_TRAILER_LINE_LEN
  MaxTrailers,    \* MAX_TRAILER_COUNT
  MaxUsize,       \* the largest usize
  MaxSlice        \* bound: bytes one read returns

VARIABLES
  decoder,  \* the ChunkedDecoder
  slice,    \* bytes read and not yet pushed, or left over
  grammar   \* the reference automaton (history of the same bytes)

chunkVars == <<decoder, slice, grammar>>

Digit == {"0", "2"}
Byte == Digit \cup {"x", ";", ":", "CR", "LF"}
Value(digit) == IF digit = "0" THEN 0 ELSE 2

\* ChunkedDecoder::new; a body is its length, err is the ChunkedError.
NewDecoder == [state |-> "Size", remaining |-> 0, seenCr |-> FALSE, line |-> <<>>,
               terminated |-> FALSE, body |-> 0, trailers |-> 0, err |-> "none"]

IsComplete(d) == d.state = "Done"

Failed(d, err) == [d EXCEPT !.err = err]

\* feed_line: take bytes up to a CRLF; the line so far is capped, CR included.
FeedLine(d, input, maxLen) ==
  LET lf == SelectInSeq(input, LAMBDA b : b = "LF")
      line == d.line \o (IF lf = 0 THEN input ELSE SubSeq(input, 1, lf - 1))
      used == IF lf = 0 THEN Len(input) ELSE lf
  IN CASE Len(line) > maxLen -> [used |-> used, d |-> Failed(d, "TooLarge")]
       [] Len(line) <= maxLen /\ lf = 0 ->
            [used |-> used, d |-> [d EXCEPT !.line = line, !.terminated = FALSE]]
       [] Len(line) <= maxLen /\ lf # 0 ->
            [used |-> used,
             d |-> IF line # <<>> /\ Last(line) = "CR"
                   THEN [d EXCEPT !.line = Front(line), !.terminated = TRUE]
                   ELSE Failed(d, "Malformed")]

\* str::trim: a CR inside the line is white space too.
Trim(s) ==
  LET keep == {i \in DOMAIN s : s[i] # "CR"}
  IN IF keep = {} THEN <<>>
     ELSE SubSeq(s, CHOOSE i \in keep : \A j \in keep : i <= j,
                    CHOOSE i \in keep : \A j \in keep : i >= j)

Upto(s, byte) ==
  LET at == SelectInSeq(s, LAMBDA b : b = byte) IN IF at = 0 THEN s ELSE SubSeq(s, 1, at - 1)

HexValue(digits) == FoldLeft(LAMBDA n, c : 16 * n + Value(c), 0, digits)

(* Mutant: the cap looks at the chunk alone. *)
ParseSizeLinePerChunk(d) ==
  LET size == Trim(Upto(d.line, ";"))
      next == [d EXCEPT !.line = <<>>]
  IN IF size = <<>> \/ ToSet(size) \ Digit # {} \/ HexValue(size) > MaxUsize
     THEN Failed(next, "Malformed")
     ELSE IF HexValue(size) = 0 THEN [next EXCEPT !.state = "Trailer"]
     ELSE IF HexValue(size) > MaxBody THEN Failed(next, "TooLarge")
     ELSE [next EXCEPT !.state = "Data", !.remaining = HexValue(size)]

\* parse_size_line
ParseSizeLine(d) ==
  LET size == Trim(Upto(d.line, ";"))
      next == [d EXCEPT !.line = <<>>]
  IN IF size = <<>> \/ ToSet(size) \ Digit # {} \/ HexValue(size) > MaxUsize
     THEN Failed(next, "Malformed")
     ELSE IF HexValue(size) = 0 THEN [next EXCEPT !.state = "Trailer"]
     ELSE IF d.body + HexValue(size) > MaxBody THEN Failed(next, "TooLarge")
     ELSE [next EXCEPT !.state = "Data", !.remaining = HexValue(size)]

\* parse_trailer_line; the blank line ends the body.
ParseTrailerLine(d) ==
  LET next == [d EXCEPT !.line = <<>>]
  IN IF d.line = <<>> THEN [next EXCEPT !.state = "Done"]
     ELSE IF d.trailers >= MaxTrailers THEN Failed(next, "TooLarge")
     ELSE IF ":" \notin ToSet(d.line) \/ Trim(Upto(d.line, ":")) = <<>>
     THEN Failed(next, "Malformed")
     ELSE [next EXCEPT !.trailers = @ + 1]

\* One turn of the loop of push: how much of the input it used, and the decoder.
PushOnce(d, input) ==
  CASE d.state \in {"Size", "Trailer"} ->
         LET fed == FeedLine(d, input, IF d.state = "Size" THEN MaxChunkLine ELSE MaxTrailerLine)
         IN IF fed.d.err # "none" \/ ~fed.d.terminated THEN fed
            ELSE [fed EXCEPT !.d = IF d.state = "Size" THEN ParseSizeLine(fed.d)
                                   ELSE ParseTrailerLine(fed.d)]
    [] d.state = "Data" ->
         LET take == IF d.remaining < Len(input) THEN d.remaining ELSE Len(input)
         IN [used |-> take,
             d |-> [d EXCEPT !.body = @ + take, !.remaining = @ - take,
                             !.state = IF d.remaining = take THEN "DataCrlf" ELSE "Data",
                             !.seenCr = FALSE]]
    [] d.state = "DataCrlf" ->
         [used |-> 1,
          d |-> IF input[1] # (IF d.seenCr THEN "LF" ELSE "CR") THEN Failed(d, "Malformed")
                ELSE IF d.seenCr THEN [d EXCEPT !.state = "Size", !.seenCr = FALSE]
                ELSE [d EXCEPT !.seenCr = TRUE]]

(* Mutant: the bytes behind the body are taken as read. *)
RECURSIVE PushGreedy(_, _)
PushGreedy(d, input) ==
  IF input = <<>> \/ d.err # "none" \/ IsComplete(d) THEN [rest |-> <<>>, d |-> d]
  ELSE LET once == PushOnce(d, input)
       IN PushGreedy(once.d, SubSeq(input, once.used + 1, Len(input)))

\* push: stops at the end of the body, returning the unconsumed rest.
RECURSIVE Push(_, _)
Push(d, input) ==
  IF input = <<>> \/ d.err # "none" \/ IsComplete(d) THEN [rest |-> input, d |-> d]
  ELSE LET once == PushOnce(d, input)
       IN Push(once.d, SubSeq(input, once.used + 1, Len(input)))

(***************************************************************************)
(* The grammar of RFC 9112, section 7.1, one byte at a time.  White space  *)
(* around a size or a field name is skipped, as the code does.             *)
(***************************************************************************)
NewGrammar == [at |-> "size", n |-> 0, digits |-> 0, gap |-> FALSE, cr |-> FALSE,
               len |-> 0, name |-> 0, body |-> 0, trailers |-> 0, tail |-> <<>>]

Verdict(g) == IF g.at \in {"Done", "TooLarge", "Malformed"} THEN g.at ELSE "more"

NewLine(g, at) == [g EXCEPT !.at = at, !.n = 0, !.digits = 0, !.gap = FALSE, !.cr = FALSE,
                            !.len = 0, !.name = 0]

EndOfSize(g) ==
  IF g.digits = 0 \/ g.n > MaxUsize \/ g.at = "badsize" THEN [g EXCEPT !.at = "Malformed"]
  ELSE IF g.n = 0 THEN NewLine(g, "trailer")
  ELSE IF g.body + g.n > MaxBody THEN [g EXCEPT !.at = "TooLarge"]
  ELSE [NewLine(g, "data") EXCEPT !.n = g.n]

EndOfTrailer(g) ==
  IF g.len = 1 THEN NewLine(g, "Done")
  ELSE IF g.trailers >= MaxTrailers THEN [g EXCEPT !.at = "TooLarge"]
  ELSE IF g.at = "value" THEN [NewLine(g, "trailer") EXCEPT !.trailers = @ + 1]
  ELSE [g EXCEPT !.at = "Malformed"]

InLine(g, b) ==
  LET long == g.len + 1 > IF g.at \in {"size", "ext", "badsize"} THEN MaxChunkLine
                          ELSE MaxTrailerLine
      h == [g EXCEPT !.len = @ + 1, !.cr = b = "CR"]
  IN IF b = "LF"
     THEN IF ~g.cr THEN [g EXCEPT !.at = "Malformed"]
          ELSE IF g.at \in {"size", "ext", "badsize"} THEN EndOfSize(g) ELSE EndOfTrailer(g)
     ELSE IF long THEN [g EXCEPT !.at = "TooLarge"]
     ELSE CASE g.at = "size" /\ b \in Digit ->
                 IF g.gap THEN [h EXCEPT !.at = "badsize"]
                 ELSE [h EXCEPT !.n = 16 * @ + Value(b), !.digits = @ + 1]
            [] g.at = "size" /\ b = "CR" -> [h EXCEPT !.gap = g.digits > 0]
            [] g.at = "size" /\ b = ";" -> [h EXCEPT !.at = "ext"]
            [] g.at = "size" /\ b \in {"x", ":"} -> [h EXCEPT !.at = "badsize"]
            [] g.at = "trailer" /\ b = ":" ->
                 [h EXCEPT !.at = IF g.name > 0 THEN "value" ELSE "noname"]
            [] g.at = "trailer" /\ b \notin {":", "CR"} -> [h EXCEPT !.name = 1]
            [] OTHER -> h

Grammar(g, b) ==
  CASE g.at \in {"TooLarge", "Malformed"} -> g
    [] g.at = "Done" -> [g EXCEPT !.tail = Append(@, b)]
    [] g.at = "data" ->
         [g EXCEPT !.n = @ - 1, !.body = @ + 1, !.at = IF g.n = 1 THEN "datacr" ELSE "data"]
    [] g.at = "datacr" -> [g EXCEPT !.at = IF b = "CR" THEN "datalf" ELSE "Malformed"]
    [] g.at = "datalf" -> IF b = "LF" THEN NewLine(g, "size") ELSE [g EXCEPT !.at = "Malformed"]
    [] OTHER -> InLine(g, b)

(***************************************************************************)
ChunkInit == decoder = NewDecoder /\ slice = <<>> /\ grammar = NewGrammar

\* A byte arrives; the reader has not looked yet.
Arrive(b) ==
  /\ ~IsComplete(decoder) /\ decoder.err = "none" /\ Len(slice) < MaxSlice
  /\ slice' = Append(slice, b) /\ grammar' = Grammar(grammar, b)
  /\ UNCHANGED decoder

\* read_chunked_body pushes what one read returned.
PushSlice ==
  /\ slice # <<>> /\ ~IsComplete(decoder) /\ decoder.err = "none"
  /\ LET pushed == Push(decoder, slice)
     IN decoder' = pushed.d /\ slice' = IF pushed.d.err = "none" THEN pushed.rest ELSE <<>>
  /\ UNCHANGED grammar

ChunkNext == PushSlice \/ \E b \in Byte : Arrive(b)

ChunkSpec == ChunkInit /\ [][ChunkNext]_chunkVars

\* However the bytes were split over reads, the decoder's verdict is the
\* grammar's: complete with the same body, too large, or malformed.
SplitsDoNotMatter ==
  slice = <<>> \/ IsComplete(decoder) =>
    LET verdict == IF decoder.err # "none" THEN decoder.err
                   ELSE IF IsComplete(decoder) THEN "Done" ELSE "more"
    IN /\ verdict = Verdict(grammar)
       /\ verdict \in {"Done", "more"} => decoder.body = grammar.body
       /\ decoder.body <= MaxBody

\* The decoder stops exactly at the end: the bytes behind it are all left for
\* the next request on the connection.
TailKept == IsComplete(decoder) => slice = grammar.tail
=============================================================================
