------------------------------ MODULE H2Codec -------------------------------
(***************************************************************************)
(* The bytes of an HTTP/2 connection: HPACK integers, the Huffman code and *)
(* string literals (tomcatrs-coyote hpack.rs), and frames (http2.rs).      *)
(* Octets are numbers, a u32 is the sequence of its four octets, and bits  *)
(* are sequences of 0 and 1.                                               *)
(***************************************************************************)
EXTENDS Integers, Sequences, FiniteSets, SequencesExt

Octet == 0..255
MaxUsize(bits) == 2^bits - 1

(***************************************************************************)
(* Integers, with a prefix of p bits; usize has `bits' bits.               *)
(***************************************************************************)
\* the octets after the prefix: seven bits each, least significant first
Continuation[n \in Nat] ==
    IF n < 128 THEN <<n>> ELSE <<(n % 128) + 128>> \o Continuation[n \div 128]

\* a slip: a value that fills the prefix is written without a continuation
EncodeIntegerShort(value, p) ==
    IF value <= 2^p - 1 THEN <<value>> ELSE <<2^p - 1>> \o Continuation[value - (2^p - 1)]

EncodeInteger(value, p) ==
    IF value < 2^p - 1 THEN <<value>> ELSE <<2^p - 1>> \o Continuation[value - (2^p - 1)]

\* a slip: zeros may be shifted as far as they like
ShiftTooLargeNever(shift, bits) == FALSE

ShiftTooLarge(shift, bits) == shift >= bits

Integer(v, n) == [error |-> "", value |-> v, used |-> n]
IntegerError(e) == [error |-> e, value |-> 0, used |-> 0]

DecodeInteger(bytes, p, bits) ==
    LET max == 2^p - 1
        shift(k) == 7 * (k - 2)
        value[k \in Nat] == IF k = 1 THEN max
                            ELSE value[k-1] + (bytes[k] % 128) * 2^shift(k)
        overflow(k) == ShiftTooLarge(shift(k), bits) \/ value[k] > MaxUsize(bits)
        \* the octet at which the loop ends
        ends(k) == k > Len(bytes) \/ overflow(k) \/ bytes[k] < 128
        last == CHOOSE k \in 2..(Len(bytes) + 1) :
                    ends(k) /\ \A j \in 2..(k-1) : ~ends(j)
    IN  CASE bytes = <<>> -> IntegerError("Truncated")
          [] bytes # <<>> /\ bytes[1] % 2^p < max -> Integer(bytes[1] % 2^p, 1)
          [] OTHER -> IF last > Len(bytes) THEN IntegerError("Truncated")
                      ELSE IF overflow(last) THEN IntegerError("IntegerOverflow")
                      ELSE Integer(value[last], last)

(***************************************************************************)
(* The Huffman code: (code, length) of symbols 0 to 256, the last is EOS.  *)
(***************************************************************************)
HuffmanTable == <<
    <<8184, 13>>, <<8388568, 23>>, <<268435426, 28>>, <<268435427, 28>>, <<268435428, 28>>,
    <<268435429, 28>>, <<268435430, 28>>, <<268435431, 28>>, <<268435432, 28>>,
    <<16777194, 24>>, <<1073741820, 30>>, <<268435433, 28>>, <<268435434, 28>>,
    <<1073741821, 30>>, <<268435435, 28>>, <<268435436, 28>>, <<268435437, 28>>,
    <<268435438, 28>>, <<268435439, 28>>, <<268435440, 28>>, <<268435441, 28>>,
    <<268435442, 28>>, <<1073741822, 30>>, <<268435443, 28>>, <<268435444, 28>>,
    <<268435445, 28>>, <<268435446, 28>>, <<268435447, 28>>, <<268435448, 28>>,
    <<268435449, 28>>, <<268435450, 28>>, <<268435451, 28>>, <<20, 6>>, <<1016, 10>>,
    <<1017, 10>>, <<4090, 12>>, <<8185, 13>>, <<21, 6>>, <<248, 8>>, <<2042, 11>>,
    <<1018, 10>>, <<1019, 10>>, <<249, 8>>, <<2043, 11>>, <<250, 8>>, <<22, 6>>, <<23, 6>>,
    <<24, 6>>, <<0, 5>>, <<1, 5>>, <<2, 5>>, <<25, 6>>, <<26, 6>>, <<27, 6>>, <<28, 6>>,
    <<29, 6>>, <<30, 6>>, <<31, 6>>, <<92, 7>>, <<251, 8>>, <<32764, 15>>, <<32, 6>>,
    <<4091, 12>>, <<1020, 10>>, <<8186, 13>>, <<33, 6>>, <<93, 7>>, <<94, 7>>, <<95, 7>>,
    <<96, 7>>, <<97, 7>>, <<98, 7>>, <<99, 7>>, <<100, 7>>, <<101, 7>>, <<102, 7>>,
    <<103, 7>>, <<104, 7>>, <<105, 7>>, <<106, 7>>, <<107, 7>>, <<108, 7>>, <<109, 7>>,
    <<110, 7>>, <<111, 7>>, <<112, 7>>, <<113, 7>>, <<114, 7>>, <<252, 8>>, <<115, 7>>,
    <<253, 8>>, <<8187, 13>>, <<524272, 19>>, <<8188, 13>>, <<16380, 14>>, <<34, 6>>,
    <<32765, 15>>, <<3, 5>>, <<35, 6>>, <<4, 5>>, <<36, 6>>, <<5, 5>>, <<37, 6>>,
    <<38, 6>>, <<39, 6>>, <<6, 5>>, <<116, 7>>, <<117, 7>>, <<40, 6>>, <<41, 6>>,
    <<42, 6>>, <<7, 5>>, <<43, 6>>, <<118, 7>>, <<44, 6>>, <<8, 5>>, <<9, 5>>, <<45, 6>>,
    <<119, 7>>, <<120, 7>>, <<121, 7>>, <<122, 7>>, <<123, 7>>, <<32766, 15>>,
    <<2044, 11>>, <<16381, 14>>, <<8189, 13>>, <<268435452, 28>>, <<1048550, 20>>,
    <<4194258, 22>>, <<1048551, 20>>, <<1048552, 20>>, <<4194259, 22>>, <<4194260, 22>>,
    <<4194261, 22>>, <<8388569, 23>>, <<4194262, 22>>, <<8388570, 23>>, <<8388571, 23>>,
    <<8388572, 23>>, <<8388573, 23>>, <<8388574, 23>>, <<16777195, 24>>, <<8388575, 23>>,
    <<16777196, 24>>, <<16777197, 24>>, <<4194263, 22>>, <<8388576, 23>>, <<16777198, 24>>,
    <<8388577, 23>>, <<8388578, 23>>, <<8388579, 23>>, <<8388580, 23>>, <<2097116, 21>>,
    <<4194264, 22>>, <<8388581, 23>>, <<4194265, 22>>, <<8388582, 23>>, <<8388583, 23>>,
    <<16777199, 24>>, <<4194266, 22>>, <<2097117, 21>>, <<1048553, 20>>, <<4194267, 22>>,
    <<4194268, 22>>, <<8388584, 23>>, <<8388585, 23>>, <<2097118, 21>>, <<8388586, 23>>,
    <<4194269, 22>>, <<4194270, 22>>, <<16777200, 24>>, <<2097119, 21>>, <<4194271, 22>>,
    <<8388587, 23>>, <<8388588, 23>>, <<2097120, 21>>, <<2097121, 21>>, <<4194272, 22>>,
    <<2097122, 21>>, <<8388589, 23>>, <<4194273, 22>>, <<8388590, 23>>, <<8388591, 23>>,
    <<1048554, 20>>, <<4194274, 22>>, <<4194275, 22>>, <<4194276, 22>>, <<8388592, 23>>,
    <<4194277, 22>>, <<4194278, 22>>, <<8388593, 23>>, <<67108832, 26>>, <<67108833, 26>>,
    <<1048555, 20>>, <<524273, 19>>, <<4194279, 22>>, <<8388594, 23>>, <<4194280, 22>>,
    <<33554412, 25>>, <<67108834, 26>>, <<67108835, 26>>, <<67108836, 26>>,
    <<134217694, 27>>, <<134217695, 27>>, <<67108837, 26>>, <<16777201, 24>>,
    <<33554413, 25>>, <<524274, 19>>, <<2097123, 21>>, <<67108838, 26>>, <<134217696, 27>>,
    <<134217697, 27>>, <<67108839, 26>>, <<134217698, 27>>, <<16777202, 24>>,
    <<2097124, 21>>, <<2097125, 21>>, <<67108840, 26>>, <<67108841, 26>>,
    <<268435453, 28>>, <<134217699, 27>>, <<134217700, 27>>, <<134217701, 27>>,
    <<1048556, 20>>, <<16777203, 24>>, <<1048557, 20>>, <<2097126, 21>>, <<4194281, 22>>,
    <<2097127, 21>>, <<2097128, 21>>, <<8388595, 23>>, <<4194282, 22>>, <<4194283, 22>>,
    <<33554414, 25>>, <<33554415, 25>>, <<16777204, 24>>, <<16777205, 24>>,
    <<67108842, 26>>, <<8388596, 23>>, <<67108843, 26>>, <<134217702, 27>>,
    <<67108844, 26>>, <<67108845, 26>>, <<134217703, 27>>, <<134217704, 27>>,
    <<134217705, 27>>, <<134217706, 27>>, <<134217707, 27>>, <<268435454, 28>>,
    <<134217708, 27>>, <<134217709, 27>>, <<134217710, 27>>, <<134217711, 27>>,
    <<134217712, 27>>, <<67108846, 26>>, <<1073741823, 30>>>>
EOS == 256

CodeLength(symbol) == HuffmanTable[symbol + 1][2]

\* a slip: least significant bit first
BitsOfReversed(number, n) == [k \in 1..n |-> (number \div 2^(k-1)) % 2]

BitsOf(number, n) == [k \in 1..n |-> (number \div 2^(n-k)) % 2]
Code(symbol) == BitsOf(HuffmanTable[symbol + 1][1], CodeLength(symbol))
Codes == [symbol \in 0..EOS |-> Code(symbol)]

EncodedBits(data) == FoldLeft(LAMBDA n, s : n + CodeLength(s), 0, data)
EncodedLen(data) == (EncodedBits(data) + 7) \div 8

\* a slip: the last octet is filled with zeros
PaddingZeros(n) == [k \in 1..n |-> 0]

\* the all-ones prefix of EOS, up to the octet's end
Padding(n) == [k \in 1..n |-> 1]

HuffmanEncode(data) ==
    LET bits == FlattenSeq([k \in DOMAIN data |-> Codes[data[k]]])
    IN  bits \o Padding((8 - (Len(bits) % 8)) % 8)

\* decode: peel symbols off the front while one matches; what is left must be
\* fewer than eight ones
HuffmanDecode(bits) ==
    LET symbolAt(pos) == {s \in 0..EOS :
                            /\ pos + CodeLength(s) - 1 <= Len(bits)
                            /\ SubSeq(bits, pos, pos + CodeLength(s) - 1) = Codes[s]}
        peel[pos \in 1..(Len(bits) + 1)] ==
            LET hits == symbolAt(pos)
            IN  IF hits = {} THEN [rest |-> pos, out |-> <<>>]
                ELSE LET s == CHOOSE h \in hits : \A g \in hits : CodeLength(h) <= CodeLength(g)
                         tail == peel[pos + CodeLength(s)]
                     IN  IF s = EOS THEN [rest |-> 0, out |-> <<>>]
                         ELSE [tail EXCEPT !.out = <<s>> \o @]
        end == peel[1]
        left == Len(bits) + 1 - end.rest
    IN  [ok |-> end.rest # 0 /\ left < 8 /\ \A k \in end.rest..Len(bits) : bits[k] = 1,
         out |-> end.out]

(***************************************************************************)
(* String literals: the flag and the length, then octets or Huffman bits.  *)
(***************************************************************************)
ToOctets(bits) ==
    [k \in 1..(Len(bits) \div 8) |->
        FoldLeft(LAMBDA n, b : 2 * n + b, 0, SubSeq(bits, 8*k - 7, 8*k))]
ToBits(octets) == FlattenSeq([k \in DOMAIN octets |-> BitsOf(octets[k], 8)])

EncodeString(data) ==
    IF EncodedLen(data) < Len(data)
    THEN LET prefix == EncodeInteger(EncodedLen(data), 7)
         IN  [prefix EXCEPT ![1] = @ + 128] \o ToOctets(HuffmanEncode(data))
    ELSE EncodeInteger(Len(data), 7) \o data

StringResult(error, s, n) == [error |-> error, value |-> s, used |-> n]

\* String::from_utf8: the ranges of the octets of one character.  None is longer
\* than it need be, a surrogate, or past the last code point.
Follows == 128..191
Utf8Forms ==
    {<<0..127>>, <<194..223, Follows>>,
     <<{224}, 160..191, Follows>>, <<(225..239) \ {237}, Follows, Follows>>,
     <<{237}, 128..159, Follows>>, <<{240}, 144..191, Follows, Follows>>,
     <<241..243, Follows, Follows, Follows>>, <<{244}, 128..143, Follows, Follows>>}

\* a slip: the octets are taken for a string unchecked
IsUtf8Always(octets) == TRUE

IsUtf8(octets) ==
    LET end == Len(octets) + 1
        from[k \in 1..end] ==
            \/ k = end
            \/ \E form \in Utf8Forms :
                  /\ k + Len(form) <= end
                  /\ \A j \in DOMAIN form : octets[k + j - 1] \in form[j]
                  /\ from[k + Len(form)]
    IN  from[1]

DecodeString(bytes, bits) ==
    LET len == DecodeInteger(bytes, 7, bits)
        end == len.used + len.value
        payload == SubSeq(bytes, len.used + 1, end)
        decoded == HuffmanDecode(ToBits(payload))
        raw == IF bytes[1] < 128 THEN payload ELSE decoded.out
    IN  IF len.error # "" THEN StringResult(len.error, <<>>, 0)
        ELSE IF end > MaxUsize(bits) THEN StringResult("IntegerOverflow", <<>>, 0)
        ELSE IF end > Len(bytes) THEN StringResult("Truncated", <<>>, 0)
        ELSE IF bytes[1] >= 128 /\ ~decoded.ok THEN StringResult("InvalidHuffman", <<>>, 0)
        ELSE IF ~IsUtf8(raw) THEN StringResult("InvalidUtf8", <<>>, 0)
        ELSE StringResult("", raw, end)

(***************************************************************************)
(* Frames: [type, flags, stream, priority, content].  The content is the   *)
(* octets of DATA, HEADERS, CONTINUATION, PING, and of an error code or an *)
(* increment; a sequence of [id, value] for SETTINGS; [last, code, debug]  *)
(* for GOAWAY.  A priority is <<>> or <<[exclusive, dependency, weight]>>. *)
(***************************************************************************)
FrameTypes == <<"DATA", "HEADERS", "PRIORITY", "RST_STREAM", "SETTINGS",
                "PUSH_PROMISE", "PING", "GOAWAY", "WINDOW_UPDATE", "CONTINUATION">>
TypeCode(type) == (CHOOSE k \in DOMAIN FrameTypes : FrameTypes[k] = type) - 1

END_STREAM == 1
ACK == 1
END_HEADERS == 4
PADDED == 8
PRIORITY == 32
HasFlag(flags, flag) == (flags \div flag) % 2 = 1

\* & STREAM_ID_MASK
Masked(u32) == [u32 EXCEPT ![1] = @ % 128]
HeaderLen == 9

FrameHeaderEncode(length, type, flags, stream) ==
    <<(length \div 65536) % 256, (length \div 256) % 256, length % 256,
      TypeCode(type), flags>> \o Masked(stream)

PriorityOctets(p) ==
    IF p = <<>> THEN <<>>
    ELSE [Masked(p[1].dependency) EXCEPT ![1] = @ + IF p[1].exclusive THEN 128 ELSE 0]
         \o <<p[1].weight>>

PriorityParse(octets) ==
    <<[exclusive |-> octets[1] >= 128, dependency |-> Masked(SubSeq(octets, 1, 4)),
       weight |-> octets[5]]>>

Payload(f) ==
    CASE f.type = "SETTINGS" ->
           FlattenSeq([k \in DOMAIN f.content |-> f.content[k].id \o f.content[k].value])
      [] f.type = "GOAWAY" -> Masked(f.content.last) \o f.content.code \o f.content.debug
      [] f.type = "WINDOW_UPDATE" -> Masked(f.content)
      [] f.type \in {"HEADERS", "PRIORITY"} -> PriorityOctets(f.priority) \o f.content
      [] OTHER -> f.content

FrameEncode(f) ==
    FrameHeaderEncode(Len(Payload(f)), f.type, f.flags, f.stream) \o Payload(f)

Bad == [ok |-> FALSE]
Good(content, priority) == [ok |-> TRUE, content |-> content, priority |-> priority]
PadBad(payload) == payload = <<>> \/ payload[1] > Len(payload) - 1

\* a slip: the pad length octet is counted as padding
StripPaddingTwice(payload) == SubSeq(payload, 2, Len(payload) - payload[1] - 1)

StripPadding(payload) == SubSeq(payload, 2, Len(payload) - payload[1])

DecodePayload(type, flags, payload) ==
    LET padded == HasFlag(flags, PADDED) /\ type \in {"DATA", "HEADERS"}
        bytes == IF padded THEN StripPadding(payload) ELSE payload
        n == Len(payload)
    IN  IF padded /\ PadBad(payload) THEN Bad
        ELSE CASE type \in {"DATA", "CONTINUATION"} -> Good(bytes, <<>>)
               [] type = "HEADERS" ->
                    IF ~HasFlag(flags, PRIORITY) THEN Good(bytes, <<>>)
                    ELSE IF Len(bytes) < 5 THEN Bad
                    ELSE Good(SubSeq(bytes, 6, Len(bytes)), PriorityParse(bytes))
               [] type = "PRIORITY" -> IF n # 5 THEN Bad ELSE Good(<<>>, PriorityParse(bytes))
               [] type = "RST_STREAM" -> IF n # 4 THEN Bad ELSE Good(bytes, <<>>)
               [] type = "SETTINGS" ->
                    IF (HasFlag(flags, ACK) /\ n # 0) \/ n % 6 # 0 THEN Bad
                    ELSE Good([k \in 1..(n \div 6) |->
                                 [id |-> SubSeq(bytes, 6*k - 5, 6*k - 4),
                                  value |-> SubSeq(bytes, 6*k - 3, 6*k)]], <<>>)
               [] type = "PUSH_PROMISE" -> Bad
               [] type = "PING" -> IF n # 8 THEN Bad ELSE Good(bytes, <<>>)
               [] type = "GOAWAY" ->
                    IF n < 8 THEN Bad
                    ELSE Good([last |-> Masked(SubSeq(bytes, 1, 4)),
                               code |-> SubSeq(bytes, 5, 8),
                               debug |-> SubSeq(bytes, 9, n)], <<>>)
               [] type = "WINDOW_UPDATE" ->
                    IF n # 4 \/ Masked(bytes) = <<0, 0, 0, 0>> THEN Bad
                    ELSE Good(Masked(bytes), <<>>)

ParseResult(kind, used) == [kind |-> kind, used |-> used]

\* the length that the header at the offset declares
DeclaredLength(buf, at) == buf[at+1] * 65536 + buf[at+2] * 256 + buf[at+3]

\* Frame::parse from an offset: unknown types are skipped, and counted
FrameParse(buf, maxFrameSize) ==
    LET parse[at \in 0..Len(buf)] ==
            LET length == DeclaredLength(buf, at)
                end == at + HeaderLen + length
                code == buf[at+4]
                type == FrameTypes[code + 1]
                body == DecodePayload(type, buf[at+5], SubSeq(buf, at + HeaderLen + 1, end))
            IN  IF Len(buf) - at < HeaderLen THEN ParseResult("more", 0)
                ELSE IF length > maxFrameSize THEN ParseResult("error", 0)
                ELSE IF Len(buf) < end THEN ParseResult("more", 0)
                ELSE IF code >= Len(FrameTypes) THEN parse[end]
                ELSE IF ~body.ok THEN ParseResult("error", 0)
                ELSE [kind |-> "frame", used |-> end,
                      frame |-> [type |-> type, flags |-> buf[at+5],
                                 stream |-> Masked(SubSeq(buf, at + 6, at + 9)),
                                 priority |-> body.priority, content |-> body.content]]
    IN  parse[0]

(***************************************************************************)
(* Properties.                                                             *)
(***************************************************************************)
\* An integer is read back from its own octets alone, for every prefix and on
\* both sides of each boundary; a cut one is incomplete and never another
\* number (hpack.rs encode_integer, decode_integer).
IntegersSurvive(value, p, rest, bits) ==
    LET octets == EncodeInteger(value, p)
    IN  /\ DecodeInteger(octets \o rest, p, bits) = Integer(value, Len(octets))
        /\ \A cut \in 0..(Len(octets) - 1) :
              DecodeInteger(SubSeq(octets, 1, cut), p, bits) = IntegerError("Truncated")

\* Octets from the wire give a number that fits usize or an error, whatever
\* zero-valued continuation octets stretch them (hpack.rs l.447-462).
IntegersBounded(bytes, p, bits) ==
    LET r == DecodeInteger(bytes, p, bits)
    IN  /\ r.error = "" => r.value \in 0..MaxUsize(bits) /\ r.used \in 1..Len(bytes)
        /\ r.used <= bits \div 7 + 2

\* The table is RFC 7541's complete prefix code: no code begins another, no bit
\* string is left without a code, and every code has the length it says.
HuffmanTableSound ==
    /\ \A a, b \in 0..EOS : a # b => ~IsPrefix(Codes[a], Codes[b])
    /\ FoldLeft(LAMBDA n, c : n + 2^(30 - c[2]), 0, HuffmanTable) = 2^30
    /\ \A s \in 0..EOS : HuffmanTable[s+1][1] < 2^CodeLength(s)

\* A string literal is read back, whichever form the encoder chose, and the
\* encoder never chooses the longer one; a whole octet of padding is refused, and
\* so are octets of a peer that are no string, in either form.
LiteralsSurvive(data, rest, bits) ==
    LET octets == EncodeString(data)
    IN  /\ DecodeString(octets \o rest, bits) =
              IF IsUtf8(data) THEN StringResult("", data, Len(octets))
              ELSE StringResult("InvalidUtf8", <<>>, 0)
        /\ HuffmanDecode(HuffmanEncode(data)) = [ok |-> TRUE, out |-> data]
        /\ ~HuffmanDecode(HuffmanEncode(data) \o Padding(8)).ok
        /\ Len(octets) <= Len(data) + 1
        /\ \A cut \in 0..(Len(octets) - 1) :
              DecodeString(SubSeq(octets, 1, cut), bits).error = "Truncated"

\* A character is read back, the first and the last of each length of its UTF-8
\* too; what would be a surrogate or lies past the last code point is refused
\* (hpack.rs decode_string).
CharsSurvive(char, rest, bits) ==
    LET low(n) == 128 + ((char \div 64^n) % 64)
        data == IF char < 128 THEN <<char>>
                ELSE IF char < 2048 THEN <<192 + char \div 64, low(0)>>
                ELSE IF char < 65536 THEN <<224 + char \div 4096, low(1), low(0)>>
                ELSE <<240 + char \div 262144, low(2), low(1), low(0)>>
        text == char <= 1114111 /\ char \notin 55296..57343
        octets == EncodeString(data)
    IN  DecodeString(octets \o rest, bits) =
            IF text THEN StringResult("", data, Len(octets))
            ELSE StringResult("InvalidUtf8", <<>>, 0)

\* A frame is read back with the octets it took, frames of unknown types before
\* it skipped and the padding of a padded one gone; until its last octet has
\* come the parser asks for more (http2.rs Frame::parse, encode).
FramesSurvive(f, unknown, pad, rest) ==
    LET plain == FrameEncode(f)
        wire == IF pad = <<>> \/ f.type \notin {"DATA", "HEADERS"} THEN plain
                ELSE FrameHeaderEncode(Len(Payload(f)) + 1 + pad[1], f.type,
                                       f.flags + PADDED, f.stream)
                     \o <<pad[1]>> \o Payload(f) \o [k \in 1..pad[1] |-> 0]
        r == FrameParse(unknown \o wire \o rest, 16384)
    IN  /\ r.kind = "frame"
        /\ r.used = Len(unknown) + Len(wire)
        /\ [r.frame EXCEPT !.flags = 0] = [f EXCEPT !.flags = 0]
        /\ \A flag \in {END_STREAM, END_HEADERS, PRIORITY} :
              HasFlag(r.frame.flags, flag) = HasFlag(f.flags, flag)
        /\ \A cut \in 0..(Len(unknown \o wire) - 1) :
              FrameParse(SubSeq(unknown \o wire, 1, cut), 16384).kind = "more"
=============================================================================
