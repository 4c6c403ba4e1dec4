------------------------------- MODULE Hpack --------------------------------
(***************************************************************************)
(* Header compression of one direction of an HTTP/2 connection             *)
(* (tomcatrs-coyote hpack.rs): an HpackEncoder, the header blocks in       *)
(* flight and an HpackDecoder.  Both sides keep a dynamic table, and an    *)
(* index means the same field on both only while the tables agree.  A      *)
(* block is a sequence of instructions; H2Codec has their bytes.           *)
(***************************************************************************)
EXTENDS Integers, Sequences, FiniteSets, SequencesExt

CONSTANTS
    Fields,         \* the header fields [name, value, size] that are sent
    Static,         \* STATIC_TABLE, a sequence of fields
    Sensitive,      \* names the encoder's predicate flags
    TableSize,      \* header_table_size of both sides
    MaxList,        \* the decoder's max_header_list_size
    MaxBlock,       \* bound on the fields of a block
    MaxBlocks,      \* bound on the blocks of a run
    MaxResizes      \* bound on the calls of set_table_size

VARIABLES
    enc,        \* the encoder: [entries, capacity, max, pending]
    dec,        \* the decoder: [entries, capacity, max, failed]
    wire,       \* blocks in flight, with the fields they were made from
    got,        \* the last block: [sent, list], list as it was decoded
    blocks, resizes

hpackVars == <<enc, dec, wire, got, blocks, resizes>>

(***************************************************************************)
(* DynamicTable: newest entry first; entry_size is a field's size.         *)
(***************************************************************************)
TableBytes(entries) == FoldLeft(LAMBDA sum, f : sum + f.size, 0, entries)

\* a slip: one entry at most makes room
EvictToFitOne(entries, additional, capacity) ==
    IF entries # <<>> /\ TableBytes(entries) + additional > capacity
    THEN Front(entries) ELSE entries

\* evict_to_fit: pop_back until size + additional <= capacity or nothing is left
EvictToFit(entries, additional, capacity) ==
    LET fits == {k \in 0..Len(entries) :
                    k = 0 \/ TableBytes(SubSeq(entries, 1, k)) + additional <= capacity}
    IN  SubSeq(entries, 1, CHOOSE k \in fits : \A j \in fits : j <= k)

Resize(table, capacity) ==
    [table EXCEPT !.capacity = capacity, !.entries = EvictToFit(@, 0, capacity)]

Insert(table, f) ==
    LET rest == EvictToFit(table.entries, f.size, table.capacity)
    IN  [table EXCEPT !.entries = IF f.size > table.capacity THEN rest
                                  ELSE <<f>> \o rest]

(***************************************************************************)
(* The combined index space; 0 stands for no index.                        *)
(***************************************************************************)
Combined(table) == Static \o table.entries

ResolveIndex(table, idx) == Combined(table)[idx]
ValidIndex(table, idx) == idx \in DOMAIN Combined(table)

FirstIndex(table, Test(_)) ==
    LET hits == {k \in DOMAIN Combined(table) : Test(Combined(table)[k])}
    IN  IF hits = {} THEN 0 ELSE CHOOSE k \in hits : \A j \in hits : k <= j

FindFull(table, f) == FirstIndex(table, LAMBDA e : e.name = f.name /\ e.value = f.value)
FindName(table, f) == FirstIndex(table, LAMBDA e : e.name = f.name)

(***************************************************************************)
(* The encoder.                                                            *)
(***************************************************************************)
Hint(f) == IF f.name \in Sensitive THEN "never" ELSE "index"

\* a slip: the name is looked up after the field was inserted
EncodeFieldLate(acc, f) ==
    LET full == FindFull(acc.enc, f)
        table == IF Hint(f) = "index" THEN Insert(acc.enc, f) ELSE acc.enc
        literal == [op |-> Hint(f), idx |-> FindName(table, f), field |-> f]
    IN  IF full # 0
        THEN [acc EXCEPT !.block = Append(@, [op |-> "indexed", idx |-> full, field |-> f])]
        ELSE [enc |-> table, block |-> Append(acc.block, literal)]

\* encode_field: an indexed field, or a literal that names a table entry or
\* spells the name (idx 0); only "index" adds to the table
EncodeField(acc, f) ==
    LET full == FindFull(acc.enc, f)
        literal == [op |-> Hint(f), idx |-> FindName(acc.enc, f), field |-> f]
    IN  IF full # 0
        THEN [acc EXCEPT !.block = Append(@, [op |-> "indexed", idx |-> full, field |-> f])]
        ELSE [enc |-> IF Hint(f) = "index" THEN Insert(acc.enc, f) ELSE acc.enc,
              block |-> Append(acc.block, literal)]

SizeUpdate(capacity) == [op |-> "size", idx |-> capacity, field |-> <<>>]

\* pending_size_update.take(), at the head of the block
TakePending == IF enc.pending = <<>> THEN <<>> ELSE <<SizeUpdate(enc.pending[1])>>

Encode(list) ==
    /\ blocks < MaxBlocks /\ blocks' = blocks + 1
    /\ LET out == FoldLeft(EncodeField, [enc |-> [enc EXCEPT !.pending = <<>>],
                                         block |-> TakePending], list)
       IN  enc' = out.enc /\ wire' = Append(wire, [block |-> out.block, sent |-> list])
    /\ UNCHANGED <<dec, got, resizes>>

SetTableSize(size) ==
    /\ resizes < MaxResizes /\ resizes' = resizes + 1
    /\ LET clamped == IF size < enc.max THEN size ELSE enc.max
       IN  enc' = [Resize(enc, clamped) EXCEPT !.pending = <<clamped>>]
    /\ UNCHANGED <<dec, wire, got, blocks>>

(***************************************************************************)
(* The decoder: instruction by instruction, up to the first error.         *)
(***************************************************************************)
Failed(acc) == [acc EXCEPT !.dec.failed = TRUE]

\* a decoded field; check_size runs after it was inserted
Decoded(acc, f, table) ==
    LET total == TableBytes(acc.list) + f.size
    IN  IF total > MaxList THEN Failed([acc EXCEPT !.dec = table])
        ELSE [acc EXCEPT !.dec = table, !.list = Append(@, f)]

\* a slip: a literal that names a table entry is not inserted
DecodeInstructionNamed(acc, i) ==
    IF acc.dec.failed THEN acc
    ELSE CASE i.op = "size" ->
                IF acc.list # <<>> \/ i.idx > acc.dec.max THEN Failed(acc)
                ELSE [acc EXCEPT !.dec = Resize(@, i.idx)]
           [] i.op = "indexed" ->
                IF ~ValidIndex(acc.dec, i.idx) THEN Failed(acc)
                ELSE Decoded(acc, ResolveIndex(acc.dec, i.idx), acc.dec)
           [] i.op \in {"index", "never"} ->
                Decoded(acc, i.field, IF i.op = "index" /\ i.idx = 0
                                      THEN Insert(acc.dec, i.field) ELSE acc.dec)

DecodeInstruction(acc, i) ==
    IF acc.dec.failed THEN acc
    ELSE CASE i.op = "size" ->
                IF acc.list # <<>> \/ i.idx > acc.dec.max THEN Failed(acc)
                ELSE [acc EXCEPT !.dec = Resize(@, i.idx)]
           [] i.op = "indexed" ->
                IF ~ValidIndex(acc.dec, i.idx) THEN Failed(acc)
                ELSE Decoded(acc, ResolveIndex(acc.dec, i.idx), acc.dec)
           [] i.op \in {"index", "never"} ->
                IF i.idx # 0 /\ ~ValidIndex(acc.dec, i.idx) THEN Failed(acc)
                ELSE LET f == IF i.idx = 0 THEN i.field
                              ELSE [i.field EXCEPT !.name = ResolveIndex(acc.dec, i.idx).name]
                     IN  Decoded(acc, f, IF i.op = "index" THEN Insert(acc.dec, f) ELSE acc.dec)

\* a failure is a connection error (http2_conn.rs): nothing is decoded after it
Decode ==
    /\ wire # <<>> /\ ~dec.failed
    /\ LET out == FoldLeft(DecodeInstruction, [dec |-> dec, list |-> <<>>],
                           Head(wire).block)
       IN  /\ dec' = out.dec
           /\ got' = [sent |-> Head(wire).sent, list |-> out.list]
    /\ wire' = Tail(wire)
    /\ UNCHANGED <<enc, blocks, resizes>>

HpackInit ==
    /\ enc = [entries |-> <<>>, capacity |-> TableSize, max |-> TableSize, pending |-> <<>>]
    /\ dec = [entries |-> <<>>, capacity |-> TableSize, max |-> TableSize, failed |-> FALSE]
    /\ wire = <<>> /\ got = [sent |-> <<>>, list |-> <<>>]
    /\ blocks = 0 /\ resizes = 0

Lists == UNION {[1..n -> Fields] : n \in 1..MaxBlock}

HpackNext ==
    \/ \E list \in Lists : Encode(list)
    \/ \E size \in 0..(TableSize + 1) : SetTableSize(size)
    \/ Decode

HpackSpec == HpackInit /\ [][HpackNext]_hpackVars

(***************************************************************************)
(* Properties.                                                             *)
(***************************************************************************)
\* Every header list arrives as it was encoded, whatever was inserted, evicted
\* and resized on the way, and a list within the budget never fails: in
\* particular two calls of set_table_size between two blocks, of which only the
\* second is announced, do no harm (hpack.rs encode_field, decode).
HeadersSurvive ==
    /\ dec.failed => TableBytes(got.sent) > MaxList
    /\ ~dec.failed => got.list = got.sent

\* With nothing in flight the encoder's table is the newest part of the
\* decoder's: an index the encoder may use next means the same field there
\* (hpack.rs l.196-208; after a shrink and a growth the decoder may keep more).
TablesAgree ==
    (wire = <<>> /\ ~dec.failed) => IsPrefix(enc.entries, dec.entries)

\* Both tables stay within their capacity, and the field a sensitive name has
\* is in neither (hpack.rs l.1044-1049).
TablesBounded ==
    \A table \in {enc.entries, dec.entries} :
        /\ \A k \in DOMAIN table : table[k].name \notin Sensitive
        /\ TableBytes(table) <= TableSize
=============================================================================
