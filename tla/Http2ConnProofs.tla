-------------------------- MODULE Http2ConnProofs --------------------------
(***************************************************************************)
(* Theorems about Http2Conn, for any number of streams, any limits and     *)
(* windows, and clients that send any frames in any order.                 *)
(***************************************************************************)
EXTENDS Http2Conn, FiniteSetTheorems, SequenceTheorems, TLAPS

(***************************************************************************)
(* The inductive invariant.  Its parts are operators of the stream map,    *)
(* the connection's fields and the rest, because the frame handlers build  *)
(* a map and a record first and then decide how to end: with Fine, with an *)
(* error of the stream or with one of the connection.                      *)
(***************************************************************************)
StreamRec == [st : {"none", "Open", "HalfClosedRemote", "HalfClosedLocal"},
              await : BOOLEAN, es : BOOLEAN, disp : BOOLEAN, sw : Int, blk : Nat]
ConnRec == [send : Int, recv : 0..Window, last : 0..NStreams, open : 0..MaxConc,
            going : BOOLEAN, init : Nat, max : Nat]

\* A frame of a type that belongs to a stream names one.
GoodFrame == {f \in Frame : f.t \in {"HEADERS", "CONT", "DATA", "RST"} => f.s \in Stream}

Mapped(sts) == {s \in Stream : sts[s].st # "none"}

\* A stream out of the map has left nothing in it; one in the map is no newer
\* than the last opened; a request is only complete, and only dispatched, once
\* the client has ended its half; and the count is exact.
MapOK(sts, c) ==
    /\ sts \in [Stream -> StreamRec] /\ c \in ConnRec
    /\ \A s \in Stream : /\ sts[s].st = "none" => sts[s] = None
                         /\ sts[s].st # "none" => s <= c.last
                         /\ sts[s].st # "HalfClosedLocal"
                         /\ sts[s].es \/ sts[s].disp => sts[s].st = "HalfClosedRemote"
    /\ c.open = Cardinality(Mapped(sts))

\* A stream whose request is being answered: its task runs, its response is
\* queued, or its body is being written.
Held(s, ts, rs, b) == s \in ts \/ (\E i \in 1..Len(rs) : rs[i].s = s) \/ b.s = s

\* Those are old streams, and dispatched if they are still in the map; and a
\* stream is in one of the three places, once.
AnswersOK(sts, c, ts, rs, b) ==
    /\ ts \subseteq Stream /\ rs \in Seq([s : Stream, len : Nat])
    /\ b \in [s : 0..NStreams, left : Int, max : Nat]
    /\ \A s \in Stream : Held(s, ts, rs, b) => s <= c.last /\ (sts[s].st # "none" => sts[s].disp)
    /\ \A i \in 1..Len(rs) : /\ rs[i].s \notin ts /\ rs[i].s # b.s
                             /\ \A j \in 1..Len(rs) : rs[i].s = rs[j].s => i = j
    /\ b.s \notin ts

\* No window is wider than what the client has granted, nor will that of a
\* stream still to be opened be.
CreditOK(sts, c, cr) ==
    /\ cr \in [0..NStreams -> Int] /\ cr[0] >= c.send
    /\ \A s \in Stream : /\ sts[s].st # "none" => cr[s] >= sts[s].sw
                         /\ s > c.last => cr[s] >= c.init

Good(sts, c, ts, rs, b, cr) ==
    MapOK(sts, c) /\ AnswersOK(sts, c, ts, rs, b) /\ CreditOK(sts, c, cr)

Places == {"top", "frames", "select", "body", "pump", "closed"}

ClientOK ==
    /\ profile \in Profiles /\ wire \in Seq(GoodFrame) /\ inbuf \in Seq(GoodFrame)
    /\ enc \in Nat /\ decoded \in Nat

ConnInv ==
    /\ ClientOK /\ pc \in Places
    /\ Good(streams, conn, tasks, resp, body, credit)

(* The streams in a map are finitely many. *)
LEMMA MappedFinite == \A sts : IsFiniteSet(Mapped(sts))
<1> TAKE sts
<1>1. IsFiniteSet(Stream)
  BY SizeAssumption, FS_Interval DEF Stream
<1>2. Mapped(sts) \subseteq Stream
  BY DEF Mapped
<1> QED
  BY <1>1, <1>2, FS_Subset

(* A connection that begins to go away changes nothing else. *)
LEMMA GoingGood ==
  ASSUME NEW sts, NEW c, NEW ts, NEW rs, NEW b, NEW cr, Good(sts, c, ts, rs, b, cr)
  PROVE  Good(sts, [c EXCEPT !.going = TRUE], ts, rs, b, cr)
  BY DEF Good, MapOK, AnswersOK, CreditOK, ConnRec

(* A stream dropped from the map and from the count. *)
LEMMA RetireGood ==
  ASSUME NEW sts, NEW c, NEW ts, NEW rs, NEW b, NEW cr, NEW s \in Stream,
         Good(sts, c, ts, rs, b, cr)
  PROVE  Good(Retire(sts, s),
              [c EXCEPT !.open = IF sts[s] # None THEN Less(@) ELSE @], ts, rs, b, cr)
<1> DEFINE d == [c EXCEPT !.open = IF sts[s] # None THEN Less(@) ELSE @]
           n == IF sts[s] # None THEN Less(c.open) ELSE c.open
           r == Retire(sts, s)
<1>1. /\ None \in StreamRec /\ None.st = "none" /\ ~None.es /\ ~None.disp
      /\ sts \in [Stream -> StreamRec] /\ c \in ConnRec
  BY DEF None, StreamRec, Good, MapOK
<1>2. /\ r \in [Stream -> StreamRec] /\ r[s] = None
      /\ \A q \in Stream : q # s => r[q] = sts[q]
  BY <1>1 DEF Retire
<1>3. Mapped(r) = Mapped(sts) \ {s}
  BY <1>1, <1>2 DEF Mapped
<1>4. /\ Cardinality(Mapped(r)) =
            IF s \in Mapped(sts) THEN Cardinality(Mapped(sts)) - 1 ELSE Cardinality(Mapped(sts))
      /\ Cardinality(Mapped(sts)) \in Nat /\ Cardinality(Mapped(r)) \in Nat
  BY <1>3, MappedFinite, FS_RemoveElement, FS_CardinalityType
<1>5. s \in Mapped(sts) <=> sts[s] # None
  BY <1>1 DEF Good, MapOK, Mapped
<1>6. n = Cardinality(Mapped(r)) /\ n \in 0..MaxConc
  BY <1>1, <1>4, <1>5, SizeAssumption DEF Less, Good, MapOK, ConnRec
<1>7. d \in ConnRec /\ d.open = n /\ d.last = c.last /\ d.send = c.send /\ d.init = c.init
  BY <1>1, <1>6 DEF ConnRec
<1> HIDE DEF d, r, n
<1>8. MapOK(r, d)
  BY <1>1, <1>2, <1>6, <1>7 DEF Good, MapOK
<1>9. AnswersOK(r, d, ts, rs, b)
  BY <1>1, <1>2, <1>7 DEF Good, AnswersOK
<1>10. CreditOK(r, d, cr)
  BY <1>1, <1>2, <1>7 DEF Good, CreditOK
<1> QED
  BY <1>8, <1>9, <1>10 DEF Good, d, r

(***************************************************************************)
(* How a handler ends.                                                     *)
(***************************************************************************)
Kept == Good(streams', conn', tasks', resp', body', credit') /\ pc' \in Places

(* ... well, *)
LEMMA FineKeeps ==
  ASSUME NEW sts, NEW c, NEW ts, pc \in Places, UNCHANGED <<resp, body>>,
         Good(sts, c, ts, resp, body, credit'), Fine(sts, c, ts)
  PROVE  Kept
  BY DEF Fine, Kept

(* ... with an error of the connection, *)
LEMMA ConnErrorKeeps ==
  ASSUME NEW sts, NEW c, pc \in Places, UNCHANGED <<resp, body>>,
         Good(sts, c, tasks, resp, body, credit'), ConnError(sts, c)
  PROVE  Kept
<1>1. Good(sts, [c EXCEPT !.going = TRUE], tasks, resp, body, credit')
  BY GoingGood
<1> QED
  BY <1>1 DEF ConnError, Kept, Places

(* ... or with one of the stream. *)
LEMMA StreamErrorKeeps ==
  ASSUME NEW sts, NEW c, NEW s \in Stream, pc \in Places, UNCHANGED <<resp, body>>,
         Good(sts, c, tasks, resp, body, credit'), StreamError(s, sts, c)
  PROVE  Kept
<1>1. Good(Retire(sts, s), [c EXCEPT !.open = IF sts[s] # None THEN Less(@) ELSE @],
           tasks, resp, body, credit')
  BY RetireGood
<1> QED
  BY <1>1 DEF StreamError, Kept, Places

(* A request whose client half has ended is dispatched once. *)
LEMMA TryDispatchKeeps ==
  ASSUME NEW sts, NEW c, NEW s \in Stream, pc \in Places, UNCHANGED <<resp, body>>,
         Good(sts, c, tasks, resp, body, credit'), sts[s].st = "HalfClosedRemote",
         TryDispatch(s, sts, c)
  PROVE  Kept
<1> DEFINE d == [sts EXCEPT ![s].disp = TRUE]
<1>1. CASE sts[s].disp /\ Fine(sts, c, tasks)
  BY <1>1, FineKeeps
<1>2. ASSUME ~sts[s].disp
      PROVE  /\ Good(d, c, tasks, resp, body, credit')
             /\ Good(d, c, tasks \cup {s}, resp, body, credit')
  <2>1. sts \in [Stream -> StreamRec] /\ s <= c.last /\ ~Held(s, tasks, resp, body)
    BY <1>2 DEF Good, MapOK, AnswersOK
  <2>2. /\ d \in [Stream -> StreamRec] /\ \A q \in Stream : q # s => d[q] = sts[q]
        /\ d[s].st = sts[s].st /\ d[s].es = sts[s].es /\ d[s].disp /\ d[s].sw = sts[s].sw
    BY <2>1 DEF StreamRec
  <2> HIDE DEF d
  <2>3. Mapped(d) = Mapped(sts)
    BY <2>2 DEF Mapped
  <2>4. MapOK(d, c)
    BY <2>2, <2>3 DEF Good, MapOK
  <2>5. CreditOK(d, c, credit')
    BY <2>2 DEF Good, CreditOK
  <2>6. AnswersOK(d, c, tasks, resp, body) /\ AnswersOK(d, c, tasks \cup {s}, resp, body)
    BY <2>1, <2>2 DEF Good, AnswersOK, Held
  <2> QED
    BY <2>4, <2>5, <2>6 DEF Good
<1>3. CASE ~sts[s].disp /\ Fine(d, c, tasks \cup {s})
  BY <1>2, <1>3, FineKeeps
<1>4. CASE ~sts[s].disp /\ StreamError(s, d, c)
  BY <1>2, <1>4, StreamErrorKeeps
<1> QED
  BY <1>1, <1>3, <1>4 DEF TryDispatch

(* The end of a header block. *)
LEMMA FinishKeeps ==
  ASSUME NEW sts, NEW c, NEW s \in Stream, pc \in Places, decoded \in Nat,
         UNCHANGED <<resp, body>>,
         Good(sts, c, tasks, resp, body, credit'), FinishHeaderBlock(s, sts, c)
  PROVE  Kept /\ decoded' \in Nat
<1>1. decoded' \in Nat
  BY DEF FinishHeaderBlock
<1>2. CASE sts[s].es /\ TryDispatch(s, sts, c)
  <2>1. sts[s].st = "HalfClosedRemote"
    BY <1>2 DEF Good, MapOK
  <2> QED
    BY <1>1, <1>2, <2>1, TryDispatchKeeps
<1>3. CASE Fine(sts, c, tasks)
  BY <1>1, <1>3, FineKeeps
<1>4. CASE ConnError(sts, c)
  BY <1>1, <1>4, ConnErrorKeeps
<1> QED
  BY <1>2, <1>3, <1>4 DEF FinishHeaderBlock

(***************************************************************************)
(* The frame handlers.                                                     *)
(***************************************************************************)

(* HEADERS that open a stream: it is newer than every other. *)
LEMMA OpenGood ==
  ASSUME Good(streams, conn, tasks, resp, body, credit), NEW s \in Stream, NEW es \in BOOLEAN,
         NEW aw \in BOOLEAN, NEW n \in Nat, s \notin Present, s > conn.last,
         conn.open < MaxConc
  PROVE  Good([streams EXCEPT ![s] =
                 [[None EXCEPT !.sw = conn.init] EXCEPT
                    !.st = IF es THEN "HalfClosedRemote" ELSE "Open",
                    !.es = es, !.await = aw, !.blk = n]],
              [conn EXCEPT !.last = s, !.open = @ + 1], tasks, resp, body, credit)
<1> DEFINE r == [[None EXCEPT !.sw = conn.init] EXCEPT
                   !.st = IF es THEN "HalfClosedRemote" ELSE "Open",
                   !.es = es, !.await = aw, !.blk = n]
           sts == [streams EXCEPT ![s] = r]
           c == [conn EXCEPT !.last = s, !.open = @ + 1]
<1>1. streams \in [Stream -> StreamRec] /\ conn \in ConnRec
  BY DEF Good, MapOK
<1>2. /\ r \in StreamRec /\ r.st = (IF es THEN "HalfClosedRemote" ELSE "Open")
      /\ r.es = es /\ ~r.disp /\ r.sw = conn.init
  <2> DEFINE r0 == [None EXCEPT !.sw = conn.init]
             st == IF es THEN "HalfClosedRemote" ELSE "Open"
  <2>1. conn.init \in Int
    BY <1>1 DEF ConnRec
  <2>2. r0 \in StreamRec /\ r0.sw = conn.init /\ r0.disp = FALSE
    BY <2>1 DEF None, StreamRec
  <2>3. st \in {"none", "Open", "HalfClosedRemote", "HalfClosedLocal"}
    OBVIOUS
  <2> HIDE DEF r0, st
  <2>4. r = [r0 EXCEPT !.st = st, !.es = es, !.await = aw, !.blk = n]
    BY DEF r0, st
  <2>5. /\ r \in StreamRec /\ r.st = st /\ r.es = es /\ r.disp = r0.disp /\ r.sw = r0.sw
    BY <2>2, <2>3, <2>4 DEF StreamRec
  <2> QED
    BY <2>2, <2>5 DEF st
<1> HIDE DEF r
<1>3. /\ sts \in [Stream -> StreamRec] /\ sts[s] = r
      /\ \A q \in Stream : q # s => sts[q] = streams[q]
  BY <1>1, <1>2
<1> HIDE DEF sts
<1>4. Mapped(sts) = Mapped(streams) \cup {s} /\ s \notin Mapped(streams)
  BY <1>2, <1>3 DEF Mapped, Present
<1>5. /\ Cardinality(Mapped(sts)) = Cardinality(Mapped(streams)) + 1
      /\ Cardinality(Mapped(streams)) \in Nat
  BY <1>4, MappedFinite, FS_AddElement, FS_CardinalityType
<1>6. /\ c \in ConnRec /\ c.open = Cardinality(Mapped(sts)) /\ c.last = s
      /\ c.send = conn.send /\ c.init = conn.init
  <2>1. conn.open + 1 = Cardinality(Mapped(sts)) /\ conn.open + 1 \in 0..MaxConc
    BY <1>1, <1>5, SizeAssumption DEF ConnRec, Good, MapOK
  <2>2. s \in 0..NStreams
    BY SizeAssumption DEF Stream
  <2> QED
    BY <1>1, <2>1, <2>2 DEF ConnRec
<1> HIDE DEF c
<1>7. MapOK(sts, c)
  BY <1>1, <1>2, <1>3, <1>6 DEF Good, MapOK, Stream, ConnRec
<1>8. ~Held(s, tasks, resp, body)
  BY <1>1 DEF Good, AnswersOK, ConnRec, Stream
<1>9. AnswersOK(sts, c, tasks, resp, body)
  <2>1. ASSUME NEW q \in Stream, Held(q, tasks, resp, body)
        PROVE  q <= c.last /\ (sts[q].st # "none" => sts[q].disp)
    <3>1. q # s
      BY <1>8, <2>1
    <3>2. q <= conn.last /\ (streams[q].st # "none" => streams[q].disp)
      BY <2>1 DEF Good, AnswersOK
    <3> QED
      BY <1>1, <1>3, <1>6, <3>1, <3>2 DEF ConnRec, Stream
  <2> QED
    BY <2>1 DEF Good, AnswersOK
<1>10. CreditOK(sts, c, credit)
  BY <1>1, <1>2, <1>3, <1>6 DEF Good, CreditOK, ConnRec, Stream
<1> QED
  BY <1>7, <1>9, <1>10 DEF Good, sts, c, r

(* A change of one stream's record that keeps it in the map, and keeps     *)
(* whether it was dispatched and what it may send.                         *)
LEMMA UpdateGood ==
  ASSUME NEW cr, Good(streams, conn, tasks, resp, body, cr), NEW s \in Stream,
         NEW r \in StreamRec, streams[s].st # "none",
         r.disp = streams[s].disp, r.sw <= cr[s],
         r.st \in {"Open", "HalfClosedRemote"},
         r.es \/ r.disp => r.st = "HalfClosedRemote"
  PROVE  Good([streams EXCEPT ![s] = r], conn, tasks, resp, body, cr)
<1> DEFINE sts == [streams EXCEPT ![s] = r]
<1>1. streams \in [Stream -> StreamRec] /\ conn \in ConnRec
  BY DEF Good, MapOK
<1>2. /\ sts \in [Stream -> StreamRec] /\ sts[s] = r
      /\ \A q \in Stream : q # s => sts[q] = streams[q]
  BY <1>1
<1> HIDE DEF sts
<1>3. Mapped(sts) = Mapped(streams)
  BY <1>2 DEF Mapped
<1>4. MapOK(sts, conn)
  BY <1>1, <1>2, <1>3 DEF Good, MapOK
<1>5. AnswersOK(sts, conn, tasks, resp, body)
  BY <1>2 DEF Good, AnswersOK
<1>6. CreditOK(sts, conn, cr)
  BY <1>1, <1>2 DEF Good, CreditOK, StreamRec
<1> QED
  BY <1>4, <1>5, <1>6 DEF Good, sts

(* Fields of the connection the streams do not depend on. *)
LEMMA FieldsGood ==
  ASSUME NEW sts, NEW c, NEW ts, NEW rs, NEW b, NEW cr, NEW d \in ConnRec,
         Good(sts, c, ts, rs, b, cr), d.last = c.last, d.open = c.open, d.send = c.send,
         d.init = c.init
  PROVE  Good(sts, d, ts, rs, b, cr)
  BY DEF Good, MapOK, AnswersOK, CreditOK

(* on_headers. *)
LEMMA HeadersKeeps ==
  ASSUME ConnInv, NEW f \in GoodFrame, f.t = "HEADERS", OnHeaders(f),
         UNCHANGED <<resp, body, credit>>
  PROVE  Kept /\ decoded' \in Nat
<1> DEFINE s == f.s
           new == s \notin Present
           c == [conn EXCEPT !.last = s, !.open = @ + 1]
           r == IF new THEN [None EXCEPT !.sw = conn.init] ELSE streams[s]
           q == [r EXCEPT !.st = IF f.es THEN "HalfClosedRemote" ELSE "Open",
                          !.es = f.es, !.await = ~f.eh, !.blk = f.n]
           sts == [streams EXCEPT ![s] = q]
           d == IF new THEN c ELSE conn
<1>1. s \in Stream /\ f.es \in BOOLEAN /\ (~f.eh) \in BOOLEAN /\ f.n \in Nat
  <2>1. s \in Stream /\ f.n \in Nat
    BY DEF GoodFrame, Frame
  <2>2. f.es \in BOOLEAN
    BY DEF GoodFrame, Frame
  <2>3. (~f.eh) \in BOOLEAN
    OBVIOUS
  <2> QED
    BY <2>1, <2>2, <2>3
<1>2. /\ pc \in Places /\ decoded \in Nat /\ UNCHANGED <<resp, body>>
      /\ Good(streams, conn, tasks, resp, body, credit')
      /\ streams \in [Stream -> StreamRec] /\ conn \in ConnRec
  BY DEF ConnInv, ClientOK, Good, MapOK
<1>3. CASE new /\ s <= conn.last /\ ConnError(streams, conn) /\ UNCHANGED decoded
  BY <1>2, <1>3, ConnErrorKeeps
<1>4. CASE /\ new /\ s > conn.last /\ UNCHANGED decoded
           /\ Fine(streams, [conn EXCEPT !.last = s], tasks)
  <2> DEFINE e == [conn EXCEPT !.last = s]
  <2>0. conn.last \in Int /\ s \in Int /\ s \in 0..NStreams /\ s > conn.last
    BY <1>1, <1>2, <1>4, SizeAssumption DEF ConnRec, Stream
  <2> HIDE DEF s
  <2>1. /\ e \in ConnRec /\ e.last = s /\ e.open = conn.open /\ e.send = conn.send
        /\ e.init = conn.init /\ conn.last \in Int /\ s \in Int /\ conn.last < s
    BY <1>2, <2>0 DEF ConnRec
  <2> HIDE DEF e
  <2>2. MapOK(streams, e)
    BY <1>2, <2>1 DEF Good, MapOK, Stream
  <2>3. AnswersOK(streams, e, tasks, resp, body)
    BY <1>2, <2>1 DEF Good, AnswersOK, Stream
  <2>4. CreditOK(streams, e, credit')
    BY <1>2, <2>1 DEF Good, CreditOK, Stream
  <2>5. Good(streams, e, tasks, resp, body, credit')
    BY <2>2, <2>3, <2>4 DEF Good
  <2> QED
    BY <1>2, <1>4, <2>5, FineKeeps DEF e
<1>5. CASE ConnError(streams, conn) /\ UNCHANGED decoded
  BY <1>2, <1>5, ConnErrorKeeps
<1>6. ASSUME Good(sts, d, tasks, resp, body, credit'),
             IF f.eh THEN FinishHeaderBlock(s, sts, d)
                     ELSE Fine(sts, d, tasks) /\ UNCHANGED decoded
      PROVE  Kept /\ decoded' \in Nat
  <2> HIDE DEF sts, d, s
  <2>1. CASE f.eh
    BY <1>1, <1>2, <1>6, <2>1, FinishKeeps
  <2>2. CASE ~f.eh
    BY <1>1, <1>2, <1>6, <2>2, FineKeeps
  <2> QED
    BY <2>1, <2>2
<1>7. ASSUME new, s > conn.last, conn.open < MaxConc
      PROVE  Good(sts, d, tasks, resp, body, credit')
  BY <1>1, <1>2, <1>7, OpenGood
<1>8. ASSUME ~new, streams[s].st = "Open", f.es
      PROVE  Good(sts, d, tasks, resp, body, credit')
  <2>1. q \in StreamRec /\ q.disp = streams[s].disp /\ q.sw = streams[s].sw
        /\ q.st = "HalfClosedRemote"
    <3>1. r = streams[s] /\ r \in StreamRec /\ (~f.eh) \in BOOLEAN /\ f.n \in Nat
      BY <1>1, <1>2, <1>8
    <3> HIDE DEF r
    <3> QED
      BY <1>8, <3>1 DEF StreamRec
  <2>2. q.sw <= credit'[s]
    BY <1>1, <1>2, <1>8, <2>1 DEF Good, CreditOK, StreamRec
  <2> HIDE DEF q
  <2> QED
    BY <1>1, <1>2, <1>8, <2>1, <2>2, UpdateGood
<1>9. s > conn.last \/ s <= conn.last
  BY <1>1, <1>2 DEF Stream, ConnRec
<1>10. conn.open >= MaxConc \/ conn.open < MaxConc
  BY <1>2, SizeAssumption DEF ConnRec
<1> QED
  BY <1>3, <1>4, <1>5, <1>6, <1>7, <1>8, <1>9, <1>10 DEF OnHeaders

(* on_continuation: the block ends, or goes on as it was. *)
LEMMA ContinuationKeeps ==
  ASSUME ConnInv, NEW f \in GoodFrame, f.t = "CONT", OnContinuation(f),
         UNCHANGED <<resp, body, credit>>
  PROVE  Kept /\ decoded' \in Nat
<1> DEFINE more == ~f.eh
           q == [streams[f.s] EXCEPT !.await = more]
           sts == [streams EXCEPT ![f.s].await = more]
<1>1. f.s \in Stream
  BY DEF GoodFrame, Frame
<1>2. /\ pc \in Places /\ decoded \in Nat /\ UNCHANGED <<resp, body>>
      /\ Good(streams, conn, tasks, resp, body, credit')
      /\ streams \in [Stream -> StreamRec] /\ conn \in ConnRec
  BY DEF ConnInv, ClientOK, Good, MapOK
<1>3. CASE f.s \in Awaiting /\ FinishHeaderBlock(f.s, sts, conn)
  <2>1. streams[f.s].st # "none"
    BY <1>1, <1>2, <1>3 DEF Good, MapOK, Awaiting, None
  <2>a. more \in BOOLEAN
    OBVIOUS
  <2> HIDE DEF more
  <2>2. /\ q \in StreamRec /\ q.disp = streams[f.s].disp /\ q.sw = streams[f.s].sw
        /\ q.st = streams[f.s].st /\ q.es = streams[f.s].es
        /\ sts = [streams EXCEPT ![f.s] = q]
    BY <1>1, <1>2, <2>a DEF StreamRec
  <2> HIDE DEF q, sts
  <2>3. /\ q.sw <= credit'[f.s] /\ q.st \in {"Open", "HalfClosedRemote"}
        /\ q.es \/ q.disp => q.st = "HalfClosedRemote"
    BY <1>1, <1>2, <2>1, <2>2 DEF Good, MapOK, CreditOK, StreamRec
  <2>4. Good(sts, conn, tasks, resp, body, credit')
    BY <1>1, <1>2, <2>1, <2>2, <2>3, UpdateGood
  <2> QED
    BY <1>1, <1>2, <1>3, <2>4, FinishKeeps
<1>4. CASE Fine(streams, conn, tasks) /\ UNCHANGED decoded
  BY <1>2, <1>4, FineKeeps
<1>5. CASE ConnError(streams, conn) /\ UNCHANGED decoded
  BY <1>2, <1>5, ConnErrorKeeps
<1> QED
  BY <1>3, <1>4, <1>5 DEF OnContinuation

(* on_data: a frame within the window takes from it at most what is there. *)
LEMMA DataKeeps ==
  ASSUME ConnInv, NEW f \in GoodFrame, f.t = "DATA", OnData(f),
         UNCHANGED <<resp, body, credit>>
  PROVE  Kept
<1> DEFINE taken == [conn EXCEPT !.recv = @ - f.n]
           q == [streams[f.s] EXCEPT !.st = "HalfClosedRemote"]
           sts == [streams EXCEPT ![f.s].st = "HalfClosedRemote"]
<1>1. f.s \in Stream /\ f.n \in Nat
  BY DEF GoodFrame, Frame
<1>2. /\ pc \in Places /\ UNCHANGED <<resp, body>>
      /\ Good(streams, conn, tasks, resp, body, credit')
      /\ streams \in [Stream -> StreamRec] /\ conn \in ConnRec
  BY DEF ConnInv, Good, MapOK
<1>3. CASE ConnError(streams, conn)
  BY <1>2, <1>3, ConnErrorKeeps
<1>4. CASE f.n <= conn.recv /\ StreamError(f.s, streams, taken)
  <2>1. conn.recv - f.n \in 0..Window
    BY <1>1, <1>2, <1>4, SizeAssumption DEF ConnRec
  <2>2. /\ taken \in ConnRec /\ taken.last = conn.last /\ taken.open = conn.open
        /\ taken.send = conn.send /\ taken.init = conn.init
    BY <1>2, <2>1 DEF ConnRec
  <2> HIDE DEF taken
  <2>3. Good(streams, taken, tasks, resp, body, credit')
    BY <1>2, <2>2, FieldsGood
  <2> QED
    BY <1>1, <1>2, <1>4, <2>3, StreamErrorKeeps
<1>5. CASE streams[f.s].st = "Open" /\ TryDispatch(f.s, sts, conn)
  <2>1. /\ q \in StreamRec /\ q.disp = streams[f.s].disp /\ q.sw = streams[f.s].sw
        /\ q.st = "HalfClosedRemote"
        /\ sts = [streams EXCEPT ![f.s] = q] /\ sts[f.s] = q
    BY <1>1, <1>2 DEF StreamRec
  <2> HIDE DEF q, sts
  <2>2. q.sw <= credit'[f.s]
    BY <1>1, <1>2, <1>5, <2>1 DEF Good, CreditOK, StreamRec
  <2>3. Good(sts, conn, tasks, resp, body, credit')
    BY <1>1, <1>2, <1>5, <2>1, <2>2, UpdateGood
  <2> QED
    BY <1>1, <1>2, <1>5, <2>1, <2>3, TryDispatchKeeps
<1>6. CASE Fine(streams, conn, tasks)
  BY <1>2, <1>6, FineKeeps
<1>7. f.n > conn.recv \/ f.n <= conn.recv
  BY <1>1, <1>2 DEF ConnRec
<1> QED
  BY <1>3, <1>4, <1>5, <1>6, <1>7 DEF OnData

(* on_rst_stream. *)
LEMMA ResetKeeps ==
  ASSUME ConnInv, NEW f \in GoodFrame, f.t = "RST", OnReset(f),
         UNCHANGED <<resp, body, credit>>
  PROVE  Kept
<1>1. f.s \in Stream
  BY DEF GoodFrame, Frame
<1>2. /\ pc \in Places /\ UNCHANGED <<resp, body>>
      /\ Good(streams, conn, tasks, resp, body, credit')
  BY DEF ConnInv
<1>3. CASE f.s \in Present /\ Fine(Retire(streams, f.s), [conn EXCEPT !.open = Less(@)], tasks)
  <2>1. streams[f.s] # None
    BY <1>3 DEF Present, None
  <2>2. Good(Retire(streams, f.s),
             [conn EXCEPT !.open = IF streams[f.s] # None THEN Less(@) ELSE @],
             tasks, resp, body, credit')
    BY <1>1, <1>2, RetireGood
  <2>3. Good(Retire(streams, f.s), [conn EXCEPT !.open = Less(@)], tasks, resp, body, credit')
    BY <2>1, <2>2
  <2> QED
    BY <1>2, <1>3, <2>3, FineKeeps
<1>4. CASE Fine(streams, conn, tasks)
  BY <1>2, <1>4, FineKeeps
<1> QED
  BY <1>3, <1>4 DEF OnReset

(* on_window_update: what is added to a window has been granted, whether   *)
(* the window overflows or not.                                            *)
LEMMA WindowUpdateKeeps ==
  ASSUME ConnInv, NEW f \in GoodFrame, f.t = "WU", OnWindowUpdate(f),
         UNCHANGED <<resp, body>>, credit' = [credit EXCEPT ![f.s] = @ + f.n]
  PROVE  Kept
<1> DEFINE c == [conn EXCEPT !.send = @ + f.n]
           q == [streams[f.s] EXCEPT !.sw = @ + f.n]
           sts == [streams EXCEPT ![f.s].sw = @ + f.n]
<1>1. f.s \in 0..NStreams /\ f.n \in Nat /\ (f.s # 0 => f.s \in Stream)
  BY SizeAssumption DEF GoodFrame, Frame, Stream
<1>2. /\ pc \in Places /\ Good(streams, conn, tasks, resp, body, credit)
      /\ streams \in [Stream -> StreamRec] /\ conn \in ConnRec
      /\ credit \in [0..NStreams -> Int]
  BY DEF ConnInv, Good, MapOK, CreditOK
<1>3. /\ credit' \in [0..NStreams -> Int] /\ credit'[f.s] = credit[f.s] + f.n
      /\ \A s \in 0..NStreams : credit'[s] >= credit[s]
  BY <1>1, <1>2
<1>4. Stream \subseteq 0..NStreams /\ 0 \in 0..NStreams
  BY SizeAssumption DEF Stream
<1>5. Good(streams, conn, tasks, resp, body, credit')
  <2>1. conn.send \in Int /\ conn.init \in Int /\ \A s \in Stream : streams[s].sw \in Int
    BY <1>2 DEF ConnRec, StreamRec
  <2>2. CreditOK(streams, conn, credit')
    BY <1>2, <1>3, <1>4, <2>1 DEF Good, CreditOK
  <2> QED
    BY <1>2, <2>2 DEF Good
<1>6. CASE ConnError(streams, conn)
  BY <1>2, <1>5, <1>6, ConnErrorKeeps
<1>7. CASE f.s # 0 /\ StreamError(f.s, streams, conn)
  BY <1>1, <1>2, <1>5, <1>7, StreamErrorKeeps
<1>8. CASE Fine(streams, conn, tasks)
  BY <1>2, <1>5, <1>8, FineKeeps
<1>9. CASE f.s = 0 /\ (ConnError(streams, c) \/ Fine(streams, c, tasks))
  <2>1. /\ c \in ConnRec /\ c.send = conn.send + f.n /\ c.last = conn.last
        /\ c.open = conn.open /\ c.init = conn.init /\ conn.send \in Int
    BY <1>1, <1>2 DEF ConnRec
  <2> HIDE DEF c
  <2>2. MapOK(streams, c) /\ AnswersOK(streams, c, tasks, resp, body)
    BY <1>2, <2>1 DEF Good, MapOK, AnswersOK
  <2>3. CreditOK(streams, c, credit')
    <3>1. credit'[0] >= c.send
      BY <1>2, <1>3, <1>4, <1>9, <2>1, <1>1 DEF Good, CreditOK
    <3> QED
      BY <1>3, <1>5, <2>1, <3>1 DEF Good, CreditOK
  <2>4. Good(streams, c, tasks, resp, body, credit')
    BY <2>2, <2>3 DEF Good
  <2> QED
    BY <1>2, <1>9, <2>4, ConnErrorKeeps, FineKeeps
<1>10. CASE f.s \in Present /\ (StreamError(f.s, sts, conn) \/ Fine(sts, conn, tasks))
  <2>1. f.s \in Stream /\ streams[f.s].st # "none"
    BY <1>10 DEF Present
  <2>2. /\ q \in StreamRec /\ q.disp = streams[f.s].disp /\ q.sw = streams[f.s].sw + f.n
        /\ q.st = streams[f.s].st /\ q.es = streams[f.s].es
        /\ sts = [streams EXCEPT ![f.s] = q]
    <3>1. streams[f.s] \in StreamRec /\ streams[f.s].sw + f.n \in Int
      BY <1>1, <1>2, <2>1 DEF StreamRec
    <3>2. sts = [streams EXCEPT ![f.s] = q]
      OBVIOUS
    <3> QED
      BY <3>1, <3>2 DEF StreamRec
  <2> HIDE DEF q, sts
  <2>3. /\ q.st \in {"Open", "HalfClosedRemote"}
        /\ q.es \/ q.disp => q.st = "HalfClosedRemote"
    BY <1>2, <2>1, <2>2 DEF Good, MapOK, StreamRec
  <2>4. q.sw <= credit'[f.s]
    BY <1>1, <1>2, <1>3, <2>1, <2>2 DEF Good, CreditOK, StreamRec
  <2>5. Good(sts, conn, tasks, resp, body, credit')
    BY <1>5, <2>1, <2>2, <2>3, <2>4, UpdateGood
  <2> QED
    BY <1>2, <1>10, <2>1, <2>5, StreamErrorKeeps, FineKeeps
<1> QED
  BY <1>1, <1>6, <1>7, <1>8, <1>9, <1>10 DEF OnWindowUpdate

(* Windows moved by the difference of two initial windows, as far as the   *)
(* change gets, stay within a grant that moves with them.                  *)
LEMMA MovedGood ==
  ASSUME Good(streams, conn, tasks, resp, body, credit), NEW n \in Nat,
         NEW U \in SUBSET Present, NEW cr \in [0..NStreams -> Int], cr[0] = credit[0],
         \A s \in Stream : /\ cr[s] >= credit[s] + (n - conn.init)
                           /\ s \in Present \ U => cr[s] >= credit[s]
  PROVE  Good([s \in Stream |-> IF s \in U THEN [streams[s] EXCEPT !.sw = @ + (n - conn.init)]
                                            ELSE streams[s]],
              [conn EXCEPT !.init = n], tasks, resp, body, cr)
<1> DEFINE delta == n - conn.init
           sts == [s \in Stream |-> IF s \in U THEN [streams[s] EXCEPT !.sw = @ + delta]
                                                ELSE streams[s]]
           c == [conn EXCEPT !.init = n]
<1>1. /\ streams \in [Stream -> StreamRec] /\ conn \in ConnRec
      /\ delta \in Int /\ conn.init \in Int
  BY DEF Good, MapOK, ConnRec
<1>2. /\ c \in ConnRec /\ c.last = conn.last /\ c.open = conn.open /\ c.send = conn.send
      /\ c.init = conn.init + delta
  BY <1>1 DEF ConnRec
<1>3. \A s \in Stream : n - conn.init = delta
  OBVIOUS
<1> HIDE DEF delta, c
<1>4. ASSUME NEW s \in Stream
      PROVE  /\ sts[s] \in StreamRec /\ sts[s].st = streams[s].st /\ sts[s].es = streams[s].es
             /\ sts[s].disp = streams[s].disp
             /\ s \notin U => sts[s] = streams[s]
             /\ s \in U => sts[s].sw = streams[s].sw + delta
  <2>1. streams[s] \in StreamRec /\ streams[s].sw \in Int /\ streams[s].sw + delta \in Int
    BY <1>1 DEF StreamRec
  <2>2. CASE s \in U
    <3> DEFINE q == [streams[s] EXCEPT !.sw = @ + delta]
    <3>1. sts[s] = q
      BY <2>2
    <3>2. /\ q \in StreamRec /\ q.st = streams[s].st /\ q.es = streams[s].es
          /\ q.disp = streams[s].disp /\ q.sw = streams[s].sw + delta
      BY <2>1 DEF StreamRec
    <3> QED
      BY <2>2, <3>1, <3>2
  <2>3. CASE s \notin U
    BY <2>1, <2>3
  <2> QED
    BY <2>2, <2>3
<1>5. sts \in [Stream -> StreamRec]
  BY <1>4
<1> HIDE DEF sts
<1>6. Mapped(sts) = Mapped(streams)
  BY <1>4 DEF Mapped
<1>7. MapOK(sts, c)
  <2>1. \A s \in Stream : sts[s].st = "none" => sts[s] = None
    BY <1>4 DEF Good, MapOK, Present
  <2> QED
    BY <1>2, <1>4, <1>5, <1>6, <2>1 DEF Good, MapOK
<1>8. AnswersOK(sts, c, tasks, resp, body)
  BY <1>2, <1>4 DEF Good, AnswersOK
<1>9. CreditOK(sts, c, cr)
  <2>1. credit \in [0..NStreams -> Int] /\ Stream \subseteq 0..NStreams
    BY SizeAssumption DEF Good, CreditOK, Stream
  <2>2. ASSUME NEW s \in Stream, sts[s].st # "none"
        PROVE  cr[s] >= sts[s].sw
    <3>1. credit[s] >= streams[s].sw /\ s \in Present /\ streams[s].sw \in Int
      BY <1>1, <1>4, <2>2 DEF Good, CreditOK, Present, StreamRec
    <3>2. CASE s \in U
      BY <1>1, <1>4, <2>1, <3>1, <3>2 DEF delta
    <3>3. CASE s \notin U
      BY <1>4, <2>1, <3>1, <3>3
    <3> QED
      BY <3>2, <3>3
  <2>3. ASSUME NEW s \in Stream, s > c.last
        PROVE  cr[s] >= c.init
    <3>1. credit[s] >= conn.init
      BY <1>2, <2>3 DEF Good, CreditOK
    <3> QED
      BY <1>1, <1>2, <2>1, <3>1 DEF delta
  <2>4. cr[0] >= c.send
    BY <1>2 DEF Good, CreditOK
  <2> QED
    BY <2>2, <2>3, <2>4 DEF CreditOK
<1> QED
  BY <1>7, <1>8, <1>9 DEF Good, sts, c, delta

(* on_settings, INITIAL_WINDOW_SIZE. *)
LEMMA InitialWindowKeeps ==
  ASSUME ConnInv, NEW f \in GoodFrame, f.t = "WINDOW", OnInitialWindow(f),
         UNCHANGED <<resp, body>>
  PROVE  Kept
<1> DEFINE delta == f.n - conn.init
           c == [conn EXCEPT !.init = f.n]
           Moved(U) == [s \in Stream |-> IF s \in U THEN [streams[s] EXCEPT !.sw = @ + delta]
                                                     ELSE streams[s]]
           Regranted(d) == [s \in 0..NStreams |-> IF s = 0 THEN credit[0] ELSE credit[s] + d]
<1>1. f.n \in Nat
  BY DEF GoodFrame, Frame
<1>2. /\ pc \in Places /\ UNCHANGED <<resp, body>>
      /\ Good(streams, conn, tasks, resp, body, credit)
      /\ credit \in [0..NStreams -> Int] /\ delta \in Int
  BY <1>1 DEF ConnInv, Good, CreditOK, MapOK, ConnRec
<1>3. CASE ConnError(streams, conn) /\ UNCHANGED credit
  BY <1>2, <1>3, ConnErrorKeeps
<1>4. ASSUME NEW d \in Int, d >= delta, NEW U \in SUBSET Present, credit' = Regranted(d),
             d >= 0 \/ U = Present
      PROVE  Good(Moved(U), c, tasks, resp, body, credit')
  <2>1. Stream \subseteq 0..NStreams /\ 0 \in 0..NStreams /\ 0 \notin Stream
    BY SizeAssumption DEF Stream
  <2>2. /\ credit' \in [0..NStreams -> Int] /\ credit'[0] = credit[0]
        /\ \A s \in Stream : credit'[s] = credit[s] + d
    BY <1>2, <1>4, <2>1
  <2>3. \A s \in Stream : /\ credit'[s] >= credit[s] + (f.n - conn.init)
                          /\ s \in Present \ U => credit'[s] >= credit[s]
    BY <1>2, <1>4, <2>1, <2>2
  <2> QED
    BY <1>1, <1>2, <2>2, <2>3, MovedGood
<1>5. CASE Fine(Moved(Present), c, tasks) /\ credit' = Regranted(delta)
  <2> HIDE DEF Moved, c, Regranted, delta
  <2>1. Good(Moved(Present), c, tasks, resp, body, credit')
    <3>1. delta >= delta /\ Present \in SUBSET Present
      BY <1>2
    <3> QED
      BY <1>2, <1>4, <1>5, <3>1
  <2> QED
    BY <1>2, <1>5, <2>1, FineKeeps
<1>6. ASSUME NEW U \in SUBSET Present, ConnError(Moved(U), c),
             credit' = Regranted(IF delta > 0 THEN delta ELSE 0)
      PROVE  Kept
  <2> DEFINE d == IF delta > 0 THEN delta ELSE 0
  <2> HIDE DEF Moved, c, Regranted, delta
  <2>1. Good(Moved(U), c, tasks, resp, body, credit')
    <3>1. d \in Int /\ d >= delta /\ d >= 0
      BY <1>2
    <3>2. credit' = Regranted(d)
      BY <1>6
    <3> HIDE DEF d
    <3> QED
      BY <1>4, <3>1, <3>2
  <2> QED
    BY <1>2, <1>6, <2>1, ConnErrorKeeps
<1> QED
  BY <1>3, <1>5, <1>6 DEF OnInitialWindow

(* dispatch_frame. *)
LEMMA DispatchKeeps ==
  ASSUME ConnInv, NEW f \in GoodFrame, Dispatch(f), UNCHANGED <<resp, body>>
  PROVE  Kept /\ decoded' \in Nat
<1>1. /\ pc \in Places /\ UNCHANGED <<resp, body>> /\ decoded \in Nat
      /\ Good(streams, conn, tasks, resp, body, credit) /\ conn \in ConnRec /\ f.n \in Nat
  BY DEF ConnInv, ClientOK, Good, MapOK, GoodFrame, Frame
<1>2. ASSUME ConnError(streams, conn), UNCHANGED decoded,
             credit' = credit \/ (f.t = "WU" /\ credit' = [credit EXCEPT ![f.s] = @ + f.n])
      PROVE  Kept /\ decoded' \in Nat
  <2>1. Good(streams, conn, tasks, resp, body, credit')
    <3>1. CASE credit' = credit
      BY <1>1, <3>1
    <3>2. CASE f.t = "WU" /\ credit' = [credit EXCEPT ![f.s] = @ + f.n]
      <4>1. f.s \in 0..NStreams /\ Stream \subseteq 0..NStreams /\ 0 \in 0..NStreams
        BY SizeAssumption DEF GoodFrame, Frame, Stream
      <4>2. credit \in [0..NStreams -> Int]
        BY <1>1 DEF Good, CreditOK
      <4>3. /\ credit' \in [0..NStreams -> Int]
            /\ \A s \in 0..NStreams : credit'[s] >= credit[s] /\ credit[s] \in Int
        <5>1. credit[f.s] + f.n \in Int /\ credit[f.s] + f.n >= credit[f.s]
          BY <1>1, <4>1, <4>2
        <5> QED
          BY <3>2, <4>1, <4>2, <5>1
      <4>4. conn.send \in Int /\ conn.init \in Int /\ \A s \in Stream : streams[s].sw \in Int
        BY <1>1 DEF Good, MapOK, ConnRec, StreamRec
      <4>5. CreditOK(streams, conn, credit')
        <5>1. credit'[0] >= conn.send
          BY <1>1, <4>1, <4>3, <4>4 DEF Good, CreditOK
        <5>2. ASSUME NEW s \in Stream
              PROVE  /\ streams[s].st # "none" => credit'[s] >= streams[s].sw
                     /\ s > conn.last => credit'[s] >= conn.init
          <6>1. credit'[s] \in Int /\ credit'[s] >= credit[s] /\ credit[s] \in Int
            BY <4>1, <4>3
          <6> QED
            BY <1>1, <4>4, <6>1 DEF Good, CreditOK
        <5> QED
          BY <4>3, <5>1, <5>2 DEF CreditOK
      <4> QED
        BY <1>1, <4>5 DEF Good
    <3> QED
      BY <1>2, <3>1, <3>2
  <2> QED
    BY <1>1, <1>2, <2>1, ConnErrorKeeps
<1>3. CASE f.t = "HEADERS" /\ OnHeaders(f) /\ credit' = credit
  BY <1>1, <1>3, HeadersKeeps
<1>4. CASE f.t = "CONT" /\ OnContinuation(f) /\ credit' = credit
  BY <1>1, <1>4, ContinuationKeeps
<1>5. CASE f.t = "WINDOW" /\ OnInitialWindow(f) /\ UNCHANGED decoded
  BY <1>1, <1>5, InitialWindowKeeps
<1>6. CASE f.t = "DATA" /\ OnData(f) /\ credit' = credit /\ UNCHANGED decoded
  BY <1>1, <1>6, DataKeeps
<1>7. CASE f.t = "RST" /\ OnReset(f) /\ credit' = credit /\ UNCHANGED decoded
  BY <1>1, <1>7, ResetKeeps
<1>8. CASE /\ f.t = "WU" /\ OnWindowUpdate(f) /\ UNCHANGED decoded
           /\ credit' = [credit EXCEPT ![f.s] = @ + f.n]
  BY <1>1, <1>8, WindowUpdateKeeps
<1>9. CASE f.t = "SIZE" /\ OnMaxFrameSize(f) /\ credit' = credit /\ UNCHANGED decoded
  <2> DEFINE d == [conn EXCEPT !.max = f.n]
  <2>1. /\ d \in ConnRec /\ d.last = conn.last /\ d.open = conn.open /\ d.send = conn.send
        /\ d.init = conn.init
    BY <1>1 DEF ConnRec
  <2> HIDE DEF d
  <2>2. Good(streams, d, tasks, resp, body, credit')
    BY <1>1, <1>9, <2>1, FieldsGood
  <2>3. ConnError(streams, conn) \/ Fine(streams, d, tasks)
    BY <1>9 DEF OnMaxFrameSize, d
  <2> QED
    BY <1>1, <1>2, <1>9, <2>2, <2>3, FineKeeps
<1>10. CASE /\ f.t = "GOAWAY" /\ Fine(streams, [conn EXCEPT !.going = TRUE], tasks)
            /\ credit' = credit /\ UNCHANGED decoded
  <2>1. Good(streams, [conn EXCEPT !.going = TRUE], tasks, resp, body, credit')
    BY <1>1, <1>10, GoingGood
  <2> QED
    BY <1>1, <1>10, <2>1, FineKeeps
<1>11. CASE Awaiting # {} /\ ~(f.t = "CONT" /\ f.s \in Awaiting)
  BY <1>2, <1>11 DEF Dispatch
<1> QED
  BY <1>3, <1>4, <1>5, <1>6, <1>7, <1>8, <1>9, <1>10, <1>11 DEF Dispatch

(***************************************************************************)
(* The connection task, the client and the adapters.                       *)
(***************************************************************************)

(* A response's stream is dropped, or was before: it is never still open.  *)
LEMMA EndGood ==
  ASSUME NEW c, NEW rs, NEW b, NEW cr, NEW s \in Stream,
         Good(streams, c, tasks, rs, b, cr), streams[s].st \in {"none", "HalfClosedRemote"},
         EndStream(s), conn' = [c EXCEPT !.open = IF Closing(s) THEN Less(@) ELSE @]
  PROVE  Good(streams', conn', tasks, rs, b, cr) /\ pc' = "top"
<1>1. Good(Retire(streams, s), [c EXCEPT !.open = IF streams[s] # None THEN Less(@) ELSE @],
           tasks, rs, b, cr)
  BY RetireGood
<1>2. streams[s].st = "none" => streams[s] = None
  BY DEF Good, MapOK
<1>3. CASE streams[s].st = "none"
  <2>1. s \notin Present /\ ~Closing(s)
    BY <1>3 DEF Present, Closing
  <2>2. c \in ConnRec
    BY DEF Good, MapOK
  <2>3. streams' = streams /\ pc' = "top"
    BY <2>1 DEF EndStream, Goto
  <2>4. conn' = c
    BY <2>1, <2>2 DEF ConnRec
  <2> QED
    BY <2>3, <2>4
<1>4. CASE streams[s].st = "HalfClosedRemote"
  <2>1. s \in Present /\ Closing(s) /\ streams[s] # None
    BY <1>4 DEF Present, Closing, None
  <2>2. streams' = Retire(streams, s) /\ pc' = "top"
    BY <1>4, <2>1 DEF EndStream, Goto
  <2> QED
    BY <1>1, <2>1, <2>2
<1> QED
  BY <1>3, <1>4

(* A stream that is being answered has been ended by the client, or reset. *)
LEMMA HeldEnded ==
  ASSUME NEW sts, NEW c, NEW ts, NEW rs, NEW b, NEW cr, NEW s \in Stream,
         Good(sts, c, ts, rs, b, cr), Held(s, ts, rs, b)
  PROVE  sts[s].st \in {"none", "HalfClosedRemote"}
  BY DEF Good, MapOK, AnswersOK

(* The first response of the queue is taken. *)
LEMMA TakeResponse ==
  ASSUME ConnInv, resp # <<>>
  PROVE  /\ Head(resp) \in [s : Stream, len : Nat]
         /\ Held(Head(resp).s, tasks, resp, body)
         /\ AnswersOK(streams, conn, tasks, Tail(resp), body)
         /\ \A n, m \in Nat :
              AnswersOK(streams, conn, tasks, Tail(resp),
                        [s |-> Head(resp).s, left |-> n, max |-> m])
<1> DEFINE R == [s : Stream, len : Nat]
<1>1. resp \in Seq(R) /\ AnswersOK(streams, conn, tasks, resp, body)
  BY DEF ConnInv, Good, AnswersOK
<1>r. \A r \in R : r.s \in Stream /\ r.len \in Nat
  OBVIOUS
<1> HIDE DEF R
<1>2. /\ Head(resp) = resp[1] /\ 1 \in 1..Len(resp) /\ Tail(resp) \in Seq(R)
      /\ Len(Tail(resp)) = Len(resp) - 1 /\ Len(resp) \in Nat /\ resp[1] \in R
      /\ \A i \in 1..Len(Tail(resp)) : /\ Tail(resp)[i] = resp[i + 1]
                                        /\ i + 1 \in 1..Len(resp) /\ i + 1 # 1
  BY <1>1, HeadTailProperties
<1>3. Held(Head(resp).s, tasks, resp, body)
  BY <1>2 DEF Held
<1> DEFINE t == Tail(resp)
<1> HIDE DEF t
<1>4. ASSUME NEW b, Held(b.s, tasks, resp, body), b \in [s : 0..NStreams, left : Int, max : Nat],
             \A i \in 1..Len(t) : t[i].s # b.s, b.s \notin tasks
      PROVE  AnswersOK(streams, conn, tasks, t, b)
  <2>1. \A s \in Stream : Held(s, tasks, t, b) => Held(s, tasks, resp, body)
    BY <1>2, <1>4 DEF Held, t
  <2>2. \A i, j \in 1..Len(t) : /\ t[i].s \notin tasks
                                /\ t[i].s = t[j].s => i = j
    <3> TAKE i, j \in 1..Len(t)
    <3>1. /\ t[i] = resp[i + 1] /\ i + 1 \in 1..Len(resp)
          /\ t[j] = resp[j + 1] /\ j + 1 \in 1..Len(resp)
          /\ i + 1 = j + 1 => i = j
      BY <1>2 DEF t
    <3> QED
      BY <1>1, <3>1 DEF AnswersOK
  <2>3. t \in Seq([s : Stream, len : Nat])
    BY <1>2 DEF R, t
  <2> QED
    BY <1>1, <1>4, <2>1, <2>2, <2>3 DEF AnswersOK
<1>5. AnswersOK(streams, conn, tasks, t, body)
  BY <1>1, <1>2, <1>4 DEF AnswersOK, Held, t
<1>6. ASSUME NEW n \in Nat, NEW m \in Nat
      PROVE  AnswersOK(streams, conn, tasks, t, [s |-> Head(resp).s, left |-> n, max |-> m])
  <2> DEFINE b == [s |-> Head(resp).s, left |-> n, max |-> m]
  <2>1. b \in [s : 0..NStreams, left : Int, max : Nat] /\ b.s = resp[1].s
    BY <1>2, <1>r, SizeAssumption DEF Stream
  <2> HIDE DEF b
  <2>2. b.s \notin tasks /\ \A i \in 1..Len(t) : t[i].s # b.s
    BY <1>1, <1>2, <2>1 DEF AnswersOK, t
  <2>3. Held(b.s, tasks, resp, body)
    BY <1>2, <1>3, <2>1
  <2> QED
    BY <1>4, <2>1, <2>2, <2>3 DEF b
<1> QED
  BY <1>2, <1>3, <1>5, <1>6 DEF t, R

(* Nothing is held any more by a body that has ended. *)
LEMMA BodyDone ==
  ASSUME NEW sts, NEW c, NEW cr, Good(sts, c, tasks, resp, body, cr)
  PROVE  Good(sts, c, tasks, resp, NoBody, cr)
<1>1. /\ NoBody \in [s : 0..NStreams, left : Int, max : Nat] /\ NoBody.s = 0
      /\ 0 \notin Stream
  BY SizeAssumption DEF NoBody, Stream
<1>2. /\ 0 \notin tasks /\ \A i \in 1..Len(resp) : resp[i].s # 0
      /\ \A s \in Stream : Held(s, tasks, resp, NoBody) => Held(s, tasks, resp, body)
  <2>1. tasks \subseteq Stream /\ \A i \in 1..Len(resp) : resp[i].s \in Stream
    <3>1. tasks \subseteq Stream /\ resp \in Seq([s : Stream, len : Nat])
      BY DEF Good, AnswersOK
    <3>2. \A i \in 1..Len(resp) : resp[i] \in [s : Stream, len : Nat]
      BY <3>1, ElementOfSeq
    <3> QED
      BY <3>1, <3>2
  <2>2. \A s \in Stream : NoBody.s # s
    BY <1>1
  <2> QED
    BY <1>1, <2>1, <2>2 DEF Held
<1> QED
  BY <1>1, <1>2 DEF Good, AnswersOK

(* write_response. *)
LEMMA WriteResponseKeeps ==
  ASSUME ConnInv, WriteResponse
  PROVE  Kept
<1> DEFINE r == Head(resp)
<1>1. /\ resp # <<>> /\ resp' = Tail(resp) /\ tasks' = tasks /\ credit' = credit
      /\ Good(streams, conn, tasks, resp, body, credit) /\ conn \in ConnRec
  BY DEF WriteResponse, ConnInv, Good, MapOK
<1>2. r.s \in Stream /\ r.len \in Nat /\ conn.max \in Nat
  BY <1>1, TakeResponse DEF ConnRec
<1>3. CASE r.len > 0 /\ r.s \in Present
  <2>1. /\ body' = [s |-> r.s, left |-> r.len, max |-> conn.max] /\ pc' = "body"
        /\ streams' = streams /\ conn' = conn
    BY <1>3 DEF WriteResponse, Goto
  <2>2. AnswersOK(streams, conn, tasks, Tail(resp), body')
    BY <1>1, <1>2, <2>1, TakeResponse
  <2> QED
    BY <1>1, <2>1, <2>2 DEF Kept, Good, Places
<1>4. CASE ~(r.len > 0 /\ r.s \in Present)
  <2>1. /\ EndStream(r.s) /\ body' = body
        /\ conn' = [conn EXCEPT !.open = IF Closing(r.s) THEN Less(@) ELSE @]
    BY <1>4 DEF WriteResponse
  <2>2. Good(streams, conn, tasks, Tail(resp), body, credit)
    BY <1>1, TakeResponse DEF Good
  <2>3. streams[r.s].st \in {"none", "HalfClosedRemote"}
    BY <1>1, <1>2, TakeResponse, HeldEnded
  <2>4. Good(streams', conn', tasks, Tail(resp), body, credit) /\ pc' = "top"
    BY <1>2, <2>1, <2>2, <2>3, EndGood
  <2> QED
    BY <1>1, <2>1, <2>4 DEF Kept, Places
<1> QED
  BY <1>3, <1>4

(* The size of a DATA frame is one of the four limits and within each.     *)
LEMMA LeastOfFour ==
  ASSUME NEW a \in Int, NEW b \in Int, NEW c \in Int, NEW d \in Int
  PROVE  LET n == Least({a, b, c, d}) IN n \in Int /\ n <= a /\ n <= b /\ n <= c /\ n <= d
<1> DEFINE S == {a, b, c, d}
<1>1. \E n \in S : \A m \in S : n <= m
  <2>1. PICK p \in {a, b} : p <= a /\ p <= b
    OBVIOUS
  <2>2. PICK q \in {c, d} : q <= c /\ q <= d
    OBVIOUS
  <2>3. CASE p <= q
    BY <2>1, <2>2, <2>3
  <2>4. CASE q <= p
    BY <2>1, <2>2, <2>4
  <2> QED
    BY <2>1, <2>2, <2>3, <2>4
<1>2. Least(S) \in S /\ \A m \in S : Least(S) <= m
  BY <1>1 DEF Least
<1> QED
  BY <1>2

(* write_body's DATA frame is within what the client has granted.          *)
LEMMA FrameWithin ==
  ASSUME ConnInv, ~Blocked
  PROVE  LET n == Least({body.left, body.max, SendWindow, conn.send})
         IN /\ body.s \in Stream /\ streams[body.s].st # "none"
            /\ n \in Int /\ credit[0] >= n /\ credit[body.s] >= n
<1> DEFINE n == Least({body.left, body.max, SendWindow, conn.send})
<1>1. /\ body.left \in Int /\ body.max \in Int /\ conn.send \in Int /\ body.s \in 0..NStreams
      /\ streams \in [Stream -> StreamRec]
  BY DEF ConnInv, Good, MapOK, AnswersOK, ConnRec
<1>2. body.s \in Present
  BY DEF Blocked, SendWindow
<1>3. body.s \in Stream /\ streams[body.s].st # "none" /\ SendWindow = streams[body.s].sw
  BY <1>2 DEF Present, SendWindow
<1>4. streams[body.s].sw \in Int
  BY <1>1, <1>3 DEF StreamRec
<1>5. n \in Int /\ n <= SendWindow /\ n <= conn.send
  BY <1>1, <1>3, <1>4, LeastOfFour
<1> HIDE DEF n
<1>6. credit[0] >= conn.send /\ credit[body.s] >= SendWindow
  BY <1>3 DEF ConnInv, Good, CreditOK
<1>7. credit[0] \in Int /\ credit[body.s] \in Int
  <2>1. credit \in [0..NStreams -> Int] /\ 0 \in 0..NStreams
    BY SizeAssumption DEF ConnInv, Good, CreditOK
  <2> QED
    BY <1>1, <2>1
<1>8. n \in Int /\ credit[0] >= n /\ credit[body.s] >= n
  BY <1>1, <1>3, <1>4, <1>5, <1>6, <1>7
<1> QED
  BY <1>3, <1>8 DEF n

(* A stream with another window is a stream like it otherwise. *)
LEMMA Rewindowed ==
  ASSUME NEW r \in StreamRec, NEW w \in Int
  PROVE  LET q == [r EXCEPT !.sw = w]
         IN  /\ q \in StreamRec /\ q.disp = r.disp /\ q.sw = w
             /\ q.st = r.st /\ q.es = r.es
BY DEF StreamRec

(* What is sent is charged to the window and to the grant alike. *)
LEMMA ChargeGood ==
  ASSUME ConnInv, NEW n \in Int, NEW s \in Stream, streams[s].st # "none",
         credit' = [credit EXCEPT ![0] = @ - n, ![s] = @ - n]
  PROVE  /\ Good([streams EXCEPT ![s].sw = @ - n], [conn EXCEPT !.send = @ - n],
                 tasks, resp, body, credit')
         /\ Good(Retire(streams, s),
                 [conn EXCEPT !.send = @ - n,
                              !.open = IF streams[s] # None THEN Less(@) ELSE @],
                 tasks, resp, body, credit')
<1> DEFINE c == [conn EXCEPT !.send = @ - n]
           q == [streams[s] EXCEPT !.sw = @ - n]
           sts == [streams EXCEPT ![s].sw = @ - n]
<1>1. /\ Good(streams, conn, tasks, resp, body, credit) /\ streams \in [Stream -> StreamRec]
      /\ conn \in ConnRec /\ conn.send \in Int /\ conn.init \in Int /\ conn.last \in Int
      /\ streams[s] \in StreamRec /\ streams[s].sw \in Int
  BY DEF ConnInv, Good, MapOK, ConnRec, StreamRec
<1>2. /\ c \in ConnRec /\ c.send = conn.send - n /\ c.last = conn.last /\ c.open = conn.open
      /\ c.init = conn.init
  BY <1>1 DEF ConnRec
<1>3. Stream \subseteq 0..NStreams /\ 0 \in 0..NStreams /\ 0 \notin Stream
  BY SizeAssumption DEF Stream
<1>4. /\ credit \in [0..NStreams -> Int] /\ credit' \in [0..NStreams -> Int]
      /\ credit'[0] = credit[0] - n /\ credit'[s] = credit[s] - n
      /\ \A t \in Stream : t # s => credit'[t] = credit[t]
  BY <1>1, <1>3 DEF Good, CreditOK
<1>5. c.send <= credit'[0]
  BY <1>1, <1>2, <1>3, <1>4 DEF Good, CreditOK
<1> HIDE DEF c
<1>s. s <= conn.last
  BY <1>1 DEF Good, MapOK
<1>6. ASSUME NEW d \in ConnRec, NEW m, d.send = c.send, d.last = c.last, d.init = c.init,
             MapOK(m, d), AnswersOK(m, d, tasks, resp, body),
             m[s].st # "none" => m[s].sw <= credit'[s],
             \A t \in Stream : t # s => m[t] = streams[t]
      PROVE  Good(m, d, tasks, resp, body, credit')
  <2>1. ASSUME NEW t \in Stream
        PROVE  /\ m[t].st # "none" => credit'[t] >= m[t].sw
               /\ t > d.last => credit'[t] >= d.init
    <3>1. CASE t = s
      <4>1. /\ m[s].st # "none" => credit'[s] >= m[s].sw
            /\ ~(s > conn.last)
        BY <1>1, <1>3, <1>6, <1>s DEF Stream
      <4> QED
        BY <1>2, <1>6, <3>1, <4>1
    <3>2. CASE t # s
      BY <1>1, <1>2, <1>4, <1>6, <3>2 DEF Good, CreditOK
    <3> QED
      BY <3>1, <3>2
  <2>2. CreditOK(m, d, credit')
    BY <1>4, <1>5, <1>6, <2>1 DEF CreditOK
  <2> QED
    BY <1>6, <2>2 DEF Good
<1>7. Good(sts, c, tasks, resp, body, credit')
  <2>1. /\ q \in StreamRec /\ q.disp = streams[s].disp /\ q.sw = streams[s].sw - n
        /\ q.st = streams[s].st /\ q.es = streams[s].es
    <3>1. streams[s] \in StreamRec /\ streams[s].sw - n \in Int
      BY <1>1
    <3> QED
      BY <3>1, Rewindowed
  <2>2. /\ sts \in [Stream -> StreamRec] /\ sts[s] = q
        /\ \A t \in Stream : t # s => sts[t] = streams[t]
    BY <1>1, <2>1
  <2> HIDE DEF q, sts
  <2>3. Mapped(sts) = Mapped(streams)
    BY <2>1, <2>2 DEF Mapped
  <2>4. MapOK(sts, c) /\ AnswersOK(sts, c, tasks, resp, body)
    <3>1. \A t \in Stream : /\ sts[t].st = streams[t].st /\ sts[t].es = streams[t].es
                            /\ sts[t].disp = streams[t].disp
                            /\ streams[t].st = "none" => sts[t] = streams[t]
      BY <2>1, <2>2
    <3>2. /\ MapOK(streams, conn) /\ AnswersOK(streams, conn, tasks, resp, body)
          /\ c \in ConnRec /\ c.last = conn.last /\ c.open = conn.open
      BY <1>1, <1>2 DEF Good
    <3>3. \A t \in Stream : /\ sts[t].st = "none" => sts[t] = None
                            /\ sts[t].st # "none" => t <= c.last
                            /\ sts[t].st # "HalfClosedLocal"
                            /\ sts[t].es \/ sts[t].disp => sts[t].st = "HalfClosedRemote"
      BY <3>1, <3>2 DEF MapOK
    <3>4. MapOK(sts, c)
      BY <2>2, <2>3, <3>2, <3>3 DEF MapOK
    <3>5. \A t \in Stream : Held(t, tasks, resp, body) =>
                              t <= c.last /\ (sts[t].st # "none" => sts[t].disp)
      BY <3>1, <3>2 DEF AnswersOK
    <3>6. AnswersOK(sts, c, tasks, resp, body)
      BY <3>2, <3>5 DEF AnswersOK
    <3> QED
      BY <3>4, <3>6
  <2>5. sts[s].sw <= credit'[s]
    BY <1>1, <1>3, <1>4, <2>1, <2>2 DEF Good, CreditOK
  <2> QED
    BY <1>2, <1>6, <2>2, <2>4, <2>5
<1>8. Good(Retire(streams, s),
           [conn EXCEPT !.send = @ - n, !.open = IF streams[s] # None THEN Less(@) ELSE @],
           tasks, resp, body, credit')
  <2> DEFINE r == Retire(streams, s)
             d0 == [conn EXCEPT !.open = IF streams[s] # None THEN Less(@) ELSE @]
             d == [conn EXCEPT !.send = @ - n,
                               !.open = IF streams[s] # None THEN Less(@) ELSE @]
  <2>1. Good(r, d0, tasks, resp, body, credit)
    BY <1>1, RetireGood
  <2>2. d0 \in ConnRec
    BY <2>1 DEF Good, MapOK
  <2>3. /\ d \in ConnRec /\ d.send = conn.send - n /\ d.last = conn.last /\ d.init = conn.init
        /\ d.open = d0.open /\ d0.last = conn.last
    <3> DEFINE o == IF streams[s] # None THEN Less(conn.open) ELSE conn.open
    <3>1. d0.open = o /\ o \in 0..MaxConc
      BY <1>1, <2>2 DEF ConnRec
    <3>2. d = [conn EXCEPT !.send = @ - n, !.open = o]
      OBVIOUS
    <3>3. d0.last = conn.last
      BY <1>1 DEF ConnRec
    <3> DEFINE p == conn.send - n
    <3>4. p \in Int
      BY <1>1
    <3>5. d = [conn EXCEPT !.send = p, !.open = o]
      BY <3>2
    <3> HIDE DEF o, d, d0, p
    <3>6. /\ d \in ConnRec /\ d.send = p /\ d.last = conn.last /\ d.init = conn.init
          /\ d.open = o
      BY <1>1, <3>1, <3>4, <3>5 DEF ConnRec
    <3> QED
      BY <3>1, <3>3, <3>6 DEF p
  <2>4. r[s] = None /\ \A t \in Stream : t # s => r[t] = streams[t]
    BY <1>1 DEF Retire
  <2> HIDE DEF d, d0, r
  <2>5. MapOK(r, d) /\ AnswersOK(r, d, tasks, resp, body)
    BY <2>1, <2>3 DEF Good, MapOK, AnswersOK
  <2>6. r[s].st = "none"
    BY <2>4 DEF None
  <2>7. Good(r, d, tasks, resp, body, credit')
    BY <1>2, <1>6, <2>3, <2>4, <2>5, <2>6
  <2> QED
    BY <2>7 DEF r, d
<1> QED
  BY <1>7, <1>8 DEF c

(* write_body and its end. *)
LEMMA BodyKeeps ==
  ASSUME ConnInv, WriteBody \/ AbandonBody
  PROVE  Kept
<1>1. /\ Good(streams, conn, tasks, resp, body, credit) /\ conn \in ConnRec
      /\ streams \in [Stream -> StreamRec] /\ pc \in Places
  BY DEF ConnInv, Good, MapOK
<1>2. CASE WriteBody
  <2> DEFINE n == Least({body.left, body.max, SendWindow, conn.send})
             s == body.s
             c == [conn EXCEPT !.send = @ - n]
  <2>1. s \in Stream /\ streams[s].st # "none" /\ n \in Int
    BY <1>2, FrameWithin DEF WriteBody
  <2>2. /\ credit' = [credit EXCEPT ![0] = @ - n, ![s] = @ - n]
        /\ resp' = resp /\ tasks' = tasks
    BY <1>2 DEF WriteBody
  <2>3. CASE body.left > n
    <3>1. /\ body' = [body EXCEPT !.left = @ - n] /\ pc' = pc
          /\ streams' = [streams EXCEPT ![s].sw = @ - n] /\ conn' = c
      BY <1>2, <2>3 DEF WriteBody
    <3>2. Good(streams', conn', tasks, resp, body, credit')
      BY <2>1, <2>2, <3>1, ChargeGood
    <3> HIDE DEF n
    <3>3. body' \in [s : 0..NStreams, left : Int, max : Nat] /\ body'.s = body.s
      BY <1>1, <2>1, <3>1 DEF Good, AnswersOK
    <3>4. \A t \in Stream : Held(t, tasks, resp, body') => Held(t, tasks, resp, body)
      BY <3>3 DEF Held
    <3>5. AnswersOK(streams', conn', tasks, resp, body')
      BY <3>2, <3>3, <3>4 DEF Good, AnswersOK
    <3> QED
      BY <1>1, <2>2, <3>1, <3>2, <3>5 DEF Kept, Good
  <2>4. CASE ~(body.left > n)
    <3>1. body' = NoBody /\ EndStream(s)
      BY <1>2, <2>4 DEF WriteBody
    <3>2. conn' = [c EXCEPT !.open = IF Closing(s) THEN Less(@) ELSE @]
      BY <1>2, <2>4 DEF WriteBody
    <3>3. streams[s].st = "HalfClosedRemote"
      BY <1>1, <2>1, HeldEnded DEF Held
    <3>4. s \in Present /\ Closing(s) /\ streams[s] # None
      BY <2>1, <3>3 DEF Present, Closing, None
    <3>5. streams' = Retire(streams, s) /\ pc' = "top"
      BY <3>1, <3>3, <3>4 DEF EndStream, Goto
    <3>6. conn' = [conn EXCEPT !.send = @ - n,
                               !.open = IF streams[s] # None THEN Less(@) ELSE @]
      <4> HIDE DEF n
      <4>1. conn' = [c EXCEPT !.open = Less(@)] /\ c.open = conn.open
        BY <1>1, <3>2, <3>4 DEF ConnRec
      <4> QED
        BY <1>1, <3>4, <4>1 DEF ConnRec
    <3>7. Good(streams', conn', tasks, resp, body, credit')
      BY <2>1, <2>2, <3>5, <3>6, ChargeGood
    <3>8. Good(streams', conn', tasks, resp, NoBody, credit')
      BY <3>7, BodyDone
    <3> QED
      BY <2>2, <3>1, <3>5, <3>8 DEF Kept, Places
  <2> QED
    BY <2>3, <2>4
<1>3. CASE AbandonBody
  <2>1. /\ body' = NoBody /\ EndStream(body.s) /\ resp' = resp /\ tasks' = tasks
        /\ credit' = credit
        /\ conn' = [conn EXCEPT !.open = IF Closing(body.s) THEN Less(@) ELSE @]
    BY <1>3 DEF AbandonBody
  <2>2. Good(streams, conn, tasks, resp, NoBody, credit)
    BY <1>1, BodyDone
  <2>3. CASE body.s \in Stream
    <3>1. streams[body.s].st \in {"none", "HalfClosedRemote"}
      BY <1>1, <2>3, HeldEnded DEF Held
    <3>2. Good(streams', conn', tasks, resp, NoBody, credit) /\ pc' = "top"
      BY <2>1, <2>2, <2>3, <3>1, EndGood
    <3> QED
      BY <2>1, <3>2 DEF Kept, Places
  <2>4. CASE body.s \notin Stream
    <3>1. body.s \notin Present /\ ~Closing(body.s)
      BY <2>4 DEF Present, Closing
    <3>2. streams' = streams /\ pc' = "top"
      BY <2>1, <3>1 DEF EndStream, Goto
    <3>3. conn' = conn
      BY <1>1, <2>1, <3>1 DEF ConnRec
    <3> QED
      BY <2>1, <2>2, <3>2, <3>3 DEF Kept, Places
  <2> QED
    BY <2>3, <2>4
<1> QED
  BY <1>2, <1>3

(* An adapter's answer moves a stream from the tasks to the responses. *)
LEMMA AdapterKeeps ==
  ASSUME ConnInv, NEW s \in Stream, NEW len \in 0..profile.body, Adapter(s, len)
  PROVE  Kept
<1> DEFINE R == [s : Stream, len : Nat]
           x == [s |-> s, len |-> len]
<1>1. /\ Good(streams, conn, tasks, resp, body, credit) /\ pc \in Places
      /\ AnswersOK(streams, conn, tasks, resp, body) /\ resp \in Seq(R)
  BY DEF ConnInv, Good, AnswersOK
<1>2. /\ s \in tasks /\ tasks' = tasks \ {s} /\ resp' = Append(resp, x) /\ body' = body
      /\ UNCHANGED <<streams, conn, credit, pc>>
  BY DEF Adapter
<1>3. x \in R /\ x.s = s
  BY ProfileAssumption DEF ConnInv, ClientOK
<1> HIDE DEF x, R
<1>4. /\ resp' \in Seq(R) /\ Len(resp') = Len(resp) + 1 /\ Len(resp) \in Nat
      /\ resp'[Len(resp) + 1] = x
      /\ \A i \in 1..Len(resp) : resp'[i] = resp[i]
  BY <1>1, <1>2, <1>3, AppendProperties
<1>5. \A t \in Stream : Held(t, tasks', resp', body) => Held(t, tasks, resp, body)
  BY <1>2, <1>3, <1>4 DEF Held
<1>6. ASSUME NEW i \in 1..Len(resp')
      PROVE  /\ resp'[i].s \notin tasks' /\ resp'[i].s # body.s
             /\ \A j \in 1..Len(resp') : resp'[i].s = resp'[j].s => i = j
  <2>1. s # body.s /\ \A j \in 1..Len(resp) : resp[j].s # s
    BY <1>1, <1>2 DEF AnswersOK
  <2>2. CASE i = Len(resp) + 1
    BY <1>2, <1>3, <1>4, <2>1, <2>2
  <2>3. CASE i \in 1..Len(resp)
    <3>1. resp'[i] = resp[i] /\ resp[i].s # s
      BY <1>4, <2>1, <2>3
    <3>2. resp'[i].s \notin tasks' /\ resp'[i].s # body.s
      BY <1>1, <1>2, <2>3, <3>1 DEF AnswersOK
    <3>3. ASSUME NEW j \in 1..Len(resp'), resp'[i].s = resp'[j].s
          PROVE  i = j
      <4>1. j # Len(resp) + 1
        BY <1>3, <1>4, <3>1, <3>3
      <4>2. j \in 1..Len(resp) /\ resp'[j] = resp[j]
        BY <1>4, <4>1
      <4> QED
        BY <1>1, <2>3, <3>1, <3>3, <4>2 DEF AnswersOK
    <3> QED
      BY <3>2, <3>3
  <2> QED
    BY <1>4, <2>2, <2>3
<1>7. AnswersOK(streams, conn, tasks', resp', body)
  <2>1. body.s \notin tasks' /\ tasks' \subseteq Stream
    BY <1>1, <1>2 DEF AnswersOK
  <2>2. \A t \in Stream :
          Held(t, tasks', resp', body) => t <= conn.last /\ (streams[t].st # "none" => streams[t].disp)
    BY <1>1, <1>5 DEF AnswersOK
  <2>3. resp' \in Seq([s : Stream, len : Nat])
    BY <1>4 DEF R
  <2>4. body \in [s : 0..NStreams, left : Int, max : Nat]
    BY <1>1 DEF AnswersOK
  <2> QED
    BY <1>6, <2>1, <2>2, <2>3, <2>4 DEF AnswersOK
<1> QED
  BY <1>1, <1>2, <1>7 DEF Kept, Good

(* The client's frames name a stream where their type asks for one. *)
LEMMA ClientKeeps ==
  ASSUME ConnInv, Client \/ Granting
  PROVE  ConnInv'
<1>1. /\ wire \in Seq(GoodFrame) /\ enc \in Nat /\ Window \in Nat
      /\ Stream \subseteq 0..NStreams /\ 0 \notin Stream /\ MaxWindow \in Nat /\ 0 \in 0..NStreams
  BY SizeAssumption DEF ConnInv, ClientOK, Stream
<1>2. ASSUME NEW f \in GoodFrame, wire' = Append(wire, f), enc' \in Nat,
             UNCHANGED <<profile, inbuf, decoded, pc, streams, conn, tasks, resp, body, credit>>
      PROVE  ConnInv'
  BY <1>1, <1>2 DEF ConnInv, ClientOK
<1>3. ASSUME NEW f \in GoodFrame, Send(f), enc' \in Nat
      PROVE  ConnInv'
  BY <1>2, <1>3 DEF Send
<1>4. ASSUME NEW t \in FrameType, NEW s \in 0..NStreams, NEW es \in BOOLEAN, NEW eh \in BOOLEAN,
             NEW n \in Nat, s = 0 => t \notin {"HEADERS", "CONT", "DATA", "RST"}
      PROVE  F(t, s, es, eh, n) \in GoodFrame
  <2>1. F(t, s, es, eh, n) \in Frame
    BY DEF F, Frame
  <2>2. s # 0 => s \in Stream
    BY SizeAssumption DEF Stream
  <2> QED
    BY <1>4, <2>1, <2>2 DEF F, GoodFrame
<1>5. /\ TRUE \in BOOLEAN /\ FALSE \in BOOLEAN
      /\ {"HEADERS", "CONT", "DATA", "RST", "WU", "WINDOW", "SIZE", "GOAWAY", "BAD"} \subseteq FrameType
  BY DEF FrameType
<1>6. ASSUME NEW s \in Stream, NEW es \in BOOLEAN, NEW eh \in BOOLEAN, SendHeaders(s, es, eh)
      PROVE  ConnInv'
  <2>1. enc + 1 \in Nat /\ s # 0 /\ s \in 0..NStreams
    BY <1>1
  <2>2. F("HEADERS", s, es, eh, enc + 1) \in GoodFrame
    BY <1>4, <1>5, <2>1
  <2> QED
    BY <1>3, <1>6, <2>1, <2>2 DEF SendHeaders
<1>7. ASSUME NEW s \in Stream, NEW eh \in BOOLEAN, SendContinuation(s, eh)
      PROVE  ConnInv'
  <2>1. F("CONT", s, FALSE, eh, 0) \in GoodFrame
    BY <1>1, <1>4, <1>5
  <2> QED
    BY <1>1, <1>3, <1>7, <2>1 DEF SendContinuation
<1>8. ASSUME NEW s \in Stream, NEW es \in BOOLEAN, SendData(s, es)
      PROVE  ConnInv'
  <2>1. F("DATA", s, es, TRUE, 1) \in GoodFrame
    BY <1>1, <1>4, <1>5
  <2> QED
    BY <1>1, <1>3, <1>8, <2>1 DEF SendData
<1>9. ASSUME NEW s \in Stream, SendReset(s)
      PROVE  ConnInv'
  <2>1. F("RST", s, FALSE, TRUE, 0) \in GoodFrame
    BY <1>1, <1>4, <1>5
  <2> QED
    BY <1>1, <1>3, <1>9, <2>1 DEF SendReset
<1>10. ASSUME NEW t \in {"WU", "WINDOW", "SIZE", "GOAWAY", "BAD"}, NEW s \in 0..NStreams,
              NEW n \in Nat, SendOther(t, s, n)
       PROVE  ConnInv'
  <2>1. F(t, s, FALSE, TRUE, n) \in GoodFrame
    BY <1>4, <1>5
  <2> QED
    BY <1>1, <1>3, <1>10, <2>1 DEF SendOther
<1>11. CASE HangUp
  BY <1>11 DEF HangUp, ConnInv, ClientOK
<1>12. ASSUME NEW s \in 0..NStreams, Grant(s)
       PROVE  ConnInv'
  <2>1. F("WU", s, FALSE, TRUE, Window) \in GoodFrame
    BY <1>1, <1>4, <1>5
  <2> QED
    BY <1>1, <1>2, <1>12, <2>1 DEF Grant
<1>13. /\ \A n \in 0..(2 * Window) : n \in Nat
       /\ \A n \in 0..(MaxWindow + 1) : n \in Nat
       /\ \A n \in 0..2 : n \in Nat
  BY <1>1
<1>14. ASSUME \/ \E s \in 0..NStreams, n \in 0..(2 * Window) : SendOther("WU", s, n)
              \/ \E n \in 0..(MaxWindow + 1) : SendOther("WINDOW", 0, n)
              \/ \E n \in 0..2 : SendOther("SIZE", 0, n)
              \/ \E t \in {"GOAWAY", "BAD"} : SendOther(t, 0, 0)
       PROVE  ConnInv'
  BY <1>1, <1>10, <1>13, <1>14
<1> QED
  BY <1>6, <1>7, <1>8, <1>9, <1>11, <1>12, <1>14 DEF Client, Granting

(* Reading moves frames, handling takes one. *)
LEMMA ReadKeeps ==
  ASSUME ConnInv, NEW from, NEW to \in Places, Read(from, to)
  PROVE  ConnInv'
<1>1. PICK k \in 1..Len(wire) :
        /\ inbuf' = inbuf \o SubSeq(wire, 1, k)
        /\ wire' = SubSeq(wire, k + 1, Len(wire))
  BY DEF Read
<1>2. wire \in Seq(GoodFrame) /\ inbuf \in Seq(GoodFrame)
  BY DEF ConnInv, ClientOK
<1>3. SubSeq(wire, 1, k) \in Seq(GoodFrame) /\ SubSeq(wire, k + 1, Len(wire)) \in Seq(GoodFrame)
  BY <1>2, SubSeqProperties
<1>4. inbuf' \in Seq(GoodFrame) /\ wire' \in Seq(GoodFrame)
  BY <1>1, <1>2, <1>3, ConcatProperties
<1> QED
  BY <1>4 DEF ConnInv, ClientOK, Read, Idle, Goto

LEMMA HandlerKeeps ==
  ASSUME ConnInv, HandleFrame \/ Pump
  PROVE  ConnInv'
<1>1. /\ inbuf \in Seq(GoodFrame) /\ inbuf # <<>> /\ pc \in Places /\ decoded \in Nat
      /\ Good(streams, conn, tasks, resp, body, credit)
  BY DEF ConnInv, ClientOK, HandleFrame, Pump, FlowFrame
<1>2. Head(inbuf) \in GoodFrame /\ Tail(inbuf) \in Seq(GoodFrame)
  BY <1>1, HeadTailProperties
<1>3. UNCHANGED <<profile, wire, enc, body, resp>>
  BY DEF HandleFrame, Pump, client
<1>4. CASE inbuf' = Tail(inbuf) /\ Dispatch(Head(inbuf))
  <2>1. Kept /\ decoded' \in Nat
    BY <1>2, <1>3, <1>4, DispatchKeeps
  <2> QED
    BY <1>2, <1>3, <1>4, <2>1 DEF ConnInv, ClientOK, Kept
<1>5. CASE ConnError(streams, conn) /\ UNCHANGED <<inbuf, decoded, credit>>
  <2>1. Kept
    BY <1>1, <1>3, <1>5, ConnErrorKeeps
  <2> QED
    BY <1>1, <1>3, <1>5, <2>1 DEF ConnInv, ClientOK, Kept
<1> QED
  BY <1>4, <1>5 DEF HandleFrame, Pump

(* The server's steps. *)
LEMMA ServerKeeps ==
  ASSUME ConnInv, Server
  PROVE  ConnInv'
<1>1. CASE Top \/ FramesDone \/ PeerClosed \/ PumpDone
  <2>1. pc' \in Places /\ UNCHANGED <<client, inbuf, streams, conn, body, tasks, resp, decoded, credit>>
    BY <1>1 DEF Top, FramesDone, PeerClosed, PumpDone, Goto, Places, Idle
  <2> QED
    BY <2>1 DEF ConnInv, ClientOK, client
<1>2. CASE HandleFrame \/ Pump
  BY <1>2, HandlerKeeps
<1>3. CASE Read("select", "top") \/ Read("body", "pump")
  BY <1>3, ReadKeeps DEF Places
<1>4. CASE WriteResponse \/ WriteBody \/ AbandonBody
  <2>1. Kept
    BY <1>4, WriteResponseKeeps, BodyKeeps
  <2>2. UNCHANGED <<client, inbuf, decoded>>
    BY <1>4 DEF WriteResponse, WriteBody, AbandonBody
  <2> QED
    BY <2>1, <2>2 DEF ConnInv, ClientOK, Kept, client
<1> QED
  BY <1>1, <1>2, <1>3, <1>4 DEF Server

LEMMA ConnNext == ConnInv /\ [Next]_vars => ConnInv'
<1> SUFFICES ASSUME ConnInv, [Next]_vars PROVE ConnInv'
  OBVIOUS
<1>1. CASE Client \/ Granting
  BY <1>1, ClientKeeps
<1>2. CASE Server
  BY <1>2, ServerKeeps
<1>3. CASE Answering
  <2>1. PICK s \in Stream, len \in 0..profile.body : Adapter(s, len)
    BY <1>3 DEF Answering
  <2>2. Kept
    BY <2>1, AdapterKeeps
  <2> QED
    BY <2>1, <2>2 DEF Adapter, ConnInv, ClientOK, Kept, client
<1>4. CASE UNCHANGED vars
  BY <1>4 DEF vars, client, ConnInv, ClientOK
<1> QED
  BY <1>1, <1>2, <1>3, <1>4 DEF Next

LEMMA ConnInit == Init => ConnInv
<1> SUFFICES ASSUME Init PROVE ConnInv
  OBVIOUS
<1>1. /\ streams \in [Stream -> StreamRec] /\ \A s \in Stream : streams[s] = None
  BY DEF Init, None, StreamRec
<1>2. Mapped(streams) = {}
  BY <1>1 DEF Mapped, None
<1>3. conn \in ConnRec /\ conn.open = 0 /\ conn.last = 0 /\ conn.send = Window /\ conn.init = Window
  BY SizeAssumption DEF Init, ConnRec
<1>4. MapOK(streams, conn)
  BY <1>1, <1>2, <1>3, FS_EmptySet DEF MapOK, None
<1>5. body = NoBody /\ body.s = 0 /\ 0 \notin Stream /\ tasks = {} /\ resp = <<>> /\ Len(resp) = 0
  BY SizeAssumption DEF Init, NoBody, Stream
<1>6. AnswersOK(streams, conn, tasks, resp, body)
  <2>1. body \in [s : 0..NStreams, left : Int, max : Nat]
    BY <1>5, SizeAssumption DEF NoBody
  <2>2. \A s \in Stream : ~Held(s, tasks, resp, body)
    BY <1>5 DEF Held
  <2> QED
    BY <1>5, <2>1, <2>2 DEF AnswersOK
<1>7. CreditOK(streams, conn, credit)
  <2>1. credit = [s \in 0..NStreams |-> Window] /\ Window \in Int /\ Window >= 0
        /\ Stream \subseteq 0..NStreams /\ 0 \in 0..NStreams
    BY SizeAssumption DEF Init, Stream
  <2> QED
    BY <1>1, <1>3, <2>1 DEF CreditOK, None
<1>8. ClientOK /\ pc \in Places
  BY DEF Init, ClientOK, Places
<1> QED
  BY <1>4, <1>6, <1>7, <1>8 DEF ConnInv, Good

(* At every moment of every connection. *)
LEMMA ConnAlways == Spec => []ConnInv
<1>1. Init => ConnInv
  BY ConnInit
<1>2. ConnInv /\ [Next]_vars => ConnInv'
  BY ConnNext
<1> QED
  BY <1>1, <1>2, PTL DEF Spec

(***************************************************************************)
(* The theorems.                                                           *)
(***************************************************************************)

(* Whatever frames arrive, the connection's windows, counters and stream   *)
(* records stay in range (http2_conn.rs, on_data and handle_protocol_error *)
(* in particular): the receive window is never overdrawn.                  *)
THEOREM ConnTypes == Spec => []TypeOK
<1>1. ConnInv => TypeOK
  <2> SUFFICES ASSUME ConnInv PROVE TypeOK
    OBVIOUS
  <2>1. wire \in Seq(Frame) /\ inbuf \in Seq(Frame)
    <3>1. GoodFrame \subseteq Frame
      BY DEF GoodFrame
    <3> QED
      BY <3>1, SeqMonotonic DEF ConnInv, ClientOK
  <2>2. streams \in [Stream -> StreamRec] /\ conn \in ConnRec
    BY DEF ConnInv, Good, MapOK
  <2>3. tasks \subseteq Stream /\ body.s \in 0..NStreams
    BY DEF ConnInv, Good, AnswersOK
  <2>4. /\ conn.send \in Int /\ conn.recv \in 0..Window /\ conn.last \in 0..NStreams
        /\ conn.open \in 0..MaxConc /\ conn.going \in BOOLEAN
    BY <2>2 DEF ConnRec
  <2>5. pc \in Places
    BY DEF ConnInv
  <2> QED
    BY <2>1, <2>2, <2>3, <2>4, <2>5 DEF TypeOK, StreamRec, Places
<1> QED
  BY <1>1, ConnAlways, PTL

(* open_stream_count, kept by hand over opens, refusals, resets, errors    *)
(* and responses, is the number of streams in the map, and never passes    *)
(* max_concurrent_streams.                                                 *)
THEOREM CountExact == Spec => []OpenCount
<1>1. ConnInv => OpenCount
  <2> SUFFICES ASSUME ConnInv PROVE OpenCount
    OBVIOUS
  <2>1. conn.open = Cardinality(Mapped(streams)) /\ conn.open \in 0..MaxConc
    BY DEF ConnInv, Good, MapOK, ConnRec
  <2>2. Mapped(streams) = Present
    BY DEF Mapped, Present
  <2> QED
    BY <2>1, <2>2, SizeAssumption DEF OpenCount
<1> QED
  BY <1>1, ConnAlways, PTL

(* A request goes to its adapter once and is answered once (try_dispatch,  *)
(* write_response), through trailers, continuations and resets; and the    *)
(* server never ends its half of a stream first.                           *)
THEOREM AnsweredOnce == Spec => []OneAnswer
<1>1. ConnInv => OneAnswer
  <2> SUFFICES ASSUME ConnInv PROVE OneAnswer
    OBVIOUS
  <2>1. \A s \in Stream : streams[s].st # "HalfClosedLocal"
    BY DEF ConnInv, Good, MapOK
  <2>2. ASSUME NEW s \in Stream
        PROVE  Cardinality({i \in 1..Len(resp) : resp[i].s = s})
                 + (IF s \in tasks THEN 1 ELSE 0) + (IF body.s = s THEN 1 ELSE 0) <= 1
    <3> DEFINE I == {i \in 1..Len(resp) : resp[i].s = s}
    <3>1. AnswersOK(streams, conn, tasks, resp, body)
      BY DEF ConnInv, Good
    <3>2. ~(s \in tasks /\ body.s = s)
      BY <3>1 DEF AnswersOK
    <3>3. CASE I = {}
      <4>1. Cardinality(I) = 0
        BY <3>3, FS_EmptySet
      <4> QED
        BY <3>2, <4>1
    <3>4. CASE I # {}
      <4>1. PICK i \in 1..Len(resp) : resp[i].s = s
        BY <3>4
      <4>2. I = {i} /\ s \notin tasks /\ body.s # s
        BY <3>1, <4>1 DEF AnswersOK
      <4>3. Cardinality(I) = 1
        BY <4>2, FS_Singleton
      <4> QED
        BY <4>2, <4>3
    <3> QED
      BY <3>3, <3>4
  <2> QED
    BY <2>1, <2>2 DEF OneAnswer
<1> QED
  BY <1>1, ConnAlways, PTL

(* write_body never sends a byte the client has not granted to the stream  *)
(* and to the connection, whatever changes of the initial window, resets,  *)
(* overflows and dropped errors came before.                               *)
THEOREM NeverBeyondCredit == Spec => WithinCredit
<1> DEFINE A == pc = "body" /\ conn'.send < conn.send
                 => LET n == conn.send - conn'.send
                    IN credit[0] >= n /\ credit[body.s] >= n
<1>1. ConnInv /\ [Next]_vars => [A]_vars
  <2> SUFFICES ASSUME ConnInv, Next, pc = "body", conn'.send < conn.send
               PROVE  A
    OBVIOUS
  <2>1. conn \in ConnRec /\ conn.send \in Int /\ ~(conn.send < conn.send)
    BY DEF ConnInv, Good, MapOK, ConnRec
  <2>2. conn' # conn
    BY <2>1
  <2>3. CASE WriteBody
    <3> DEFINE n == Least({body.left, body.max, SendWindow, conn.send})
    <3>1. n \in Int /\ credit[0] >= n /\ credit[body.s] >= n
      BY <2>3, FrameWithin DEF WriteBody
    <3>2. conn'.send = conn.send - n
      BY <2>1, <2>3 DEF WriteBody, ConnRec
    <3> HIDE DEF n
    <3>3. conn.send - conn'.send = n
      BY <2>1, <3>1, <3>2
    <3> QED
      BY <3>1, <3>3
  <2>4. CASE AbandonBody
    <3>1. conn'.send = conn.send
      BY <2>1, <2>4 DEF AbandonBody, ConnRec
    <3> QED
      BY <2>1, <3>1
  <2>5. CASE Client \/ Granting \/ Answering
    <3>1. conn' = conn
      BY <2>5 DEF Client, Granting, Answering, SendData, SendContinuation, SendHeaders, SendReset,
         SendOther, Send, HangUp, Grant, Adapter
    <3> QED
      BY <2>2, <3>1
  <2>6. CASE Read("body", "pump")
    BY <2>2, <2>6 DEF Read, Idle
  <2> QED
    BY <2>3, <2>4, <2>5, <2>6 DEF Next, Server, Top, HandleFrame, FramesDone, PeerClosed, Read,
       WriteResponse, Pump, PumpDone
<1> QED
  BY <1>1, ConnAlways, PTL DEF Spec, WithinCredit
=============================================================================
