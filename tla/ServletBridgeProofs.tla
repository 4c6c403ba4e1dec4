------------------------- MODULE ServletBridgeProofs -------------------------
(***************************************************************************)
(* The JVM side is sound: requests through the pool of attached workers    *)
(* (ServletBridge), for every set of requests and workers, any number of   *)
(* panics and native calls and bodies of any length; and the start of a    *)
(* web application (WebappStart), for every web.xml file, every list of    *)
(* initializers and any number of failures.                                *)
(*                                                                         *)
(* A request is in the pool only while its dispatch waits, in the queue or *)
(* at one worker, so that no job's end reaches back to an answered request;*)
(* and once its dispatch has read the sink, the sink is committed, so that *)
(* no thread the servlet left behind changes its status.                   *)
(*                                                                         *)
(* What a starting webapp has published is initialised or is still in the  *)
(* list of what the deployer is about to initialise, and the context it is *)
(* looked up through is the newest one of the path.                        *)
(***************************************************************************)
EXTENDS ServletBridge, WebappStart, SequenceTheorems, TLAPS

(* A body is a number of bytes; a worker's state is never mistaken for a   *)
(* request.                                                                *)
Sane == BodyLen \in Nat /\ {"idle", "gone"} \cap Requests = {}

-----------------------------------------------------------------------------
(* The types. *)

Places == {"new", "send", "wait", "complete", "fail", "failHeader", "failBody",
           "failCommit", "drop", "dropResponse", "read", "done"}
\* Names and values of headers, and what a body is written of.
Words == {"servlet", "left", "h", "Content-Type", "fallback"}
ResponseState == [status : Int, headers : Seq(Words \X Words), body : Seq(Words),
                  committed : BOOLEAN]

BridgeTypes ==
  /\ task \in [Requests -> Places]
  /\ jobs \in Seq(Requests)
  /\ pool \in [Workers -> Requests \cup {"idle", "gone"}]
  /\ requests \subseteq Requests /\ responses \subseteq Requests
  /\ sink \in [Requests -> ResponseState]
  /\ position \in [Requests -> 0..BodyLen]
  /\ given \in [Requests -> Seq(Nat)]
  /\ result \in [Requests -> Int]
  /\ wire \in [Requests -> ResponseState]

-----------------------------------------------------------------------------
(* The inductive invariant. *)

(* A request in the pool waits, and is there once: in the queue, or at one *)
(* worker.                                                                 *)
Pooled ==
  /\ \A i \in DOMAIN jobs : task[jobs[i]] = "wait"
  /\ \A i, j \in DOMAIN jobs : jobs[i] = jobs[j] => i = j
  /\ \A w \in Workers : pool[w] \in Requests => task[pool[w]] = "wait"
  /\ \A v, w \in Workers : (pool[v] \in Requests /\ pool[v] = pool[w]) => v = w
  /\ \A w \in Workers, i \in DOMAIN jobs : pool[w] # jobs[i]

(* A committed response has a status, and a dispatch that has reported one *)
(* has committed it.                                                       *)
Reported == {"drop", "dropResponse", "read", "done"}
Committed ==
  \A r \in Requests :
    /\ sink[r].committed => sink[r].status # 0
    /\ task[r] \in Reported => sink[r].committed /\ result[r] = sink[r].status
    /\ task[r] = "done" => wire[r].status = sink[r].status

Dropped ==
  \A r \in Requests :
    /\ task[r] \in {"dropResponse", "read", "done"} => r \notin requests
    /\ task[r] \in {"read", "done"} => r \notin responses

(* The bytes given lie before the cursor, in order. *)
Ordered ==
  \A r \in Requests :
    /\ \A i \in DOMAIN given[r] : given[r][i] \in 1..position[r]
    /\ \A i, j \in DOMAIN given[r] : i < j => given[r][i] < given[r][j]

BridgeInv == BridgeTypes /\ Pooled /\ Committed /\ Dropped /\ Ordered

-----------------------------------------------------------------------------
(* The operations on a response: one that is committed stays committed, and*)
(* keeps its status.                                                       *)

Kept(s, u) ==
  /\ u \in ResponseState
  /\ (s.committed => s.status # 0)
       => /\ s.committed => u.committed /\ u.status = s.status
          /\ u.committed => u.status # 0

LEMMA StatusKept ==
  ASSUME NEW s \in ResponseState, NEW status \in Int
  PROVE  Kept(s, SetStatus(s, status))
BY DEF Kept, SetStatus, ResponseState

LEMMA HeadersKept ==
  ASSUME NEW s \in ResponseState, NEW h \in Seq(Words \X Words)
  PROVE  Kept(s, [s EXCEPT !.headers = h])
BY DEF Kept, ResponseState

LEMMA HeaderSet ==
  ASSUME NEW s \in ResponseState, NEW name \in Words, NEW value \in Words
  PROVE  Kept(s, SetHeader(s, name, value))
<1> DEFINE at == {i \in DOMAIN s.headers : s.headers[i][1] = name}
           i == CHOOSE i \in at : \A j \in at : i <= j
           line == <<name, value>>
<1>1. s.headers \in Seq(Words \X Words) /\ line \in Words \X Words
  BY DEF ResponseState
<1>2. Append(s.headers, line) \in Seq(Words \X Words)
  BY <1>1, AppendProperties
<1>3. [s.headers EXCEPT ![i] = line] \in Seq(Words \X Words)
  <2> HIDE DEF i, line
  <2>1. CASE i \in 1..Len(s.headers)
    BY <1>1, <2>1, ExceptSeq
  <2>2. CASE i \notin 1..Len(s.headers)
    <3>1. i \notin DOMAIN s.headers
      BY <1>1, <2>2
    <3>2. s.headers = [j \in DOMAIN s.headers |-> s.headers[j]]
      BY <1>1
    <3>3. [s.headers EXCEPT ![i] = line] = s.headers
      BY <3>1, <3>2
    <3> QED BY <3>3, <1>1
  <2> QED BY <2>1, <2>2
<1>4. CASE s.committed
  BY <1>4 DEF SetHeader, Kept
<1>5. CASE ~s.committed /\ at = {}
  <2>1. SetHeader(s, name, value) = [s EXCEPT !.headers = Append(s.headers, line)]
    BY <1>5 DEF SetHeader
  <2> QED BY <2>1, <1>2, HeadersKept
<1>6. CASE ~s.committed /\ at # {}
  <2>1. SetHeader(s, name, value)
          = [s EXCEPT !.headers = [s.headers EXCEPT ![i] = line]]
    BY <1>6 DEF SetHeader
  <2> QED BY <2>1, <1>3, HeadersKept
<1> QED BY <1>4, <1>5, <1>6

LEMMA HeaderAdded ==
  ASSUME NEW s \in ResponseState, NEW name \in Words, NEW value \in Words
  PROVE  Kept(s, AddHeader(s, name, value))
<1>1. s.headers \in Seq(Words \X Words) /\ <<name, value>> \in Words \X Words
  BY DEF ResponseState
<1>2. Append(s.headers, <<name, value>>) \in Seq(Words \X Words)
  BY <1>1, AppendProperties
<1>3. CASE s.committed
  BY <1>3 DEF AddHeader, Kept
<1>4. CASE ~s.committed
  <2>1. AddHeader(s, name, value)
          = [s EXCEPT !.headers = Append(s.headers, <<name, value>>)]
    BY <1>4 DEF AddHeader
  <2> QED BY <2>1, <1>2, HeadersKept
<1> QED BY <1>3, <1>4

LEMMA BodyWritten ==
  ASSUME NEW s \in ResponseState, NEW bytes \in Seq(Words)
  PROVE  Kept(s, WriteBody(s, bytes))
<1>1. s.body \o bytes \in Seq(Words)
  BY ConcatProperties DEF ResponseState
<1> QED BY <1>1 DEF WriteBody, Kept, ResponseState

LEMMA CommitKept ==
  ASSUME NEW s \in ResponseState
  PROVE  /\ Kept(s, Commit(s))
         /\ Commit(s).committed /\ EffectiveStatus(Commit(s)) = Commit(s).status
<1> DEFINE status == IF s.status = 0 THEN 200 ELSE s.status
           u == Commit(s)
<1>1. status \in Int /\ status # 0 /\ (s.status # 0 => status = s.status)
  BY DEF ResponseState
<1>2. u = [s EXCEPT !.committed = TRUE, !.status = status]
  BY DEF Commit, DEFAULT_STATUS, ResponseState
<1> HIDE DEF status, u
<1>3. u \in ResponseState /\ u.committed = TRUE /\ u.status = status
  BY <1>1, <1>2 DEF ResponseState
<1>4. Kept(s, u)
  <2>1. u.status # 0 /\ (s.status # 0 => u.status = s.status)
    BY <1>1, <1>3
  <2> QED
    BY <1>3, <2>1 DEF Kept
<1>5. EffectiveStatus(u) = u.status
  BY <1>1, <1>3 DEF EffectiveStatus
<1> QED BY <1>3, <1>4, <1>5 DEF u

-----------------------------------------------------------------------------
(* Where a request is. *)

LEMMA MovesKeepPool ==
  ASSUME BridgeTypes, Pooled, NEW r \in Requests, NEW place \in Places \ {"wait"},
         task[r] # "wait", Goes(r, place), UNCHANGED <<jobs, pool>>
  PROVE  Pooled' /\ task' \in [Requests -> Places]
<1>1. task' \in [Requests -> Places]
  BY DEF Goes, BridgeTypes
<1>2. \A q \in Requests : task[q] = "wait" => task'[q] = "wait"
  BY DEF Goes, BridgeTypes
<1>3. \A i \in DOMAIN jobs : jobs[i] \in Requests
  BY DEF BridgeTypes
<1> QED BY <1>1, <1>2, <1>3 DEF Pooled

(* A native, or a dispatch that has not reported yet, works on the sink.   *)
LEMMA SinkWork ==
  ASSUME BridgeInv, NEW r \in Requests, NEW u, Kept(sink[r], u),
         sink' = [sink EXCEPT ![r] = u],
         UNCHANGED <<task, jobs, pool, requests, responses, position, given, result, wire>>
  PROVE  BridgeInv'
<1> USE DEF BridgeInv
<1>1. u \in ResponseState
  BY DEF Kept
<1>2. BridgeTypes'
  BY <1>1 DEF BridgeTypes
<1>3. Pooled' /\ Dropped' /\ Ordered'
  BY DEF Pooled, Dropped, Ordered
<1>4. Committed'
  <2> SUFFICES ASSUME NEW q \in Requests
               PROVE  /\ sink'[q].committed => sink'[q].status # 0
                      /\ task'[q] \in Reported
                           => sink'[q].committed /\ result'[q] = sink'[q].status
                      /\ task'[q] = "done" => wire'[q].status = sink'[q].status
    BY DEF Committed
  <2>1. task'[q] = task[q] /\ result'[q] = result[q] /\ wire'[q] = wire[q]
    OBVIOUS
  <2>2. CASE q = r
    <3>1. sink'[q] = u
      BY <2>2 DEF BridgeTypes
    <3>2. /\ sink[r].committed => u.committed /\ u.status = sink[r].status
          /\ u.committed => u.status # 0
      BY DEF Kept, Committed
    <3>3. task[r] = "done" => task[r] \in Reported
      BY DEF Reported
    <3> QED BY <2>1, <2>2, <3>1, <3>2, <3>3 DEF Committed
  <2>3. CASE q # r
    <3>1. sink'[q] = sink[q]
      BY <2>3 DEF BridgeTypes
    <3> QED BY <2>1, <3>1 DEF Committed
  <2> QED BY <2>2, <2>3
<1> QED BY <1>2, <1>3, <1>4

LEMMA DispatchWork ==
  ASSUME BridgeInv, NEW r \in Requests, NEW u, Kept(sink[r], u),
         NEW place \in {"failHeader", "failBody", "failCommit", "drop"},
         task[r] \in {"complete", "fail", "failHeader", "failBody", "failCommit"},
         Goes(r, place), sink' = [sink EXCEPT ![r] = u],
         IF place = "drop" THEN u.committed /\ result' = [result EXCEPT ![r] = u.status]
                           ELSE result' = result,
         UNCHANGED <<jobs, pool, requests, responses, position, given, wire>>
  PROVE  BridgeInv'
<1> USE DEF BridgeInv
<1>1. u \in ResponseState /\ u.status \in Int
  BY DEF Kept, ResponseState
<1>2. Pooled' /\ task' \in [Requests -> Places]
  BY MovesKeepPool DEF Places
<1>3. task'[r] = place /\ \A q \in Requests : q # r => task'[q] = task[q]
  BY DEF Goes, BridgeTypes
<1>4. result' \in [Requests -> Int]
  BY <1>1 DEF BridgeTypes
<1>5. BridgeTypes'
  BY <1>1, <1>2, <1>4 DEF BridgeTypes
<1>6. Dropped' /\ Ordered'
  BY <1>3 DEF Dropped, Ordered
<1>7. Committed'
  <2> SUFFICES ASSUME NEW q \in Requests
               PROVE  /\ sink'[q].committed => sink'[q].status # 0
                      /\ task'[q] \in Reported
                           => sink'[q].committed /\ result'[q] = sink'[q].status
                      /\ task'[q] = "done" => wire'[q].status = sink'[q].status
    BY DEF Committed
  <2>1. CASE q = r
    <3>1. sink'[q] = u /\ task'[q] # "done" /\ (task'[q] \in Reported => place = "drop")
      BY <1>3, <2>1 DEF BridgeTypes, Reported
    <3>2. u.committed => u.status # 0
      BY DEF Kept, Committed
    <3>3. place = "drop" => u.committed /\ result'[q] = u.status
      BY <2>1 DEF BridgeTypes
    <3> QED BY <3>1, <3>2, <3>3
  <2>2. CASE q # r
    <3>1. sink'[q] = sink[q] /\ task'[q] = task[q] /\ result'[q] = result[q]
      BY <1>3, <2>2 DEF BridgeTypes
    <3> QED BY <3>1 DEF Committed
  <2> QED BY <2>1, <2>2
<1> QED BY <1>2, <1>5, <1>6, <1>7

-----------------------------------------------------------------------------
(* The natives. *)

LEMMA ReadingKeeps ==
  ASSUME Sane, BridgeInv, NEW r \in Requests, NEW t \in Threads, NativeReadBody(r, t)
  PROVE  BridgeInv'
<1> USE DEF BridgeInv
<1> DEFINE p == position[r]
           end == ReadBody(p, 1).position
           bytes == ReadBody(p, 1).bytes
<1>1. p \in Nat /\ p <= BodyLen /\ BodyLen \in Nat
  BY DEF BridgeTypes, Sane
<1>2. /\ end = IF p + 1 < BodyLen THEN p + 1 ELSE BodyLen
      /\ bytes = [i \in 1..(end - p) |-> p + i]
  BY DEF ReadBody
<1>3. end \in 0..BodyLen /\ end >= p
  BY <1>1, <1>2
<1>4. bytes \in Seq(Nat) /\ Len(bytes) = end - p
      /\ \A i \in 1..(end - p) : bytes[i] = p + i
  <2>1. end - p \in Nat /\ \A i \in 1..(end - p) : p + i \in Nat
    BY <1>1, <1>3
  <2> HIDE DEF p, end, bytes
  <2> QED BY <2>1, <1>2
<1>5. /\ position' = [position EXCEPT ![r] = end]
      /\ \/ given' = [given EXCEPT ![r] = given[r] \o bytes]
         \/ given' = given
      /\ UNCHANGED <<task, jobs, pool, requests, responses, sink, result, wire>>
  BY DEF NativeReadBody, poolVars, BridgeTypes
<1> HIDE DEF p, end, bytes
<1>6. given[r] \in Seq(Nat)
  BY DEF BridgeTypes
<1> DEFINE both == given[r] \o bytes
<1>7. /\ both \in Seq(Nat) /\ Len(both) = Len(given[r]) + (end - p)
      /\ \A i \in DOMAIN both :
           both[i] = IF i <= Len(given[r]) THEN given[r][i] ELSE bytes[i - Len(given[r])]
  <2>1. /\ both \in Seq(Nat) /\ Len(both) = Len(given[r]) + Len(bytes)
        /\ \A i \in 1..(Len(given[r]) + Len(bytes)) :
             both[i] = IF i <= Len(given[r]) THEN given[r][i] ELSE bytes[i - Len(given[r])]
    BY <1>4, <1>6, ConcatProperties
  <2> HIDE DEF both
  <2>2. DOMAIN both = 1..Len(both)
    BY <2>1
  <2> QED BY <2>1, <2>2, <1>4
<1>8. \A i \in DOMAIN given[r] : given[r][i] \in 1..p
  BY DEF Ordered, p
<1>9. /\ \A i \in DOMAIN both : both[i] \in 1..end
      /\ \A i, j \in DOMAIN both : i < j => both[i] < both[j]
  <2> DEFINE n == Len(given[r])
  <2>1. n \in Nat /\ DOMAIN given[r] = 1..n /\ DOMAIN both = 1..(n + (end - p))
    BY <1>6, <1>7
  <2>2. \A i \in 1..n : both[i] = given[r][i] /\ both[i] \in Int /\ both[i] >= 1 /\ both[i] <= p
    <3> HIDE DEF both
    <3> SUFFICES ASSUME NEW i \in 1..n
                 PROVE  both[i] = given[r][i] /\ both[i] \in Int /\ both[i] >= 1
                        /\ both[i] <= p
      OBVIOUS
    <3>1. i \in DOMAIN both /\ i <= n /\ i \in DOMAIN given[r]
      BY <1>3, <1>1, <2>1
    <3>2. both[i] = given[r][i]
      BY <3>1, <1>7
    <3>3. given[r][i] \in 1..p
      BY <3>1, <1>8
    <3> QED BY <3>2, <3>3, <1>1
  <2>3. \A i \in 1..(n + (end - p)) : i > n => both[i] = p + (i - n)
    <3> HIDE DEF both
    <3> SUFFICES ASSUME NEW i \in 1..(n + (end - p)), i > n
                 PROVE  both[i] = p + (i - n)
      OBVIOUS
    <3>1. end \in Int /\ p \in Int /\ i \in Int /\ ~(i <= n)
      BY <1>1, <1>3, <2>1
    <3>2. i \in DOMAIN both /\ i - n \in 1..(end - p)
      BY <2>1, <3>1
    <3>3. both[i] = bytes[i - n]
      BY <1>7, <3>1, <3>2
    <3>4. bytes[i - n] = p + (i - n)
      BY <1>4, <3>2
    <3> QED BY <3>3, <3>4
  <2>4. \A i, j \in 1..n : i < j => given[r][i] < given[r][j]
    BY <2>1 DEF Ordered
  <2> HIDE DEF n, both
  <2>5. \A i \in 1..(n + (end - p)) : both[i] \in Int /\ both[i] >= 1 /\ both[i] <= end
    <3> TAKE i \in 1..(n + (end - p))
    <3>1. CASE i <= n
      BY <3>1, <2>1, <2>2, <1>1, <1>3
    <3>2. CASE i > n
      BY <3>2, <2>1, <2>3, <1>1, <1>3
    <3> QED BY <3>1, <3>2, <2>1, <1>1, <1>3
  <2>6. ASSUME NEW i \in 1..(n + (end - p)), NEW j \in 1..(n + (end - p)), i < j
        PROVE  both[i] < both[j]
    <3>1. CASE j <= n
      BY <3>1, <2>1, <2>2, <2>4, <2>6, <1>1, <1>3
    <3>2. CASE i <= n /\ j > n
      BY <3>2, <2>1, <2>2, <2>3, <1>1, <1>3
    <3>3. CASE i > n
      BY <3>3, <2>6, <2>1, <2>3, <1>1, <1>3
    <3> QED BY <3>1, <3>2, <3>3, <2>1, <1>1, <1>3
  <2> QED BY <2>1, <2>5, <2>6, <1>1, <1>3
<1>10. BridgeTypes'
  <2>1. position' \in [Requests -> 0..BodyLen]
    BY <1>3, <1>5 DEF BridgeTypes
  <2>2. given' \in [Requests -> Seq(Nat)]
    BY <1>5, <1>7 DEF BridgeTypes
  <2> QED BY <1>5, <2>1, <2>2 DEF BridgeTypes
<1>11. Ordered'
  <2> SUFFICES ASSUME NEW q \in Requests
               PROVE  /\ \A i \in DOMAIN given'[q] : given'[q][i] \in 1..position'[q]
                      /\ \A i, j \in DOMAIN given'[q] : i < j => given'[q][i] < given'[q][j]
    BY DEF Ordered
  <2>1. CASE q # r
    <3>1. given'[q] = given[q] /\ position'[q] = position[q]
      BY <2>1, <1>5 DEF BridgeTypes
    <3> QED BY <3>1 DEF Ordered
  <2>2. CASE q = r
    <3>1. position'[q] = end
      BY <2>2, <1>5 DEF BridgeTypes
    <3>2. CASE given' = given
      <4>1. \A i \in DOMAIN given[r] : given[r][i] \in 1..end
        BY <1>1, <1>3, <1>8
      <4> QED BY <2>2, <3>1, <3>2, <4>1 DEF Ordered
    <3>3. CASE given' = [given EXCEPT ![r] = both]
      <4>1. given'[q] = both
        BY <2>2, <3>3 DEF BridgeTypes
      <4> HIDE DEF both
      <4> QED BY <3>1, <4>1, <1>9
    <3> QED BY <1>5, <3>2, <3>3
  <2> QED BY <2>1, <2>2
<1>12. Pooled' /\ Committed' /\ Dropped'
  BY <1>5 DEF Pooled, Committed, Dropped
<1> QED BY <1>10, <1>11, <1>12

LEMMA NativesKeep ==
  ASSUME Sane, BridgeInv, NEW r \in Requests, NEW t \in Threads, Natives(r, t)
  PROVE  BridgeInv'
<1>1. sink[r] \in ResponseState /\ t \in Words
  BY DEF BridgeInv, BridgeTypes, Threads, Words
<1>2. CASE Lookup(r, t)
  BY <1>2 DEF Lookup, poolVars, BridgeInv, BridgeTypes, Pooled, Committed, Dropped, Ordered
<1>3. CASE NativeSetStatus(r, t)
  <2>1. Kept(sink[r], SetStatus(sink[r], 404))
    BY <1>1, StatusKept
  <2>2. sink' = [sink EXCEPT ![r] = SetStatus(sink[r], 404)]
    BY <1>3 DEF NativeSetStatus, OnResponse
  <2> QED BY <1>3, <2>1, <2>2, SinkWork DEF NativeSetStatus, OnResponse, poolVars
<1>4. CASE NativeSetHeader(r, t)
  <2>1. Kept(sink[r], SetHeader(sink[r], "h", t))
    BY <1>1, HeaderSet DEF Words
  <2>2. sink' = [sink EXCEPT ![r] = SetHeader(sink[r], "h", t)]
    BY <1>4 DEF NativeSetHeader, OnResponse
  <2> QED BY <1>4, <2>1, <2>2, SinkWork DEF NativeSetHeader, OnResponse, poolVars
<1>5. CASE NativeAddHeader(r, t)
  <2>1. Kept(sink[r], AddHeader(sink[r], "h", t))
    BY <1>1, HeaderAdded DEF Words
  <2>2. sink' = [sink EXCEPT ![r] = AddHeader(sink[r], "h", t)]
    BY <1>5 DEF NativeAddHeader, OnResponse
  <2> QED BY <1>5, <2>1, <2>2, SinkWork DEF NativeAddHeader, OnResponse, poolVars
<1>6. CASE NativeWriteBody(r, t)
  <2>1. Kept(sink[r], WriteBody(sink[r], <<t>>))
    <3>1. <<t>> \in Seq(Words)
      BY <1>1
    <3> QED BY <1>1, <3>1, BodyWritten
  <2>2. sink' = [sink EXCEPT ![r] = WriteBody(sink[r], <<t>>)]
    BY <1>6 DEF NativeWriteBody, OnResponse
  <2> QED BY <1>6, <2>1, <2>2, SinkWork DEF NativeWriteBody, OnResponse, poolVars
<1>7. CASE NativeCommit(r, t)
  <2>1. Kept(sink[r], Commit(sink[r]))
    BY <1>1, CommitKept
  <2>2. sink' = [sink EXCEPT ![r] = Commit(sink[r])]
    BY <1>7 DEF NativeCommit, OnResponse
  <2> QED BY <1>7, <2>1, <2>2, SinkWork DEF NativeCommit, OnResponse, poolVars
<1>8. CASE NativeReadBody(r, t)
  BY <1>8, ReadingKeeps
<1> QED BY <1>2, <1>3, <1>4, <1>5, <1>6, <1>7, <1>8 DEF Natives

-----------------------------------------------------------------------------
(* The pool. *)

(* A request whose task changes in the pool moves from "wait" to "complete"*)
(* or "fail": what the dispatch has reported does not change.              *)
LEMMA PoolStepKeeps ==
  ASSUME BridgeInv, task' \in [Requests -> Places], jobs' \in Seq(Requests),
         pool' \in [Workers -> Requests \cup {"idle", "gone"}], Pooled',
         \A r \in Requests : task'[r] = task[r] \/ task'[r] \in {"wait", "complete", "fail"},
         UNCHANGED <<requests, responses, result, wire>>, UNCHANGED facadeVars
  PROVE  BridgeInv'
<1>1. BridgeTypes'
  BY DEF BridgeInv, BridgeTypes, facadeVars
<1>2. \A r \in Requests : task'[r] \in Reported => task'[r] = task[r]
  BY DEF Reported
<1>3. Committed'
  BY <1>2 DEF BridgeInv, Committed, Reported, facadeVars
<1>4. Dropped' /\ Ordered'
  BY DEF BridgeInv, Dropped, Ordered, facadeVars
<1> QED BY <1>1, <1>3, <1>4 DEF BridgeInv

LEMMA SendKeeps ==
  ASSUME Sane, BridgeInv, NEW r \in Requests, Send(r)
  PROVE  BridgeInv'
<1> USE DEF BridgeInv
<1>1. task \in [Requests -> Places] /\ jobs \in Seq(Requests)
  BY DEF BridgeTypes
<1>2. task[r] = "send" /\ pool' = pool
      /\ UNCHANGED <<requests, responses, result, wire>> /\ UNCHANGED facadeVars
  BY DEF Send
<1>3. CASE jobs' = jobs /\ task' = [task EXCEPT ![r] = "fail"]
  <2>1. Goes(r, "fail")
    BY <1>3 DEF Goes
  <2>2. Pooled' /\ task' \in [Requests -> Places]
    BY <1>2, <1>3, <2>1, MovesKeepPool DEF Places
  <2>3. \A q \in Requests : task'[q] = task[q] \/ task'[q] = "fail"
    BY <1>1, <1>3
  <2> QED BY <1>1, <1>2, <1>3, <2>2, <2>3, PoolStepKeeps DEF BridgeTypes
<1>4. CASE jobs' = Append(jobs, r) /\ task' = [task EXCEPT ![r] = "wait"]
  <2>1. /\ jobs' \in Seq(Requests) /\ Len(jobs') = Len(jobs) + 1
        /\ \A i \in 1..Len(jobs) : jobs'[i] = jobs[i]
        /\ jobs'[Len(jobs) + 1] = r
    BY <1>1, <1>4, AppendProperties
  <2>2. /\ task' \in [Requests -> Places]
        /\ \A q \in Requests : task'[q] = IF q = r THEN "wait" ELSE task[q]
    BY <1>1, <1>4 DEF Places
  <2>3. /\ \A i \in 1..Len(jobs) : jobs[i] # r /\ jobs[i] \in Requests
        /\ \A w \in Workers : pool[w] # r
    BY <1>1, <1>2 DEF Pooled
  <2>4. /\ DOMAIN jobs' = 1..(Len(jobs) + 1) /\ DOMAIN jobs = 1..Len(jobs)
        /\ Len(jobs) \in Nat
    BY <1>1, <2>1
  <2>5. \A i \in DOMAIN jobs' : i \in 1..Len(jobs) \/ i = Len(jobs) + 1
    BY <2>4
  <2>6. Pooled'
    <3>1. \A i \in DOMAIN jobs' : task'[jobs'[i]] = "wait"
      BY <2>1, <2>2, <2>3, <2>4, <2>5 DEF Pooled
    <3>2. \A i, j \in DOMAIN jobs' : jobs'[i] = jobs'[j] => i = j
      BY <2>1, <2>3, <2>4, <2>5 DEF Pooled
    <3>3. \A w \in Workers : pool'[w] \in Requests => task'[pool'[w]] = "wait"
      BY <1>2, <2>2 DEF Pooled
    <3>4. \A v, w \in Workers : (pool'[v] \in Requests /\ pool'[v] = pool'[w]) => v = w
      BY <1>2 DEF Pooled
    <3>5. \A w \in Workers, i \in DOMAIN jobs' : pool'[w] # jobs'[i]
      BY <1>2, <2>1, <2>3, <2>4, <2>5 DEF Pooled
    <3> QED BY <3>1, <3>2, <3>3, <3>4, <3>5 DEF Pooled
  <2>7. pool' \in [Workers -> Requests \cup {"idle", "gone"}]
    BY <1>2 DEF BridgeTypes
  <2> QED BY <1>2, <2>1, <2>2, <2>6, <2>7, PoolStepKeeps
<1> QED BY <1>3, <1>4 DEF Send

LEMMA TakeJobKeeps ==
  ASSUME Sane, BridgeInv, NEW w \in Workers, TakeJob(w)
  PROVE  BridgeInv'
<1> USE DEF BridgeInv
<1>1. /\ task \in [Requests -> Places] /\ jobs \in Seq(Requests) /\ jobs # <<>>
      /\ pool \in [Workers -> Requests \cup {"idle", "gone"}] /\ pool[w] = "idle"
  BY DEF BridgeTypes, TakeJob
<1>2. /\ pool' = [pool EXCEPT ![w] = Head(jobs)] /\ jobs' = Tail(jobs) /\ task' = task
      /\ UNCHANGED <<requests, responses, result, wire>> /\ UNCHANGED facadeVars
  BY DEF TakeJob
<1>3. /\ Head(jobs) \in Requests /\ Head(jobs) = jobs[1] /\ jobs' \in Seq(Requests)
      /\ Len(jobs') = Len(jobs) - 1 /\ Len(jobs) \in Nat /\ Len(jobs) >= 1
      /\ DOMAIN jobs = 1..Len(jobs) /\ DOMAIN jobs' = 1..(Len(jobs) - 1)
      /\ \A i \in 1..(Len(jobs) - 1) : jobs'[i] = jobs[i + 1]
  BY <1>1, <1>2, HeadTailProperties
<1>4. /\ pool' \in [Workers -> Requests \cup {"idle", "gone"}]
      /\ \A v \in Workers : pool'[v] = IF v = w THEN jobs[1] ELSE pool[v]
  BY <1>1, <1>2, <1>3
<1>5. /\ 1 \in DOMAIN jobs
      /\ \A i \in DOMAIN jobs' : i + 1 \in DOMAIN jobs /\ i + 1 # 1 /\ jobs'[i] = jobs[i + 1]
  BY <1>3
<1>6. Pooled'
  <2>1. \A i \in DOMAIN jobs' : task'[jobs'[i]] = "wait"
    BY <1>2, <1>5 DEF Pooled
  <2>2. \A i, j \in DOMAIN jobs' : jobs'[i] = jobs'[j] => i = j
    <3> TAKE i, j \in DOMAIN jobs'
    <3> HAVE jobs'[i] = jobs'[j]
    <3>1. i + 1 = j + 1
      BY <1>5 DEF Pooled
    <3> QED BY <3>1, <1>3
  <2>3. \A v \in Workers : pool'[v] \in Requests => task'[pool'[v]] = "wait"
    BY <1>2, <1>4, <1>5 DEF Pooled
  <2>4. \A u, v \in Workers : (pool'[u] \in Requests /\ pool'[u] = pool'[v]) => u = v
    BY <1>4, <1>5 DEF Pooled
  <2>5. \A v \in Workers, i \in DOMAIN jobs' : pool'[v] # jobs'[i]
    BY <1>4, <1>5 DEF Pooled
  <2> QED BY <2>1, <2>2, <2>3, <2>4, <2>5 DEF Pooled
<1> QED BY <1>1, <1>2, <1>3, <1>4, <1>6, PoolStepKeeps

LEMMA JobEndsKeeps ==
  ASSUME Sane, BridgeInv, NEW w \in Workers, JobEnds(w)
  PROVE  BridgeInv'
<1> USE DEF BridgeInv
<1> DEFINE r == pool[w]
<1>1. /\ task \in [Requests -> Places] /\ jobs \in Seq(Requests) /\ r \in Requests
      /\ pool \in [Workers -> Requests \cup {"idle", "gone"}]
  BY DEF BridgeTypes, JobEnds
<1>2. PICK place \in {"complete", "fail"} : task' = [task EXCEPT ![r] = place]
  BY DEF JobEnds
<1>3. /\ pool' = [pool EXCEPT ![w] = "idle"] /\ jobs' = jobs
      /\ UNCHANGED <<requests, responses, result, wire>> /\ UNCHANGED facadeVars
  BY DEF JobEnds
<1>4. /\ pool' \in [Workers -> Requests \cup {"idle", "gone"}]
      /\ \A v \in Workers : pool'[v] = IF v = w THEN "idle" ELSE pool[v]
  BY <1>1, <1>3
<1>5. /\ task' \in [Requests -> Places]
      /\ \A q \in Requests : task'[q] = IF q = r THEN place ELSE task[q]
  BY <1>1, <1>2 DEF Places
<1>6. "idle" \notin Requests
  BY DEF Sane
<1>7. Pooled'
  <2>1. \A v \in Workers : pool'[v] \in Requests => v # w /\ pool'[v] = pool[v] /\ pool[v] # r
    BY <1>4, <1>6 DEF Pooled
  <2>2. \A i \in DOMAIN jobs : jobs[i] # r /\ jobs[i] \in Requests
    BY <1>1 DEF Pooled
  <2>3. \A v \in Workers : pool'[v] \in Requests => task'[pool'[v]] = "wait"
    BY <2>1, <1>5 DEF Pooled
  <2>4. \A i \in DOMAIN jobs' : task'[jobs'[i]] = "wait"
    BY <2>2, <1>3, <1>5 DEF Pooled
  <2>5. \A u, v \in Workers : (pool'[u] \in Requests /\ pool'[u] = pool'[v]) => u = v
    BY <2>1 DEF Pooled
  <2>6. \A v \in Workers, i \in DOMAIN jobs' : pool'[v] # jobs'[i]
    BY <2>1, <2>2, <1>3 DEF Pooled
  <2>7. \A i, j \in DOMAIN jobs' : jobs'[i] = jobs'[j] => i = j
    BY <1>3 DEF Pooled
  <2> QED BY <2>3, <2>4, <2>5, <2>6, <2>7 DEF Pooled
<1> HIDE DEF r
<1> QED BY <1>1, <1>3, <1>4, <1>5, <1>7, PoolStepKeeps

LEMMA PanicKeeps ==
  ASSUME Sane, BridgeInv, NEW w \in Workers, JobPanics(w)
  PROVE  BridgeInv'
<1> USE DEF BridgeInv
<1> DEFINE last == Alive = {w}
           r == pool[w]
           lost == {r} \cup (IF last THEN {jobs[i] : i \in DOMAIN jobs} ELSE {})
<1>1. /\ task \in [Requests -> Places] /\ jobs \in Seq(Requests) /\ r \in Requests
      /\ pool \in [Workers -> Requests \cup {"idle", "gone"}]
  BY DEF BridgeTypes, JobPanics
<1>2. /\ pool' = [pool EXCEPT ![w] = "gone"] /\ jobs' = (IF last THEN <<>> ELSE jobs)
      /\ task' = [q \in Requests |-> IF q \in lost THEN "fail" ELSE task[q]]
      /\ UNCHANGED <<requests, responses, result, wire>> /\ UNCHANGED facadeVars
  BY DEF JobPanics
<1>3. "gone" \notin Requests
  BY DEF Sane
<1>4. /\ pool' \in [Workers -> Requests \cup {"idle", "gone"}]
      /\ \A v \in Workers : pool'[v] = IF v = w THEN "gone" ELSE pool[v]
  BY <1>1, <1>2
<1>5. /\ task' \in [Requests -> Places]
      /\ \A q \in Requests : task'[q] = IF q \in lost THEN "fail" ELSE task[q]
  <2> HIDE DEF lost
  <2> QED BY <1>1, <1>2 DEF Places
<1>6. jobs' \in Seq(Requests)
  BY <1>1, <1>2
<1>7. \A v \in Workers : pool'[v] \in Requests =>
                           v # w /\ pool'[v] = pool[v] /\ pool[v] # r
  BY <1>3, <1>4 DEF Pooled
<1>8. Pooled'
  <2>1. CASE last
    <3>1. \A v \in Workers : pool'[v] \notin Requests
      BY <2>1, <1>3, <1>7 DEF Alive
    <3>2. jobs' = <<>>
      BY <2>1, <1>2
    <3> QED BY <3>1, <3>2 DEF Pooled
  <2>2. CASE ~last
    <3>1. lost = {r} /\ jobs' = jobs
      BY <2>2, <1>2
    <3>2. \A i \in DOMAIN jobs : jobs[i] # r /\ jobs[i] \in Requests
      BY <1>1 DEF Pooled
    <3> HIDE DEF lost, last, r
    <3>3. \A v \in Workers : pool'[v] \in Requests => task'[pool'[v]] = "wait"
      BY <3>1, <1>5, <1>7 DEF Pooled
    <3>4. \A i \in DOMAIN jobs' : task'[jobs'[i]] = "wait"
      BY <3>1, <3>2, <1>5 DEF Pooled
    <3>5. \A u, v \in Workers : (pool'[u] \in Requests /\ pool'[u] = pool'[v]) => u = v
      BY <1>7 DEF Pooled
    <3>6. \A v \in Workers, i \in DOMAIN jobs' : pool'[v] # jobs'[i]
      BY <1>7, <3>1, <3>2 DEF Pooled
    <3>7. \A i, j \in DOMAIN jobs' : jobs'[i] = jobs'[j] => i = j
      BY <3>1 DEF Pooled
    <3> QED BY <3>3, <3>4, <3>5, <3>6, <3>7 DEF Pooled
  <2> QED BY <2>1, <2>2
<1>9. \A q \in Requests : task'[q] = task[q] \/ task'[q] = "fail"
  BY <1>5
<1> HIDE DEF last, r, lost
<1> QED BY <1>2, <1>4, <1>5, <1>6, <1>8, <1>9, PoolStepKeeps

LEMMA WorkerExitsKeeps ==
  ASSUME Sane, BridgeInv, NEW w \in Workers, WorkerExits(w)
  PROVE  BridgeInv'
<1> USE DEF BridgeInv
<1>1. /\ task \in [Requests -> Places] /\ jobs \in Seq(Requests)
      /\ pool \in [Workers -> Requests \cup {"idle", "gone"}]
  BY DEF BridgeTypes
<1>2. /\ pool' = [pool EXCEPT ![w] = "gone"] /\ task' = task /\ jobs' = jobs
      /\ UNCHANGED <<requests, responses, result, wire>> /\ UNCHANGED facadeVars
  BY DEF WorkerExits
<1>3. /\ pool' \in [Workers -> Requests \cup {"idle", "gone"}]
      /\ \A v \in Workers : pool'[v] \in Requests => pool'[v] = pool[v]
      /\ \A v \in Workers : pool'[v] = pool[v] \/ pool'[v] \notin Requests
  BY <1>1, <1>2 DEF Sane
<1>4. \A i \in DOMAIN jobs : jobs[i] \in Requests
  BY <1>1
<1>5. Pooled'
  BY <1>2, <1>3, <1>4 DEF Pooled
<1> QED BY <1>1, <1>2, <1>3, <1>5, PoolStepKeeps

LEMMA WorksKeep ==
  ASSUME Sane, BridgeInv, NEW w \in Workers, Works(w)
  PROVE  BridgeInv'
BY TakeJobKeeps, JobEndsKeeps, PanicKeeps, WorkerExitsKeeps DEF Works

-----------------------------------------------------------------------------
(* The dispatch. *)

LEMMA InvokeKeeps ==
  ASSUME BridgeInv, NEW r \in Requests, Invoke(r)
  PROVE  BridgeInv'
<1> USE DEF BridgeInv
<1>1. PICK place \in {"send", "fail"} : Goes(r, place)
  BY DEF Invoke
<1>2. /\ task[r] = "new" /\ requests' = requests \cup {r} /\ responses' = responses \cup {r}
      /\ UNCHANGED <<result, wire>> /\ UNCHANGED poolVars /\ UNCHANGED facadeVars
  BY DEF Invoke
<1>3. Pooled' /\ task' \in [Requests -> Places]
  BY <1>1, <1>2, MovesKeepPool DEF Places, poolVars
<1>4. \A q \in Requests : task'[q] = IF q = r THEN place ELSE task[q]
  BY <1>1 DEF Goes, BridgeTypes
<1>5. BridgeTypes'
  BY <1>2, <1>3 DEF BridgeTypes, poolVars, facadeVars
<1>6. Committed' /\ Ordered'
  BY <1>2, <1>4 DEF Committed, Ordered, Reported, facadeVars
<1>7. Dropped'
  BY <1>2, <1>4 DEF Dropped
<1> QED BY <1>3, <1>5, <1>6, <1>7

LEMMA CompleteKeeps ==
  ASSUME BridgeInv, NEW r \in Requests, CompleteResponse(r)
  PROVE  BridgeInv'
<1> DEFINE u == Commit(sink[r])
<1>1. sink[r] \in ResponseState
  BY DEF BridgeInv, BridgeTypes
<1>2. Kept(sink[r], u) /\ u.committed /\ EffectiveStatus(u) = u.status
  BY <1>1, CommitKept
<1>3. /\ task[r] = "complete" /\ Goes(r, "drop") /\ sink' = [sink EXCEPT ![r] = u]
      /\ result' = [result EXCEPT ![r] = u.status]
      /\ UNCHANGED <<jobs, pool, requests, responses, position, given, wire>>
  BY <1>2 DEF CompleteResponse, poolVars
<1> HIDE DEF u
<1> QED BY <1>2, <1>3, DispatchWork

LEMMA FallbackKeeps ==
  ASSUME BridgeInv, NEW r \in Requests, FallbackResponse(r)
  PROVE  BridgeInv'
<1> DEFINE s == sink[r]
<1>1. s \in ResponseState
  BY DEF BridgeInv, BridgeTypes
<1>2. UNCHANGED <<jobs, pool, requests, responses, position, given, wire>>
  BY DEF FallbackResponse, poolVars
<1>3. CASE task[r] = "fail" /\ Goes(r, "failHeader") /\ result' = result
           /\ sink' = [sink EXCEPT ![r] = SetStatus(s, 502)]
  <2>1. Kept(s, SetStatus(s, 502))
    BY <1>1, StatusKept
  <2> HIDE DEF s
  <2> QED BY <1>2, <1>3, <2>1, DispatchWork DEF s
<1>4. CASE task[r] = "failHeader" /\ Goes(r, "failBody") /\ result' = result
           /\ sink' = [sink EXCEPT ![r] = SetHeader(s, "Content-Type", "fallback")]
  <2>1. Kept(s, SetHeader(s, "Content-Type", "fallback"))
    BY <1>1, HeaderSet DEF Words
  <2> QED BY <1>2, <1>4, <2>1, DispatchWork
<1>5. CASE task[r] = "failBody" /\ Goes(r, "failCommit") /\ result' = result
           /\ sink' = [sink EXCEPT ![r] = WriteBody(s, <<"fallback">>)]
  <2>1. <<"fallback">> \in Seq(Words)
    BY DEF Words
  <2>2. Kept(s, WriteBody(s, <<"fallback">>))
    BY <1>1, <2>1, BodyWritten
  <2> QED BY <1>2, <1>5, <2>2, DispatchWork
<1>6. CASE /\ task[r] = "failCommit" /\ Goes(r, "drop")
           /\ sink' = [sink EXCEPT ![r] = Commit(s)]
           /\ result' = [result EXCEPT ![r] = EffectiveStatus(Commit(s))]
  <2>1. Kept(s, Commit(s)) /\ Commit(s).committed
        /\ EffectiveStatus(Commit(s)) = Commit(s).status
    BY <1>1, CommitKept
  <2> QED BY <1>2, <1>6, <2>1, DispatchWork
<1> QED BY <1>3, <1>4, <1>5, <1>6 DEF FallbackResponse

LEMMA UnregisterKeeps ==
  ASSUME BridgeInv, NEW r \in Requests, Unregister(r)
  PROVE  BridgeInv'
<1> USE DEF BridgeInv
<1>1. PICK place \in {"dropResponse", "read"} :
        /\ Goes(r, place)
        /\ task[r] = IF place = "read" THEN "dropResponse" ELSE "drop"
        /\ requests' = IF place = "read" THEN requests ELSE requests \ {r}
        /\ responses' = IF place = "read" THEN responses \ {r} ELSE responses
  BY DEF Unregister
<1>2. UNCHANGED <<result, wire>> /\ UNCHANGED poolVars /\ UNCHANGED facadeVars
  BY DEF Unregister
<1>3. Pooled' /\ task' \in [Requests -> Places]
  BY <1>1, <1>2, MovesKeepPool DEF Places, poolVars
<1>4. \A q \in Requests : task'[q] = IF q = r THEN place ELSE task[q]
  BY <1>1 DEF Goes, BridgeTypes
<1>5. BridgeTypes'
  BY <1>1, <1>2, <1>3 DEF BridgeTypes, poolVars, facadeVars
<1>6. Committed' /\ Ordered'
  BY <1>1, <1>2, <1>4 DEF Committed, Ordered, Reported, facadeVars
<1>7. Dropped'
  BY <1>1, <1>4 DEF Dropped
<1> QED BY <1>3, <1>5, <1>6, <1>7

LEMMA ResponseKeeps ==
  ASSUME BridgeInv, NEW r \in Requests, ResponseFromSnapshot(r)
  PROVE  BridgeInv'
<1> USE DEF BridgeInv
<1> DEFINE status == EffectiveStatus(sink[r])
           answer == [sink[r] EXCEPT !.status = status]
<1>1. /\ task[r] = "read" /\ Goes(r, "done") /\ wire' = [wire EXCEPT ![r] = answer]
      /\ UNCHANGED <<requests, responses, result>>
      /\ UNCHANGED poolVars /\ UNCHANGED facadeVars
  BY DEF ResponseFromSnapshot
<1>2. sink[r] \in ResponseState /\ sink[r].status \in Int /\ sink[r].status # 0
  BY <1>1 DEF BridgeTypes, Committed, Reported, ResponseState
<1>3. status = sink[r].status
  BY <1>2 DEF EffectiveStatus
<1>4. answer \in ResponseState /\ answer.status = sink[r].status
  BY <1>2, <1>3 DEF ResponseState
<1> HIDE DEF status, answer
<1>5. Pooled' /\ task' \in [Requests -> Places]
  BY <1>1, MovesKeepPool DEF Places, poolVars
<1>6. \A q \in Requests : task'[q] = IF q = r THEN "done" ELSE task[q]
  BY <1>1 DEF Goes, BridgeTypes
<1>7. \A q \in Requests : wire'[q] = IF q = r THEN answer ELSE wire[q]
  BY <1>1 DEF BridgeTypes
<1>8. BridgeTypes'
  BY <1>1, <1>4, <1>5 DEF BridgeTypes, poolVars, facadeVars
<1>9. Committed'
  BY <1>1, <1>4, <1>6, <1>7 DEF Committed, Reported, facadeVars
<1>10. Dropped' /\ Ordered'
  BY <1>1, <1>6 DEF Dropped, Ordered, facadeVars
<1> QED BY <1>5, <1>8, <1>9, <1>10

-----------------------------------------------------------------------------
(* The whole. *)

LEMMA BridgeBegins == Sane /\ BridgeInit => BridgeInv
<1> SUFFICES ASSUME Sane, BridgeInit PROVE BridgeInv
  OBVIOUS
<1>1. EmptyResponse \in ResponseState /\ NoWire \in ResponseState
      /\ EmptyResponse.committed = FALSE
  BY DEF EmptyResponse, NoWire, ResponseState
<1>2. 0 \in 0..BodyLen
  BY DEF Sane
<1>3. jobs = <<>> /\ jobs \in Seq(Requests)
  BY DEF BridgeInit
<1>4. \A w \in Workers : pool[w] \notin Requests
  BY DEF BridgeInit, Sane
<1>5. BridgeTypes
  BY <1>1, <1>2, <1>3 DEF BridgeInit, BridgeTypes, Places
<1>6. Pooled
  BY <1>3, <1>4 DEF Pooled
<1>7. Committed
  BY <1>1 DEF BridgeInit, Committed, Reported
<1>8. Dropped /\ Ordered
  BY DEF BridgeInit, Dropped, Ordered
<1> QED BY <1>5, <1>6, <1>7, <1>8 DEF BridgeInv

LEMMA BridgeKeeps == Sane /\ BridgeInv /\ [BridgeNext]_bridgeVars => BridgeInv'
<1> SUFFICES ASSUME Sane, BridgeInv, [BridgeNext]_bridgeVars PROVE BridgeInv'
  OBVIOUS
<1>1. CASE \E r \in Requests : Dispatches(r)
  BY <1>1, InvokeKeeps, SendKeeps, CompleteKeeps, FallbackKeeps, UnregisterKeeps,
     ResponseKeeps DEF Dispatches
<1>2. CASE \E w \in Workers : Works(w)
  BY <1>2, WorksKeep
<1>3. CASE \E r \in Requests, t \in Threads : Natives(r, t)
  BY <1>3, NativesKeep
<1>4. CASE Shutdown
  BY <1>4 DEF Shutdown, facadeVars, BridgeInv, BridgeTypes, Pooled, Committed, Dropped, Ordered
<1>5. CASE UNCHANGED bridgeVars
  BY <1>5 DEF bridgeVars, BridgeInv, BridgeTypes, Pooled, Committed, Dropped, Ordered
<1> QED BY <1>1, <1>2, <1>3, <1>4, <1>5 DEF BridgeNext

(* The bridge is sound: the status an invoker reports is the one the       *)
(* response is sent with, an answered request has left both registries, and*)
(* no byte of a body is given twice, whatever panics, a shutdown of the    *)
(* pool and the threads a servlet leaves behind do (invoke_impl of         *)
(* invoker.rs, the pool of jvm.rs, the natives of jni.rs).                 *)
THEOREM BridgeIsSound ==
  ASSUME Sane
  PROVE  BridgeSpec => []BridgeSound
<1>1. Sane /\ BridgeInit => BridgeInv
  BY BridgeBegins
<1>2. Sane /\ BridgeInv /\ [BridgeNext]_bridgeVars => BridgeInv'
  BY BridgeKeeps
<1>3. BridgeInv => BridgeSound
  <2> SUFFICES ASSUME BridgeInv PROVE BridgeSound
    OBVIOUS
  <2>1. \A r \in Requests : task[r] = "done" => task[r] \in Reported
    BY DEF Reported
  <2>2. ReportedIsSent
    BY <2>1 DEF BridgeInv, Committed, ReportedIsSent
  <2>3. HandlesDropped
    BY DEF BridgeInv, Dropped, HandlesDropped
  <2>4. BodyBytesOnce
    BY DEF BridgeInv, Ordered, BodyBytesOnce
  <2> QED BY <2>2, <2>3, <2>4 DEF BridgeSound
<1> QED BY <1>1, <1>2, <1>3, PTL DEF BridgeSpec

-----------------------------------------------------------------------------
(* The start of a webapp: its inductive invariant. *)

StartPlaces == {"idle", "context", "attach", "loader", "servlets", "filters", "publish",
           "registered", "failed", "discover", "sci", "init"}
Declared == [name : Names, load : Int]
Handles == [kind : {"servlets", "filters"}, name : Names, inst : Nat, load : Int]
Added == [name : Names, load : Int, inst : Nat]
Objects == [init : {"no", "yes", "failed"}, dynamic : BOOLEAN]
Found == Range(Initializers)
WebPlan == [servlets : Seq(Declared), filters : Seq(Names)]
Registry == [servlets : [Names -> Nat], filters : [Names -> Nat]]
Walk == [ctx : Nat, ran : Seq(Found), errors : Seq(Found), added : Seq(Added)]

StartTypes ==
  /\ deployer \in StartPlaces
  /\ plan \in WebPlan
  /\ made \in Seq(Handles) /\ instances \in Seq(Objects)
  /\ registry \in Registry
  /\ sci \in Walk
  /\ deployer = "servlets" => queue \in Seq(Declared)
  /\ deployer = "filters" => queue \in Seq(Names)
  /\ deployer = "sci" => queue \in Seq(Found)
  /\ deployer = "init" => queue \in Seq(Added)

\* The path leads to the newest context, which has a runtime once it is attached,
\* and which run_sci works on.
AttachFacts ==
  /\ deploys \in Nat /\ byPath = deploys
  /\ deployer \notin {"idle", "context"} => deploys # 0
  /\ deploys # 0 /\ deployer # "attach" => deploys \in attached
  /\ deployer \in {"sci", "init"} => sci.ctx = deploys

\* Of two servlets in this order the first may start first.
InOrder(s, t) == IsEager(t) => IsEager(s) /\ s.load <= t.load
OrderFacts ==
  /\ \A i, j \in DOMAIN plan.servlets : i < j => InOrder(plan.servlets[i], plan.servlets[j])
  /\ deployer = "servlets" =>
       /\ \A i, j \in DOMAIN queue : i < j => InOrder(queue[i], queue[j])
       /\ \A i \in DOMAIN made, j \in DOMAIN queue : InOrder(made[i], queue[j])
  /\ StartsInOrder

\* Each initializer before the next one has been reported.
InitializersHeard == Len(sci.ran) + Len(sci.errors)
WalkFacts ==
  deployer \in {"sci", "init"} =>
    /\ InitializersHeard <= Len(Initializers)
    /\ \A k \in 1..InitializersHeard : Initializers[k] \in Range(sci.ran) \cup Range(sci.errors)
    /\ deployer = "sci" =>
         /\ Len(queue) = Len(Initializers) - InitializersHeard
         /\ \A k \in DOMAIN queue : queue[k] = Initializers[InitializersHeard + k]
    /\ deployer = "init" => InitializersHeard = Len(Initializers)

\* What was added has a name of its own, under which requests find it.
AddedFacts ==
  /\ deployer = "discover" => sci.added = <<>> /\ sci.ran = <<>> /\ sci.errors = <<>>
  /\ deployer \in {"sci", "init"} =>
       \A k \in DOMAIN sci.added :
         /\ sci.added[k].inst \in DOMAIN instances /\ instances[sci.added[k].inst].dynamic
         /\ registry.servlets[sci.added[k].name] = sci.added[k].inst
         /\ \A l \in DOMAIN sci.added : sci.added[l].name = sci.added[k].name => l = k
  /\ deployer = "init" =>
       \A k \in DOMAIN queue :
         queue[k].inst \in DOMAIN instances /\ instances[queue[k].inst].dynamic

\* An instance whose init() is still to come is one that run_sci has added, and
\* that is in the list it walks when it calls init().
Pending(i) ==
  \/ deployer = "sci" /\ \E k \in DOMAIN sci.added : sci.added[k].inst = i
  \/ deployer = "init" /\ \E k \in DOMAIN queue : queue[k].inst = i
PublishFacts ==
  /\ made # <<>> => deployer \in {"servlets", "filters", "publish"}
  /\ \A k \in DOMAIN made : made[k].inst \in DOMAIN instances /\ instances[made[k].inst].init = "yes"
  /\ \A i \in Published :
       /\ i \in DOMAIN instances
       /\ \/ instances[i].init = "yes"
          \/ instances[i].dynamic /\ (instances[i].init = "failed" \/ Pending(i))

StartInv ==
  StartTypes /\ AttachFacts /\ OrderFacts /\ WalkFacts /\ AddedFacts /\ PublishFacts

LEMMA StartInitial == StartInit => StartInv
<1> SUFFICES ASSUME StartInit  PROVE StartInv
  OBVIOUS
<1>1. StartTypes
  <2>1. registry \in Registry /\ sci \in Walk /\ plan \in WebPlan
    BY DEF StartInit, Registry, Walk, WebPlan, Nothing, NoSci
  <2> QED BY <2>1 DEF StartInit, StartTypes, StartPlaces
<1>2. AttachFacts /\ OrderFacts /\ WalkFacts /\ AddedFacts
  BY DEF StartInit, AttachFacts, OrderFacts, StartsInOrder, WalkFacts, AddedFacts
<1>3. Published = {}
  BY DEF StartInit, Published, Nothing
<1>4. PublishFacts
  BY <1>3 DEF StartInit, PublishFacts
<1> QED BY <1>1, <1>2, <1>4 DEF StartInv

(* What the records of the deployer hold.                                  *)
LEMMA StartParts ==
  ASSUME StartTypes
  PROVE  /\ plan.servlets \in Seq(Declared) /\ plan.filters \in Seq(Names)
         /\ registry.servlets \in [Names -> Nat] /\ registry.filters \in [Names -> Nat]
         /\ registry = [servlets |-> registry.servlets, filters |-> registry.filters]
         /\ sci.ctx \in Nat /\ sci.ran \in Seq(Found) /\ sci.errors \in Seq(Found)
         /\ sci.added \in Seq(Added)
BY DEF StartTypes, WebPlan, Registry, Walk

(* The plan is the descriptor with its servlets in another order.          *)
LEMMA PlansAreSorted ==
  ASSUME NEW web \in Plans, NEW p \in FromWebXml(web)
  PROVE  /\ p \in WebPlan
         /\ \A i, j \in DOMAIN p.servlets : i < j => InOrder(p.servlets[i], p.servlets[j])
<1> DEFINE s == web.servlets
           n == Len(s)
<1>1. s \in Seq(Declared) /\ n \in Nat /\ DOMAIN s = 1..n /\ web.filters \in Seq(Names)
  <2>1. web \in [servlets : Seq(Declared), filters : Seq(Names)]
    BY StartAssumption DEF Declared
  <2> QED BY <2>1
<1>2. PICK order \in [1..n -> 1..n] :
        /\ \A k, l \in 1..n : k < l => OrderKeyLess(s, order[k], order[l])
        /\ p = [servlets |-> [k \in 1..n |-> s[order[k]]], filters |-> web.filters]
  BY <1>1 DEF FromWebXml
<1> DEFINE q == [k \in 1..n |-> s[order[k]]]
<1>3. q \in Seq(Declared) /\ Len(q) = n /\ \A k \in 1..n : q[k] = s[order[k]] /\ s[order[k]] \in Declared
  <2>1. \A k \in 1..n : order[k] \in 1..n
    BY <1>2
  <2>2. \A k \in 1..n : s[order[k]] \in Declared
    BY <1>1, <2>1
  <2> QED BY <2>2, <1>1
<1>4. p = [servlets |-> q, filters |-> web.filters]
  BY <1>2
<1> HIDE DEF q, s
<1>5. p \in WebPlan
  BY <1>1, <1>3, <1>4 DEF WebPlan
<1>6. ASSUME NEW i \in 1..n, NEW j \in 1..n, i < j  PROVE InOrder(q[i], q[j])
  <2>1. OrderKeyLess(s, order[i], order[j])
    BY <1>2, <1>6
  <2>2. s[order[i]].load \in Int /\ s[order[j]].load \in Int
    BY <1>3 DEF Declared
  <2>3. InOrder(s[order[i]], s[order[j]])
    BY <2>1, <2>2 DEF OrderKeyLess, InOrder, IsEager
  <2> QED BY <1>3, <2>3
<1>7. p.servlets = q /\ DOMAIN q = 1..n
  BY <1>1, <1>3, <1>4
<1> QED BY <1>5, <1>6, <1>7

\* What Append does.
LEMMA Appended ==
  ASSUME NEW S, NEW s \in Seq(S), NEW x \in S
  PROVE  /\ Append(s, x) \in Seq(S) /\ Len(Append(s, x)) = Len(s) + 1 /\ Len(s) \in Nat
         /\ DOMAIN s = 1..Len(s) /\ DOMAIN Append(s, x) = 1..Len(s) + 1
         /\ \A i \in 1..Len(s) : Append(s, x)[i] = s[i]
         /\ Append(s, x)[Len(s) + 1] = x
BY AppendProperties

LEMMA ObjectsMade ==
  /\ Instance("yes", FALSE) \in Objects /\ Instance("failed", FALSE) \in Objects
  /\ Instance("no", TRUE) \in Objects
  /\ \A state, isDynamic : Instance(state, isDynamic).init = state /\ Instance(state, isDynamic).dynamic = isDynamic
BY DEF Instance, Objects

\* The list run_sci walks when it calls init(): all that was added, in some order.
LEMMA InitOrders ==
  ASSUME StartTypes, NEW q, \E order \in InitOrder : q = [k \in DOMAIN sci.added |-> sci.added[order[k]]]
  PROVE  /\ q \in Seq(Added) /\ DOMAIN q = DOMAIN sci.added
         /\ \A k \in DOMAIN q : \E l \in DOMAIN sci.added : q[k] = sci.added[l]
         /\ \A l \in DOMAIN sci.added : \E k \in DOMAIN q : q[k] = sci.added[l]
<1> DEFINE s == sci.added
           n == Len(s)
<1>1. s \in Seq(Added) /\ n \in Nat /\ DOMAIN s = 1..n
  BY StartParts
<1>2. PICK order \in [DOMAIN s -> DOMAIN s] :
        DOMAIN s \subseteq Range(order) /\ q = [k \in DOMAIN s |-> s[order[k]]]
  BY DEF InitOrder
<1> HIDE DEF s
<1>3. \A k \in 1..n : order[k] \in 1..n /\ s[order[k]] \in Added /\ q[k] = s[order[k]]
  BY <1>1, <1>2
<1>4. q \in Seq(Added) /\ DOMAIN q = 1..n
  BY <1>1, <1>2, <1>3
<1>5. \A l \in 1..n : \E k \in 1..n : order[k] = l
  BY <1>1, <1>2 DEF Range
<1>6. \A k \in DOMAIN q : \E l \in DOMAIN s : q[k] = s[l]
  BY <1>1, <1>3, <1>4
<1>7. \A l \in DOMAIN s : \E k \in DOMAIN q : q[k] = s[l]
  <2> TAKE l \in DOMAIN s
  <2>1. PICK k \in 1..n : order[k] = l
    BY <1>1, <1>5
  <2> QED BY <2>1, <1>3, <1>4
<1> QED BY <1>1, <1>4, <1>6, <1>7 DEF s

\* Setting the state of an object.
LEMMA ObjectsInitialised ==
  ASSUME NEW os \in Seq(Objects), NEW i \in DOMAIN os, NEW state \in {"yes", "failed"}
  PROVE  LET ps == [os EXCEPT ![i].init = state]
         IN  /\ ps \in Seq(Objects) /\ DOMAIN ps = DOMAIN os
             /\ \A j \in DOMAIN os : ps[j].dynamic = os[j].dynamic
             /\ \A j \in DOMAIN os : ps[j].init = IF j = i THEN state ELSE os[j].init
<1> DEFINE ps == [os EXCEPT ![i].init = state]
<1>1. \A o \in Objects : [o EXCEPT !.init = state] \in Objects
  BY DEF Objects
<1>2. DOMAIN os = 1..Len(os) /\ Len(os) \in Nat /\ \A j \in DOMAIN os : os[j] \in Objects
  OBVIOUS
<1>3. DOMAIN ps = DOMAIN os /\ \A j \in DOMAIN os : ps[j] = IF j = i THEN [os[i] EXCEPT !.init = state] ELSE os[j]
  OBVIOUS
<1> HIDE DEF ps
<1>4. \A j \in DOMAIN os : ps[j] \in Objects
  BY <1>1, <1>2, <1>3
<1>5. \A j \in DOMAIN os : ps[j].dynamic = os[j].dynamic /\ ps[j].init = IF j = i THEN state ELSE os[j].init
  BY <1>2, <1>3 DEF Objects
<1>6. ps \in Seq(Objects)
  <2>1. ps = [os EXCEPT ![i] = [os[i] EXCEPT !.init = state]]
    BY DEF ps
  <2> QED BY <1>1, <1>2, <2>1, ExceptSeq
<1> QED BY <1>3, <1>5, <1>6 DEF ps

\* A failure leaves nothing in hand.
LEMMA FailedTypes ==
  ASSUME StartTypes, NEW label \in {"idle", "failed"}, FailTo(label), instances' \in Seq(Objects)
  PROVE  StartTypes'
BY DEF FailTo, StartTypes, StartPlaces

LEMMA StartTypesKept ==
  ASSUME StartInv, [StartNext]_startVars
  PROVE  StartTypes'
<1>t. StartTypes
  BY DEF StartInv
<1>1. CASE EnsureWebapp
  <2>1. plan' \in WebPlan
    BY <1>1, PlansAreSorted DEF EnsureWebapp
  <2> QED BY <1>1, <1>t, <2>1 DEF EnsureWebapp, StartTypes, StartPlaces
<1>2. CASE RegisterContext \/ AttachWebapp \/ SetClassLoader \/ Registered \/ SciReport
  BY <1>2, <1>t DEF RegisterContext, AttachWebapp, SetClassLoader, Registered, SciReport, StartTypes, StartPlaces
<1>3. CASE BuildLoaders
  <2>1. CASE FailTo("failed")
    <3>1. instances' \in Seq(Objects)
      BY <1>3, <1>t DEF BuildLoaders, StartTypes
    <3> QED BY <1>t, <2>1, <3>1, FailedTypes
  <2>2. CASE ~FailTo("failed")
    <3>1. /\ deployer' = "servlets" /\ queue' = plan.servlets /\ made' = <<>>
          /\ UNCHANGED <<plan, registry, instances, sci>>
      BY <1>3, <2>2 DEF BuildLoaders
    <3>2. queue' \in Seq(Declared) /\ made' \in Seq(Handles)
      BY <3>1, <1>t, StartParts
    <3> QED BY <1>t, <3>1, <3>2 DEF StartTypes, StartPlaces
  <2> QED BY <2>1, <2>2
<1>4. CASE StartServlet
  <2>1. CASE FailTo("failed")
    <3>1. instances' = Append(instances, Instance("failed", FALSE)) \/ instances' = Append(instances, Instance("yes", FALSE))
      BY <1>4 DEF StartServlet
    <3>2. instances \in Seq(Objects)
      BY <1>t DEF StartTypes
    <3>4. /\ Append(instances, Instance("failed", FALSE)) \in Seq(Objects)
          /\ Append(instances, Instance("yes", FALSE)) \in Seq(Objects)
      BY <3>2, ObjectsMade, Appended
    <3>3. instances' \in Seq(Objects)
      BY <3>1, <3>4
    <3> QED BY <1>t, <2>1, <3>3, FailedTypes
  <2>2. CASE ~FailTo("failed")
    <3> DEFINE h == [kind |-> "servlets", name |-> Head(queue).name, inst |-> Len(instances'), load |-> Head(queue).load]
    <3> HIDE DEF h
    <3>1. /\ instances' = Append(instances, Instance("yes", FALSE)) /\ made' = Append(made, h)
          /\ queue' = Tail(queue) /\ queue \in Seq(Declared) /\ queue # <<>>
          /\ UNCHANGED <<deployer, plan, registry, sci>> /\ deployer = "servlets"
      BY <1>4, <1>t, <2>2 DEF StartServlet, StartTypes, h
    <3>2. Instance("yes", FALSE) \in Objects /\ instances \in Seq(Objects)
      BY <1>t, ObjectsMade DEF StartTypes
    <3>3. instances' \in Seq(Objects) /\ Len(instances') \in Nat
      BY <3>1, <3>2, Appended
    <3>4. Head(queue) \in Declared
      BY <3>1
    <3>5. h \in Handles
      BY <3>3, <3>4 DEF Handles, Declared, h
    <3>6. made' \in Seq(Handles) /\ queue' \in Seq(Declared)
      BY <1>t, <3>1, <3>5 DEF StartTypes
    <3> QED BY <1>t, <3>1, <3>3, <3>6 DEF StartTypes
  <2> QED BY <2>1, <2>2
<1>5. CASE ServletsStarted
  BY <1>5, <1>t, StartParts DEF ServletsStarted, StartTypes, StartPlaces
<1>6. CASE StartFilter
  <2>1. CASE FailTo("failed")
    <3>1. instances' = Append(instances, Instance("failed", FALSE)) \/ instances' = Append(instances, Instance("yes", FALSE))
      BY <1>6 DEF StartFilter
    <3>2. instances \in Seq(Objects)
      BY <1>t DEF StartTypes
    <3>4. /\ Append(instances, Instance("failed", FALSE)) \in Seq(Objects)
          /\ Append(instances, Instance("yes", FALSE)) \in Seq(Objects)
      BY <3>2, ObjectsMade, Appended
    <3>3. instances' \in Seq(Objects)
      BY <3>1, <3>4
    <3> QED BY <1>t, <2>1, <3>3, FailedTypes
  <2>2. CASE ~FailTo("failed")
    <3> DEFINE h == [kind |-> "filters", name |-> Head(queue), inst |-> Len(instances'), load |-> NoLoad]
    <3> HIDE DEF h
    <3>1. /\ instances' = Append(instances, Instance("yes", FALSE)) /\ made' = Append(made, h)
          /\ queue' = Tail(queue) /\ queue \in Seq(Names) /\ queue # <<>>
          /\ UNCHANGED <<deployer, plan, registry, sci>> /\ deployer = "filters"
      BY <1>6, <1>t, <2>2 DEF StartFilter, StartTypes, h
    <3>2. Instance("yes", FALSE) \in Objects /\ instances \in Seq(Objects)
      BY <1>t, ObjectsMade DEF StartTypes
    <3>3. instances' \in Seq(Objects) /\ Len(instances') \in Nat
      BY <3>1, <3>2, Appended
    <3>4. Head(queue) \in Names
      BY <3>1
    <3>5. h \in Handles
      BY <3>3, <3>4, StartAssumption DEF Handles, h
    <3>6. made' \in Seq(Handles) /\ queue' \in Seq(Names)
      BY <1>t, <3>1, <3>5 DEF StartTypes
    <3> QED BY <1>t, <3>1, <3>3, <3>6 DEF StartTypes
  <2> QED BY <2>1, <2>2

<1>7. CASE Publish
  <2> DEFINE h == Head(made)
  <2>1. /\ made \in Seq(Handles) /\ made # <<>> /\ made' = Tail(made)
        /\ registry' = [registry EXCEPT ![h.kind][h.name] = h.inst]
        /\ UNCHANGED <<deployer, plan, queue, instances, sci>>
    BY <1>7, <1>t DEF Publish, StartTypes
  <2>2. h \in Handles /\ made' \in Seq(Handles)
    BY <2>1
  <2>3. h.kind \in {"servlets", "filters"} /\ h.name \in Names /\ h.inst \in Nat
    BY <2>2 DEF Handles
  <2> HIDE DEF h
  <2>4. registry' \in Registry
    <3>1. CASE h.kind = "servlets"
      <4>1. [registry.servlets EXCEPT ![h.name] = h.inst] \in [Names -> Nat]
        BY <1>t, <2>3, StartParts
      <4>2. registry' = [servlets |-> [registry.servlets EXCEPT ![h.name] = h.inst], filters |-> registry.filters]
        BY <1>t, <2>1, <3>1, StartParts
      <4> QED BY <1>t, <4>1, <4>2, StartParts DEF Registry
    <3>2. CASE h.kind = "filters"
      <4>1. [registry.filters EXCEPT ![h.name] = h.inst] \in [Names -> Nat]
        BY <1>t, <2>3, StartParts
      <4>2. registry' = [servlets |-> registry.servlets, filters |-> [registry.filters EXCEPT ![h.name] = h.inst]]
        BY <1>t, <2>1, <3>2, StartParts
      <4> QED BY <1>t, <4>1, <4>2, StartParts DEF Registry
    <3> QED BY <2>3, <3>1, <3>2
  <2> QED BY <1>t, <2>1, <2>2, <2>4 DEF StartTypes
<1>8. CASE LookupLoader
  <2>1. sci' \in Walk
    BY <1>8 DEF LookupLoader, NoSci, Walk
  <2>2. deployer' \in {"discover", "idle"} /\ UNCHANGED <<plan, made, registry, instances>>
    BY <1>8 DEF LookupLoader
  <2> QED BY <1>t, <2>1, <2>2 DEF StartTypes, StartPlaces
<1>9. CASE Discover
  <2>1. CASE FailTo("idle")
    <3>1. instances' \in Seq(Objects)
      BY <1>9, <1>t DEF Discover, StartTypes
    <3> QED BY <1>t, <2>1, <3>1, FailedTypes
  <2>2. CASE ~FailTo("idle")
    <3>1. /\ deployer' \in {"sci", "idle"} /\ (deployer' = "sci" => queue' = Initializers)
          /\ sci' = [sci EXCEPT !.ctx = byPath] /\ UNCHANGED <<plan, made, registry, instances>>
      BY <1>9, <2>2 DEF Discover
    <3>2. sci' \in Walk
      <4>1. byPath \in Nat
        BY DEF StartInv, AttachFacts
      <4> QED BY <1>t, <3>1, <4>1 DEF StartTypes, Walk
    <3>3. Initializers \in Seq(Found)
      BY StartAssumption DEF Found
    <3>4. deployer' = "sci" => queue' \in Seq(Found)
      BY <3>1, <3>3
    <3>5. /\ deployer' \in StartPlaces /\ plan' \in WebPlan /\ made' \in Seq(Handles)
          /\ instances' \in Seq(Objects) /\ registry' \in Registry
      BY <1>t, <3>1 DEF StartTypes, StartPlaces
    <3> QED BY <3>1, <3>2, <3>4, <3>5 DEF StartTypes
  <2> QED BY <2>1, <2>2
<1>10. CASE OnStartupAdds
  <2>1. PICK name \in Names, load \in {NoLoad, 1} : AddServlet(name, load)
    BY <1>10 DEF OnStartupAdds
  <2> DEFINE entry == [name |-> name, load |-> load, inst |-> Len(instances')]
  <2> HIDE DEF entry
  <2>2. /\ instances' = Append(instances, Instance("no", TRUE))
        /\ sci' = [sci EXCEPT !.added = Append(sci.added, entry)]
        /\ registry' = [registry EXCEPT !.servlets[name] = Len(instances')] \/ registry' = registry
        /\ UNCHANGED <<deployer, plan, queue, made>> /\ deployer = "sci"
    BY <1>10, <2>1 DEF AddServlet, OnStartupAdds, entry
  <2>3. instances \in Seq(Objects)
    BY <1>t DEF StartTypes
  <2>4. instances' \in Seq(Objects) /\ Len(instances') \in Nat
    BY <2>2, <2>3, ObjectsMade, Appended
  <2>5. entry \in Added
    BY <2>4, StartAssumption DEF entry, Added
  <2>6. sci' \in Walk
    <3>1. Append(sci.added, entry) \in Seq(Added)
      BY <1>t, <2>5, StartParts
    <3> QED BY <1>t, <2>2, <3>1 DEF StartTypes, Walk
  <2>7. registry' \in Registry
    <3>1. [registry.servlets EXCEPT ![name] = Len(instances')] \in [Names -> Nat]
      BY <1>t, <2>4, StartParts
    <3>2. registry \in Registry
      BY <1>t DEF StartTypes
    <3> QED BY <1>t, <2>2, <3>1, <3>2, StartParts DEF Registry
  <2> QED BY <1>t, <2>2, <2>4, <2>6, <2>7 DEF StartTypes
<1>11. CASE InvokeOk \/ InvokeFails
  <2>1. /\ deployer = "sci" /\ queue # <<>> /\ queue \in Seq(Found) /\ queue' = Tail(queue)
        /\ \/ sci' = [sci EXCEPT !.ran = Append(sci.ran, Head(queue))]
           \/ sci' = [sci EXCEPT !.errors = Append(sci.errors, Head(queue))]
        /\ UNCHANGED <<deployer, plan, made, registry, instances>>
    BY <1>11, <1>t DEF InvokeOk, InvokeFails, StartTypes
  <2>2. Head(queue) \in Found /\ queue' \in Seq(Found)
    BY <2>1
  <2>3. sci' \in Walk
    <3>1. Append(sci.ran, Head(queue)) \in Seq(Found) /\ Append(sci.errors, Head(queue)) \in Seq(Found)
      BY <1>t, <2>2, StartParts
    <3> QED BY <1>t, <2>1, <3>1 DEF StartTypes, Walk
  <2> QED BY <1>t, <2>1, <2>2, <2>3 DEF StartTypes
<1>12. CASE WalkDone
  <2>1. /\ deployer' = "init" /\ UNCHANGED <<plan, made, registry, instances, sci>>
        /\ \E order \in InitOrder : queue' = [k \in DOMAIN sci.added |-> sci.added[order[k]]]
    BY <1>12 DEF WalkDone
  <2>2. queue' \in Seq(Added)
    BY <1>t, <2>1, InitOrders
  <2> QED BY <1>t, <2>1, <2>2 DEF StartTypes, StartPlaces
<1>13. CASE InitDynamic
  <2>1. /\ deployer = "init" /\ queue # <<>> /\ queue \in Seq(Added) /\ queue' = Tail(queue)
        /\ \E state \in {"yes", "failed"} : instances' = [instances EXCEPT ![Head(queue).inst].init = state]
        /\ UNCHANGED <<deployer, plan, made, registry, sci>>
    BY <1>13, <1>t DEF InitDynamic, StartTypes
  <2>2. queue' \in Seq(Added)
    BY <2>1
  <2>3. instances' \in Seq(Objects)
    <3>1. PICK state \in {"yes", "failed"} : instances' = [instances EXCEPT ![Head(queue).inst].init = state]
      BY <2>1
    <3>2. instances \in Seq(Objects)
      BY <1>t DEF StartTypes
    <3>3. Head(queue).inst \in DOMAIN instances
      BY <2>1 DEF StartInv, AddedFacts
    <3> QED BY <3>1, <3>2, <3>3, ObjectsInitialised
  <2> QED BY <1>t, <2>1, <2>2, <2>3 DEF StartTypes
<1>14. ASSUME NEW id \in contexts, UnregisterContext(id)  PROVE StartTypes'
  BY <1>14, <1>t DEF UnregisterContext, StartTypes
<1>15. CASE UNCHANGED startVars
  BY <1>15, <1>t DEF startVars, StartTypes
<1> QED BY <1>1, <1>2, <1>3, <1>4, <1>5, <1>6, <1>7, <1>8, <1>9, <1>10, <1>11, <1>12, <1>13, <1>14, <1>15
        DEF StartNext

LEMMA AttachFactsKept ==
  ASSUME StartInv, [StartNext]_startVars
  PROVE  AttachFacts'
<1>1. StartTypes /\ AttachFacts
  BY DEF StartInv
<1>2. CASE EnsureWebapp \/ RegisterContext \/ AttachWebapp \/ ServletsStarted \/ SetClassLoader
           \/ Publish \/ Registered
  BY <1>1, <1>2 DEF EnsureWebapp, RegisterContext, AttachWebapp, ServletsStarted, SetClassLoader,
     Publish, Registered, AttachFacts
<1>3. CASE BuildLoaders \/ StartServlet \/ StartFilter
  BY <1>1, <1>3 DEF BuildLoaders, StartServlet, StartFilter, FailTo, AttachFacts
<1>4. CASE LookupLoader
  BY <1>1, <1>4 DEF LookupLoader, NoSci, AttachFacts
<1>5. CASE Discover
  BY <1>1, <1>5, StartParts DEF Discover, FailTo, StartTypes, Walk, AttachFacts
<1>6. CASE OnStartupAdds \/ InvokeOk \/ InvokeFails
  BY <1>1, <1>6, StartParts DEF OnStartupAdds, AddServlet, InvokeOk, InvokeFails, StartTypes, Walk, AttachFacts
<1>7. CASE WalkDone \/ InitDynamic \/ SciReport
  BY <1>1, <1>7 DEF WalkDone, InitDynamic, SciReport, AttachFacts
<1>8. ASSUME NEW id \in contexts, UnregisterContext(id)  PROVE AttachFacts'
  BY <1>1, <1>8 DEF UnregisterContext, DropIndex, AttachFacts
<1>9. CASE UNCHANGED startVars
  BY <1>1, <1>9 DEF startVars, AttachFacts
<1> QED BY <1>2, <1>3, <1>4, <1>5, <1>6, <1>7, <1>8, <1>9 DEF StartNext

LEMMA OrderFactsKept ==
  ASSUME StartInv, [StartNext]_startVars
  PROVE  OrderFacts'
<1>1. StartTypes /\ OrderFacts
  BY DEF StartInv
<1>2. CASE EnsureWebapp
  <2>1. \A i, j \in DOMAIN plan'.servlets : i < j => InOrder(plan'.servlets[i], plan'.servlets[j])
    BY <1>2, PlansAreSorted DEF EnsureWebapp
  <2>2. deployer' # "servlets" /\ made' = made
    BY <1>2 DEF EnsureWebapp
  <2> QED BY <1>1, <2>1, <2>2 DEF OrderFacts, StartsInOrder
<1>3. CASE BuildLoaders
  BY <1>1, <1>3 DEF BuildLoaders, FailTo, OrderFacts, StartsInOrder
<1>4. CASE StartServlet \/ StartFilter
  <2>1. CASE FailTo("failed")
    BY <1>1, <2>1 DEF FailTo, OrderFacts, StartsInOrder
  <2>2. CASE ~FailTo("failed") /\ StartServlet
    <3> DEFINE s == Head(queue)
               h == [kind |-> "servlets", name |-> s.name, inst |-> Len(instances'), load |-> s.load]
    <3> HIDE DEF h
    <3>1. /\ queue \in Seq(Declared) /\ queue # <<>> /\ queue' = Tail(queue) /\ made \in Seq(Handles)
          /\ made' = Append(made, h) /\ deployer = "servlets" /\ plan' = plan /\ deployer' = deployer
      BY <1>1, <2>2 DEF StartServlet, StartTypes, h
    <3>2. h.kind = "servlets" /\ h.load = s.load /\ s = queue[1]
      BY <3>1 DEF h
    <3>3. \A i \in DOMAIN made : InOrder(made[i], h)
      BY <1>1, <3>1, <3>2 DEF OrderFacts, InOrder, IsEager
    <3>4. DOMAIN made' = 1..Len(made) + 1 /\ Len(made) \in Nat /\ DOMAIN made = 1..Len(made)
          /\ (\A i \in 1..Len(made) : made'[i] = made[i]) /\ made'[Len(made) + 1] = h
      <4>1. made \in Seq(Handles \cup {h}) /\ h \in Handles \cup {h}
        BY <3>1
      <4> QED BY <4>1, <3>1, Appended
    <3>5. \A i, j \in 1..Len(queue) : i < j => InOrder(queue[i], queue[j])
      BY <1>1, <3>1 DEF OrderFacts
    <3>6. Len(queue') = Len(queue) - 1 /\ Len(queue) \in Nat /\ DOMAIN queue' = 1..Len(queue')
          /\ DOMAIN queue = 1..Len(queue) /\ \A j \in 1..Len(queue') : queue'[j] = queue[j + 1]
      BY <3>1
    <3>7. \A j \in 1..Len(queue') : InOrder(h, queue'[j])
      <4> TAKE j \in 1..Len(queue')
      <4>1. InOrder(queue[1], queue[j + 1]) /\ queue'[j] = queue[j + 1]
        BY <3>5, <3>6
      <4> QED BY <4>1, <3>2 DEF InOrder, IsEager
    <3>8. StartsInOrder'
      <4> SUFFICES ASSUME NEW i \in DOMAIN made', NEW j \in DOMAIN made', i < j, made'[j].kind = "servlets",
                          made'[i].kind = "servlets", IsEager(made'[j])
                   PROVE  IsEager(made'[i]) /\ made'[i].load <= made'[j].load
        BY DEF StartsInOrder, IsEager
      <4>1. CASE j = Len(made) + 1
        BY <3>3, <3>4, <4>1 DEF InOrder
      <4>2. CASE j # Len(made) + 1
        BY <1>1, <3>4, <4>2 DEF OrderFacts, StartsInOrder
      <4> QED BY <4>1, <4>2
    <3>9. \A i, j \in DOMAIN queue' : i < j => InOrder(queue'[i], queue'[j])
      BY <3>5, <3>6
    <3>10. \A i \in DOMAIN made', j \in DOMAIN queue' : InOrder(made'[i], queue'[j])
      <4> TAKE i \in DOMAIN made', j \in DOMAIN queue'
      <4>1. CASE i = Len(made) + 1
        BY <3>4, <3>6, <3>7, <4>1
      <4>2. CASE i # Len(made) + 1
        <5>1. i \in DOMAIN made /\ made'[i] = made[i] /\ j + 1 \in DOMAIN queue /\ queue'[j] = queue[j + 1]
          BY <3>4, <3>6, <4>2
        <5> QED BY <5>1, <1>1, <3>1 DEF OrderFacts
      <4> QED BY <4>1, <4>2
    <3>11. \A i, j \in DOMAIN plan.servlets : i < j => InOrder(plan.servlets[i], plan.servlets[j])
      BY <1>1 DEF OrderFacts
    <3> QED BY <3>1, <3>8, <3>9, <3>10, <3>11 DEF OrderFacts
  <2>3. CASE ~FailTo("failed") /\ StartFilter
    <3> DEFINE h == [kind |-> "filters", name |-> Head(queue), inst |-> Len(instances'), load |-> NoLoad]
    <3> HIDE DEF h
    <3>1. /\ made \in Seq(Handles) /\ made' = Append(made, h) /\ deployer' = "filters" /\ plan' = plan
          /\ h.kind = "filters"
      BY <1>1, <2>3 DEF StartFilter, StartTypes, h
    <3>2. DOMAIN made' = 1..Len(made) + 1 /\ Len(made) \in Nat /\ DOMAIN made = 1..Len(made)
          /\ (\A i \in 1..Len(made) : made'[i] = made[i]) /\ made'[Len(made) + 1] = h
      <4>1. made \in Seq(Handles \cup {h}) /\ h \in Handles \cup {h}
        BY <3>1
      <4> QED BY <4>1, <3>1, Appended
    <3>3. StartsInOrder'
      BY <1>1, <3>1, <3>2 DEF OrderFacts, StartsInOrder, IsEager
    <3> QED BY <1>1, <3>1, <3>3 DEF OrderFacts
  <2> QED BY <1>4, <2>1, <2>2, <2>3
<1>5. CASE Publish
  <2>1. made \in Seq(Handles) /\ made # <<>> /\ made' = Tail(made) /\ deployer' = "publish" /\ plan' = plan
    BY <1>1, <1>5 DEF Publish, StartTypes
  <2>2. Len(made) \in Nat /\ DOMAIN made = 1..Len(made) /\ DOMAIN made' = 1..Len(made) - 1
        /\ \A i \in DOMAIN made' : made'[i] = made[i + 1]
    BY <2>1
  <2>3. StartsInOrder'
    BY <1>1, <2>2 DEF OrderFacts, StartsInOrder, IsEager
  <2> QED BY <1>1, <2>1, <2>3 DEF OrderFacts
<1>6. ASSUME deployer' # "servlets", UNCHANGED <<plan, made>>  PROVE OrderFacts'
  BY <1>1, <1>6 DEF OrderFacts, StartsInOrder
<1>7. CASE RegisterContext \/ AttachWebapp \/ ServletsStarted \/ SetClassLoader \/ Registered
           \/ LookupLoader
  BY <1>6, <1>7 DEF RegisterContext, AttachWebapp, ServletsStarted, SetClassLoader, Registered,
     LookupLoader
<1>8. CASE OnStartupAdds \/ InvokeOk \/ InvokeFails \/ WalkDone \/ InitDynamic \/ SciReport
  BY <1>6, <1>8 DEF OnStartupAdds, AddServlet, InvokeOk, InvokeFails, WalkDone, InitDynamic, SciReport
<1>9. CASE Discover
  BY <1>1, <1>6, <1>9 DEF Discover, FailTo, OrderFacts, StartsInOrder
<1>10. ASSUME NEW id \in contexts, UnregisterContext(id)  PROVE OrderFacts'
  BY <1>6, <1>10 DEF UnregisterContext
<1>11. CASE UNCHANGED startVars
  BY <1>1, <1>11 DEF startVars, OrderFacts, StartsInOrder
<1> QED BY <1>2, <1>3, <1>4, <1>5, <1>7, <1>8, <1>9, <1>10, <1>11 DEF StartNext

\* The provers see these sums only as sums of any two numbers.
LEMMA Sums ==
  ASSUME NEW a \in Nat, NEW b \in Nat
  PROVE  a + b \in Nat /\ (a + 1) + b = (a + b) + 1 /\ a + (b + 1) = (a + b) + 1
OBVIOUS

LEMMA WalkFactsKept ==
  ASSUME StartInv, [StartNext]_startVars
  PROVE  WalkFacts'
<1>1. StartTypes /\ WalkFacts
  BY DEF StartInv
<1> DEFINE N == Len(Initializers)
<1>2. N \in Nat /\ DOMAIN Initializers = 1..N /\ Initializers \in Seq(Found)
  BY StartAssumption DEF Found
<1>3. InitializersHeard \in Nat /\ sci.ran \in Seq(Found) /\ sci.errors \in Seq(Found)
  <2>1. sci.ran \in Seq(Found) /\ sci.errors \in Seq(Found)
    BY <1>1, StartParts
  <2>2. Len(sci.ran) \in Nat /\ Len(sci.errors) \in Nat
    BY <2>1
  <2>3. InitializersHeard \in Nat
    BY <2>2, Sums DEF InitializersHeard
  <2> QED BY <2>1, <2>3
<1>0. \A k \in 1..N : Initializers[k] \in Found
  BY <1>2
<1> HIDE DEF N
<1>4. CASE Discover
  <2>1. CASE deployer' # "sci"
    BY <1>4, <2>1 DEF Discover, FailTo, WalkFacts
  <2>2. CASE deployer' = "sci"
    <3>1. queue' = Initializers /\ sci'.ran = sci.ran /\ sci'.errors = sci.errors /\ deployer = "discover"
      BY <1>1, <1>4, <2>2 DEF Discover, FailTo, StartTypes, Walk
    <3>2. sci.ran = <<>> /\ sci.errors = <<>>
      BY <3>1 DEF StartInv, AddedFacts
    <3>3. InitializersHeard' = 0
      BY <3>1, <3>2 DEF InitializersHeard
    <3>4. /\ InitializersHeard' <= N /\ 1..InitializersHeard' = {} /\ Len(queue') = N - InitializersHeard'
          /\ \A k \in DOMAIN queue' : queue'[k] = Initializers[InitializersHeard' + k]
      BY <1>2, <3>1, <3>3 DEF N
    <3> QED BY <2>2, <3>4 DEF WalkFacts, N
  <2> QED BY <2>1, <2>2
<1>5. ASSUME deployer' = deployer, queue' = queue, sci'.ran = sci.ran, sci'.errors = sci.errors
      PROVE  WalkFacts'
  BY <1>1, <1>5 DEF WalkFacts, InitializersHeard
<1>6. CASE OnStartupAdds
  <2>1. sci'.ran = sci.ran /\ sci'.errors = sci.errors
    BY <1>1, <1>6 DEF OnStartupAdds, AddServlet, StartTypes, Walk
  <2> QED BY <1>5, <1>6, <2>1 DEF OnStartupAdds, AddServlet
<1>7. CASE InvokeOk \/ InvokeFails
  <2> DEFINE x == Head(queue)
  <2>1. /\ deployer = "sci" /\ queue # <<>> /\ queue \in Seq(Found) /\ queue' = Tail(queue)
        /\ deployer' = deployer
        /\ \/ sci' = [sci EXCEPT !.ran = Append(sci.ran, x)]
           \/ sci' = [sci EXCEPT !.errors = Append(sci.errors, x)]
    BY <1>1, <1>7 DEF InvokeOk, InvokeFails, StartTypes
  <2>9. /\ x \in Found /\ x = queue[1] /\ 1 \in DOMAIN queue
        /\ Len(queue) \in Nat /\ DOMAIN queue = 1..Len(queue)
    BY <2>1
  <2>2. /\ Len(queue) = N - InitializersHeard /\ InitializersHeard <= N
        /\ \A k \in DOMAIN queue : queue[k] = Initializers[InitializersHeard + k]
    BY <1>1, <2>1 DEF WalkFacts, N
  <2>3. x = Initializers[InitializersHeard + 1] /\ InitializersHeard + 1 <= N
    BY <1>2, <1>3, <2>2, <2>9
  <2>4. Len(queue') = N - (InitializersHeard + 1)
        /\ \A k \in DOMAIN queue' : queue'[k] = Initializers[(InitializersHeard + 1) + k]
    <3>1. Len(queue') = Len(queue) - 1 /\ DOMAIN queue' = 1..Len(queue) - 1
          /\ \A k \in 1..Len(queue) - 1 : queue'[k] = queue[k + 1]
      BY <2>1
    <3>2. \A k \in 1..Len(queue) - 1 : k + 1 \in 1..Len(queue) /\ InitializersHeard + (k + 1) = (InitializersHeard + 1) + k
      BY <1>3, <2>9
    <3>3. Len(queue') = N - (InitializersHeard + 1)
      BY <1>2, <1>3, <2>2, <2>9, <3>1
    <3>4. \A k \in DOMAIN queue' : queue'[k] = Initializers[InitializersHeard + (k + 1)]
      BY <2>2, <2>9, <3>1, <3>2
    <3> QED BY <3>1, <3>2, <3>3, <3>4
  <2> HIDE DEF x
  <2>5. /\ InitializersHeard' = InitializersHeard + 1
        /\ Range(sci'.ran) \cup Range(sci'.errors) = Range(sci.ran) \cup Range(sci.errors) \cup {x}
    <3>1. ASSUME NEW s \in Seq(Found)
          PROVE  Len(Append(s, x)) = Len(s) + 1 /\ Range(Append(s, x)) = Range(s) \cup {x}
      BY <2>9, <3>1, Appended DEF Range
    <3>2. CASE sci' = [sci EXCEPT !.ran = Append(sci.ran, x)]
      <4>1. sci'.ran = Append(sci.ran, x) /\ sci'.errors = sci.errors
        BY <1>1, <3>2 DEF StartTypes, Walk
      <4>2. Len(sci'.ran) = Len(sci.ran) + 1 /\ Range(sci'.ran) = Range(sci.ran) \cup {x}
        BY <1>3, <3>1, <4>1
      <4>3. Len(sci.ran) \in Nat /\ Len(sci.errors) \in Nat
        BY <1>3
      <4>4. InitializersHeard' = InitializersHeard + 1
        BY <4>1, <4>2, <4>3, Sums DEF InitializersHeard
      <4>5. Range(sci'.ran) \cup Range(sci'.errors) = Range(sci.ran) \cup Range(sci.errors) \cup {x}
        BY <4>1, <4>2
      <4> QED BY <4>4, <4>5
    <3>3. CASE sci' = [sci EXCEPT !.errors = Append(sci.errors, x)]
      <4>1. sci'.errors = Append(sci.errors, x) /\ sci'.ran = sci.ran
        BY <1>1, <3>3 DEF StartTypes, Walk
      <4>2. Len(sci'.errors) = Len(sci.errors) + 1 /\ Range(sci'.errors) = Range(sci.errors) \cup {x}
        BY <1>3, <3>1, <4>1
      <4>3. Len(sci.ran) \in Nat /\ Len(sci.errors) \in Nat
        BY <1>3
      <4>4. InitializersHeard' = InitializersHeard + 1
        BY <4>1, <4>2, <4>3, Sums DEF InitializersHeard
      <4>5. Range(sci'.ran) \cup Range(sci'.errors) = Range(sci.ran) \cup Range(sci.errors) \cup {x}
        BY <4>1, <4>2
      <4> QED BY <4>4, <4>5
    <3> QED BY <2>1, <3>2, <3>3
  <2>6. \A k \in 1..InitializersHeard + 1 : Initializers[k] \in Range(sci'.ran) \cup Range(sci'.errors)
    <3> TAKE k \in 1..InitializersHeard + 1
    <3>1. CASE k = InitializersHeard + 1
      BY <2>3, <2>5, <3>1
    <3>2. CASE k # InitializersHeard + 1
      <4>1. k \in 1..InitializersHeard
        BY <1>3, <3>2
      <4>2. Initializers[k] \in Range(sci.ran) \cup Range(sci.errors)
        BY <1>1, <2>1, <4>1 DEF WalkFacts
      <4> QED BY <2>5, <4>2
    <3> QED BY <3>1, <3>2
  <2> QED BY <2>1, <2>3, <2>4, <2>5, <2>6 DEF WalkFacts, N
<1>8. CASE WalkDone
  <2>1. deployer = "sci" /\ queue = <<>> /\ deployer' = "init" /\ sci' = sci
    BY <1>8 DEF WalkDone
  <2>2. InitializersHeard = N
    <3>1. Len(queue) = N - InitializersHeard
      BY <1>1, <2>1 DEF WalkFacts, N
    <3>2. Len(queue) = 0
      BY <2>1
    <3> QED BY <1>2, <1>3, <3>1, <3>2
  <2>3. InitializersHeard' = InitializersHeard
    BY <2>1 DEF InitializersHeard
  <2> QED BY <1>1, <2>1, <2>2, <2>3 DEF WalkFacts, N
<1>9. CASE InitDynamic
  BY <1>1, <1>9 DEF InitDynamic, WalkFacts, InitializersHeard
<1>10. ASSUME deployer' \notin {"sci", "init"}  PROVE WalkFacts'
  BY <1>10 DEF WalkFacts
<1>11. CASE EnsureWebapp \/ RegisterContext \/ AttachWebapp \/ ServletsStarted \/ SetClassLoader
            \/ Publish \/ Registered \/ LookupLoader \/ SciReport
  BY <1>10, <1>11 DEF EnsureWebapp, RegisterContext, AttachWebapp, ServletsStarted, SetClassLoader,
     Publish, Registered, LookupLoader, SciReport
<1>12. CASE BuildLoaders \/ StartServlet \/ StartFilter
  BY <1>10, <1>12 DEF BuildLoaders, StartServlet, StartFilter, FailTo
<1>13. ASSUME NEW id \in contexts, UnregisterContext(id)  PROVE WalkFacts'
  BY <1>5, <1>13 DEF UnregisterContext
<1>14. CASE UNCHANGED startVars
  BY <1>5, <1>14 DEF startVars
<1> QED BY <1>4, <1>6, <1>7, <1>8, <1>9, <1>11, <1>12, <1>13, <1>14 DEF StartNext

LEMMA AddedFactsKept ==
  ASSUME StartInv, [StartNext]_startVars
  PROVE  AddedFacts'
<1>1. StartTypes /\ AddedFacts
  BY DEF StartInv
<1>2. CASE Discover
  <2>1. CASE deployer' = "sci"
    <3>1. sci'.added = sci.added /\ deployer = "discover"
      BY <1>1, <1>2, <2>1 DEF Discover, FailTo, StartTypes, Walk
    <3>2. sci.added = <<>>
      BY <1>1, <3>1 DEF AddedFacts
    <3> QED BY <2>1, <3>1, <3>2 DEF AddedFacts
  <2>2. CASE deployer' # "sci"
    BY <1>2, <2>2 DEF Discover, FailTo, AddedFacts
  <2> QED BY <2>1, <2>2
<1>3. CASE LookupLoader
  BY <1>3 DEF LookupLoader, NoSci, AddedFacts
<1>4. CASE OnStartupAdds
  <2>1. PICK name \in Names, load \in {NoLoad, 1} : AddServlet(name, load)
    BY <1>4 DEF OnStartupAdds
  <2> DEFINE entry == [name |-> name, load |-> load, inst |-> Len(instances')]
             s == sci.added
             n == Len(s)
             m == Len(instances)
  <2> HIDE DEF entry
  <2>2. /\ instances' = Append(instances, Instance("no", TRUE)) /\ name \notin AddedNames
        /\ sci' = [sci EXCEPT !.added = Append(s, entry)] /\ deployer = "sci"
        /\ registry' = (IF sci.ctx \in attached THEN [registry EXCEPT !.servlets[name] = Len(instances')]
                                               ELSE registry)
        /\ UNCHANGED <<deployer, queue>>
    BY <1>4, <2>1 DEF AddServlet, OnStartupAdds, entry
  <2>3. instances \in Seq(Objects) /\ s \in Seq(Added) /\ n \in Nat /\ m \in Nat
        /\ DOMAIN instances = 1..m /\ DOMAIN s = 1..n
    BY <1>1, StartParts DEF StartTypes
  <2>4. /\ Len(instances') = m + 1 /\ DOMAIN instances' = 1..m + 1
        /\ (\A i \in 1..m : instances'[i] = instances[i]) /\ instances'[m + 1] = Instance("no", TRUE)
    <3>1. Instance("no", TRUE) \in Objects
      BY DEF Instance, Objects
    <3>2. \A os \in Seq(Objects), x \in Objects :
            /\ Len(Append(os, x)) = Len(os) + 1 /\ DOMAIN Append(os, x) = 1..Len(os) + 1
            /\ \A i \in 1..Len(os) : Append(os, x)[i] = os[i]
            /\ Append(os, x)[Len(os) + 1] = x
      BY Appended
    <3> QED BY <2>2, <2>3, <3>1, <3>2
  <2>5. entry.name = name /\ entry.inst = m + 1 /\ entry \in Added
    BY <2>4, <2>3, StartAssumption DEF entry, Added
  <2>6. /\ sci'.added = Append(s, entry) /\ DOMAIN sci'.added = 1..n + 1
        /\ (\A k \in 1..n : sci'.added[k] = s[k]) /\ sci'.added[n + 1] = entry
    <3>1. sci'.added = Append(s, entry)
      BY <1>1, <2>2 DEF StartTypes, Walk
    <3> QED BY <2>3, <2>5, <3>1, Appended
  <2>7. registry'.servlets = [registry.servlets EXCEPT ![name] = m + 1]
    <3>1. sci.ctx \in attached
      BY <2>2 DEF StartInv, AttachFacts
    <3> QED BY <1>1, <2>2, <2>4, <3>1, StartParts
  <2>8. registry'.servlets[name] = m + 1 /\ \A other \in Names : other # name => registry'.servlets[other] = registry.servlets[other]
    BY <1>1, <2>7, StartParts
  <2>9. \A k \in 1..n : s[k].name # name /\ s[k].name \in Names /\ s[k] \in Added
    <3>1. \A k \in 1..n : s[k] \in Added
      BY <2>3
    <3>2. \A k \in 1..n : s[k].name \in Names
      BY <3>1 DEF Added
    <3>3. \A k \in 1..n : s[k].name # name
      BY <2>2, <2>3 DEF AddedNames
    <3> QED BY <3>1, <3>2, <3>3
  <2>10. \A k \in 1..n : /\ s[k].inst \in 1..m /\ instances[s[k].inst].dynamic
                         /\ registry.servlets[s[k].name] = s[k].inst
                         /\ \A l \in 1..n : s[l].name = s[k].name => l = k
    BY <1>1, <2>2, <2>3 DEF AddedFacts
  <2>11. ASSUME NEW k \in 1..n
         PROVE  /\ sci'.added[k].inst \in DOMAIN instances' /\ instances'[sci'.added[k].inst].dynamic
                /\ registry'.servlets[sci'.added[k].name] = sci'.added[k].inst
                /\ \A l \in 1..n + 1 : sci'.added[l].name = sci'.added[k].name => l = k
    <3>1. sci'.added[k].inst \in DOMAIN instances' /\ instances'[sci'.added[k].inst] = instances[s[k].inst]
      BY <2>3, <2>4, <2>6, <2>10, <2>11
    <3>2. registry'.servlets[sci'.added[k].name] = sci'.added[k].inst
      BY <2>6, <2>8, <2>9, <2>10, <2>11
    <3>3. ASSUME NEW l \in 1..n + 1, sci'.added[l].name = sci'.added[k].name  PROVE l = k
      <4>1. CASE l = n + 1
        BY <2>5, <2>6, <2>9, <2>11, <3>3, <4>1
      <4>2. CASE l # n + 1
        <5>1. l \in 1..n
          BY <2>3, <4>2
        <5> QED BY <2>6, <2>10, <2>11, <3>3, <5>1
      <4> QED BY <4>1, <4>2
    <3> QED BY <2>10, <2>11, <3>1, <3>2, <3>3
  <2>12. /\ entry.inst \in DOMAIN instances' /\ instances'[entry.inst].dynamic
         /\ registry'.servlets[entry.name] = entry.inst
         /\ \A l \in 1..n + 1 : sci'.added[l].name = entry.name => l = n + 1
    <3>1. entry.inst \in DOMAIN instances' /\ instances'[entry.inst] = Instance("no", TRUE)
      <4>1. m + 1 \in 1..m + 1
        BY <2>3
      <4> QED BY <2>4, <2>5, <4>1
    <3>2. instances'[entry.inst].dynamic
      BY <3>1 DEF Instance
    <3>3. ASSUME NEW l \in 1..n + 1, sci'.added[l].name = entry.name  PROVE l = n + 1
      <4> SUFFICES ASSUME l \in 1..n  PROVE FALSE
        BY <2>3
      <4> QED BY <2>5, <2>6, <2>9, <3>3
    <3> QED BY <2>5, <2>8, <3>1, <3>2, <3>3
  <2>13. \A k \in DOMAIN sci'.added :
           /\ sci'.added[k].inst \in DOMAIN instances' /\ instances'[sci'.added[k].inst].dynamic
           /\ registry'.servlets[sci'.added[k].name] = sci'.added[k].inst
           /\ \A l \in DOMAIN sci'.added : sci'.added[l].name = sci'.added[k].name => l = k
    <3> TAKE k \in DOMAIN sci'.added
    <3>1. CASE k = n + 1
      BY <2>6, <2>12, <3>1
    <3>2. CASE k # n + 1
      <4>1. k \in 1..n
        BY <2>3, <2>6, <3>2
      <4> QED BY <2>6, <2>11, <4>1
    <3> QED BY <3>1, <3>2
  <2> QED BY <2>2, <2>13 DEF AddedFacts
<1>5. CASE InvokeOk \/ InvokeFails
  <2>1. sci'.added = sci.added /\ deployer = "sci" /\ UNCHANGED <<deployer, registry, instances>>
    BY <1>1, <1>5 DEF InvokeOk, InvokeFails, StartTypes, Walk
  <2> QED BY <1>1, <2>1 DEF AddedFacts
<1>6. CASE WalkDone
  <2>1. /\ deployer = "sci" /\ deployer' = "init" /\ UNCHANGED <<registry, instances, sci>>
        /\ \E order \in InitOrder : queue' = [k \in DOMAIN sci.added |-> sci.added[order[k]]]
    BY <1>6 DEF WalkDone
  <2>2. \A k \in DOMAIN queue' : \E l \in DOMAIN sci.added : queue'[k] = sci.added[l]
    BY <1>1, <2>1, InitOrders
  <2> QED BY <1>1, <2>1, <2>2 DEF AddedFacts
<1>7. CASE InitDynamic
  <2>1. /\ deployer = "init" /\ queue # <<>> /\ queue \in Seq(Added) /\ queue' = Tail(queue)
        /\ UNCHANGED <<deployer, registry, sci>>
    BY <1>1, <1>7 DEF InitDynamic, StartTypes
  <2>2. PICK state \in {"yes", "failed"} : instances' = [instances EXCEPT ![Head(queue).inst].init = state]
    BY <1>7 DEF InitDynamic
  <2>3. instances \in Seq(Objects) /\ Head(queue).inst \in DOMAIN instances
    BY <1>1, <2>1 DEF StartTypes, AddedFacts
  <2>4. DOMAIN instances' = DOMAIN instances /\ \A i \in DOMAIN instances : instances'[i].dynamic = instances[i].dynamic
    BY <2>2, <2>3, ObjectsInitialised
  <2>5. \A k \in DOMAIN queue' : k + 1 \in DOMAIN queue /\ queue'[k] = queue[k + 1]
    BY <2>1
  <2> QED BY <1>1, <2>1, <2>4, <2>5 DEF AddedFacts
<1>8. ASSUME deployer' \notin {"discover", "sci", "init"}  PROVE AddedFacts'
  BY <1>8 DEF AddedFacts
<1>9. CASE EnsureWebapp \/ RegisterContext \/ AttachWebapp \/ ServletsStarted \/ SetClassLoader
           \/ Publish \/ Registered \/ SciReport
  BY <1>8, <1>9 DEF EnsureWebapp, RegisterContext, AttachWebapp, ServletsStarted, SetClassLoader,
     Publish, Registered, SciReport
<1>10. CASE BuildLoaders \/ StartServlet \/ StartFilter
  BY <1>8, <1>10 DEF BuildLoaders, StartServlet, StartFilter, FailTo
<1>11. ASSUME NEW id \in contexts, UnregisterContext(id)  PROVE AddedFacts'
  BY <1>8, <1>11 DEF UnregisterContext
<1>12. CASE UNCHANGED startVars
  BY <1>1, <1>12 DEF startVars, AddedFacts
<1> QED BY <1>2, <1>3, <1>4, <1>5, <1>6, <1>7, <1>9, <1>10, <1>11, <1>12 DEF StartNext

\* A step that publishes nothing and calls no init() of what is published.
LEMMA PublishedStays ==
  ASSUME PublishFacts, deployer \notin {"sci", "init"}, registry' = registry,
         \A i \in DOMAIN instances : i \in DOMAIN instances' /\ instances'[i] = instances[i],
         made' # <<>> => deployer' \in {"servlets", "filters", "publish"},
         \A k \in DOMAIN made' : made'[k].inst \in DOMAIN instances' /\ instances'[made'[k].inst].init = "yes"
  PROVE  PublishFacts'
<1>1. Published' = Published
  BY DEF Published
<1>2. \A i \in Published : i \in DOMAIN instances' /\ instances'[i] = instances[i]
  BY DEF PublishFacts
<1>3. \A i \in Published : instances[i].init = "yes" \/ (instances[i].dynamic /\ instances[i].init = "failed")
  BY DEF PublishFacts, Pending
<1> QED BY <1>1, <1>2, <1>3 DEF PublishFacts

\* A step of the walk that leaves the objects and what is left to do.
LEMMA PendingStays ==
  ASSUME PublishFacts, UNCHANGED <<registry, instances, made>>,
         made # <<>> => deployer' = deployer,
         \A i \in Published : Pending(i) => Pending(i)'
  PROVE  PublishFacts'
<1>1. Published' = Published
  BY DEF Published
<1> QED BY <1>1 DEF PublishFacts

\* A handle made from an object whose init() has succeeded.
LEMMA HandleMade ==
  ASSUME PublishFacts, made \in Seq(Handles), instances \in Seq(Objects), NEW h \in Handles,
         instances' = Append(instances, Instance("yes", FALSE)),
         made' = Append(made, h), h.inst = Len(instances')
  PROVE  /\ \A i \in DOMAIN instances : i \in DOMAIN instances' /\ instances'[i] = instances[i]
         /\ \A k \in DOMAIN made' :
              made'[k].inst \in DOMAIN instances' /\ instances'[made'[k].inst].init = "yes"
<1> DEFINE m == Len(instances)
           n == Len(made)
<1>1. Instance("yes", FALSE) \in Objects /\ Instance("yes", FALSE).init = "yes"
  BY ObjectsMade
<1>2. \A os \in Seq(Objects), x \in Objects :
        /\ Len(Append(os, x)) = Len(os) + 1 /\ DOMAIN Append(os, x) = 1..Len(os) + 1
        /\ Len(os) \in Nat /\ DOMAIN os = 1..Len(os)
        /\ \A i \in 1..Len(os) : Append(os, x)[i] = os[i]
        /\ Append(os, x)[Len(os) + 1] = x
  BY Appended
<1>3. /\ Len(instances') = m + 1 /\ DOMAIN instances' = 1..m + 1 /\ m \in Nat /\ DOMAIN instances = 1..m
      /\ (\A i \in 1..m : instances'[i] = instances[i]) /\ instances'[m + 1] = Instance("yes", FALSE)
  BY <1>1, <1>2
<1>4. \A hs \in Seq(Handles) :
        /\ DOMAIN Append(hs, h) = 1..Len(hs) + 1 /\ Len(hs) \in Nat /\ DOMAIN hs = 1..Len(hs)
        /\ \A i \in 1..Len(hs) : Append(hs, h)[i] = hs[i]
        /\ Append(hs, h)[Len(hs) + 1] = h
  BY Appended
<1>5. /\ DOMAIN made' = 1..n + 1 /\ n \in Nat /\ DOMAIN made = 1..n
      /\ (\A k \in 1..n : made'[k] = made[k]) /\ made'[n + 1] = h
  BY <1>4
<1> HIDE DEF m, n
<1>6. \A i \in DOMAIN instances : i \in DOMAIN instances' /\ instances'[i] = instances[i]
  <2>1. \A i \in 1..m : i \in 1..m + 1
    BY <1>3
  <2> QED BY <1>3, <2>1
<1>7. ASSUME NEW k \in DOMAIN made'
      PROVE  made'[k].inst \in DOMAIN instances' /\ instances'[made'[k].inst].init = "yes"
  <2>1. CASE k \in 1..n
    <3>1. made'[k] = made[k] /\ made[k].inst \in DOMAIN instances /\ instances[made[k].inst].init = "yes"
      BY <1>5, <2>1 DEF PublishFacts
    <3> QED BY <1>6, <3>1
  <2>2. CASE k \notin 1..n
    <3>1. k = n + 1
      BY <1>5, <1>7, <2>2
    <3>2. made'[k].inst = m + 1 /\ m + 1 \in 1..m + 1
      BY <1>3, <1>5, <3>1
    <3> QED BY <1>1, <1>3, <3>2
  <2> QED BY <2>1, <2>2
<1> QED BY <1>6, <1>7

\* An object whose init() failed or is to come joins the others.
LEMMA ObjectAdded ==
  ASSUME instances \in Seq(Objects), NEW x \in Objects, instances' = Append(instances, x)
  PROVE  /\ \A i \in DOMAIN instances : i \in DOMAIN instances' /\ instances'[i] = instances[i]
         /\ Len(instances') \in DOMAIN instances' /\ instances'[Len(instances')] = x
<1>1. /\ Len(instances') = Len(instances) + 1 /\ DOMAIN instances' = 1..Len(instances) + 1
      /\ Len(instances) \in Nat /\ DOMAIN instances = 1..Len(instances)
      /\ \A i \in 1..Len(instances) : instances'[i] = instances[i]
      /\ instances'[Len(instances) + 1] = x
  BY Appended
<1>2. \A i \in 1..Len(instances) : i \in 1..Len(instances) + 1
  BY <1>1
<1>3. Len(instances) + 1 \in 1..Len(instances) + 1
  BY <1>1
<1> QED BY <1>1, <1>2, <1>3

LEMMA PublishFactsKept ==
  ASSUME StartInv, [StartNext]_startVars
  PROVE  PublishFacts'
<1>1. StartTypes /\ PublishFacts /\ AddedFacts
  BY DEF StartInv
<1>t. made \in Seq(Handles) /\ instances \in Seq(Objects)
  BY <1>1 DEF StartTypes
<1>2. ASSUME FailTo("failed"), deployer \notin {"sci", "init"}, NEW x \in Objects,
             instances' = Append(instances, x)
      PROVE  PublishFacts'
  <2>1. made' = <<>> /\ registry' = registry
    BY <1>2 DEF FailTo
  <2>2. \A i \in DOMAIN instances : i \in DOMAIN instances' /\ instances'[i] = instances[i]
    BY <1>t, <1>2, ObjectAdded
  <2> QED BY <1>1, <1>2, <2>1, <2>2, PublishedStays
<1>3. CASE StartServlet
  <2>1. deployer = "servlets"
    BY <1>3 DEF StartServlet
  <2>2. CASE FailTo("failed")
    <3>1. \E x \in Objects : instances' = Append(instances, x)
      BY <1>3, ObjectsMade DEF StartServlet
    <3> QED BY <1>2, <2>1, <2>2, <3>1
  <2>3. CASE ~FailTo("failed")
    <3> DEFINE h == [kind |-> "servlets", name |-> Head(queue).name,
                     inst |-> Len(instances'), load |-> Head(queue).load]
    <3> HIDE DEF h
    <3>1. /\ instances' = Append(instances, Instance("yes", FALSE)) /\ made' = Append(made, h)
          /\ queue \in Seq(Declared) /\ queue # <<>> /\ deployer' = deployer /\ registry' = registry
      BY <1>1, <1>3, <2>3 DEF StartServlet, StartTypes, h
    <3>2. Head(queue) \in Declared /\ Len(instances') \in Nat
      BY <1>t, <3>1, ObjectsMade, Appended
    <3>3. h \in Handles /\ h.inst = Len(instances')
      BY <3>2 DEF Handles, Declared, h
    <3>4. /\ \A i \in DOMAIN instances : i \in DOMAIN instances' /\ instances'[i] = instances[i]
          /\ \A k \in DOMAIN made' :
               made'[k].inst \in DOMAIN instances' /\ instances'[made'[k].inst].init = "yes"
      BY <1>1, <1>t, <3>1, <3>3, HandleMade
    <3> QED BY <1>1, <2>1, <3>1, <3>4, PublishedStays
  <2> QED BY <2>2, <2>3
<1>4. CASE StartFilter
  <2>1. deployer = "filters"
    BY <1>4 DEF StartFilter
  <2>2. CASE FailTo("failed")
    <3>1. \E x \in Objects : instances' = Append(instances, x)
      BY <1>4, ObjectsMade DEF StartFilter
    <3> QED BY <1>2, <2>1, <2>2, <3>1
  <2>3. CASE ~FailTo("failed")
    <3> DEFINE h == [kind |-> "filters", name |-> Head(queue),
                     inst |-> Len(instances'), load |-> NoLoad]
    <3> HIDE DEF h
    <3>1. /\ instances' = Append(instances, Instance("yes", FALSE)) /\ made' = Append(made, h)
          /\ queue \in Seq(Names) /\ queue # <<>> /\ deployer' = deployer /\ registry' = registry
      BY <1>1, <1>4, <2>1, <2>3 DEF StartFilter, StartTypes, h
    <3>2. Head(queue) \in Names /\ Len(instances') \in Nat
      BY <1>t, <3>1, ObjectsMade, Appended
    <3>3. h \in Handles /\ h.inst = Len(instances')
      BY <3>2, StartAssumption DEF Handles, h
    <3>4. /\ \A i \in DOMAIN instances : i \in DOMAIN instances' /\ instances'[i] = instances[i]
          /\ \A k \in DOMAIN made' :
               made'[k].inst \in DOMAIN instances' /\ instances'[made'[k].inst].init = "yes"
      BY <1>1, <1>t, <3>1, <3>3, HandleMade
    <3> QED BY <1>1, <2>1, <3>1, <3>4, PublishedStays
  <2> QED BY <2>2, <2>3
<1>5. CASE Publish
  <2> DEFINE h == Head(made)
  <2>1. /\ deployer = "publish" /\ deployer' = deployer /\ made # <<>> /\ made' = Tail(made)
        /\ registry' = [registry EXCEPT ![h.kind][h.name] = h.inst] /\ UNCHANGED <<instances, queue, sci>>
    BY <1>5 DEF Publish
  <2>2. h = made[1] /\ 1 \in DOMAIN made /\ h \in Handles
    BY <1>t, <2>1
  <2>3. h.inst \in DOMAIN instances /\ instances[h.inst].init = "yes"
    BY <1>1, <2>2 DEF PublishFacts
  <2> HIDE DEF h
  <2>4. h.kind \in {"servlets", "filters"} /\ h.name \in Names
    BY <2>2 DEF Handles
  <2>5. /\ \A n \in Names : registry'.servlets[n] \in {registry.servlets[n], h.inst}
        /\ \A n \in Names : registry'.filters[n] \in {registry.filters[n], h.inst}
    BY <1>1, <2>1, <2>4, StartParts
  <2>6. Published' \subseteq Published \cup {h.inst}
    BY <2>5 DEF Published
  <2>7. \A k \in DOMAIN made' : k + 1 \in DOMAIN made /\ made'[k] = made[k + 1]
    BY <1>t, <2>1
  <2>8. \A i \in Published : i \in DOMAIN instances
          /\ (instances[i].init = "yes" \/ (instances[i].dynamic /\ instances[i].init = "failed"))
    BY <1>1, <2>1 DEF PublishFacts, Pending
  <2>9. \A i \in Published' : i \in DOMAIN instances
          /\ (instances[i].init = "yes" \/ (instances[i].dynamic /\ instances[i].init = "failed"))
    BY <2>3, <2>6, <2>8
  <2>10. \A k \in DOMAIN made' : made'[k].inst \in DOMAIN instances /\ instances[made'[k].inst].init = "yes"
    BY <1>1, <2>7 DEF PublishFacts
  <2> QED BY <2>1, <2>9, <2>10 DEF PublishFacts
<1>6. CASE OnStartupAdds
  <2>1. PICK name \in Names, load \in {NoLoad, 1} : AddServlet(name, load)
    BY <1>6 DEF OnStartupAdds
  <2> DEFINE entry == [name |-> name, load |-> load, inst |-> Len(instances')]
             s == sci.added
             x == Instance("no", TRUE)
  <2> HIDE DEF entry, x
  <2>2. /\ instances' = Append(instances, x) /\ deployer = "sci" /\ UNCHANGED <<deployer, queue, made>>
        /\ sci' = [sci EXCEPT !.added = Append(s, entry)] /\ entry.inst = Len(instances')
        /\ registry' \in {[registry EXCEPT !.servlets[name] = Len(instances')], registry}
    BY <1>6, <2>1 DEF AddServlet, OnStartupAdds, entry, x
  <2>3. made = <<>> /\ x \in Objects /\ x.dynamic
    BY <1>1, <2>2, ObjectsMade DEF PublishFacts, x
  <2>4. /\ \A i \in DOMAIN instances : i \in DOMAIN instances' /\ instances'[i] = instances[i]
        /\ Len(instances') \in DOMAIN instances' /\ instances'[Len(instances')] = x /\ Len(instances') \in Nat
    BY <1>t, <2>2, <2>3, ObjectAdded, Appended
  <2>5. entry \in Added
    BY <2>4, StartAssumption DEF entry, Added
  <2>6. /\ \A k \in DOMAIN s : k \in DOMAIN sci'.added /\ sci'.added[k] = s[k]
        /\ \E k \in DOMAIN sci'.added : sci'.added[k] = entry
    <3>1. sci'.added = Append(s, entry) /\ s \in Seq(Added)
      BY <1>1, <2>2 DEF StartTypes, Walk
    <3>2. /\ DOMAIN sci'.added = 1..Len(s) + 1 /\ Len(s) \in Nat /\ DOMAIN s = 1..Len(s)
          /\ \A k \in 1..Len(s) : sci'.added[k] = s[k]
          /\ sci'.added[Len(s) + 1] = entry
      BY <2>5, <3>1, Appended
    <3>3. (\A k \in 1..Len(s) : k \in 1..Len(s) + 1) /\ Len(s) + 1 \in 1..Len(s) + 1
      BY <3>2
    <3> QED BY <3>2, <3>3
  <2>7. Published' \subseteq Published \cup {entry.inst}
    <3>1. /\ \A n \in Names : registry'.servlets[n] \in {registry.servlets[n], entry.inst}
          /\ \A n \in Names : registry'.filters[n] = registry.filters[n]
      BY <1>1, <2>2, StartParts
    <3> QED BY <3>1 DEF Published
  <2>8. \A i : Pending(i) => Pending(i)'
    BY <2>2, <2>6 DEF Pending
  <2>9. \A i : i = entry.inst => Pending(i)'
    BY <2>2, <2>6 DEF Pending
  <2>10. ASSUME NEW i \in Published'
         PROVE  /\ i \in DOMAIN instances'
                /\ \/ instances'[i].init = "yes"
                   \/ instances'[i].dynamic /\ (instances'[i].init = "failed" \/ Pending(i)')
    <3>1. CASE i \in Published
      BY <1>1, <2>4, <2>8, <3>1 DEF PublishFacts
    <3>2. CASE i = entry.inst
      BY <2>2, <2>3, <2>4, <2>9, <3>2
    <3> QED BY <2>7, <2>10, <3>1, <3>2
  <2> QED BY <2>2, <2>3, <2>10 DEF PublishFacts
<1>7. CASE WalkDone
  <2>1. /\ deployer = "sci" /\ deployer' = "init" /\ UNCHANGED <<registry, instances, sci, made>>
        /\ \E order \in InitOrder : queue' = [k \in DOMAIN sci.added |-> sci.added[order[k]]]
    BY <1>7 DEF WalkDone
  <2>2. \A l \in DOMAIN sci.added : \E k \in DOMAIN queue' : queue'[k] = sci.added[l]
    BY <1>1, <2>1, InitOrders
  <2>3. \A i : Pending(i) => Pending(i)'
    BY <2>1, <2>2 DEF Pending
  <2> QED BY <1>1, <2>1, <2>3, PendingStays DEF PublishFacts
<1>8. CASE InitDynamic
  <2> DEFINE e == Head(queue).inst
  <2>1. /\ deployer = "init" /\ queue # <<>> /\ queue \in Seq(Added) /\ queue' = Tail(queue)
        /\ UNCHANGED <<deployer, registry, sci, made>>
    BY <1>1, <1>8 DEF InitDynamic, StartTypes
  <2>2. PICK state \in {"yes", "failed"} : instances' = [instances EXCEPT ![e].init = state]
    BY <1>8 DEF InitDynamic
  <2>3. e \in DOMAIN instances /\ instances[e].dynamic /\ e = queue[1].inst
    BY <1>1, <2>1 DEF AddedFacts
  <2>4. /\ DOMAIN instances' = DOMAIN instances
        /\ \A i \in DOMAIN instances : instances'[i].dynamic = instances[i].dynamic
        /\ \A i \in DOMAIN instances : instances'[i].init = IF i = e THEN state ELSE instances[i].init
    BY <1>t, <2>2, <2>3, ObjectsInitialised
  <2> HIDE DEF e
  <2>5. \A k \in DOMAIN queue : k # 1 => \E l \in DOMAIN queue' : queue'[l] = queue[k]
    <3> TAKE k \in DOMAIN queue
    <3> HAVE k # 1
    <3>1. k - 1 \in DOMAIN queue' /\ queue'[k - 1] = queue[k]
      BY <2>1
    <3> QED BY <3>1
  <2>6. \A i : Pending(i) /\ i # e => Pending(i)'
    BY <2>1, <2>3, <2>5 DEF Pending
  <2>7. Published' = Published /\ made = <<>>
    BY <1>1, <2>1 DEF Published, PublishFacts
  <2>8. ASSUME NEW i \in Published
        PROVE  /\ i \in DOMAIN instances'
               /\ \/ instances'[i].init = "yes"
                  \/ instances'[i].dynamic /\ (instances'[i].init = "failed" \/ Pending(i)')
    <3>1. CASE i = e
      BY <2>2, <2>3, <2>4, <3>1
    <3>2. CASE i # e
      BY <1>1, <2>4, <2>6, <3>2 DEF PublishFacts
    <3> QED BY <3>1, <3>2
  <2> QED BY <2>1, <2>7, <2>8 DEF PublishFacts
<1>9. CASE InvokeOk \/ InvokeFails
  <2>1. sci'.added = sci.added /\ deployer = "sci" /\ UNCHANGED <<deployer, registry, instances, made>>
    BY <1>1, <1>9 DEF InvokeOk, InvokeFails, StartTypes, Walk
  <2>2. \A i : Pending(i) => Pending(i)'
    BY <2>1 DEF Pending
  <2> QED BY <1>1, <2>1, <2>2, PendingStays
<1>10. CASE SciReport
  <2>1. deployer = "init" /\ queue = <<>> /\ UNCHANGED <<registry, instances, made>>
    BY <1>10 DEF SciReport
  <2>2. ~\E i : Pending(i)
    BY <2>1 DEF Pending
  <2> QED BY <1>1, <2>1, <2>2, PendingStays DEF PublishFacts
<1>11. ASSUME UNCHANGED <<registry, instances, made>>, deployer \notin {"sci", "init"},
              made # <<>> => deployer' \in {"servlets", "filters", "publish"}
       PROVE  PublishFacts'
  <2>1. \A k \in DOMAIN made' : made'[k].inst \in DOMAIN instances' /\ instances'[made'[k].inst].init = "yes"
    BY <1>1, <1>11 DEF PublishFacts
  <2> QED BY <1>1, <1>11, <2>1, PublishedStays
<1>12. CASE EnsureWebapp \/ RegisterContext \/ AttachWebapp \/ ServletsStarted \/ SetClassLoader
            \/ Registered \/ LookupLoader
  BY <1>1, <1>11, <1>12 DEF EnsureWebapp, RegisterContext, AttachWebapp, ServletsStarted,
     SetClassLoader, Registered, LookupLoader, PublishFacts
<1>13. CASE BuildLoaders \/ Discover
  <2>1. UNCHANGED <<registry, instances>> /\ deployer \in {"loader", "discover"} /\ made = <<>> /\ made' = <<>>
    BY <1>1, <1>13 DEF BuildLoaders, Discover, FailTo, PublishFacts
  <2> QED BY <1>11, <2>1
<1>14. ASSUME NEW id \in contexts, UnregisterContext(id)  PROVE PublishFacts'
  BY <1>1, <1>11, <1>14 DEF UnregisterContext, PublishFacts
<1>15. CASE UNCHANGED startVars
  <2>1. UNCHANGED <<registry, instances, made, deployer, queue, sci>>
    BY <1>15 DEF startVars
  <2>2. \A i : Pending(i) => Pending(i)'
    BY <2>1 DEF Pending
  <2> QED BY <1>1, <2>1, <2>2, PendingStays
<1> QED BY <1>3, <1>4, <1>5, <1>6, <1>7, <1>8, <1>9, <1>10, <1>12, <1>13, <1>14, <1>15 DEF StartNext

LEMMA StartSteps == StartInv /\ [StartNext]_startVars => StartInv'
<1> SUFFICES ASSUME StartInv, [StartNext]_startVars  PROVE StartInv'
  OBVIOUS
<1> QED BY StartTypesKept, AttachFactsKept, OrderFactsKept, WalkFactsKept, AddedFactsKept, PublishFactsKept
        DEF StartInv

LEMMA StartInvSuffices == StartInv => StartsSound
<1> SUFFICES ASSUME StartInv  PROVE StartsSound
  OBVIOUS
<1>1. ServesInitialised
  BY DEF StartInv, PublishFacts, Pending, ServesInitialised
<1>2. EachInitializerReported
  <2> SUFFICES ASSUME deployer = "init"  PROVE EachInitializerReported
    BY DEF EachInitializerReported
  <2>1. Initializers \in Seq(Found)
    BY StartAssumption DEF Found
  <2>2. InitializersHeard = Len(Initializers)
        /\ \A k \in 1..InitializersHeard : Initializers[k] \in Range(sci.ran) \cup Range(sci.errors)
    BY DEF StartInv, WalkFacts
  <2>3. DOMAIN Initializers = 1..InitializersHeard
    BY <2>1, <2>2
  <2> QED BY <2>2, <2>3 DEF InitializersHeard, EachInitializerReported
<1>3. DynamicRoutable
  BY DEF StartInv, AddedFacts, DynamicRoutable
<1>4. StartsInOrder
  BY DEF StartInv, OrderFacts
<1> QED BY <1>1, <1>2, <1>3, <1>4 DEF StartsSound

\* Whatever the web.xml files, the initializers and the failures are: a request
\* finds only what has been initialised, or what run_sci has added and is about to
\* initialise; each initializer is reported once, run or failed; what an
\* initializer added is reached under its name; and servlets start in the order of
\* load-on-startup (registration.rs, sci.rs, jvm.rs).
THEOREM StartsAreSound == StartSpec => []StartsSound
<1>1. StartInit => StartInv
  BY StartInitial
<1>2. StartInv /\ [StartNext]_startVars => StartInv'
  BY StartSteps
<1>3. StartInv => StartsSound
  BY StartInvSuffices
<1> QED BY <1>1, <1>2, <1>3, PTL DEF StartSpec
==============================================================================
